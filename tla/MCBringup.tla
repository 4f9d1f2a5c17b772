----------------------------- MODULE MCBringup ------------------------------
(* One replica of two shards, each a SQL and a Redis container.            *)
EXTENDS Bringup
=============================================================================
