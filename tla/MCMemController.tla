-------------------------- MODULE MCMemController ---------------------------
(* Two requests that share the client. *)
EXTENDS MemController

CONSTANTS r1, r2

MCPair == {r1, r2}
=============================================================================
