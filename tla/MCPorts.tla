------------------------------- MODULE MCPorts ------------------------------
(* Replicas that fit and one that NodePort rejects; shards that fit, and   *)
(* one whose ports meet those of another.                                  *)
EXTENDS Ports

MCReps   == {0, 4, 9}
MCShards == {0, 4, 31}
=============================================================================
