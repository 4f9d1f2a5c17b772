---------------------------- MODULE MCSQLCluster ----------------------------
(* A shard of two or three replicas. *)
EXTENDS SQLCluster

CONSTANTS a, b, c

MCReps == {a, b, c}
MCPair == {a, b}
=============================================================================
