-------------------------- MODULE ReplicationGroup --------------------------
(***************************************************************************)
(* What the operators of a shard rely on: at any time there is at most one *)
(* replication group.  It is formed by a bootstrap while no replica is a   *)
(* member of any, extended by joins to the group of a member, and shrinks  *)
(* when servers leave.  Groups are numbered in the order they are formed.  *)
(***************************************************************************)
EXTENDS Naturals

CONSTANTS Reps,  \* the replicas of the shard
          Boot   \* the replica that may bootstrap a group

VARIABLES group,   \* the group each replica is a member of, 0 for none
          formed   \* groups formed so far

Members == {n \in Reps : group[n] # 0}

Init == /\ group = [n \in Reps |-> 0]
        /\ formed = 0

Form == /\ Members = {}
        /\ formed' = formed + 1
        /\ group' = [group EXCEPT ![Boot] = formed + 1]

Join(n) == /\ \E m \in Members : group' = [group EXCEPT ![n] = group[m]]
           /\ UNCHANGED formed

Leave(N) == /\ group' = [n \in Reps |-> IF n \in N THEN 0 ELSE group[n]]
            /\ UNCHANGED formed

Next == \/ Form
        \/ \E n \in Reps : Join(n)
        \/ \E N \in SUBSET Reps : Leave(N)

Spec == Init /\ [][Next]_<<group, formed>>

(* The members are all in one group: what the specification amounts to, as *)
(* a bootstrap (db.go:756) beside a living group is no step of it.         *)
OneGroup == \A m, n \in Members : group[m] = group[n]
=============================================================================
