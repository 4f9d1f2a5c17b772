---------------------------- MODULE ClusterInit -----------------------------
(***************************************************************************)
(* What zygote init tells its user of the Redis cluster: a command ends    *)
(* well only if it made the cluster itself, of nodes that all run.  What a *)
(* command has begun may go on when the command is gone: the cluster may   *)
(* form, or its nodes be spoilt for every later command, at any time.      *)
(***************************************************************************)
EXTENDS Naturals

VARIABLES
    phase,   \* of the last command; "new" before the first one
    number,  \* of commands so far
    teller,  \* the command that told the first node of another, 0 for none
    formed   \* the cluster is there, and all of its nodes run

vars == <<phase, number, teller, formed>>

Init == phase = "new" /\ number = 0 /\ teller = 0 /\ formed = FALSE

Begin ==
    /\ phase # "running"
    /\ phase' = "running" /\ number' = number + 1
    /\ UNCHANGED <<teller, formed>>

(* Nodes that know of others are no one else's again. *)
Tell(k) ==
    /\ teller = 0
    /\ teller' = k
    /\ UNCHANGED <<phase, number, formed>>

Form ==
    /\ teller # 0 /\ ~formed
    /\ formed' = TRUE
    /\ UNCHANGED <<phase, number, teller>>

Succeed ==
    /\ phase = "running" /\ formed /\ teller = number
    /\ phase' = "ok"
    /\ UNCHANGED <<number, teller, formed>>

Fail ==
    /\ phase = "running"
    /\ phase' = "failed"
    /\ UNCHANGED <<number, teller, formed>>

Next ==
    \/ Begin \/ Form \/ Succeed \/ Fail
    \/ \E k \in 1..number : Tell(k)

Spec == Init /\ [][Next]_vars
=============================================================================
