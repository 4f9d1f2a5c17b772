----------------------------- MODULE ClientSlot ------------------------------
(***************************************************************************)
(* What the Redis controller promises of its clients: there is one place   *)
(* for a client, which is empty while the next one is tried; a client that *)
(* leaves the place, or fails the trial, is closed in the same step.       *)
(***************************************************************************)
EXTENDS Naturals

VARIABLES current,  \* the client in its place, 0 for none
          pending,  \* the client that is tried, 0 for none
          live,     \* clients that are open
          made,     \* clients made so far
          ended

vars == <<current, pending, live, made, ended>>

Init == current = 1 /\ pending = 0 /\ live = {1} /\ made = 1 /\ ended = FALSE

Replace ==
    /\ pending = 0
    /\ made' = made + 1
    /\ current' = 0 /\ pending' = made'
    /\ live' = (live \ {current}) \cup {made'}
    /\ UNCHANGED ended

Install ==
    /\ pending # 0
    /\ current' = pending /\ pending' = 0
    /\ UNCHANGED <<live, made, ended>>

Abandon ==
    /\ pending # 0
    /\ pending' = 0
    /\ live' = live \ {pending}
    /\ UNCHANGED <<current, made, ended>>

End ==
    /\ pending = 0 /\ ~ended
    /\ ended' = TRUE
    /\ current' = 0
    /\ live' = live \ {current}
    /\ UNCHANGED <<pending, made>>

Next == Replace \/ Install \/ Abandon \/ End

Spec == Init /\ [][Next]_vars

(* No client is open but the one in its place or the one that is tried. *)
NoOthers == live = {current, pending} \ {0}
=============================================================================
