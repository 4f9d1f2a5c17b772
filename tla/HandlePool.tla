----------------------------- MODULE HandlePool ------------------------------
(***************************************************************************)
(* What the users of a shard connector rely on: each link has a handle or  *)
(* none, a handle that is there is open, and one that somebody has taken   *)
(* is not closed under him, even if it is replaced, until the pool ends.   *)
(***************************************************************************)
CONSTANTS Links, Handles, Users, None  \* None: the number of no handle

VARIABLES current,  \* the handle of a link, or None
          live,     \* the handles of a link that are open
          held,     \* what a user has taken: a link and a handle
          ended     \* the pool was ended

vars    == <<current, live, held, ended>>
Nothing == <<"nothing">>

Init ==
    /\ current = [l \in Links |-> None]
    /\ live = [l \in Links |-> {}]
    /\ held = [u \in Users |-> Nothing]
    /\ ended = FALSE

Taken(l, h) == \E u \in Users : held[u] = <<l, h>>

Open(l, h) ==
    /\ h # None /\ h \notin live[l] /\ ~Taken(l, h)
    /\ live' = [live EXCEPT ![l] = @ \cup {h}]
    /\ UNCHANGED <<current, held, ended>>

(* The handle that was there before stays open for those who have it. *)
Serve(l, h) ==
    /\ h \in live[l]
    /\ current' = [current EXCEPT ![l] = h]
    /\ UNCHANGED <<live, held, ended>>

Discard(l, h) ==
    /\ h # current[l] /\ ~Taken(l, h)
    /\ live' = [live EXCEPT ![l] = @ \ {h}]
    /\ UNCHANGED <<current, held, ended>>

Take(u, l) ==
    /\ held[u] = Nothing
    /\ current[l] # None
    /\ held' = [held EXCEPT ![u] = <<l, current[l]>>]
    /\ UNCHANGED <<current, live, ended>>

Release(u) ==
    /\ held' = [held EXCEPT ![u] = Nothing]
    /\ UNCHANGED <<current, live, ended>>

(* Closes what is there, whoever has taken it; links may be opened again. *)
End ==
    /\ ~ended
    /\ ended' = TRUE
    /\ live' = [l \in Links |-> live[l] \ {current[l]}]
    /\ current' = [l \in Links |-> None]
    /\ UNCHANGED held

Next ==
    \/ \E l \in Links :
          \/ \E h \in Handles : Open(l, h)
          \/ \E h \in live[l] : Serve(l, h) \/ Discard(l, h)
    \/ \E u \in Users, l \in Links : Take(u, l)
    \/ \E u \in Users : Release(u)
    \/ End

Spec == Init /\ [][Next]_vars

-----------------------------------------------------------------------------
(* What is served is open, and so is what somebody has taken, until the    *)
(* pool was ended (connection.go:406).                                     *)
OpenHandlesOnly ==
    /\ \A l \in Links : current[l] # None => current[l] \in live[l]
    /\ \A u \in Users, l \in Links, h \in Handles :
          held[u] = <<l, h>> => h \in live[l] \/ ended
=============================================================================
