-------------------------- MODULE HandlePoolProofs --------------------------
(* What every implementation of HandlePool promises, for all links and users. *)
EXTENDS HandlePool, TLAPS

TypeOK ==
    /\ current \in [Links -> Handles \cup {None}]
    /\ live \in [Links -> SUBSET Handles]
    /\ held \in [Users -> (Links \X Handles) \cup {Nothing}]
    /\ ended \in BOOLEAN

(* A handle that was taken is not the absence of one. *)
LEMMA NothingIsNoHandle ==
    /\ Nothing \notin Links \X Handles
    /\ \A l \in Links : \A h : <<l, h>> # Nothing
    /\ \A l, m \in Links : \A g, h : <<l, g>> = <<m, h>> => l = m /\ g = h
  BY DEF Nothing

(* The pool keeps what it serves and what is taken open. *)
LEMMA NextKeepsOpen ==
    ASSUME TypeOK, OpenHandlesOnly, [Next]_vars
    PROVE  TypeOK' /\ OpenHandlesOnly'
<1> USE NothingIsNoHandle DEF TypeOK, OpenHandlesOnly, Taken
<1>1. CASE UNCHANGED vars
  BY <1>1 DEF vars
<1>2. ASSUME NEW l \in Links, NEW h \in Handles, Open(l, h)
      PROVE  TypeOK' /\ OpenHandlesOnly'
  BY <1>2 DEF Open
<1>3. ASSUME NEW l \in Links, NEW h \in live[l], Serve(l, h)
      PROVE  TypeOK' /\ OpenHandlesOnly'
  BY <1>3 DEF Serve
<1>4. ASSUME NEW l \in Links, NEW h \in live[l], Discard(l, h)
      PROVE  TypeOK' /\ OpenHandlesOnly'
  BY <1>4 DEF Discard
<1>5. ASSUME NEW u \in Users, NEW l \in Links, Take(u, l)
      PROVE  TypeOK' /\ OpenHandlesOnly'
  <2>1. current[l] \in Handles /\ current[l] \in live[l]
    BY <1>5 DEF Take
  <2>2. TypeOK'
    BY <1>5, <2>1 DEF Take
  <2>3. OpenHandlesOnly'
    BY <1>5, <2>1 DEF Take
  <2> QED
    BY <2>2, <2>3
<1>6. ASSUME NEW u \in Users, Release(u)
      PROVE  TypeOK' /\ OpenHandlesOnly'
  BY <1>6 DEF Release
<1>7. CASE End
  BY <1>7 DEF End
<1> QED
  BY <1>1, <1>2, <1>3, <1>4, <1>5, <1>6, <1>7 DEF Next

(* Whoever keeps to these steps never serves a closed handle, and closes   *)
(* none that is taken before the pool has ended.                           *)
THEOREM PromiseKept == Spec => []OpenHandlesOnly
<1>1. Init => TypeOK /\ OpenHandlesOnly
  BY NothingIsNoHandle DEF Init, TypeOK, OpenHandlesOnly
<1>2. TypeOK /\ OpenHandlesOnly /\ [Next]_vars => TypeOK' /\ OpenHandlesOnly'
  BY NextKeepsOpen
<1> QED
  BY <1>1, <1>2, PTL DEF Spec
=============================================================================
