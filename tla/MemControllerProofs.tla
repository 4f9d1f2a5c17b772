------------------------- MODULE MemControllerProofs ------------------------
(* Theorems about MemController, for every set of requests and every bound. *)
EXTENDS MemController, TLAPS

(* What NewRedisQueryController leaves: types, no attempts, no responses. *)
LEMMA InitTyped == Init => TypeOK /\ Bounded
<1> SUFFICES ASSUME Init PROVE TypeOK /\ Bounded
  OBVIOUS
<1> USE MemAssumption DEF Init
<1>1. /\ open \subseteq 1..made
      /\ client \in 0..made
      /\ mine \in [Requests -> 0..made]
      /\ using \in [Requests -> 0..made]
      /\ tries \in [Requests -> 0..MaxAttempts]
      /\ replies \in [Requests -> 0..2]
  OBVIOUS
<1>2. TypeOK
  BY <1>1 DEF TypeOK
<1>3. Bounded
  BY DEF Bounded, Active
<1> QED
  BY <1>2, <1>3

(* Types, attempts left and responses written. *)
LEMMA NextTyped ==
    ASSUME TypeOK, Bounded, [Next]_vars
    PROVE  TypeOK' /\ Bounded'
<1> USE MemAssumption DEF TypeOK, Bounded, Active, Ended, shared, local, Goto
<1>1. CASE UNCHANGED vars
  BY <1>1 DEF vars
<1>2. CASE Expire
  <2>1. TypeOK'
    <3>1. expiries' \in Nat
      BY <1>2 DEF Expire
    <3>2. fresh' \in BOOLEAN
      BY <1>2 DEF Expire
    <3>3. UNCHANGED <<lock, client, open, made, pc, handler, mine, using, tries, replies>>
      BY <1>2 DEF Expire
    <3>4. UNCHANGED closed
      BY <1>2 DEF Expire
    <3> QED
      BY <3>1, <3>2, <3>3, <3>4
  <2>2. Bounded'
    BY <1>2 DEF Expire
  <2> QED
    BY <2>1, <2>2
<1>3. CASE Close
  BY <1>3 DEF Close
<1>4. ASSUME NEW r \in Requests, Arrive(r) \/ Handle(r)
      PROVE  TypeOK' /\ Bounded'
  <2>1. CASE Arrive(r)
    BY <2>1 DEF Arrive
  <2>2. CASE StillFresh(r)
    BY <2>2 DEF StillFresh, Ensured, Continue, Usable, Reply
  <2>3. CASE Reconnect(r)
    BY <2>3 DEF Reconnect, Usable
  <2>4. CASE PingOk(r)
    BY <2>4 DEF PingOk, Ensured, Continue, Reply
  <2>5. CASE PingFails(r)
    <3>1. replies[r] \in 0..1
      BY <2>5 DEF PingFails
    <3>2. TypeOK'
      <4>1. /\ replies' \in [Requests -> 0..2]
            /\ pc' \in [Requests -> Active \cup Ended \cup {"idle"}]
        BY <2>5, <3>1 DEF PingFails, Reply
      <4>2. mine' \in [Requests -> 0..made]
        BY <2>5 DEF PingFails
      <4>3. open' \subseteq 1..made
        BY <2>5 DEF PingFails
      <4>4. lock' = "free" /\ UNCHANGED <<client, made, expiries, handler, using, tries>>
        BY <2>5 DEF PingFails
      <4>5. UNCHANGED fresh
        BY <2>5 DEF PingFails
      <4>6. UNCHANGED closed
        BY <2>5 DEF PingFails
      <4> QED
        BY <4>1, <4>2, <4>3, <4>4, <4>5, <4>6
    <3>3. Bounded'
      BY <2>5, <3>1 DEF PingFails, Reply
    <3> QED
      BY <3>2, <3>3
  <2>6. CASE Bind(r)
    BY <2>6 DEF Bind, Reply
  <2>7. CASE Command(r)
    BY <2>7 DEF Command
  <2>8. CASE ResultOk(r)
    BY <2>8 DEF ResultOk, Reply
  <2>9. CASE ConnectionError(r)
    BY <2>9 DEF ConnectionError
  <2>10. CASE OtherError(r)
    BY <2>10 DEF OtherError, Reply
  <2> HIDE DEF TypeOK
  <2> QED
    BY <1>4, <2>1, <2>2, <2>3, <2>4, <2>5, <2>6, <2>7, <2>8, <2>9, <2>10
       DEF Handle
<1> QED
  BY <1>1, <1>2, <1>3, <1>4 DEF Next

Clients == OneReconnects /\ MineIsPinged /\ ClientIsOpen /\ NoClientLeak

(* What NewRedisQueryController leaves: one open client. *)
LEMMA InitClients == Init => Clients
  BY MemAssumption
     DEF Init, Clients, OneReconnects, MineIsPinged, ClientIsOpen, NoClientLeak

(* Who knows which open client. *)
LEMMA NextClients ==
    ASSUME TypeOK, TypeOK', Clients, [Next]_vars
    PROVE  Clients'
<1> USE MemAssumption DEF TypeOK, Clients, OneReconnects, MineIsPinged, ClientIsOpen,
        NoClientLeak, Active, Ended, shared, local, Goto
<1>1. CASE UNCHANGED vars
  BY <1>1 DEF vars
<1>2. CASE Expire
  BY <1>2 DEF Expire
<1>3. CASE Close
  BY <1>3 DEF Close
<1>4. ASSUME NEW r \in Requests, Arrive(r) \/ Handle(r)
      PROVE  Clients'
  <2>1. CASE Arrive(r)
    BY <2>1 DEF Arrive
  <2>2. CASE StillFresh(r)
    BY <2>2 DEF StillFresh, Ensured, Continue, Usable, Reply
  <2>3. CASE Reconnect(r)
    BY <2>3 DEF Reconnect, Usable
  <2>4. CASE PingOk(r)
    BY <2>4 DEF PingOk, Ensured, Continue, Reply
  <2>5. CASE PingFails(r)
    BY <2>5 DEF PingFails, Reply
  <2>6. CASE Bind(r)
    BY <2>6 DEF Bind, Reply
  <2>7. CASE Command(r)
    BY <2>7 DEF Command
  <2>8. CASE ResultOk(r)
    BY <2>8 DEF ResultOk, Reply
  <2>9. CASE ConnectionError(r)
    BY <2>9 DEF ConnectionError
  <2>10. CASE OtherError(r)
    BY <2>10 DEF OtherError, Reply
  <2> HIDE DEF TypeOK
  <2> QED
    BY <1>4, <2>1, <2>2, <2>3, <2>4, <2>5, <2>6, <2>7, <2>8, <2>9, <2>10
       DEF Handle
<1> QED
  BY <1>1, <1>2, <1>3, <1>4 DEF Next

(* What NewRedisQueryController leaves: a client, checked just now. *)
LEMMA InitQuiet == Init => NilIsExplained /\ StartIsQuiet
  BY DEF Init, NilIsExplained, StartIsQuiet

(* Why the client is nil, and what cannot happen before the first expiry. *)
LEMMA NextQuiet ==
    ASSUME TypeOK, TypeOK', Clients, NilIsExplained, StartIsQuiet, [Next]_vars
    PROVE  NilIsExplained' /\ StartIsQuiet'
<1> USE MemAssumption DEF TypeOK, Clients, OneReconnects, MineIsPinged, ClientIsOpen,
        NilIsExplained, StartIsQuiet, shared, local, Goto
<1>1. CASE UNCHANGED vars
  BY <1>1 DEF vars
<1>2. CASE Expire
  BY <1>2 DEF Expire
<1>3. CASE Close
  BY <1>3 DEF Close
<1>4. ASSUME NEW r \in Requests, Arrive(r) \/ Handle(r)
      PROVE  NilIsExplained' /\ StartIsQuiet'
  <2>1. CASE Arrive(r)
    BY <2>1 DEF Arrive
  <2>2. CASE StillFresh(r)
    BY <2>2 DEF StillFresh, Ensured, Continue, Usable, Reply
  <2>3. CASE Reconnect(r)
    BY <2>3 DEF Reconnect, Usable
  <2>4. CASE PingOk(r)
    BY <2>4 DEF PingOk, Ensured, Continue, Reply
  <2>5. CASE PingFails(r)
    BY <2>5 DEF PingFails, Reply
  <2>6. CASE Bind(r)
    BY <2>6 DEF Bind, Reply
  <2>7. CASE Command(r)
    BY <2>7 DEF Command
  <2>8. CASE ResultOk(r)
    BY <2>8 DEF ResultOk, Reply
  <2>9. CASE ConnectionError(r)
    BY <2>9 DEF ConnectionError
  <2>10. CASE OtherError(r)
    BY <2>10 DEF OtherError, Reply
  <2> HIDE DEF TypeOK
  <2> QED
    BY <1>4, <2>1, <2>2, <2>3, <2>4, <2>5, <2>6, <2>7, <2>8, <2>9, <2>10
       DEF Handle
<1> QED
  BY <1>1, <1>2, <1>3, <1>4 DEF Next

(* The inductive invariant holds in every reachable state. *)
THEOREM Invariance == Spec => []Inv
<1>1. Init => Inv
  BY InitTyped, InitClients, InitQuiet DEF Inv, Clients
<1>2. Inv /\ [Next]_vars => Inv'
  BY NextTyped, NextClients, NextQuiet DEF Inv, Clients
<1> QED
  BY <1>1, <1>2, PTL DEF Spec

-----------------------------------------------------------------------------
(* Type correctness, with the bounds on attempts and responses. *)
THEOREM TypeCorrect == Spec => []TypeOK
<1>1. Inv => TypeOK
  BY DEF Inv
<1> QED
  BY <1>1, Invariance, PTL

(* ensureConnection replaces the client for one request at a time. *)
THEOREM MutualExclusion == Spec => []OneReconnects
<1>1. Inv => OneReconnects
  BY DEF Inv
<1> QED
  BY <1>1, Invariance, PTL

(* No client is lost while it is open. *)
THEOREM NothingLeaks == Spec => []NoClientLeak
<1>1. Inv => NoClientLeak
  BY DEF Inv
<1> QED
  BY <1>1, Invariance, PTL

(* No handler meets a nil or closed client before the first expiry. *)
THEOREM QuietStart == Spec => []SafeUntilExpiry
<1>1. Inv => SafeUntilExpiry
  BY DEF Inv, StartIsQuiet, ClientIsOpen, SafeUntilExpiry
<1> QED
  BY <1>1, Invariance, PTL

(* A handler meets a nil client only while or after another reconnects. *)
THEOREM NilIsOthersDoing == Spec => NilOnlyWhileReconnecting
<1>1. Inv /\ [Next]_vars
        => [\A r \in Requests : Command(r) /\ client = 0 =>
              closed \/ \E q \in Requests \ {r} : pc[q] \in {"ping", "unavailable"}]_vars
  BY DEF Inv, NilIsExplained, Command
<1> QED
  BY <1>1, Invariance, PTL DEF Spec, NilOnlyWhileReconnecting
-----------------------------------------------------------------------------
(* The controller is a ClientSlot, whatever the requests do. *)

(* A step of a request. *)
LEMMA HandleRefines ==
    ASSUME Inv, NEW r \in Requests, Arrive(r) \/ Handle(r)
    PROVE  [Slot!Next]_(Slot!vars)
<1> USE MemAssumption DEF Inv, TypeOK, OneReconnects, MineIsPinged, Tried
<1>1. CASE UNCHANGED <<shared, mine>>
  BY <1>1 DEF shared, Slot!vars
<1>2. CASE Reconnect(r)
  <2>1. Tried = 0 /\ Tried' = made + 1
    BY <1>2 DEF Reconnect
  <2> QED
    BY <1>2, <2>1 DEF Reconnect, Slot!Replace, Slot!Next
<1>3. CASE PingOk(r)
  <2>1. Tried = mine[r] /\ mine[r] # 0 /\ Tried' = 0
    BY <1>3 DEF PingOk
  <2>2. Slot!Install
    BY <1>3, <2>1 DEF PingOk, Slot!Install
  <2> QED
    BY <2>2 DEF Slot!Next
<1>4. CASE PingFails(r)
  <2>1. Tried = mine[r] /\ mine[r] # 0 /\ Tried' = 0
    BY <1>4 DEF PingFails
  <2>2. Slot!Abandon
    BY <1>4, <2>1 DEF PingFails, Slot!Abandon
  <2> QED
    BY <2>2 DEF Slot!Next
<1> QED
  BY <1>1, <1>2, <1>3, <1>4
     DEF Arrive, Handle, StillFresh, Bind, Command, ResultOk, ConnectionError, OtherError

(* Every step is one of the slot, or is not seen by it. *)
LEMMA StepRefines ==
    ASSUME Inv, [Next]_vars
    PROVE  [Slot!Next]_(Slot!vars)
<1>1. CASE UNCHANGED vars
  BY <1>1 DEF vars, shared, local, Slot!vars, Tried
<1>2. CASE Expire
  BY <1>2 DEF Expire, local, Slot!vars, Tried
<1>3. CASE Close
  <2>1. Tried = 0 /\ Tried' = 0
    BY <1>3 DEF Close, Tried
  <2>2. Slot!End
    BY <1>3, <2>1 DEF Close, Slot!End
  <2> QED
    BY <2>2 DEF Slot!Next
<1> QED
  BY <1>1, <1>2, <1>3, HandleRefines DEF Next

(* The controller implements the slot: its requests replace one client by  *)
(* another as one request alone would.                                     *)
THEOREM Refinement == Spec => ImplementsSlot
<1>1. Init => Slot!Init
  BY DEF Init, Slot!Init, Tried
<1>2. Inv /\ [Next]_vars => [Slot!Next]_(Slot!vars)
  BY StepRefines
<1> QED
  BY <1>1, <1>2, Invariance, PTL DEF Spec, ImplementsSlot, Slot!Spec

(* The open clients are rc.client and the one that is tried, no more and   *)
(* no less.                                                                *)
THEOREM OpenClients == Spec => []Slot!NoOthers
<1>1. Inv => Slot!NoOthers
  <2> SUFFICES ASSUME Inv PROVE open = {client, Tried} \ {0}
    BY DEF Slot!NoOthers
  <2> USE MemAssumption DEF Inv, TypeOK, Tried
  <2>1. \A r \in Requests : mine[r] \in {0, Tried}
    BY DEF OneReconnects, MineIsPinged
  <2>2. open \subseteq {client, Tried}
    BY <2>1 DEF NoClientLeak
  <2>3. Tried # 0 => Tried \in open
    BY DEF OneReconnects, MineIsPinged
  <2>4. 0 \notin open
    OBVIOUS
  <2> HIDE DEF Tried, Inv
  <2>5. client # 0 => client \in open
    BY DEF Inv, ClientIsOpen
  <2> QED
    BY <2>2, <2>3, <2>4, <2>5
<1> QED
  BY <1>1, Invariance, PTL

-----------------------------------------------------------------------------
(* Why requests end: each of their steps uses up one of a bounded number.  *)

(* Steps of an attempt that are ahead, the attempt with ensureConnection   *)
(* that follows a connection error last.                                   *)
Ahead(p) == CASE p = "ensure" -> 5 [] p = "ping" -> 4 [] p = "bind" -> 3
              [] p = "command" -> 2 [] p = "result" -> 1 [] OTHER -> 0

StepsLeft(r) == IF pc[r] \in Active THEN 6 * (MaxAttempts - tries[r]) + Ahead(pc[r]) ELSE 0

(* A step of a request lowers its own number of steps and no other's, from *)
(* at most six per attempt, and the request that has the mutex is at its   *)
(* ping, which has a timeout: so nothing but the scheduler keeps a request *)
(* from its end.                                                           *)
Progress ==
    [][/\ \A r \in Requests : Handle(r) =>
             /\ StepsLeft(r)' < StepsLeft(r)
             /\ \A q \in Requests \ {r} : StepsLeft(q)' = StepsLeft(q)
       /\ Expire \/ Close => \A r \in Requests : StepsLeft(r)' = StepsLeft(r)]_vars

(* Each step of a request is one of the last six per attempt. *)
LEMMA HandleProgresses ==
    ASSUME TypeOK, Bounded, NEW r \in Requests, Handle(r)
    PROVE  /\ StepsLeft(r)' < StepsLeft(r)
           /\ \A q \in Requests \ {r} : StepsLeft(q)' = StepsLeft(q)
<1> USE MemAssumption DEF TypeOK, Bounded, Active
<1>1. \A q \in Requests \ {r} : UNCHANGED <<pc[q], tries[q]>>
  BY DEF Handle, StillFresh, Reconnect, PingOk, PingFails, Bind, Command, ResultOk,
         ConnectionError, OtherError, Ensured, Reply, Goto, local
<1>2. \A q \in Requests \ {r} : StepsLeft(q)' = StepsLeft(q)
  BY <1>1 DEF StepsLeft
<1>3. /\ pc[r] \in Active /\ tries[r] \in 0..MaxAttempts
      /\ tries' \in [Requests -> Nat] /\ pc' \in [Requests -> Active \cup Ended \cup {"idle"}]
  <2>1. tries' \in [Requests -> Nat]
    BY DEF Handle, StillFresh, Reconnect, PingOk, PingFails, Bind, Command, ResultOk,
           ConnectionError, OtherError, local
  <2>2. pc[r] \in Active
    BY DEF Handle, StillFresh, Reconnect, PingOk, PingFails, Bind, Command, ResultOk,
           ConnectionError, OtherError
  <2>3. pc' \in [Requests -> Active \cup Ended \cup {"idle"}]
    BY DEF Handle, StillFresh, Reconnect, PingOk, PingFails, Bind, Command, ResultOk,
           ConnectionError, OtherError, Ensured, Continue, Reply, Goto, Ended
  <2> QED
    BY <2>1, <2>2, <2>3
<1>4. CASE ConnectionError(r)
  <2>1. /\ pc[r] = "result" /\ pc'[r] = "ensure"
        /\ tries[r] < MaxAttempts /\ tries'[r] = tries[r] + 1
    BY <1>4 DEF ConnectionError, Goto
  <2> QED
    BY <1>2, <2>1 DEF StepsLeft, Ahead
<1>5. CASE StillFresh(r) \/ Reconnect(r) \/ PingOk(r) \/ PingFails(r)
  <2>1. tries'[r] = tries[r]
    BY <1>5 DEF StillFresh, Reconnect, PingOk, PingFails
  <2>2. \/ pc[r] = "ensure" /\ pc'[r] \in {"ping", "bind", "command", "error"}
        \/ pc[r] = "ping" /\ pc'[r] \in {"bind", "command", "error", "unavailable"}
    BY <1>5 DEF StillFresh, Reconnect, PingOk, PingFails, Ensured, Continue, Reply, Goto
  <2> QED
    BY <1>2, <1>3, <2>1, <2>2 DEF StepsLeft, Ahead
<1>6. CASE Bind(r) \/ Command(r) \/ ResultOk(r) \/ OtherError(r)
  <2>1. tries'[r] = tries[r]
    BY <1>6 DEF Bind, Command, ResultOk, OtherError, local
  <2>2. \/ pc[r] = "bind" /\ pc'[r] \in {"command", "error"}
        \/ pc[r] = "command" /\ pc'[r] \in {"result", "panic"}
        \/ pc[r] = "result" /\ pc'[r] \in {"sent", "error"}
    BY <1>6 DEF Bind, Command, ResultOk, OtherError, Reply, Goto
  <2> QED
    BY <1>2, <1>3, <2>1, <2>2 DEF StepsLeft, Ahead
<1> QED
  BY <1>4, <1>5, <1>6 DEF Handle

(* Neither the clock nor Close gives a request an attempt more. *)
LEMMA OthersProlongNothing ==
    ASSUME Expire \/ Close
    PROVE  \A r \in Requests : StepsLeft(r)' = StepsLeft(r)
<1>1. UNCHANGED <<pc, tries>>
  BY DEF Expire, Close, local
<1> QED
  BY <1>1 DEF StepsLeft

(* No request goes on for ever, and none uses up another's attempts. *)
THEOREM RequestsProgress == Spec => Progress
<1>1. Inv /\ [Next]_vars
        => [/\ \A r \in Requests : Handle(r) =>
                  /\ StepsLeft(r)' < StepsLeft(r)
                  /\ \A q \in Requests \ {r} : StepsLeft(q)' = StepsLeft(q)
            /\ Expire \/ Close => \A r \in Requests : StepsLeft(r)' = StepsLeft(r)]_vars
  BY HandleProgresses, OthersProlongNothing DEF Inv
<1> QED
  BY <1>1, Invariance, PTL DEF Spec, Progress
=============================================================================
