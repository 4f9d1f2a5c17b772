-------------------------- MODULE ConnectorProofs --------------------------
(* Theorems about Connector, for every set of shards and every bound. *)
EXTENDS Connector, TLAPS

(* A link is a kind and a shard, and is not the free lock. *)
LEMMA LinkFacts ==
    /\ \A l \in Links : l[1] \in Kinds /\ l[2] \in Shards /\ l = <<l[1], l[2]>>
    /\ \A k \in Kinds, s \in Shards :
          <<k, s>> \in Links /\ <<k, s>>[1] = k /\ <<k, s>>[2] = s
    /\ Free \notin Links
  BY DEF Links, Free, Kinds

(* Before connect has run: types and attempts. *)
LEMMA InitTyped == Init => TypeOK /\ TriesLeft
<1> SUFFICES ASSUME Init PROVE TypeOK /\ TriesLeft
  OBVIOUS
<1> USE ConnectorAssumption DEF Init, Kinds
<1>1. <<"read", Home>> \in Links
  BY LinkFacts
<1>2. TypeOK
  <2>1. 0 \in 0..MaxAttempts
    OBVIOUS
  <2>2. pc \in [Links -> ConnectPoints \cup {"idle", "done"}]
    BY DEF ConnectPoints
  <2>3. /\ rpc \in [Requests -> RequestPoints \cup {"idle", "refused", "sent", "error"}]
        /\ rlink \in [Requests -> Links]
    BY <1>1 DEF RequestPoints
  <2>4. lock \in Links \cup {Free} /\ main \in Kinds \cup {"ready", "failed"}
    OBVIOUS
  <2> QED
    BY <2>1, <2>2, <2>3, <2>4 DEF TypeOK
<1>3. TriesLeft
  BY DEF TriesLeft
<1> QED
  BY <1>2, <1>3

(* Types, and the attempts a connect or an operation has left. *)
LEMMA NextTyped ==
    ASSUME TypeOK, TriesLeft, CallerWaits, [Next]_vars
    PROVE  TypeOK' /\ TriesLeft'
<1> USE ConnectorAssumption, LinkFacts DEF TypeOK, TriesLeft, Kinds, ConnectPoints, RequestPoints,
        connectVars, handleVars, requestVars, Goto, Answers, AllDone
<1>1. CASE UNCHANGED vars
  BY <1>1 DEF vars
<1>2. ASSUME NEW l \in Links, Connect(l)
      PROVE  TypeOK' /\ TriesLeft'
  <2>1. CASE AddConfig(l)
    BY <2>1 DEF AddConfig
  <2>2. CASE Acquire(l)
    BY <2>2 DEF Acquire
  <2>3. CASE Reuse(l)
    BY <2>3 DEF Reuse
  <2>4. CASE Stale(l)
    BY <2>4 DEF Stale
  <2>5. CASE Open(l)
    BY <2>5 DEF Open, Fresh
  <2>6. CASE PingOk(l)
    BY <2>6 DEF PingOk
  <2>7. CASE PingFails(l)
    BY <2>7 DEF PingFails
  <2>8. CASE Backoff(l)
    BY <2>8 DEF Backoff
  <2>9. CASE Collect(l)
    BY <2>9 DEF Collect
  <2> QED
    BY <1>2, <2>1, <2>2, <2>3, <2>4, <2>5, <2>6, <2>7, <2>8, <2>9 DEF Connect
<1>3. CASE ConnectWrites
  <2>1. pc' \in [Links -> ConnectPoints \cup {"idle", "done"}]
    BY <1>3 DEF ConnectWrites, Spawn, Spawned
  <2>2. main' \in Kinds /\ errors' = {}
    BY <1>3 DEF ConnectWrites, Spawn
  <2>3. UNCHANGED <<rounds, tries, lock, mine, handleVars, requestVars>>
    BY <1>3 DEF ConnectWrites, Spawn
  <2>4. TypeOK'
    BY <2>1, <2>2, <2>3
  <2>5. TriesLeft'
    BY <1>3 DEF ConnectWrites, Spawn, Spawned, CallerWaits
  <2> QED
    BY <2>4, <2>5
<1>4. CASE Connected
  BY <1>4 DEF Connected
<1>5. CASE ConnectFailed
  BY <1>5 DEF ConnectFailed
<1>6. CASE ConnectAgain
  BY <1>6 DEF ConnectAgain, Spawn, Spawned, CallerWaits
<1>7. CASE CloseAll
  BY <1>7 DEF CloseAll
<1>8. ASSUME NEW r \in Requests, Begin(r) \/ Request(r)
      PROVE  TypeOK' /\ TriesLeft'
  <2>1. CASE Begin(r)
    BY <2>1 DEF Begin
  <2>2. CASE Get(r)
    BY <2>2 DEF Get
  <2>3. CASE OperationOk(r)
    BY <2>3 DEF OperationOk
  <2>4. CASE OperationFails(r)
    BY <2>4 DEF OperationFails
  <2>5. CASE Retry(r)
    BY <2>5 DEF Retry
  <2> HIDE DEF TypeOK
  <2> QED
    BY <1>8, <2>1, <2>2, <2>3, <2>4, <2>5 DEF Request
<1> QED
  BY <1>1, <1>2, <1>3, <1>4, <1>5, <1>6, <1>7, <1>8 DEF Next, Caller

(* Before connect has run: the lock and the caller. *)
LEMMA InitControl == Init => OneAtATime /\ CallerWaits
  BY LinkFacts, ConnectorAssumption
     DEF Init, OneAtATime, CallerWaits, Locked, Kinds

(* The lock is held by the goroutine that is between Lock and Unlock, and  *)
(* goroutines run only while their ConnectAll does.                        *)
LEMMA NextControl ==
    ASSUME TypeOK, TypeOK', OneAtATime, CallerWaits, [Next]_vars
    PROVE  OneAtATime' /\ CallerWaits'
<1> USE ConnectorAssumption, LinkFacts DEF TypeOK, OneAtATime, CallerWaits, Locked,
        Kinds, ConnectPoints, RequestPoints,
        connectVars, handleVars, requestVars, Goto, Answers, AllDone
<1>1. CASE UNCHANGED vars
  BY <1>1 DEF vars
<1>2. ASSUME NEW l \in Links, Connect(l)
      PROVE  OneAtATime' /\ CallerWaits'
  <2>1. CASE AddConfig(l)
    BY <2>1 DEF AddConfig
  <2>2. CASE Acquire(l)
    BY <2>2 DEF Acquire
  <2>3. CASE Reuse(l)
    BY <2>3 DEF Reuse
  <2>4. CASE Stale(l)
    BY <2>4 DEF Stale
  <2>5. CASE Open(l)
    BY <2>5 DEF Open, Fresh
  <2>6. CASE PingOk(l)
    BY <2>6 DEF PingOk
  <2>7. CASE PingFails(l)
    BY <2>7 DEF PingFails
  <2>8. CASE Backoff(l)
    BY <2>8 DEF Backoff
  <2>9. CASE Collect(l)
    BY <2>9 DEF Collect
  <2> QED
    BY <1>2, <2>1, <2>2, <2>3, <2>4, <2>5, <2>6, <2>7, <2>8, <2>9 DEF Connect
<1>3. CASE ConnectWrites
  BY <1>3 DEF ConnectWrites, Spawn, Spawned
<1>4. CASE Connected
  BY <1>4 DEF Connected
<1>5. CASE ConnectFailed
  BY <1>5 DEF ConnectFailed
<1>6. CASE ConnectAgain
  BY <1>6 DEF ConnectAgain, Spawn, Spawned
<1>7. CASE CloseAll
  BY <1>7 DEF CloseAll
<1>8. ASSUME NEW r \in Requests, Begin(r) \/ Request(r)
      PROVE  OneAtATime' /\ CallerWaits'
  <2>1. CASE Begin(r)
    BY <2>1 DEF Begin
  <2>2. CASE Get(r)
    BY <2>2 DEF Get
  <2>3. CASE OperationOk(r)
    BY <2>3 DEF OperationOk
  <2>4. CASE OperationFails(r)
    BY <2>4 DEF OperationFails
  <2>5. CASE Retry(r)
    BY <2>5 DEF Retry
  <2> HIDE DEF TypeOK
  <2> QED
    BY <1>8, <2>1, <2>2, <2>3, <2>4, <2>5 DEF Request
<1> QED
  BY <1>1, <1>2, <1>3, <1>4, <1>5, <1>6, <1>7, <1>8 DEF Next, Caller

Handles == Numbered /\ MineIsPrivate /\ StoredIsOpen /\ RequestKeepsHandle

(* Before connect has run there are no handles. *)
LEMMA InitHandles == Init => Handles
  BY DEF Init, Handles, Numbered, MineIsPrivate, StoredIsOpen, RequestKeepsHandle

(* Who knows which open handle. *)
LEMMA NextHandles ==
    ASSUME TypeOK, TypeOK', OneAtATime, CallerWaits, Handles, [Next]_vars
    PROVE  Handles'
<1> USE ConnectorAssumption, LinkFacts DEF TypeOK, OneAtATime, CallerWaits, Locked, Handles, Numbered, MineIsPrivate,
        StoredIsOpen, RequestKeepsHandle, Kinds, ConnectPoints, RequestPoints,
        connectVars, handleVars, requestVars, Goto, Answers, AllDone
<1>1. CASE UNCHANGED vars
  BY <1>1 DEF vars
<1>2. ASSUME NEW l \in Links, Connect(l)
      PROVE  Handles'
  <2>1. CASE AddConfig(l)
    BY <2>1 DEF AddConfig
  <2>2. CASE Acquire(l)
    BY <2>2 DEF Acquire
  <2>3. CASE Reuse(l)
    BY <2>3 DEF Reuse
  <2>4. CASE Stale(l)
    BY <2>4 DEF Stale
  <2>5. CASE Open(l)
    BY <2>5 DEF Open, Fresh
  <2>6. CASE PingOk(l)
    BY <2>6 DEF PingOk
  <2>7. CASE PingFails(l)
    BY <2>7 DEF PingFails
  <2>8. CASE Backoff(l)
    BY <2>8 DEF Backoff
  <2>9. CASE Collect(l)
    BY <2>9 DEF Collect
  <2> QED
    BY <1>2, <2>1, <2>2, <2>3, <2>4, <2>5, <2>6, <2>7, <2>8, <2>9 DEF Connect
<1>3. CASE ConnectWrites
  BY <1>3 DEF ConnectWrites, Spawn, Spawned
<1>4. CASE Connected
  BY <1>4 DEF Connected
<1>5. CASE ConnectFailed
  BY <1>5 DEF ConnectFailed
<1>6. CASE ConnectAgain
  BY <1>6 DEF ConnectAgain, Spawn, Spawned
<1>7. CASE CloseAll
  BY <1>7 DEF CloseAll
<1>8. ASSUME NEW r \in Requests, Begin(r) \/ Request(r)
      PROVE  Handles'
  <2>1. CASE Begin(r)
    BY <2>1 DEF Begin
  <2>2. CASE Get(r)
    BY <2>2 DEF Get
  <2>3. CASE OperationOk(r)
    BY <2>3 DEF OperationOk
  <2>4. CASE OperationFails(r)
    BY <2>4 DEF OperationFails
  <2>5. CASE Retry(r)
    BY <2>5 DEF Retry
  <2> HIDE DEF TypeOK
  <2> QED
    BY <1>8, <2>1, <2>2, <2>3, <2>4, <2>5 DEF Request
<1> QED
  BY <1>1, <1>2, <1>3, <1>4, <1>5, <1>6, <1>7, <1>8 DEF Next, Caller

Stores == FirstRound /\ NoLeak /\ SuccessIsStored

(* Before connect has run the maps are empty. *)
LEMMA InitStores == Init => Stores
  BY LinkFacts DEF Init, Stores, FirstRound, FirstRounds, NoLeak, SuccessIsStored, Succeeded,
     Kinds

(* What is stored, and where open handles are in the first round. *)
LEMMA NextStores ==
    ASSUME TypeOK, TypeOK', OneAtATime, CallerWaits, Handles, Stores, [Next]_vars
    PROVE  Stores'
<1> USE ConnectorAssumption, LinkFacts DEF TypeOK, OneAtATime, CallerWaits, Locked, Handles, Numbered, MineIsPrivate,
        StoredIsOpen, Stores, FirstRound, FirstRounds, NoLeak, SuccessIsStored, Succeeded,
        Kinds, ConnectPoints, RequestPoints,
        connectVars, handleVars, requestVars, Goto, Answers, AllDone
<1>1. CASE UNCHANGED vars
  BY <1>1 DEF vars
<1>2. ASSUME NEW l \in Links, Connect(l)
      PROVE  Stores'
  <2>1. CASE AddConfig(l)
    <3>1. FirstRound'
      BY <2>1 DEF AddConfig
    <3>2. NoLeak'
      BY <2>1 DEF AddConfig
    <3>3. SuccessIsStored'
      BY <2>1 DEF AddConfig
    <3> QED
      BY <3>1, <3>2, <3>3
  <2>2. CASE Acquire(l)
    <3>1. FirstRound'
      BY <2>2 DEF Acquire
    <3>2. NoLeak'
      BY <2>2 DEF Acquire
    <3>3. SuccessIsStored'
      BY <2>2 DEF Acquire
    <3> QED
      BY <3>1, <3>2, <3>3
  <2>3. CASE Reuse(l)
    <3>1. FirstRound'
      BY <2>3 DEF Reuse
    <3>2. NoLeak'
      BY <2>3 DEF Reuse
    <3>3. SuccessIsStored'
      BY <2>3 DEF Reuse
    <3> QED
      BY <3>1, <3>2, <3>3
  <2>4. CASE Stale(l)
    <3>1. FirstRound'
      BY <2>4 DEF Stale
    <3>2. NoLeak'
      BY <2>4 DEF Stale
    <3>3. SuccessIsStored'
      BY <2>4 DEF Stale
    <3> QED
      BY <3>1, <3>2, <3>3
  <2>5. CASE Open(l)
    <3>1. FirstRound'
      BY <2>5 DEF Open, Fresh
    <3>2. NoLeak'
      BY <2>5 DEF Open, Fresh
    <3>3. SuccessIsStored'
      BY <2>5 DEF Open, Fresh
    <3> QED
      BY <3>1, <3>2, <3>3
  <2>6. CASE PingOk(l)
    <3>1. FirstRound'
      BY <2>6 DEF PingOk
    <3>2. NoLeak'
      BY <2>6 DEF PingOk
    <3>3. SuccessIsStored'
      BY <2>6 DEF PingOk
    <3> QED
      BY <3>1, <3>2, <3>3
  <2>7. CASE PingFails(l)
    <3>1. FirstRound'
      BY <2>7 DEF PingFails
    <3>2. NoLeak'
      BY <2>7 DEF PingFails
    <3>3. SuccessIsStored'
      BY <2>7 DEF PingFails
    <3> QED
      BY <3>1, <3>2, <3>3
  <2>8. CASE Backoff(l)
    <3>1. FirstRound'
      BY <2>8 DEF Backoff
    <3>2. NoLeak'
      BY <2>8 DEF Backoff
    <3>3. SuccessIsStored'
      BY <2>8 DEF Backoff
    <3> QED
      BY <3>1, <3>2, <3>3
  <2>9. CASE Collect(l)
    <3>1. FirstRound'
      BY <2>9 DEF Collect
    <3>2. NoLeak'
      BY <2>9 DEF Collect
    <3>3. SuccessIsStored'
      BY <2>9 DEF Collect
    <3> QED
      BY <3>1, <3>2, <3>3
  <2> QED
    BY <1>2, <2>1, <2>2, <2>3, <2>4, <2>5, <2>6, <2>7, <2>8, <2>9 DEF Connect
<1>3. CASE ConnectWrites
  BY <1>3 DEF ConnectWrites, Spawn, Spawned
<1>4. CASE Connected
  BY <1>4 DEF Connected
<1>5. CASE ConnectFailed
  BY <1>5 DEF ConnectFailed
<1>6. CASE ConnectAgain
  BY <1>6 DEF ConnectAgain, Spawn, Spawned
<1>7. CASE CloseAll
  BY <1>7 DEF CloseAll
<1>8. ASSUME NEW r \in Requests, Begin(r) \/ Request(r)
      PROVE  Stores'
  <2>1. CASE Begin(r)
    <3>1. FirstRound'
      BY <2>1 DEF Begin
    <3>2. NoLeak'
      BY <2>1 DEF Begin
    <3>3. SuccessIsStored'
      BY <2>1 DEF Begin
    <3> QED
      BY <3>1, <3>2, <3>3
  <2>2. CASE Get(r)
    BY <2>2 DEF Get
  <2>3. CASE OperationOk(r)
    BY <2>3 DEF OperationOk
  <2>4. CASE OperationFails(r)
    BY <2>4 DEF OperationFails
  <2>5. CASE Retry(r)
    BY <2>5 DEF Retry
  <2> HIDE DEF TypeOK
  <2> QED
    BY <1>8, <2>1, <2>2, <2>3, <2>4, <2>5 DEF Request
<1> QED
  BY <1>1, <1>2, <1>3, <1>4, <1>5, <1>6, <1>7, <1>8 DEF Next, Caller

(* The inductive invariant holds in every reachable state. *)
THEOREM Invariance == Spec => []Inv
<1>1. Init => Inv
  BY InitTyped, InitControl, InitHandles, InitStores DEF Inv, Handles, Stores
<1>2. Inv /\ [Next]_vars => Inv'
  BY NextTyped, NextControl, NextHandles, NextStores DEF Inv, Handles, Stores
<1> QED
  BY <1>1, <1>2, PTL DEF Spec

-----------------------------------------------------------------------------
(* Type correctness, with the bound on the attempts of connect and of      *)
(* RetryOperation.                                                         *)
THEOREM TypeCorrect == Spec => []TypeOK
<1>1. Inv => TypeOK
  BY DEF Inv
<1> QED
  BY <1>1, Invariance, PTL

(* connect holds the lock from its look at the map to the end of its ping. *)
THEOREM MutualExclusion == Spec => []OneAtATime
<1>1. Inv => OneAtATime
  BY DEF Inv
<1> QED
  BY <1>1, Invariance, PTL

(* The maps never hold a closed handle. *)
THEOREM NoDeadHandle == Spec => []StoredIsOpen
<1>1. Inv => StoredIsOpen
  BY DEF Inv
<1> QED
  BY <1>1, Invariance, PTL

(* Only CloseAll closes a handle that a request works on. *)
THEOREM HandleOutlivesRequest == Spec => []RequestKeepsHandle
<1>1. Inv => RequestKeepsHandle
  BY DEF Inv
<1> QED
  BY <1>1, Invariance, PTL

(* A process that connects once leaks no handle. *)
THEOREM NothingLeaks == Spec => []NoLeak
<1>1. Inv => NoLeak
  BY DEF Inv
<1> QED
  BY <1>1, Invariance, PTL

(* After both ConnectAll succeeded there is a handle for every shard. *)
THEOREM CompleteWhenReady == Spec => []ReadyIsComplete
<1>1. Inv => ReadyIsComplete
  <2> SUFFICES ASSUME Inv, main = "ready", rounds > 0, ~closed, NEW l \in Links
               PROVE  conns[l] # 0
    BY DEF ReadyIsComplete
  <2>1. l[2] \in Shards /\ (l = <<"read", l[2]>> \/ l = <<"write", l[2]>>)
    BY LinkFacts DEF Kinds
  <2>2. pc[l] = "done" /\ errors = {}
    BY <2>1 DEF Inv, CallerWaits
  <2> QED
    BY <2>2 DEF Inv, SuccessIsStored, Succeeded
<1> QED
  BY <1>1, Invariance, PTL
-----------------------------------------------------------------------------
(* The connector is a HandlePool to its requests: a goroutine opens, serves *)
(* and discards, a request takes and releases, CloseAll ends.              *)

(* A goroutine that does not touch the handles is not seen by the pool,    *)
(* nor is the caller.                                                      *)
LEMMA QuietSteps ==
    ASSUME UNCHANGED <<handleVars, requestVars>>
    PROVE  UNCHANGED Pool!vars
  BY DEF handleVars, requestVars, Pool!vars, Taken

(* A goroutine's steps. *)
LEMMA ConnectRefines ==
    ASSUME Inv, NEW l \in Links, Connect(l)
    PROVE  [Pool!Next]_(Pool!vars)
<1> USE DEF Inv, TypeOK
<1>1. CASE UNCHANGED <<handleVars, requestVars>>
  BY <1>1, QuietSteps
<1>2. ASSUME UNCHANGED requestVars PROVE UNCHANGED Taken
  BY <1>2 DEF requestVars, Taken
<1>3. CASE Open(l)
  <2>1. PICK h \in Fresh(l) : open' = [open EXCEPT ![l] = @ \cup {h}]
    BY <1>3 DEF Open
  <2>2. h \in 1..MaxHandles /\ h # 0 /\ h \notin open[l]
    BY ConnectorAssumption DEF Fresh
  <2>3. ~Pool!Taken(l, h)
    <3>1. \A r \in Requests : rhandle[r] # h
      BY DEF Fresh
    <3> QED
      BY <3>1 DEF Pool!Taken, Taken
  <2>4. Pool!Open(l, h)
    BY <1>2, <1>3, <2>1, <2>2, <2>3 DEF Open, Pool!Open
  <2> QED
    BY <2>2, <2>4 DEF Pool!Next
<1>4. CASE PingOk(l)
  <2>1. mine[l] \in open[l]
    BY <1>4 DEF PingOk, MineIsPrivate
  <2>2. Pool!Serve(l, mine[l])
    BY <1>2, <1>4, <2>1 DEF PingOk, Pool!Serve
  <2> QED
    BY <2>1, <2>2 DEF Pool!Next
<1>5. CASE PingFails(l)
  <2>1. mine[l] \in open[l] /\ mine[l] # conns[l]
    BY <1>5 DEF PingFails, MineIsPrivate
  <2>2. ~Pool!Taken(l, mine[l])
    BY <1>5, LinkFacts DEF PingFails, MineIsPrivate, Pool!Taken, Taken
  <2>3. Pool!Discard(l, mine[l])
    BY <1>2, <1>5, <2>1, <2>2 DEF PingFails, Pool!Discard
  <2> QED
    BY <2>1, <2>3 DEF Pool!Next
<1> QED
  BY <1>1, <1>3, <1>4, <1>5
     DEF Connect, AddConfig, Acquire, Reuse, Stale, Backoff, Collect

(* A request's steps. *)
LEMMA RequestRefines ==
    ASSUME Inv, NEW r \in Requests, Begin(r) \/ Request(r)
    PROVE  [Pool!Next]_(Pool!vars)
<1> USE DEF Inv, TypeOK, Taken
<1>1. UNCHANGED <<conns, open, closed>>
  BY DEF Begin, Request, Get, OperationOk, OperationFails, Retry, handleVars
<1>2. CASE UNCHANGED Taken
  BY <1>1, <1>2 DEF Pool!vars
<1>3. CASE Begin(r)
  <2>1. UNCHANGED Taken
    BY <1>3 DEF Begin
  <2> QED
    BY <1>2, <2>1
<1>4. CASE Get(r)
  <2>1. CASE conns[rlink[r]] = 0
    <3>1. UNCHANGED Taken
      BY <1>4, <2>1 DEF Get
    <3> QED
      BY <1>2, <3>1
  <2>2. CASE conns[rlink[r]] # 0
    <3>1. Taken' = [Taken EXCEPT ![r] = <<rlink[r], conns[rlink[r]]>>]
      BY <1>4, <2>2 DEF Get
    <3>2. Taken[r] = Pool!Nothing
      BY <1>4 DEF Get, Pool!Nothing
    <3> HIDE DEF Taken
    <3>3. Pool!Take(r, rlink[r])
      BY <1>1, <2>2, <3>1, <3>2 DEF Pool!Take
    <3> QED
      BY <3>3 DEF Pool!Next
  <2> QED
    BY <2>1, <2>2
<1>5. ASSUME OperationOk(r) \/ OperationFails(r) \/ Retry(r), ~UNCHANGED Taken
      PROVE  Pool!Next
  <2>1. Taken' = [Taken EXCEPT ![r] = Pool!Nothing]
    BY <1>5 DEF OperationOk, OperationFails, Retry, Pool!Nothing
  <2> HIDE DEF Taken
  <2>2. Pool!Release(r)
    BY <1>1, <2>1 DEF Pool!Release
  <2> QED
    BY <2>2 DEF Pool!Next
<1> HIDE DEF Taken
<1> QED
  BY <1>2, <1>3, <1>4, <1>5 DEF Request

(* Every step of the connector is one of the pool, or is not seen by it. *)
LEMMA StepRefines ==
    ASSUME Inv, [Next]_vars
    PROVE  [Pool!Next]_(Pool!vars)
<1>1. CASE UNCHANGED vars
  BY <1>1, QuietSteps DEF vars
<1>2. CASE Caller \/ ConnectAgain
  <2>1. UNCHANGED <<handleVars, requestVars>>
    BY <1>2 DEF Caller, ConnectWrites, Connected, ConnectFailed, ConnectAgain, Spawn
  <2> QED
    BY <2>1, QuietSteps
<1>3. CASE CloseAll
  <2>1. UNCHANGED Taken
    BY <1>3 DEF CloseAll, requestVars, Taken
  <2>2. Pool!End
    BY <1>3, <2>1 DEF CloseAll, Pool!End
  <2> QED
    BY <2>2 DEF Pool!Next
<1> QED
  BY <1>1, <1>2, <1>3, ConnectRefines, RequestRefines DEF Next

(* The connector implements the pool: what it hands out is open, and stays *)
(* open for whoever has it, until CloseAll.                                *)
THEOREM Refinement == Spec => ImplementsPool
<1>1. Init => Pool!Init
  BY DEF Init, Pool!Init, Pool!Nothing, Taken
<1>2. Inv /\ [Next]_vars => [Pool!Next]_(Pool!vars)
  BY StepRefines
<1> QED
  BY <1>1, <1>2, Invariance, PTL DEF Spec, ImplementsPool, Pool!Spec
-----------------------------------------------------------------------------
(* Why ConnectAll and requests end: each step of a goroutine or a request  *)
(* uses up one of a bounded number.                                        *)

(* Steps ahead to the result of an attempt, with the delay before it. *)
Ahead(p) == CASE p = "config" -> 7 [] p = "backoff" -> 7 [] p = "lock" -> 6 [] p = "check" -> 5
              [] p = "open" -> 4 [] p = "ping" -> 3 [] OTHER -> 1

StepsLeft(l) ==
    IF pc[l] \in ConnectPoints THEN 7 * (MaxAttempts - tries[l]) + Ahead(pc[l]) ELSE 0

RequestAhead(p) == CASE p = "get" -> 3 [] p = "backoff" -> 2 [] OTHER -> 1

RequestStepsLeft(r) ==
    IF rpc[r] \in RequestPoints THEN 2 * (MaxAttempts - rtries[r]) + RequestAhead(rpc[r]) ELSE 0

(* A step of a goroutine lowers its own number of steps, from at most seven *)
(* per attempt, a step of a request lowers the request's, and neither      *)
(* gives another one more to do; CloseAll and the handles that others open *)
(* or close prolong nothing.                                               *)
Progress ==
    [][/\ \A l \in Links : Connect(l) =>
             /\ StepsLeft(l)' < StepsLeft(l)
             /\ \A k \in Links \ {l} : StepsLeft(k)' = StepsLeft(k)
             /\ \A r \in Requests : RequestStepsLeft(r)' = RequestStepsLeft(r)
       /\ \A r \in Requests : Request(r) =>
             /\ RequestStepsLeft(r)' < RequestStepsLeft(r)
             /\ \A q \in Requests \ {r} : RequestStepsLeft(q)' = RequestStepsLeft(q)
             /\ \A l \in Links : StepsLeft(l)' = StepsLeft(l)
       /\ CloseAll =>
             /\ \A l \in Links : StepsLeft(l)' = StepsLeft(l)
             /\ \A r \in Requests : RequestStepsLeft(r)' = RequestStepsLeft(r)]_vars

(* A step of a goroutine is one of the last seven per attempt. *)
LEMMA ConnectProgresses ==
    ASSUME TypeOK, TypeOK', TriesLeft, NEW l \in Links, Connect(l)
    PROVE  /\ StepsLeft(l)' < StepsLeft(l)
           /\ \A k \in Links \ {l} : StepsLeft(k)' = StepsLeft(k)
           /\ \A r \in Requests : RequestStepsLeft(r)' = RequestStepsLeft(r)
<1>1. UNCHANGED requestVars /\ \A k \in Links \ {l} : UNCHANGED <<pc[k], tries[k]>>
  BY DEF Connect, AddConfig, Acquire, Reuse, Stale, Open, PingOk, PingFails, Backoff, Collect,
         Goto, TypeOK
<1>2. /\ \A k \in Links \ {l} : StepsLeft(k)' = StepsLeft(k)
      /\ \A r \in Requests : RequestStepsLeft(r)' = RequestStepsLeft(r)
  BY <1>1 DEF StepsLeft, RequestStepsLeft, requestVars
<1>3. tries[l] \in 0..MaxAttempts /\ tries'[l] \in 0..MaxAttempts
  BY DEF TypeOK
<1>4. CASE PingFails(l)
  <2>1. pc[l] = "ping" /\ pc'[l] \in {"backoff", "failed"} /\ tries'[l] = tries[l] + 1
    BY <1>4 DEF PingFails, Goto, TypeOK
  <2> QED
    BY <1>2, <1>3, <2>1, ConnectorAssumption DEF StepsLeft, Ahead, ConnectPoints
<1>5. CASE Collect(l)
  <2>1. pc[l] \in {"collect", "failed"} /\ pc'[l] = "done"
    BY <1>5 DEF Collect, Goto, TypeOK
  <2> QED
    BY <1>2, <1>3, <2>1, ConnectorAssumption DEF StepsLeft, Ahead, ConnectPoints
<1>6. CASE ~PingFails(l) /\ ~Collect(l)
  <2>1. tries'[l] = tries[l]
    BY <1>6 DEF Connect, AddConfig, Acquire, Reuse, Stale, Open, PingOk, Backoff
  <2>2. \/ pc[l] = "config" /\ pc'[l] = "lock"
        \/ pc[l] = "lock" /\ pc'[l] \in {"check", "open"}
        \/ pc[l] = "check" /\ pc'[l] \in {"collect", "open"}
        \/ pc[l] = "open" /\ pc'[l] = "ping"
        \/ pc[l] = "ping" /\ pc'[l] = "collect"
        \/ pc[l] = "backoff" /\ pc'[l] = "lock"
    BY <1>6 DEF Connect, AddConfig, Acquire, Reuse, Stale, Open, PingOk, Backoff, Goto, TypeOK
  <2> QED
    BY <1>2, <1>3, <2>1, <2>2, ConnectorAssumption DEF StepsLeft, Ahead, ConnectPoints
<1> QED
  BY <1>4, <1>5, <1>6

(* A step of a request is one of the last two per attempt, or its first. *)
LEMMA RequestProgresses ==
    ASSUME TypeOK, TypeOK', TriesLeft, NEW r \in Requests, Request(r)
    PROVE  /\ RequestStepsLeft(r)' < RequestStepsLeft(r)
           /\ \A q \in Requests \ {r} : RequestStepsLeft(q)' = RequestStepsLeft(q)
           /\ \A l \in Links : StepsLeft(l)' = StepsLeft(l)
<1>1. UNCHANGED connectVars /\ \A q \in Requests \ {r} : UNCHANGED <<rpc[q], rtries[q]>>
  BY DEF Request, Get, OperationOk, OperationFails, Retry, TypeOK
<1>2. /\ \A q \in Requests \ {r} : RequestStepsLeft(q)' = RequestStepsLeft(q)
      /\ \A l \in Links : StepsLeft(l)' = StepsLeft(l)
  BY <1>1 DEF StepsLeft, RequestStepsLeft, connectVars
<1>3. rtries[r] \in 0..MaxAttempts /\ rtries'[r] \in 0..MaxAttempts
  BY DEF TypeOK
<1>4. \/ rpc[r] = "get" /\ rpc'[r] \in {"refused", "operation"} /\ rtries'[r] = rtries[r]
      \/ rpc[r] = "operation" /\ rpc'[r] = "sent" /\ rtries'[r] = rtries[r]
      \/ rpc[r] = "operation" /\ rpc'[r] \in {"backoff", "error"} /\ rtries'[r] = rtries[r] + 1
      \/ rpc[r] = "backoff" /\ rpc'[r] \in {"operation", "error"} /\ rtries'[r] = rtries[r]
  BY DEF Request, Get, OperationOk, OperationFails, Retry, TypeOK
<1> QED
  BY <1>2, <1>3, <1>4, ConnectorAssumption DEF RequestStepsLeft, RequestAhead, RequestPoints

(* CloseAll closes handles and leaves the counts of attempts alone. *)
LEMMA CloseProlongsNothing ==
    ASSUME CloseAll
    PROVE  /\ \A l \in Links : StepsLeft(l)' = StepsLeft(l)
           /\ \A r \in Requests : RequestStepsLeft(r)' = RequestStepsLeft(r)
<1>1. UNCHANGED <<pc, tries, rpc, rtries>>
  BY DEF CloseAll, connectVars, requestVars
<1> QED
  BY <1>1 DEF StepsLeft, RequestStepsLeft

(* No goroutine connects for ever and no request is retried for ever. *)
THEOREM AllProgress == Spec => Progress
<1>1. Inv /\ Inv' /\ [Next]_vars
        => [/\ \A l \in Links : Connect(l) =>
                  /\ StepsLeft(l)' < StepsLeft(l)
                  /\ \A k \in Links \ {l} : StepsLeft(k)' = StepsLeft(k)
                  /\ \A r \in Requests : RequestStepsLeft(r)' = RequestStepsLeft(r)
            /\ \A r \in Requests : Request(r) =>
                  /\ RequestStepsLeft(r)' < RequestStepsLeft(r)
                  /\ \A q \in Requests \ {r} : RequestStepsLeft(q)' = RequestStepsLeft(q)
                  /\ \A l \in Links : StepsLeft(l)' = StepsLeft(l)
            /\ CloseAll =>
                  /\ \A l \in Links : StepsLeft(l)' = StepsLeft(l)
                  /\ \A r \in Requests : RequestStepsLeft(r)' = RequestStepsLeft(r)]_vars
  BY ConnectProgresses, RequestProgresses, CloseProlongsNothing DEF Inv
<1> QED
  BY <1>1, Invariance, PTL DEF Spec, Progress
=============================================================================
