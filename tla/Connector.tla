----------------------------- MODULE Connector ------------------------------
(***************************************************************************)
(* MultiDBConnector (tables/connection.go): the database handles of a      *)
(* process, one to read and one to write per shard.  ConnectAllShardsRead  *)
(* and ConnectAllShardsWrite fill the maps with a goroutine per shard;     *)
(* requests take a handle from a map and retry their operation on it;      *)
(* CloseAll empties the maps.  One RWMutex guards the maps.                *)
(***************************************************************************)
EXTENDS Naturals

CONSTANTS Shards,         \* shards of the cluster
          Home,           \* the shard requests are sent to, index 0
          Requests,       \* requests (goroutines of the HTTP server)
          MaxAttempts,    \* BackoffConfig.MaxAttempts, 3 in both places
          MaxRounds,      \* bound: times the two ConnectAll are called
          MaxHandles,     \* bound: handles of a link known at a time
          Silent          \* shards that accept a connection and never answer

ASSUME ConnectorAssumption ==
    /\ Home \in Shards
    /\ Silent \subseteq Shards
    /\ MaxAttempts \in Nat \ {0}
    /\ MaxRounds \in Nat
    /\ MaxHandles \in Nat

Kinds == {"read", "write"}
Links == Kinds \X Shards
Free  == <<"free">>

VARIABLES
    main,     \* the ConnectAll under way, "ready", or "failed"
    rounds,   \* rounds of both ConnectAll that succeeded
    pc,       \* the goroutine that connects each link
    tries,    \* its failed attempts
    lock,     \* mutex: the link that holds it for writing, or Free
    conns,    \* readConns and writeConns: a handle, 0 for none
    mine,     \* the handle a goroutine has opened and not stored
    open,     \* the handles that are not closed
    errors,   \* connectErrors of the ConnectAll under way
    closed,   \* CloseAll was called
    rpc,      \* where a request stands
    rlink,    \* the link it asks for
    rhandle,  \* the handle it works on
    rtries    \* its failed attempts

connectVars == <<main, rounds, pc, tries, lock, mine, errors>>
handleVars  == <<conns, open, closed>>
requestVars == <<rpc, rlink, rhandle, rtries>>
vars        == <<connectVars, handleVars, requestVars>>

ConnectPoints == {"config", "lock", "check", "open", "ping",
                  "backoff", "collect", "failed"}
Locked        == {"check", "open", "ping"}
RequestPoints == {"get", "operation", "backoff"}

Spawned(k, f, v) == [l \in Links |-> IF l[1] = k THEN v ELSE f[l]]

Init ==
    /\ main = "read"
    /\ rounds = 0
    /\ pc = [l \in Links |-> IF l[1] = "read" THEN "config" ELSE "idle"]
    /\ tries = [l \in Links |-> 0]
    /\ lock = Free
    /\ conns = [l \in Links |-> 0]
    /\ mine = [l \in Links |-> 0]
    /\ open = [l \in Links |-> {}]
    /\ errors = {}
    /\ closed = FALSE
    /\ rpc = [r \in Requests |-> "idle"]
    /\ rlink = [r \in Requests |-> <<"read", Home>>]
    /\ rhandle = [r \in Requests |-> 0]
    /\ rtries = [r \in Requests |-> 0]

-----------------------------------------------------------------------------
(* connect, for one link. *)

Goto(l, p) == pc' = [pc EXCEPT ![l] = p]

(* The lock is given up again before connect is called. *)
AddConfig(l) ==
    /\ pc[l] = "config"
    /\ lock = Free
    /\ Goto(l, "lock")
    /\ UNCHANGED <<main, rounds, tries, lock, mine, errors, handleVars, requestVars>>

(* The configuration, which AddConfig has left, is read under RLock, which *)
(* is given up before Lock: the map is looked at under Lock only.          *)
Acquire(l) ==
    /\ pc[l] = "lock"
    /\ lock = Free
    /\ lock' = l
    /\ Goto(l, IF conns[l] # 0 THEN "check" ELSE "open")
    /\ UNCHANGED <<main, rounds, tries, mine, errors, handleVars, requestVars>>

Answers(l) == l[2] \notin Silent

(* The handle in the map answers a ping ... *)
Reuse(l) ==
    /\ pc[l] = "check"
    /\ Answers(l)
    /\ conns[l] \in open[l]
    /\ lock' = Free
    /\ Goto(l, "collect")
    /\ UNCHANGED <<main, rounds, tries, mine, errors, handleVars, requestVars>>

(* ... or is to be replaced. *)
Stale(l) ==
    /\ pc[l] = "check"
    /\ Answers(l)
    /\ Goto(l, "open")
    /\ UNCHANGED <<main, rounds, tries, lock, mine, errors, handleVars, requestVars>>

(* A number that names no handle any more. *)
Fresh(l) == (1..MaxHandles) \ (open[l] \cup {rhandle[r] : r \in Requests})

Open(l) ==
    /\ pc[l] = "open"
    /\ \E h \in Fresh(l) :
          /\ \A i \in Fresh(l) : h <= i
          /\ open' = [open EXCEPT ![l] = @ \cup {h}]
          /\ mine' = [mine EXCEPT ![l] = h]
    /\ Goto(l, "ping")
    /\ UNCHANGED <<main, rounds, tries, lock, conns, errors, closed, requestVars>>

(* Mutation: the handle that is replaced is closed. *)
PingOkClosesOld(l) ==
    /\ pc[l] = "ping"
    /\ Answers(l)
    /\ open' = [open EXCEPT ![l] = @ \ {conns[l]}]
    /\ conns' = [conns EXCEPT ![l] = mine[l]]
    /\ mine' = [mine EXCEPT ![l] = 0]
    /\ lock' = Free
    /\ Goto(l, "collect")
    /\ UNCHANGED <<main, rounds, tries, errors, closed, requestVars>>

(* The handle that is replaced is not closed. *)
PingOk(l) ==
    /\ pc[l] = "ping"
    /\ Answers(l)
    /\ conns' = [conns EXCEPT ![l] = mine[l]]
    /\ mine' = [mine EXCEPT ![l] = 0]
    /\ lock' = Free
    /\ Goto(l, "collect")
    /\ UNCHANGED <<main, rounds, tries, open, errors, closed, requestVars>>

(* Mutations: one attempt too many, db.Close() forgotten, Unlock forgotten. *)
PingFailsOnceMore(l) ==
    /\ pc[l] = "ping"
    /\ Answers(l)
    /\ open' = [open EXCEPT ![l] = @ \ {mine[l]}]
    /\ mine' = [mine EXCEPT ![l] = 0]
    /\ lock' = Free
    /\ tries' = [tries EXCEPT ![l] = @ + 1]
    /\ Goto(l, IF tries[l] < MaxAttempts THEN "backoff" ELSE "failed")
    /\ UNCHANGED <<main, rounds, conns, errors, closed, requestVars>>

PingFailsUnclosed(l) ==
    /\ pc[l] = "ping"
    /\ Answers(l)
    /\ mine' = [mine EXCEPT ![l] = 0]
    /\ lock' = Free
    /\ tries' = [tries EXCEPT ![l] = @ + 1]
    /\ Goto(l, IF tries[l] + 1 < MaxAttempts THEN "backoff" ELSE "failed")
    /\ UNCHANGED <<main, rounds, conns, open, errors, closed, requestVars>>

PingFailsLocked(l) ==
    /\ pc[l] = "ping"
    /\ Answers(l)
    /\ open' = [open EXCEPT ![l] = @ \ {mine[l]}]
    /\ mine' = [mine EXCEPT ![l] = 0]
    /\ tries' = [tries EXCEPT ![l] = @ + 1]
    /\ Goto(l, IF tries[l] + 1 < MaxAttempts THEN "backoff" ELSE "failed")
    /\ UNCHANGED <<main, rounds, lock, conns, errors, closed, requestVars>>

PingFails(l) ==
    /\ pc[l] = "ping"
    /\ Answers(l)
    /\ open' = [open EXCEPT ![l] = @ \ {mine[l]}]
    /\ mine' = [mine EXCEPT ![l] = 0]
    /\ lock' = Free
    /\ tries' = [tries EXCEPT ![l] = @ + 1]
    /\ Goto(l, IF tries[l] + 1 < MaxAttempts THEN "backoff" ELSE "failed")
    /\ UNCHANGED <<main, rounds, conns, errors, closed, requestVars>>

Backoff(l) ==
    /\ pc[l] = "backoff"
    /\ Goto(l, "lock")
    /\ UNCHANGED <<main, rounds, tries, lock, mine, errors, handleVars, requestVars>>

(* Mutation: the error is not appended. *)
CollectResults(l) ==
    /\ pc[l] \in {"collect", "failed"}
    /\ tries' = [tries EXCEPT ![l] = 0]
    /\ Goto(l, "done")
    /\ UNCHANGED <<main, rounds, lock, mine, errors, handleVars, requestVars>>

(* The results and errors of the goroutines are put together under mu. *)
Collect(l) ==
    /\ pc[l] \in {"collect", "failed"}
    /\ errors' = IF pc[l] = "failed" THEN errors \cup {l} ELSE errors
    /\ tries' = [tries EXCEPT ![l] = 0]
    /\ Goto(l, "done")
    /\ UNCHANGED <<main, rounds, lock, mine, handleVars, requestVars>>

Connect(l) ==
    \/ AddConfig(l) \/ Acquire(l) \/ Reuse(l) \/ Stale(l)
    \/ Open(l) \/ PingOk(l) \/ PingFails(l) \/ Backoff(l) \/ Collect(l)

-----------------------------------------------------------------------------
(* The caller: ConnectAllShardsRead, then ConnectAllShardsWrite. *)

(* wg.Wait returns. *)
AllDone(k) == main = k /\ \A s \in Shards : pc[<<k, s>>] = "done"

Spawn(k) ==
    /\ main' = k
    /\ pc' = Spawned(k, pc, "config")
    /\ errors' = {}
    /\ UNCHANGED <<tries, lock, mine, handleVars, requestVars>>

ConnectWrites ==
    /\ AllDone("read")
    /\ errors = {}
    /\ Spawn("write")
    /\ UNCHANGED rounds

Connected ==
    /\ AllDone("write")
    /\ errors = {}
    /\ main' = "ready"
    /\ rounds' = rounds + 1
    /\ UNCHANGED <<pc, tries, lock, mine, errors, handleVars, requestVars>>

ConnectFailed ==
    /\ \E k \in Kinds : AllDone(k)
    /\ errors # {}
    /\ main' = "failed"
    /\ UNCHANGED <<rounds, pc, tries, lock, mine, errors, handleVars, requestVars>>

ConnectAgain ==
    /\ main = "ready"
    /\ rounds \in 1..(MaxRounds - 1)
    /\ Spawn("read")
    /\ UNCHANGED rounds

Caller == ConnectWrites \/ Connected \/ ConnectFailed

(* Mutation: the maps keep what is closed. *)
CloseAllKeeps ==
    /\ rounds > 0
    /\ lock = Free
    /\ ~closed
    /\ closed' = TRUE
    /\ open' = [l \in Links |-> open[l] \ {conns[l]}]
    /\ UNCHANGED <<connectVars, conns, requestVars>>

(* Every handle in the maps is closed and deleted, under Lock. *)
CloseAll ==
    /\ rounds > 0
    /\ lock = Free
    /\ ~closed
    /\ closed' = TRUE
    /\ open' = [l \in Links |-> open[l] \ {conns[l]}]
    /\ conns' = [l \in Links |-> 0]
    /\ UNCHANGED <<connectVars, requestVars>>

-----------------------------------------------------------------------------
(* RetryOperation. *)

Begin(r) ==
    /\ rpc[r] = "idle"
    /\ rounds > 0
    /\ \E k \in Kinds : rlink' = [rlink EXCEPT ![r] = <<k, Home>>]
    /\ rpc' = [rpc EXCEPT ![r] = "get"]
    /\ UNCHANGED <<connectVars, handleVars, rhandle, rtries>>

(* GetReadConnection, GetWriteConnection: once, before the attempts. *)
Get(r) ==
    /\ rpc[r] = "get"
    /\ lock = Free
    /\ rhandle' = [rhandle EXCEPT ![r] = conns[rlink[r]]]
    /\ rpc' = [rpc EXCEPT ![r] = IF conns[rlink[r]] = 0 THEN "refused" ELSE "operation"]
    /\ UNCHANGED <<connectVars, handleVars, rlink, rtries>>

OperationOk(r) ==
    /\ rpc[r] = "operation"
    /\ Answers(rlink[r])
    /\ rhandle[r] \in open[rlink[r]]
    /\ rpc' = [rpc EXCEPT ![r] = "sent"]
    /\ UNCHANGED <<connectVars, handleVars, rlink, rhandle, rtries>>

(* Mutation: the attempt is not counted. *)
OperationFailsUncounted(r) ==
    /\ rpc[r] = "operation"
    /\ Answers(rlink[r])
    /\ rpc' = [rpc EXCEPT ![r] = IF rtries[r] + 1 < MaxAttempts THEN "backoff" ELSE "error"]
    /\ UNCHANGED <<connectVars, handleVars, rlink, rhandle, rtries>>

(* isTransientError tells lost connections from other errors, which are    *)
(* wrapped in backoff.Permanent: BackoffConfig.Retry takes both alike.     *)
OperationFails(r) ==
    /\ rpc[r] = "operation"
    /\ Answers(rlink[r])
    /\ rtries' = [rtries EXCEPT ![r] = @ + 1]
    /\ rpc' = [rpc EXCEPT ![r] = IF rtries[r] + 1 < MaxAttempts THEN "backoff" ELSE "error"]
    /\ UNCHANGED <<connectVars, handleVars, rlink, rhandle>>

(* The delay is over, or the request's context is cancelled in it. *)
Retry(r) ==
    /\ rpc[r] = "backoff"
    /\ \/ rpc' = [rpc EXCEPT ![r] = "operation"]
       \/ rpc' = [rpc EXCEPT ![r] = "error"]
    /\ UNCHANGED <<connectVars, handleVars, rlink, rhandle, rtries>>

Request(r) ==
    Get(r) \/ OperationOk(r) \/ OperationFails(r) \/ Retry(r)

-----------------------------------------------------------------------------
Next ==
    \/ \E l \in Links : Connect(l)
    \/ Caller \/ ConnectAgain \/ CloseAll
    \/ \E r \in Requests : Begin(r) \/ Request(r)

Fairness ==
    /\ \A l \in Links : WF_vars(Connect(l))
    /\ WF_vars(Caller)
    /\ \A r \in Requests : WF_vars(Request(r))

Spec     == Init /\ [][Next]_vars
FairSpec == Spec /\ Fairness

-----------------------------------------------------------------------------
(* Properties. *)

(* Every variable has its type; no goroutine attempts more than the        *)
(* BackoffConfig allows.                                                   *)
TypeOK ==
    /\ main \in Kinds \cup {"ready", "failed"}
    /\ rounds \in Nat
    /\ pc \in [Links -> ConnectPoints \cup {"idle", "done"}]
    /\ tries \in [Links -> 0..MaxAttempts]
    /\ lock \in Links \cup {Free}
    /\ open \in [Links -> SUBSET Nat]
    /\ conns \in [Links -> Nat]
    /\ mine \in [Links -> Nat]
    /\ errors \subseteq Links
    /\ closed \in BOOLEAN
    /\ rpc \in [Requests -> RequestPoints \cup {"idle", "refused", "sent", "error"}]
    /\ rlink \in [Requests -> Links]
    /\ rhandle \in [Requests -> Nat]
    /\ rtries \in [Requests -> 0..MaxAttempts]

(* One goroutine at a time looks at, opens and pings handles, whichever    *)
(* shard it is for: connect keeps the lock for all of it.                  *)
OneAtATime == \A l \in Links : pc[l] \in Locked <=> lock = l

(* What the maps hold has not been closed: connect stores a handle only    *)
(* when it answered, and Close and CloseAll delete what they close, so     *)
(* that GetReadConnection never hands out a dead handle.                   *)
StoredIsOpen == \A l \in Links : conns[l] # 0 => conns[l] \in open[l]

(* A handle is not closed under a request that works on it, even if it is  *)
(* replaced in the map meanwhile, except by CloseAll.                      *)
RequestKeepsHandle ==
    \A r \in Requests : rpc[r] \in {"operation", "backoff"} => rhandle[r] \in open[rlink[r]] \/ closed

(* Until a second round of ConnectAll, which replaces handles and leaves   *)
(* the old ones to their requests, every open handle is in the maps or in  *)
(* the hands of the goroutine that opened it: failed attempts leak none.   *)
FirstRounds == rounds = 0 \/ (rounds = 1 /\ main = "ready")
NoLeak      ==
    FirstRounds => \A l \in Links : open[l] \subseteq {conns[l], mine[l]}

(* When both ConnectAll have returned without an error the maps are        *)
(* complete, however the goroutines of the shards interleaved.             *)
ReadyIsComplete ==
    main = "ready" /\ rounds > 0 /\ ~closed => \A l \in Links : conns[l] # 0

(* To its callers the connector is a pool of handles: a goroutine makes    *)
(* and tries one, and then serves or discards it; requests take what is    *)
(* served; what is served or taken is not closed, but by CloseAll.         *)
Taken == [r \in Requests |-> IF rpc[r] \in {"operation", "backoff"}
                              THEN <<rlink[r], rhandle[r]>> ELSE <<"nothing">>]

Pool == INSTANCE HandlePool WITH
            Users <- Requests, Handles <- 1..MaxHandles, None <- 0,
            current <- conns, live <- open, held <- Taken, ended <- closed
ImplementsPool == Pool!Spec

(* Both ConnectAll return, and every request is answered. *)
ConnectEnds  == main \in Kinds ~> main \notin Kinds
RequestsEnd  == \A r \in Requests : rpc[r] \in RequestPoints ~> rpc[r] \notin RequestPoints

(* connection.go:238, "ConnectAllShardsRead connects to all shards for     *)
(* read in parallel": a shard that answers is dealt with whatever another  *)
(* shard does.                                                             *)
ShardsConnectInParallel ==
    \A s \in Shards \ Silent : main = "read" ~> pc[<<"read", s>>] = "done"

-----------------------------------------------------------------------------
(* The inductive invariant behind the safety properties. *)

(* Only the ConnectAll under way has goroutines, after the other's ended. *)
CallerWaits ==
    /\ \A l \in Links : l[1] # main => pc[l] \in {"idle", "done"}
    /\ main = "ready" => errors = {}
    /\ main = "write" \/ (main = "ready" /\ rounds > 0)
          => \A s \in Shards : pc[<<"read", s>>] = "done"
    /\ main = "ready" /\ rounds > 0 => \A s \in Shards : pc[<<"write", s>>] = "done"

(* Handles have numbers other than 0, and a request has none at first. *)
Numbered ==
    /\ \A l \in Links : 0 \notin open[l]
    /\ \A r \in Requests : rpc[r] \in {"idle", "get"} => rhandle[r] = 0

(* A handle that is being pinged is known to its goroutine alone. *)
MineIsPrivate ==
    \A l \in Links :
        /\ pc[l] = "ping" <=> mine[l] # 0
        /\ mine[l] # 0 => /\ mine[l] \in open[l]
                         /\ conns[l] # mine[l]
                         /\ \A r \in Requests : rlink[r] = l => rhandle[r] # mine[l]

Succeeded(l)    == pc[l] = "collect" \/ (pc[l] = "done" /\ l \notin errors)
SuccessIsStored == ~closed => \A l \in Links : Succeeded(l) => conns[l] # 0

FirstRound ==
    FirstRounds =>
        /\ \A l \in Links : pc[l] \notin {"collect", "done"} => conns[l] = 0
        /\ main = "read" => \A s \in Shards : pc[<<"write", s>>] = "idle"

TriesLeft ==
    /\ \A l \in Links : pc[l] \in ConnectPoints \ {"failed", "collect"} => tries[l] < MaxAttempts
    /\ \A l \in Links : pc[l] \in {"idle", "done"} => tries[l] = 0
    /\ \A r \in Requests : rpc[r] \in {"operation", "backoff"} => rtries[r] < MaxAttempts
    /\ \A r \in Requests : rpc[r] \in {"idle", "get"} => rtries[r] = 0

Inv ==
    /\ TypeOK /\ TriesLeft
    /\ OneAtATime /\ CallerWaits
    /\ Numbered /\ MineIsPrivate /\ StoredIsOpen /\ RequestKeepsHandle
    /\ FirstRound /\ NoLeak
    /\ SuccessIsStored
=============================================================================
