---------------------------- MODULE MemController ---------------------------
(***************************************************************************)
(* RedisQueryController (controller/mem.go): the requests of the HTTP      *)
(* server share one redis client.  ensureConnection replaces it under a    *)
(* mutex when it has not been checked for five minutes; the handlers then  *)
(* use it without the mutex.                                               *)
(***************************************************************************)
EXTENDS Naturals

CONSTANTS Requests,      \* requests, one goroutine each
          MaxAttempts,   \* attempts of QueryHandler, 3
          MaxExpiries    \* bound: times five minutes pass after a check

ASSUME MemAssumption ==
    /\ MaxAttempts \in Nat \ {0}
    /\ MaxExpiries \in Nat
    /\ "free" \notin Requests

VARIABLES
    lock,      \* mu: the request that holds it, or "free"
    client,    \* rc.client, 0 for nil
    fresh,     \* lastCheck is less than five minutes ago
    open,      \* clients that were made and not closed
    made,      \* clients made so far
    expiries,  \* times fresh was lost
    closed,    \* Close was called
    pc,        \* where a request stands
    handler,   \* its handler
    mine,      \* the client it has made and pings
    using,     \* the client its command runs on
    tries,     \* its commands that failed with a connection error
    replies    \* responses it has written

shared == <<lock, client, fresh, open, made, expiries, closed>>
local  == <<handler, mine, using, tries, replies>>
vars   == <<shared, pc, local>>

Active == {"ensure", "ping", "bind", "command", "result"}
Ended  == {"sent", "error", "unavailable", "panic"}

(* NewRedisQueryController has connected. *)
Init ==
    /\ lock = "free"
    /\ client = 1
    /\ fresh = TRUE
    /\ open = {1}
    /\ made = 1
    /\ expiries = 0
    /\ closed = FALSE
    /\ pc = [r \in Requests |-> "idle"]
    /\ handler = [r \in Requests |-> "query"]
    /\ mine = [r \in Requests |-> 0]
    /\ using = [r \in Requests |-> 0]
    /\ tries = [r \in Requests |-> 0]
    /\ replies = [r \in Requests |-> 0]

Goto(r, p) == pc' = [pc EXCEPT ![r] = p]

Reply(r, p) == /\ Goto(r, p)
               /\ replies' = [replies EXCEPT ![r] = @ + 1]

Arrive(r) ==
    /\ pc[r] = "idle"
    /\ \E h \in {"query", "nodes"} : handler' = [handler EXCEPT ![r] = h]
    /\ Goto(r, "ensure")
    /\ UNCHANGED <<shared, mine, using, tries, replies>>

-----------------------------------------------------------------------------
(* ensureConnection, at the start of a handler and after each connection   *)
(* error of QueryHandler, the last one included.                           *)

(* Mutation: the comparison with five minutes is turned round. *)
UsableWhenStale == client # 0 /\ ~fresh

Usable == client # 0 /\ fresh

(* What comes after it, unless the attempts are used up. *)
Continue(r) == IF tries[r] = 0 /\ handler[r] = "query" THEN "bind" ELSE "command"

(* Mutation: the attempts are not limited. *)
EnsuredForEver(r) == Goto(r, Continue(r)) /\ UNCHANGED replies

Ensured(r) == IF tries[r] < MaxAttempts
              THEN Goto(r, Continue(r)) /\ UNCHANGED replies
              ELSE Reply(r, "error")

StillFresh(r) ==
    /\ pc[r] = "ensure"
    /\ lock = "free"
    /\ Usable
    /\ Ensured(r)
    /\ UNCHANGED <<shared, handler, mine, using, tries>>

(* The client is closed, then rc.client is nil: a handler that reads it in *)
(* between is as one that read it just before.                             *)
Reconnect(r) ==
    /\ pc[r] = "ensure"
    /\ lock = "free"
    /\ ~Usable
    /\ lock' = r
    /\ client' = 0
    /\ made' = made + 1
    /\ open' = (open \ {client}) \cup {made + 1}
    /\ mine' = [mine EXCEPT ![r] = made + 1]
    /\ Goto(r, "ping")
    /\ UNCHANGED <<fresh, expiries, closed, handler, using, tries, replies>>

PingOk(r) ==
    /\ pc[r] = "ping"
    /\ lock' = "free"
    /\ client' = mine[r]
    /\ mine' = [mine EXCEPT ![r] = 0]
    /\ fresh' = TRUE
    /\ Ensured(r)
    /\ UNCHANGED <<open, made, expiries, closed, handler, using, tries>>

(* Mutation: the client that does not answer is not closed. *)
PingFailsUnclosed(r) ==
    /\ pc[r] = "ping"
    /\ lock' = "free"
    /\ mine' = [mine EXCEPT ![r] = 0]
    /\ Reply(r, "unavailable")
    /\ UNCHANGED <<client, open, fresh, made, expiries, closed, handler, using, tries>>

PingFails(r) ==
    /\ pc[r] = "ping"
    /\ lock' = "free"
    /\ open' = open \ {mine[r]}
    /\ mine' = [mine EXCEPT ![r] = 0]
    /\ Reply(r, "unavailable")
    /\ UNCHANGED <<client, fresh, made, expiries, closed, handler, using, tries>>

-----------------------------------------------------------------------------
(* The rest of the handlers. *)

(* BindBody answers a body that cannot be bound, and returns what writing  *)
(* the answer returned: nil, and the handler goes on with an empty query;  *)
(* or the error of the write, and the handler ends.                        *)
Bind(r) ==
    /\ pc[r] = "bind"
    /\ \/ Goto(r, "command") /\ UNCHANGED replies
       \/ Reply(r, "command")
       \/ Goto(r, "error") /\ UNCHANGED replies
    /\ UNCHANGED <<shared, handler, mine, using, tries>>

(* rc.client is read without the mutex. *)
Command(r) ==
    /\ pc[r] = "command"
    /\ using' = [using EXCEPT ![r] = client]
    /\ Goto(r, IF client = 0 THEN "panic" ELSE "result")
    /\ UNCHANGED <<shared, handler, mine, tries, replies>>

ResultOk(r) ==
    /\ pc[r] = "result"
    /\ using[r] \in open
    /\ Reply(r, "sent")
    /\ UNCHANGED <<shared, handler, mine, using, tries>>

(* Mutation: the attempt is not counted. *)
ConnectionErrorUncounted(r) ==
    /\ pc[r] = "result"
    /\ handler[r] = "query"
    /\ Goto(r, "ensure")
    /\ UNCHANGED <<shared, handler, mine, using, tries, replies>>

(* The error names a connection: it was refused, reset, or closed under    *)
(* the command together with its client.                                   *)
ConnectionError(r) ==
    /\ pc[r] = "result"
    /\ handler[r] = "query"
    /\ tries' = [tries EXCEPT ![r] = @ + 1]
    /\ Goto(r, "ensure")
    /\ UNCHANGED <<shared, handler, mine, using, replies>>

(* Any other error, "redis: client is closed" among them. *)
OtherError(r) ==
    /\ pc[r] = "result"
    /\ Reply(r, "error")
    /\ UNCHANGED <<shared, handler, mine, using, tries>>

Handle(r) ==
    \/ StillFresh(r) \/ Reconnect(r) \/ PingOk(r) \/ PingFails(r)
    \/ Bind(r) \/ Command(r) \/ ResultOk(r) \/ ConnectionError(r) \/ OtherError(r)

-----------------------------------------------------------------------------
Expire ==
    /\ fresh
    /\ expiries < MaxExpiries
    /\ fresh' = FALSE
    /\ expiries' = expiries + 1
    /\ UNCHANGED <<lock, client, open, made, closed, pc, local>>

Close ==
    /\ lock = "free"
    /\ ~closed
    /\ closed' = TRUE
    /\ open' = open \ {client}
    /\ client' = 0
    /\ UNCHANGED <<lock, fresh, made, expiries, pc, local>>

Next == Expire \/ Close \/ \E r \in Requests : Arrive(r) \/ Handle(r)

(* Pings and commands end: their contexts have a timeout of 5 seconds. *)
Fairness == \A r \in Requests : WF_vars(Handle(r))

Spec     == Init /\ [][Next]_vars
FairSpec == Spec /\ Fairness

-----------------------------------------------------------------------------
(* Properties. *)

(* Every variable has its type; QueryHandler makes at most MaxAttempts     *)
(* attempts and no request is answered more than twice.                    *)
TypeOK ==
    /\ lock \in Requests \cup {"free"}
    /\ made \in Nat
    /\ client \in 0..made
    /\ fresh \in BOOLEAN
    /\ open \subseteq 1..made
    /\ expiries \in Nat
    /\ closed \in BOOLEAN
    /\ pc \in [Requests -> Active \cup Ended \cup {"idle"}]
    /\ handler \in [Requests -> {"query", "nodes"}]
    /\ mine \in [Requests -> 0..made]
    /\ using \in [Requests -> 0..made]
    /\ tries \in [Requests -> 0..MaxAttempts]
    /\ replies \in [Requests -> 0..2]

(* Only one request at a time replaces the client: ensureConnection holds  *)
(* mu from its look at lastCheck to the end of its ping.                   *)
OneReconnects == \A r \in Requests : pc[r] = "ping" <=> lock = r

(* Every open client is the controller's or is being pinged, however many  *)
(* requests reconnect and fail: ensureConnection closes what it replaces   *)
(* and what does not answer.                                               *)
NoClientLeak ==
    open \subseteq {client} \cup {mine[r] : r \in Requests}

(* However many requests reconnect and fail, what they do to the clients   *)
(* is what one of them alone would do: ensureConnection closes what it     *)
(* replaces and what does not answer, and none replaces a client while     *)
(* another one is tried.                                                   *)
Tried == IF lock = "free" THEN 0 ELSE mine[lock]

Slot == INSTANCE ClientSlot WITH
            current <- client, pending <- Tried, live <- open, ended <- closed
ImplementsSlot == Slot!Spec

(* rc.client is never a closed client. *)
ClientIsOpen == client # 0 => client \in open

(* For the first five minutes no handler meets a nil or a closed client,   *)
(* although it reads rc.client without mu.                                 *)
SafeUntilExpiry ==
    expiries = 0 /\ ~closed =>
        \A r \in Requests : /\ pc[r] # "panic"
                            /\ pc[r] = "result" => using[r] \in open

(* Later, a handler meets a nil client only if another request has begun   *)
(* to reconnect, or failed to, since its own ensureConnection succeeded.   *)
NilOnlyWhileReconnecting ==
    [][\A r \in Requests : Command(r) /\ client = 0 =>
          closed \/ \E q \in Requests \ {r} : pc[q] \in {"ping", "unavailable"}]_vars

(* Every request ends. *)
RequestsEnd == \A r \in Requests : pc[r] \in Active ~> pc[r] \in Ended

-----------------------------------------------------------------------------
(* The inductive invariant behind the safety properties. *)

MineIsPinged ==
    \A r \in Requests : /\ pc[r] = "ping" <=> mine[r] # 0
                        /\ mine[r] # 0 => /\ client = 0
                                          /\ mine[r] \in open
                                          /\ \A q \in Requests : using[q] # mine[r]

Bounded == \A r \in Requests :
    /\ pc[r] \in {"bind", "command", "result"} => tries[r] < MaxAttempts
    /\ pc[r] \in {"idle", "bind"} => tries[r] = 0 /\ replies[r] = 0
    /\ pc[r] \in {"ensure", "ping"} /\ tries[r] = 0 => replies[r] = 0
    /\ pc[r] \in Active => replies[r] <= 1

NilIsExplained ==
    client = 0 => closed \/ \E q \in Requests : pc[q] \in {"ping", "unavailable"}

StartIsQuiet ==
    expiries = 0 /\ ~closed =>
        /\ client # 0
        /\ fresh
        /\ \A r \in Requests : pc[r] # "ping" /\ using[r] \in {0, client}
        /\ \A r \in Requests : pc[r] = "result" => using[r] # 0
        /\ \A r \in Requests : pc[r] # "panic"

Inv == /\ TypeOK /\ Bounded
       /\ OneReconnects /\ MineIsPinged /\ ClientIsOpen /\ NoClientLeak
       /\ NilIsExplained /\ StartIsQuiet
=============================================================================
