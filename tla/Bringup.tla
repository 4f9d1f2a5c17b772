------------------------------ MODULE Bringup -------------------------------
(***************************************************************************)
(* zygote init (commands/init.go): one goroutine per node, all in one      *)
(* process that the first failure ends.  Each ensures the network, fills   *)
(* the volumes and starts the containers of its SQL replica, its router    *)
(* and its Redis node (container/container.go); the first of them makes    *)
(* the Redis cluster of all (mem/memory.go).  What a node does to join the *)
(* group of its shard is in SQLCluster.                                    *)
(***************************************************************************)
EXTENDS Integers, FiniteSets

CONSTANTS ShardSize, NumShards,
          Services,     \* containers of a node: 1..Services, the last one Redis
          MaxAttempts,  \* attempts to make the cluster: 10 in the code
          MaxRuns,      \* bound: init commands
          MaxFaults     \* bound: kills, helpers and engine calls that fail

(* Names are compared by prefix; with a tenth shard, 1 would be one of 10. *)
ASSUME BringupAssumption ==
    /\ ShardSize \in Nat \ {0} /\ NumShards \in 1..10
    /\ Services \in Nat \ {0}
    /\ MaxAttempts \in Nat \ {0} /\ MaxRuns \in Nat /\ MaxFaults \in Nat

Nodes == [rep : 0..(ShardSize - 1), shard : 0..(NumShards - 1)]
Lead  == [rep |-> 0, shard |-> 0]
Mem   == Services
Boxes == Nodes \X (1..Services)
Inits == 1..MaxRuns

VARIABLES
    network,   \* "none", or "made"
    filled,    \* volumes that hold their files
    box,       \* containers, as the engine has them
    teller,    \* init whose redis-cli has told Redis nodes of others, 0 for none
    cli,       \* the last redis-cli of each init, a container of the engine
    pc, stage, \* where a goroutine stands, and with which container
    watched,   \* containers whose health it still waits for
    attempt,   \* attempts to make the cluster
    state,     \* of the last init command
    before,    \* history: network, teller and faults when it began
    mine,      \* history: containers it made and has started
    runs, faults

engine  == <<network, filled, box>>
redis   == <<teller, cli>>
command == <<state, before, runs>>
vars    == <<engine, redis, pc, stage, watched, attempt, command, mine, faults>>

Init ==
    /\ network = "none" /\ filled = {}
    /\ box = [b \in Boxes |-> "absent"]
    /\ teller = 0
    /\ cli = [r \in Inits |-> "none"]
    /\ pc = [n \in Nodes |-> "idle"]
    /\ stage = [n \in Nodes |-> 1]
    /\ watched = [n \in Nodes |-> {}]
    /\ attempt = 0
    /\ state = "ok"
    /\ before = [network |-> "none", teller |-> 0, faults |-> 0]
    /\ mine = {}
    /\ runs = 0 /\ faults = 0

Goto(n, p) == pc' = [pc EXCEPT ![n] = p]

Start ==
    /\ state # "running"
    /\ runs < MaxRuns
    /\ runs' = runs + 1
    /\ state' = "running"
    /\ before' = [network |-> network, teller |-> teller, faults |-> faults]
    /\ pc' = [n \in Nodes |-> "network"]
    /\ stage' = [n \in Nodes |-> 1]
    /\ attempt' = 0
    /\ mine' = {}
    /\ UNCHANGED <<engine, redis, watched, faults>>

Fail ==
    /\ state' = "failed"
    /\ pc' = [n \in Nodes |-> "idle"]
    /\ watched' = [n \in Nodes |-> {}]

(* FatalIfErr in any goroutine, a panic: the process is gone, and its      *)
(* containers go on, the one of redis-cli too.                             *)
Fatal ==
    /\ Fail
    /\ UNCHANGED <<engine, redis, stage, attempt, before, mine, runs>>

Fault == faults < MaxFaults /\ faults' = faults + 1

Kill == state = "running" /\ Fault /\ Fatal

-----------------------------------------------------------------------------
(* Ensure *)

(* Mutation: the answer of the inspection is not used. *)
EnsureAlways(n) ==
    /\ pc[n] = "network"
    /\ Goto(n, "createNetwork")
    /\ UNCHANGED <<engine, redis, stage, watched, attempt, command, mine, faults>>

Ensure(n) ==
    /\ pc[n] = "network"
    /\ Goto(n, IF network = "made" THEN "volume" ELSE "createNetwork")
    /\ UNCHANGED <<engine, redis, stage, watched, attempt, command, mine, faults>>

(* Whatever the error of the inspection was, it is taken for "not found". *)
EnsureErrs(n) ==
    /\ pc[n] = "network"
    /\ network = "made"
    /\ Fault
    /\ Goto(n, "createNetwork")
    /\ UNCHANGED <<engine, redis, stage, watched, attempt, command, mine>>

NetworkCreate(n) ==
    /\ pc[n] = "createNetwork"
    /\ network = "none"
    /\ network' = "made"
    /\ Goto(n, "volume")
    /\ UNCHANGED <<filled, box, redis, stage, watched, attempt, command, mine, faults>>

(* Another goroutine made it after this one had not found it, or it was    *)
(* there and the inspection failed.                                        *)
NetworkRefused(n) ==
    /\ pc[n] = "createNetwork"
    /\ network = "made"
    /\ Fatal
    /\ UNCHANGED faults

-----------------------------------------------------------------------------
(* Vol: a helper container writes its input to the volume, and is waited   *)
(* for without a limit; without input it is attached to none.              *)

Box(n) == <<n, stage[n]>>

Vol(n) ==
    /\ pc[n] = "volume"
    /\ filled' = filled \cup {Box(n)}
    /\ Goto(n, "container")
    /\ UNCHANGED <<network, box, redis, stage, watched, attempt, command, mine, faults>>

(* The status of the helper is not looked at. *)
VolLost(n) ==
    /\ pc[n] = "volume"
    /\ Fault
    /\ Goto(n, "container")
    /\ UNCHANGED <<engine, redis, stage, watched, attempt, command, mine>>

(* StartSQLContainers ends with the join, which may not succeed in time. *)
JoinFails(n) ==
    /\ pc[n] = "volume"
    /\ stage[n] = Mem /\ Mem > 1
    /\ Fatal
    /\ UNCHANGED faults

(* The helper, which the engine removes when it ends, is gone when it is   *)
(* waited for; or the engine fails, also to inspect the network, which Vol *)
(* then creates again.                                                     *)
VolFails(n) == pc[n] = "volume" /\ Fault /\ Fatal

-----------------------------------------------------------------------------
(* StartContainer *)

(* The image is pulled before, however long it takes. *)
ContainerCreate(n) ==
    /\ pc[n] = "container"
    /\ box[Box(n)] = "absent"
    /\ box' = [box EXCEPT ![Box(n)] = "created"]
    /\ Goto(n, "start")
    /\ UNCHANGED <<network, filled, redis, stage, watched, attempt, command, mine, faults>>

(* The next container of the node; past the last, Init for the leader. *)
Onward(n) ==
    IF stage[n] < Services
    THEN Goto(n, "volume") /\ stage' = [stage EXCEPT ![n] = @ + 1]
    ELSE Goto(n, IF n = Lead THEN "cluster" ELSE "done") /\ UNCHANGED stage

(* Mutation: a container that is there is started. *)
ConflictStarts(n) ==
    /\ pc[n] = "container"
    /\ box[Box(n)] # "absent"
    /\ box' = [box EXCEPT ![Box(n)] = IF @ = "created" THEN "starting" ELSE @]
    /\ Onward(n)
    /\ UNCHANGED <<network, filled, redis, watched, attempt, command, mine, faults>>

(* IsConflict: the container is there, so it is taken to run. *)
Conflict(n) ==
    /\ pc[n] = "container"
    /\ box[Box(n)] # "absent"
    /\ Onward(n)
    /\ UNCHANGED <<engine, redis, watched, attempt, command, mine, faults>>

ContainerStart(n) ==
    /\ pc[n] = "start"
    /\ box' = [box EXCEPT ![Box(n)] = "starting"]
    /\ mine' = mine \cup {Box(n)}
    /\ Goto(n, "list")
    /\ UNCHANGED <<network, filled, redis, stage, watched, attempt, command, faults>>

(* The engine refuses to pull, to create or to start. *)
StartFails(n) == pc[n] \in {"container", "start"} /\ Fault /\ Fatal

(* The container of shard 0 has a name, tenant-mem-a, that those of the     *)
(* other shards begin with, tenant-mem-a-1: they are waited for as well.    *)
Prefixed(n) ==
    {b \in Boxes : /\ b[2] = stage[n] /\ b[1].rep = n.rep
                   /\ n.shard \in {0, b[1].shard}}

(* Mutation: the containers of the other shards only. *)
ListOthers(n) ==
    /\ pc[n] = "list"
    /\ watched' = [watched EXCEPT ![n] = {b \in Prefixed(n) \ {Box(n)} : box[b] # "absent"}]
    /\ Goto(n, "health")
    /\ UNCHANGED <<engine, redis, stage, attempt, command, mine, faults>>

WaitHealthy(n) ==
    /\ pc[n] = "list"
    /\ watched' = [watched EXCEPT ![n] = {b \in Prefixed(n) : box[b] # "absent"}]
    /\ Goto(n, "health")
    /\ UNCHANGED <<engine, redis, stage, attempt, command, mine, faults>>

CheckHealth(n, b) ==
    /\ pc[n] = "health"
    /\ b \in watched[n]
    /\ box[b] = "healthy"
    /\ watched' = [watched EXCEPT ![n] = @ \ {b}]
    /\ UNCHANGED <<engine, redis, pc, stage, attempt, command, mine, faults>>

Healthy(n) ==
    /\ pc[n] = "health"
    /\ watched[n] = {}
    /\ Onward(n)
    /\ UNCHANGED <<engine, redis, watched, attempt, command, mine, faults>>

(* A container that was created and not started has no State.Health. *)
HealthPanics(n) ==
    /\ pc[n] = "health"
    /\ \E b \in watched[n] : box[b] = "created"
    /\ Fatal
    /\ UNCHANGED faults

(* Two minutes have passed. *)
HealthTimeout(n) ==
    /\ pc[n] = "health"
    /\ \E b \in watched[n] : box[b] = "starting"
    /\ Fatal
    /\ UNCHANGED faults

(* The engine starts a container again until it finds its files. *)
BecomesHealthy(b) ==
    /\ box[b] = "starting"
    /\ b \in filled
    /\ box' = [box EXCEPT ![b] = "healthy"]
    /\ UNCHANGED <<network, filled, redis, pc, stage, watched, attempt, command, mine, faults>>

-----------------------------------------------------------------------------
(* Init of MemNode, on the leader: "redis-cli --cluster create" of all the  *)
(* nodes, with Retry.  SpawnAndWait starts it in a container of the engine *)
(* and waits for its end, without a limit.                                 *)

Running(n) == box[<<n, Mem>>] = "healthy"

Cli(r, p) == cli' = [cli EXCEPT ![r] = p]

ClusterCreate ==
    /\ pc[Lead] = "cluster"
    /\ Goto(Lead, "redis")
    /\ Cli(runs, "asking")
    /\ UNCHANGED <<engine, teller, stage, watched, attempt, command, mine, faults>>

(* Mutation: redis-cli takes nodes that know of others. *)
CliTellsAgain(r) ==
    /\ cli[r] = "asking"
    /\ \A n \in Nodes : Running(n)
    /\ teller' = r
    /\ Cli(r, "joining")
    /\ UNCHANGED <<engine, pc, stage, watched, attempt, command, mine, faults>>

(* All nodes answer and none knows of another: it tells the first of them. *)
CliTells(r) ==
    /\ cli[r] = "asking"
    /\ \A n \in Nodes : Running(n)
    /\ teller = 0
    /\ teller' = r
    /\ Cli(r, "joining")
    /\ UNCHANGED <<engine, pc, stage, watched, attempt, command, mine, faults>>

(* A node does not answer, or is not empty. *)
CliRefuses(r) ==
    /\ cli[r] = "asking"
    /\ teller # 0 \/ \E n \in Nodes : ~Running(n)
    /\ Cli(r, "failed")
    /\ UNCHANGED <<engine, teller, pc, stage, watched, attempt, command, mine, faults>>

(* They have all joined. *)
CliForms(r) ==
    /\ cli[r] = "joining"
    /\ Cli(r, "ok")
    /\ UNCHANGED <<engine, teller, pc, stage, watched, attempt, command, mine, faults>>

(* It fails, after it has told some nodes of others or before. *)
CliBreaks(r) ==
    /\ cli[r] \in {"asking", "joining"}
    /\ Fault
    /\ Cli(r, "failed")
    /\ UNCHANGED <<engine, teller, pc, stage, watched, attempt, command, mine>>

CliStep(r) == CliTells(r) \/ CliRefuses(r) \/ CliForms(r) \/ CliBreaks(r)

ClusterMade ==
    /\ pc[Lead] = "redis"
    /\ cli[runs] = "ok"
    /\ Goto(Lead, "done")
    /\ UNCHANGED <<engine, redis, stage, watched, attempt, command, mine, faults>>

(* Mutation: an attempt that was refused does not count. *)
RetryForever ==
    /\ attempt' = attempt
    /\ Goto(Lead, "cluster")
    /\ UNCHANGED <<state, stage, watched, before, mine, runs>>

(* Mutation: the last error is not returned. *)
RetryGivesUp ==
    /\ attempt' = attempt + 1
    /\ Goto(Lead, IF attempt' < MaxAttempts THEN "cluster" ELSE "done")
    /\ UNCHANGED <<state, stage, watched, before, mine, runs>>

(* Mutation: one attempt too many. *)
RetryOnceMore ==
    /\ attempt' = attempt + 1
    /\ IF attempt' <= MaxAttempts
       THEN Goto(Lead, "cluster") /\ UNCHANGED <<state, watched>>
       ELSE Fail
    /\ UNCHANGED <<stage, before, mine, runs>>

(* Another attempt, or the end. *)
Retry ==
    /\ attempt' = attempt + 1
    /\ IF attempt' < MaxAttempts
       THEN Goto(Lead, "cluster") /\ UNCHANGED <<state, watched>>
       ELSE Fail
    /\ UNCHANGED <<stage, before, mine, runs>>

ClusterRefused ==
    /\ pc[Lead] = "redis"
    /\ cli[runs] = "failed"
    /\ Retry
    /\ UNCHANGED <<engine, redis, faults>>

(* The engine fails to start its container, or to say how it ended. *)
SpawnFails == pc[Lead] \in {"cluster", "redis"} /\ Fault /\ Fatal

(* wg.Wait() *)
Finish ==
    /\ state = "running"
    /\ \A n \in Nodes : pc[n] = "done"
    /\ state' = "ok"
    /\ UNCHANGED <<engine, redis, pc, stage, watched, attempt, before, mine, runs, faults>>

(* What a goroutine does itself, and what it waits for without a limit. *)
Step(n) ==
    \/ Ensure(n) \/ EnsureErrs(n) \/ NetworkCreate(n) \/ NetworkRefused(n)
    \/ ContainerStart(n) \/ WaitHealthy(n) \/ Healthy(n) \/ HealthPanics(n) \/ HealthTimeout(n)
    \/ \E b \in Boxes : CheckHealth(n, b)

EngineStep(n) ==
    \/ Vol(n) \/ VolLost(n) \/ VolFails(n) \/ JoinFails(n)
    \/ ContainerCreate(n) \/ Conflict(n) \/ StartFails(n)

LeaderStep == ClusterCreate \/ ClusterMade \/ ClusterRefused

Next ==
    \/ Start \/ Kill \/ LeaderStep \/ SpawnFails \/ Finish
    \/ \E n \in Nodes : Step(n) \/ EngineStep(n)
    \/ \E b \in Boxes : BecomesHealthy(b)
    \/ \E r \in Inits : CliStep(r)

(* Goroutines are scheduled; the engine and redis-cli owe nothing. *)
Spec ==
    /\ Init /\ [][Next]_vars
    /\ \A n \in Nodes : WF_vars(Step(n))
    /\ WF_vars(LeaderStep) /\ WF_vars(Finish)

-----------------------------------------------------------------------------
(* Properties. *)

EngineTypes ==
    /\ network \in {"none", "made"}
    /\ filled \subseteq Boxes
    /\ box \in [Boxes -> {"absent", "created", "starting", "healthy"}]
    /\ teller \in {0} \cup Inits
    /\ cli \in [Inits -> {"none", "asking", "joining", "ok", "failed"}]

CommandTypes ==
    /\ pc \in [Nodes -> {"idle", "network", "createNetwork", "volume", "container", "start",
                         "list", "health", "cluster", "redis", "done"}]
    /\ stage \in [Nodes -> 1..Services]
    /\ watched \in [Nodes -> SUBSET Boxes]
    /\ attempt \in 0..MaxAttempts
    /\ state \in {"running", "ok", "failed"}
    /\ before \in [network : {"none", "made"}, teller : {0} \cup Inits, faults : Nat]
    /\ mine \subseteq Boxes

(* Every variable has its type, and no more attempts at the cluster are    *)
(* made than Retry has.                                                    *)
TypeOK == EngineTypes /\ CommandTypes /\ runs \in 0..MaxRuns /\ faults \in Nat

(* When init ends without an error the Redis cluster is made, by its own   *)
(* redis-cli and of nodes that all run: wg.Wait says no more than that the *)
(* goroutines ended.                                                       *)
EndsWhole ==
    state = "ok" /\ runs > 0 => cli[runs] = "ok" /\ \A n \in Nodes : Running(n)

(* A goroutine goes past a container it started only once it was healthy,  *)
(* though WaitHealthy waits for whatever has a name with that prefix.      *)
ContainersAwaited ==
    \A b \in mine : \/ box[b] = "healthy"
                    \/ stage[b[1]] = b[2] /\ pc[b[1]] \in {"list", "health"}
                    \/ state = "failed"

(* Nodes that know of others, from an init that ended or that broke off,   *)
(* make every later one fail: it creates the cluster again (memory.go:207).*)
InitOnce == state = "ok" => before.teller = 0

(* What an init that ends without an error says of the Redis cluster, made *)
(* by one of its goroutines under the others, and next to the redis-cli of *)
(* an init that is gone, is what ClusterInit promises (init.go:76).        *)
Phase  == IF runs = 0 THEN "new" ELSE state
Formed == (\E r \in Inits : cli[r] = "ok") /\ \A n \in Nodes : Running(n)
Promise == INSTANCE ClusterInit WITH phase <- Phase, number <- runs, formed <- Formed
ImplementsInit == Promise!Spec

(* While the engine answers its inspections, the network is refused only   *)
(* in the init that makes it (container.go:547).                           *)
RefusedAtFirst ==
    [][\A n \in Nodes : NetworkRefused(n) /\ faults = before.faults
                            => before.network = "none"]_vars

Stranded(b) ==
    box[b] = "created" /\ ~(pc[b[1]] = "start" /\ stage[b[1]] = b[2])

(* A container whose goroutine died between its creation and its start is  *)
(* never started, by however many runs (container.go:623).                 *)
StrandedStays == [][\A b \in Boxes : Stranded(b) => Stranded(b)']_vars

(* Every init ends that is not left waiting for a helper, an image or      *)
(* redis-cli: the other waits have a limit, and so has Retry.              *)
Unlimited == {"volume", "container", "redis"}
InitEnds ==
    (\A n \in Nodes : []<>(pc[n] \notin Unlimited))
        => (state = "running" ~> state # "running")
=============================================================================
