--------------------------- MODULE BringupProofs ----------------------------
(* Theorems about Bringup, for every number of shards, replicas, services, *)
(* attempts and runs.                                                      *)
EXTENDS Bringup, TLAPS

(* The leader is a node. *)
LEMMA LeadInNodes == Lead \in Nodes
  BY BringupAssumption, SMT DEF Nodes, Lead

(* The container at which a goroutine stands is one of its node. *)
LEMMA BoxInBoxes ==
    /\ Mem \in 1..Services
    /\ \A n \in Nodes : <<n, Mem>> \in Boxes
    /\ \A n \in Nodes : \A k \in 1..Services :
          <<n, k>> \in Boxes /\ <<n, k>>[1] = n /\ <<n, k>>[2] = k
    /\ \A b \in Boxes : b[1] \in Nodes /\ b[2] \in 1..Services /\ b = <<b[1], b[2]>>
  BY BringupAssumption, SMT DEF Mem, Boxes

(* While the leader makes the cluster it has attempts left. *)
AttemptsLeft == pc[Lead] \notin {"done", "idle"} => attempt < MaxAttempts

Typed == TypeOK /\ AttemptsLeft

(* The types and the number of attempts hold at first. *)
LEMMA InitTyped == Init => Typed
  BY BringupAssumption, LeadInNodes
     DEF Init, Typed, TypeOK, EngineTypes, CommandTypes, AttemptsLeft

(* A step of a redis-cli: it tells the first node, forms the cluster, or   *)
(* fails.                                                                  *)
LEMMA CliSteps ==
    ASSUME TypeOK, NEW r \in Inits, CliStep(r)
    PROVE  /\ UNCHANGED <<engine, pc, stage, watched, attempt, command, mine>>
           /\ cli[r] \in {"asking", "joining"}
           /\ cli' = [cli EXCEPT ![r] = cli'[r]]
           /\ faults' \in {faults, faults + 1}
           /\ \/ teller' = teller /\ cli'[r] = "failed"
              \/ teller' = teller /\ cli[r] = "joining" /\ cli'[r] = "ok"
              \/ /\ teller = 0 /\ teller' = r /\ cli'[r] = "joining"
                 /\ \A n \in Nodes : Running(n)
<1> USE DEF TypeOK, EngineTypes, Cli, Fault
<1>1. CASE CliTells(r)
  BY <1>1 DEF CliTells
<1>2. CASE CliRefuses(r)
  BY <1>2 DEF CliRefuses
<1>3. CASE CliForms(r)
  BY <1>3 DEF CliForms
<1>4. CASE CliBreaks(r)
  BY <1>4 DEF CliBreaks
<1> QED
  BY <1>1, <1>2, <1>3, <1>4 DEF CliStep

(* Every step keeps the types of what the engine and Redis hold. *)
LEMMA NextEngineTypes == ASSUME TypeOK, [Next]_vars PROVE EngineTypes'
<1> USE DEF TypeOK, EngineTypes, CommandTypes, engine, redis, command, Goto, Fault
<1>1. CASE UNCHANGED vars
  BY <1>1 DEF vars
<1>2. CASE Start
  BY <1>2 DEF Start
<1>3. CASE Kill \/ SpawnFails
  BY <1>3 DEF Kill, SpawnFails, Fatal, Fail
<1>4. CASE ClusterCreate
  BY <1>4 DEF ClusterCreate, Cli
<1>5. CASE ClusterRefused
  BY <1>5 DEF ClusterRefused, Retry, Fail
<1>6. CASE ClusterMade
  BY <1>6 DEF ClusterMade
<1>10. CASE \E r \in Inits : CliStep(r)
  <2>1. PICK r \in Inits : CliStep(r)
    BY <1>10
  <2> QED
    BY <2>1, CliSteps
<1>7. CASE Finish
  BY <1>7 DEF Finish
<1>8. CASE \E b \in Boxes : BecomesHealthy(b)
  BY <1>8 DEF BecomesHealthy
<1>9. ASSUME NEW n \in Nodes, Step(n) \/ EngineStep(n)
      PROVE  EngineTypes'
  <2>0. Box(n) \in Boxes /\ Box(n)[1] = n /\ Box(n)[2] = stage[n]
    BY BoxInBoxes DEF TypeOK, CommandTypes, Box
  <2>1. CASE Ensure(n)
    BY <2>1, <2>0 DEF Ensure
  <2>17. CASE EnsureErrs(n)
    BY <2>17, <2>0 DEF EnsureErrs
  <2>2. CASE NetworkCreate(n)
    BY <2>2, <2>0 DEF NetworkCreate
  <2>3. CASE NetworkRefused(n)
    BY <2>3, <2>0 DEF NetworkRefused, Fatal, Fail
  <2>4. CASE Vol(n)
    BY <2>4, <2>0 DEF Vol
  <2>5. CASE VolLost(n)
    BY <2>5, <2>0 DEF VolLost
  <2>6. CASE VolFails(n)
    BY <2>6, <2>0 DEF VolFails, Fatal, Fail
  <2>7. CASE JoinFails(n)
    BY <2>7, <2>0 DEF JoinFails, Fatal, Fail
  <2>8. CASE ContainerCreate(n)
    BY <2>8, <2>0 DEF ContainerCreate
  <2>9. CASE Conflict(n)
    BY <2>9, <2>0 DEF Conflict, Onward
  <2>10. CASE ContainerStart(n)
    BY <2>10, <2>0 DEF ContainerStart
  <2>11. CASE StartFails(n)
    BY <2>11, <2>0 DEF StartFails, Fatal, Fail
  <2>12. CASE WaitHealthy(n)
    BY <2>12, <2>0 DEF WaitHealthy, Prefixed
  <2>13. CASE Healthy(n)
    BY <2>13, <2>0 DEF Healthy, Onward
  <2>14. CASE HealthPanics(n)
    BY <2>14, <2>0 DEF HealthPanics, Fatal, Fail
  <2>15. CASE HealthTimeout(n)
    BY <2>15, <2>0 DEF HealthTimeout, Fatal, Fail
  <2>16. CASE \E b \in Boxes : CheckHealth(n, b)
    BY <2>16, <2>0 DEF CheckHealth
  <2> QED
    BY <1>9, <2>0, <2>1, <2>2, <2>3, <2>4, <2>5, <2>6, <2>7, <2>8, <2>9,
       <2>10, <2>11, <2>12, <2>13, <2>14, <2>15, <2>16, <2>17 DEF Step, EngineStep
<1> QED
  BY <1>1, <1>2, <1>3, <1>4, <1>5, <1>6, <1>7, <1>8, <1>9, <1>10 DEF Next, LeaderStep

(* The next container is one of the services; the leader makes the cluster. *)
LEMMA OnwardTypes ==
    ASSUME NEW n \in Nodes, stage \in [Nodes -> 1..Services], Onward(n)
    PROVE  stage' \in [Nodes -> 1..Services]
  BY BringupAssumption DEF Onward

(* An attempt that fails leaves others, or ends the command. *)
LEMMA RetryTypes ==
    ASSUME CommandTypes, AttemptsLeft, pc[Lead] = "redis", Retry
    PROVE  attempt' \in 0..MaxAttempts /\ AttemptsLeft'
<1>1. attempt \in 0..MaxAttempts /\ attempt < MaxAttempts
  BY DEF AttemptsLeft, CommandTypes
<1>2. attempt' = attempt + 1
  BY DEF Retry
<1>3. attempt' \in 0..MaxAttempts
  BY <1>1, <1>2, BringupAssumption
<1>4. CASE attempt' < MaxAttempts
  BY <1>3, <1>4 DEF AttemptsLeft
<1>5. CASE ~(attempt' < MaxAttempts)
  BY <1>3, <1>5, LeadInNodes DEF Retry, Fail, AttemptsLeft
<1> QED
  BY <1>3, <1>4, <1>5

(* A command starts at the first service, with all its attempts. *)
LEMMA StartTypes ==
    ASSUME Start
    PROVE  stage' \in [Nodes -> 1..Services] /\ attempt' \in 0..MaxAttempts /\ AttemptsLeft'
  BY BringupAssumption, LeadInNodes DEF Start, AttemptsLeft

(* Every step keeps the types of the command, and no attempt is made that  *)
(* is not left.                                                            *)
LEMMA NextCommandTypes ==
    ASSUME TypeOK, AttemptsLeft, [Next]_vars
    PROVE  (CommandTypes /\ AttemptsLeft)'
<1> USE BringupAssumption, LeadInNodes DEF TypeOK, CommandTypes, AttemptsLeft,
        engine, redis,
        command, Goto, Fault
<1>1. CASE UNCHANGED vars
  BY <1>1 DEF vars
<1>2. CASE Start
  <2>1. stage' \in [Nodes -> 1..Services] /\ attempt' \in 0..MaxAttempts /\ AttemptsLeft'
    BY <1>2, StartTypes
  <2>2. before' \in [network : {"none", "made"}, teller : {0} \cup Inits, faults : Nat]
    BY <1>2 DEF Start, EngineTypes
  <2> QED
    BY <1>2, <2>1, <2>2 DEF Start
<1>3. CASE Kill \/ SpawnFails
  BY <1>3 DEF Kill, SpawnFails, Fatal, Fail
<1>4. CASE ClusterCreate
  BY <1>4 DEF ClusterCreate, Cli
<1>5. CASE ClusterRefused
  <2>1. attempt' \in 0..MaxAttempts /\ AttemptsLeft'
    <3> HIDE DEF CommandTypes, AttemptsLeft
    <3> QED
      BY <1>5, RetryTypes DEF ClusterRefused
  <2>2. /\ pc' = [pc EXCEPT ![Lead] = "cluster"] \/ pc' = [m \in Nodes |-> "idle"]
        /\ watched' = watched \/ watched' = [m \in Nodes |-> {}]
        /\ state' \in {"running", "ok", "failed"}
        /\ UNCHANGED <<stage, before, mine>>
    BY <1>5 DEF ClusterRefused, Retry, Fail
  <2> QED
    BY <2>1, <2>2
<1>6. CASE ClusterMade
  BY <1>6 DEF ClusterMade
<1>10. CASE \E r \in Inits : CliStep(r)
  BY <1>10, CliSteps
<1>7. CASE Finish
  BY <1>7 DEF Finish
<1>8. CASE \E b \in Boxes : BecomesHealthy(b)
  BY <1>8 DEF BecomesHealthy
<1>9. ASSUME NEW n \in Nodes, Step(n) \/ EngineStep(n)
      PROVE  (CommandTypes /\ AttemptsLeft)'
  <2>0. Box(n) \in Boxes /\ Box(n)[1] = n /\ Box(n)[2] = stage[n]
    BY BoxInBoxes DEF TypeOK, CommandTypes, Box
  <2>1. CASE Ensure(n)
    BY <2>1, <2>0 DEF Ensure
  <2>17. CASE EnsureErrs(n)
    BY <2>17, <2>0 DEF EnsureErrs
  <2>2. CASE NetworkCreate(n)
    BY <2>2, <2>0 DEF NetworkCreate
  <2>3. CASE NetworkRefused(n)
    BY <2>3, <2>0 DEF NetworkRefused, Fatal, Fail
  <2>4. CASE Vol(n)
    BY <2>4, <2>0 DEF Vol
  <2>5. CASE VolLost(n)
    BY <2>5, <2>0 DEF VolLost
  <2>6. CASE VolFails(n)
    BY <2>6, <2>0 DEF VolFails, Fatal, Fail
  <2>7. CASE JoinFails(n)
    BY <2>7, <2>0 DEF JoinFails, Fatal, Fail
  <2>8. CASE ContainerCreate(n)
    BY <2>8, <2>0 DEF ContainerCreate
  <2>9. CASE Conflict(n)
    <3>1. stage' \in [Nodes -> 1..Services]
      BY <2>9, OnwardTypes DEF Conflict
    <3>2. /\ \E p \in {"volume", "cluster", "done"} : pc' = [pc EXCEPT ![n] = p]
          /\ UNCHANGED <<watched, attempt, state, before, mine>>
      BY <2>9 DEF Conflict, Onward
    <3>3. AttemptsLeft'
      BY <2>9 DEF Conflict, Onward
    <3> QED
      BY <3>1, <3>2, <3>3
  <2>10. CASE ContainerStart(n)
    BY <2>10, <2>0 DEF ContainerStart
  <2>11. CASE StartFails(n)
    BY <2>11, <2>0 DEF StartFails, Fatal, Fail
  <2>12. CASE WaitHealthy(n)
    BY <2>12, <2>0 DEF WaitHealthy, Prefixed
  <2>13. CASE Healthy(n)
    <3>1. stage' \in [Nodes -> 1..Services]
      BY <2>13, OnwardTypes DEF Healthy
    <3>2. /\ \E p \in {"volume", "cluster", "done"} : pc' = [pc EXCEPT ![n] = p]
          /\ UNCHANGED <<watched, attempt, state, before, mine>>
      BY <2>13 DEF Healthy, Onward
    <3>3. AttemptsLeft'
      BY <2>13 DEF Healthy, Onward
    <3> QED
      BY <3>1, <3>2, <3>3
  <2>14. CASE HealthPanics(n)
    BY <2>14, <2>0 DEF HealthPanics, Fatal, Fail
  <2>15. CASE HealthTimeout(n)
    BY <2>15, <2>0 DEF HealthTimeout, Fatal, Fail
  <2>16. CASE \E b \in Boxes : CheckHealth(n, b)
    <3>1. PICK b \in Boxes : CheckHealth(n, b)
      BY <2>16
    <3>2. watched' \in [Nodes -> SUBSET Boxes]
      BY <3>1 DEF CheckHealth
    <3> QED
      BY <3>1, <3>2 DEF CheckHealth
  <2> QED
    BY <1>9, <2>0, <2>1, <2>2, <2>3, <2>4, <2>5, <2>6, <2>7, <2>8, <2>9,
       <2>10, <2>11, <2>12, <2>13, <2>14, <2>15, <2>16, <2>17 DEF Step, EngineStep
<1> QED
  BY <1>1, <1>2, <1>3, <1>4, <1>5, <1>6, <1>7, <1>8, <1>9, <1>10 DEF Next, LeaderStep

(* The bounded counters are numbers. *)
LEMMA NextCounters == ASSUME TypeOK, [Next]_vars PROVE (runs \in 0..MaxRuns /\ faults \in Nat)'
<1> USE BringupAssumption DEF TypeOK, engine, redis, command, Fault
<1>1. CASE UNCHANGED vars
  BY <1>1 DEF vars
<1>2. CASE Start
  BY <1>2 DEF Start
<1>3. CASE Kill \/ SpawnFails
  BY <1>3 DEF Kill, SpawnFails, Fatal, Fail
<1>4. CASE ClusterCreate
  BY <1>4 DEF ClusterCreate, Cli
<1>5. CASE ClusterRefused
  BY <1>5 DEF ClusterRefused, Retry, Fail
<1>6. CASE ClusterMade
  BY <1>6 DEF ClusterMade
<1>10. CASE \E r \in Inits : CliStep(r)
  BY <1>10, CliSteps
<1>7. CASE Finish
  BY <1>7 DEF Finish
<1>8. CASE \E b \in Boxes : BecomesHealthy(b)
  BY <1>8 DEF BecomesHealthy
<1>9. ASSUME NEW n \in Nodes, Step(n) \/ EngineStep(n)
      PROVE  (runs \in 0..MaxRuns /\ faults \in Nat)'
  <2>1. CASE Ensure(n)
    BY <2>1 DEF Ensure
  <2>17. CASE EnsureErrs(n)
    BY <2>17 DEF EnsureErrs
  <2>2. CASE NetworkCreate(n)
    BY <2>2 DEF NetworkCreate
  <2>3. CASE NetworkRefused(n)
    BY <2>3 DEF NetworkRefused, Fatal, Fail
  <2>4. CASE Vol(n)
    BY <2>4 DEF Vol
  <2>5. CASE VolLost(n)
    BY <2>5 DEF VolLost
  <2>6. CASE VolFails(n)
    BY <2>6 DEF VolFails, Fatal, Fail
  <2>7. CASE JoinFails(n)
    BY <2>7 DEF JoinFails, Fatal, Fail
  <2>8. CASE ContainerCreate(n)
    BY <2>8 DEF ContainerCreate
  <2>9. CASE Conflict(n)
    BY <2>9 DEF Conflict, Onward
  <2>10. CASE ContainerStart(n)
    BY <2>10 DEF ContainerStart
  <2>11. CASE StartFails(n)
    BY <2>11 DEF StartFails, Fatal, Fail
  <2>12. CASE WaitHealthy(n)
    BY <2>12 DEF WaitHealthy, Prefixed
  <2>13. CASE Healthy(n)
    BY <2>13 DEF Healthy, Onward
  <2>14. CASE HealthPanics(n)
    BY <2>14 DEF HealthPanics, Fatal, Fail
  <2>15. CASE HealthTimeout(n)
    BY <2>15 DEF HealthTimeout, Fatal, Fail
  <2>16. CASE \E b \in Boxes : CheckHealth(n, b)
    BY <2>16 DEF CheckHealth
  <2> QED
    BY <1>9, <2>1, <2>2, <2>3, <2>4, <2>5, <2>6, <2>7, <2>8, <2>9,
       <2>10, <2>11, <2>12, <2>13, <2>14, <2>15, <2>16, <2>17 DEF Step, EngineStep
<1> QED
  BY <1>1, <1>2, <1>3, <1>4, <1>5, <1>6, <1>7, <1>8, <1>9, <1>10 DEF Next, LeaderStep

(* Type correctness of every variable in every reachable state. *)
THEOREM TypeCorrect == Spec => []TypeOK
<1>1. Init => Typed
  BY InitTyped
<1>2. Typed /\ [Next]_vars => Typed'
  BY NextEngineTypes, NextCommandTypes, NextCounters DEF Typed, TypeOK
<1>3. Typed => TypeOK
  BY DEF Typed
<1> QED
  BY <1>1, <1>2, <1>3, PTL DEF Spec

-----------------------------------------------------------------------------
(* The inductive invariant: what a goroutine may rely on at each point.    *)

(* The goroutine of the node stands at that container. *)
At(b) == stage[b[1]] = b[2]

(* A goroutine starts the container it has just created. *)
Created == \A b \in Boxes : At(b) /\ pc[b[1]] = "start" => box[b] = "created"

(* At the health checks it waits for its own container, or has seen it. *)
OwnWatched ==
    \A b \in Boxes : At(b) =>
        /\ pc[b[1]] = "list" => box[b] # "absent"
        /\ pc[b[1]] = "health" => box[b] = "healthy" \/ b \in watched[b[1]]

(* A goroutine runs within a command. *)
InCommand ==
    /\ state = "running" => runs # 0
    /\ \A n \in Nodes : pc[n] \notin {"idle", "done"} => state = "running"

(* One redis-cli at most gets beyond its first questions, for the nodes    *)
(* that run know of others from then on; it is of the last command or of   *)
(* one that is gone, and the leader waits for it or is done.               *)
Told ==
    /\ teller <= runs
    /\ \A r \in Inits : cli[r] # "none" => r <= runs
    /\ \A r \in Inits : cli[r] \in {"joining", "ok"} =>
            teller = r /\ \A n \in Nodes : Running(n)
    /\ pc[Lead] \notin {"redis", "done", "idle"} =>
            \A r \in Inits : r = runs => cli[r] \in {"none", "failed"}

(* The leader is done when redis-cli has made the cluster. *)
LeadDone == pc[Lead] = "done" => runs \in Inits /\ cli[runs] = "ok"

(* What there was when the command began is still there. *)
SinceBefore ==
    /\ before.teller # 0 => before.teller < runs /\ teller = before.teller
    /\ before.network = "made" => network = "made"
    /\ before.faults <= faults
    /\ \A n \in Nodes : pc[n] = "createNetwork" =>
            before.network = "none" \/ before.faults < faults

Inductive ==
    /\ Created /\ OwnWatched /\ InCommand /\ Told /\ LeadDone /\ SinceBefore
    /\ EndsWhole /\ ContainersAwaited

(* The invariant holds before the first command. *)
LEMMA InitInductive == Init => Inductive
<1> USE LeadInNodes DEF Init
<1>1. Init => Created /\ OwnWatched
  BY BoxInBoxes DEF Created, OwnWatched
<1>2. Init => InCommand /\ Told /\ LeadDone /\ SinceBefore
  BY DEF InCommand, Told, LeadDone, SinceBefore
<1>3. Init => EndsWhole /\ ContainersAwaited
  BY BoxInBoxes DEF EndsWhole, ContainersAwaited
<1> QED
  BY <1>1, <1>2, <1>3 DEF Inductive

(* A container is of a node. *)
LEMMA BoxNodes == \A b \in Boxes : b[1] \in Nodes
  BY BoxInBoxes

(* The container at which a goroutine stands is the one that At names. *)
LEMMA BoxAt ==
    ASSUME CommandTypes, NEW n \in Nodes
    PROVE  /\ Box(n) \in Boxes /\ Box(n)[1] = n /\ Box(n)[2] = stage[n]
           /\ \A b \in Boxes : b[1] = n /\ b[2] = stage[n] => b = Box(n)
<1>1. stage[n] \in 1..Services
  BY DEF CommandTypes
<1> QED
  BY <1>1, BoxInBoxes DEF Box

(* Going on moves the goroutine alone, to what precedes any container. *)
LEMMA OnwardMoves ==
    ASSUME CommandTypes, NEW n \in Nodes, Onward(n)
    PROVE  /\ pc'[n] \in {"volume", "cluster", "done"} /\ (pc'[n] = "done" => n # Lead)
           /\ \A m \in Nodes : m # n => pc'[m] = pc[m] /\ stage'[m] = stage[m]
<1>1. CASE stage[n] < Services
  BY <1>1 DEF Onward, CommandTypes, Goto
<1>2. CASE ~(stage[n] < Services)
  BY <1>2 DEF Onward, CommandTypes, Goto
<1> QED
  BY <1>1, <1>2

(* What a goroutine's step leaves alone, unless it ends the process. *)
LEMMA GoroutineSteps ==
    ASSUME TypeOK, NEW n \in Nodes,
           Step(n) \/ EngineStep(n)
    PROVE  /\ pc[n] \notin {"idle", "cluster", "redis", "done"}
           /\ pc'[n] = "done" => n # Lead
           /\ UNCHANGED <<redis, attempt, before, runs>>
           /\ \/ state' = "failed" /\ \A m \in Nodes : pc'[m] = "idle"
              \/ /\ state' = state
                 /\ \A m \in Nodes : m # n => UNCHANGED <<stage[m], pc[m], watched[m]>>
           /\ network = "made" => network' = "made"
           /\ faults' \in {faults, faults + 1}
           /\ \A m \in Nodes : pc'[m] = "createNetwork" /\ pc[m] # "createNetwork"
                                 => network = "none" \/ faults' = faults + 1
<1> USE LeadInNodes DEF TypeOK, EngineTypes, CommandTypes, engine, command, Goto, Fault
<1>1. CASE Ensure(n)
  BY <1>1 DEF Ensure
<1>17. CASE EnsureErrs(n)
  BY <1>17 DEF EnsureErrs
<1>2. CASE NetworkCreate(n)
  BY <1>2 DEF NetworkCreate
<1>3. CASE NetworkRefused(n)
  BY <1>3 DEF NetworkRefused, Fatal, Fail
<1>4. CASE Vol(n)
  BY <1>4 DEF Vol
<1>5. CASE VolLost(n)
  BY <1>5 DEF VolLost
<1>6. CASE VolFails(n)
  BY <1>6 DEF VolFails, Fatal, Fail
<1>7. CASE JoinFails(n)
  BY <1>7 DEF JoinFails, Fatal, Fail
<1>8. CASE ContainerCreate(n)
  BY <1>8 DEF ContainerCreate
<1>9. CASE Conflict(n)
  <2>1. /\ \A m \in Nodes : m # n => pc'[m] = pc[m] /\ stage'[m] = stage[m]
        /\ pc'[n] \in {"volume", "cluster", "done"} /\ (pc'[n] = "done" => n # Lead)
    BY <1>9, OnwardMoves DEF Conflict
  <2> QED
    BY <1>9, <2>1 DEF Conflict
<1>10. CASE ContainerStart(n)
  BY <1>10 DEF ContainerStart
<1>11. CASE StartFails(n)
  BY <1>11 DEF StartFails, Fatal, Fail
<1>12. CASE WaitHealthy(n)
  BY <1>12 DEF WaitHealthy
<1>13. CASE Healthy(n)
  <2>1. /\ \A m \in Nodes : m # n => pc'[m] = pc[m] /\ stage'[m] = stage[m]
        /\ pc'[n] \in {"volume", "cluster", "done"} /\ (pc'[n] = "done" => n # Lead)
    BY <1>13, OnwardMoves DEF Healthy
  <2> QED
    BY <1>13, <2>1 DEF Healthy
<1>14. CASE HealthPanics(n)
  BY <1>14 DEF HealthPanics, Fatal, Fail
<1>15. CASE HealthTimeout(n)
  BY <1>15 DEF HealthTimeout, Fatal, Fail
<1>16. CASE \E b \in Boxes : CheckHealth(n, b)
  BY <1>16 DEF CheckHealth
<1> QED
  BY <1>1, <1>2, <1>3, <1>4, <1>5, <1>6, <1>7, <1>8, <1>9, <1>10, <1>11, <1>12,
     <1>13, <1>14, <1>15, <1>16, <1>17 DEF Step, EngineStep

(* Only the goroutine of a node touches its containers, but for the engine. *)
LEMMA NextCreated == ASSUME TypeOK, Created, [Next]_vars PROVE Created'
<1> USE BoxNodes DEF TypeOK, EngineTypes, CommandTypes, engine, redis, command,
        Goto, Fault, Created, At
<1>1. CASE UNCHANGED vars
  BY <1>1 DEF vars
<1>2. CASE Start
  BY <1>2 DEF Start
<1>3. CASE Kill \/ SpawnFails
  BY <1>3 DEF Kill, SpawnFails, Fatal, Fail
<1>4. CASE ClusterCreate
  BY <1>4 DEF ClusterCreate, Cli
<1>5. CASE ClusterRefused
  BY <1>5 DEF ClusterRefused, Retry, Fail
<1>6. CASE ClusterMade
  BY <1>6 DEF ClusterMade
<1>10. CASE \E r \in Inits : CliStep(r)
  BY <1>10, CliSteps
<1>7. CASE Finish
  BY <1>7 DEF Finish
<1>8. CASE \E b \in Boxes : BecomesHealthy(b)
  <2>1. PICK c \in Boxes : BecomesHealthy(c)
    BY <1>8
  <2> QED
    BY <2>1 DEF BecomesHealthy
<1>9. ASSUME NEW n \in Nodes, Step(n) \/ EngineStep(n)
      PROVE  Created'
  <2>0. Box(n) \in Boxes /\ Box(n)[1] = n /\ Box(n)[2] = stage[n]
      /\ \A b \in Boxes : b[1] = n /\ b[2] = stage[n] => b = Box(n)
    BY BoxAt DEF TypeOK
  <2>1. CASE Ensure(n)
    BY <2>1, <2>0 DEF Ensure
  <2>17. CASE EnsureErrs(n)
    BY <2>17, <2>0 DEF EnsureErrs
  <2>2. CASE NetworkCreate(n)
    BY <2>2, <2>0 DEF NetworkCreate
  <2>3. CASE NetworkRefused(n)
    BY <2>3, <2>0 DEF NetworkRefused, Fatal, Fail
  <2>4. CASE Vol(n)
    BY <2>4, <2>0 DEF Vol
  <2>5. CASE VolLost(n)
    BY <2>5, <2>0 DEF VolLost
  <2>6. CASE VolFails(n)
    BY <2>6, <2>0 DEF VolFails, Fatal, Fail
  <2>7. CASE JoinFails(n)
    BY <2>7, <2>0 DEF JoinFails, Fatal, Fail
  <2>8. CASE ContainerCreate(n)
    BY <2>8, <2>0 DEF ContainerCreate
  <2>9. CASE Conflict(n)
    <3>1. /\ pc'[n] \in {"volume", "cluster", "done"}
          /\ \A m \in Nodes : m # n => pc'[m] = pc[m] /\ stage'[m] = stage[m]
      BY <2>9, OnwardMoves DEF Conflict
    <3>2. UNCHANGED <<box, watched>>
      BY <2>9 DEF Conflict
    <3> HIDE DEF TypeOK, EngineTypes, CommandTypes
    <3> QED
      BY <3>1, <3>2
  <2>10. CASE ContainerStart(n)
    BY <2>10, <2>0 DEF ContainerStart
  <2>11. CASE StartFails(n)
    BY <2>11, <2>0 DEF StartFails, Fatal, Fail
  <2>12. CASE WaitHealthy(n)
    BY <2>12, <2>0 DEF WaitHealthy, Prefixed
  <2>13. CASE Healthy(n)
    <3>1. /\ pc'[n] \in {"volume", "cluster", "done"}
          /\ \A m \in Nodes : m # n => pc'[m] = pc[m] /\ stage'[m] = stage[m]
      BY <2>13, OnwardMoves DEF Healthy
    <3>2. UNCHANGED <<box, watched>>
      BY <2>13 DEF Healthy
    <3> HIDE DEF TypeOK, EngineTypes, CommandTypes
    <3> QED
      BY <3>1, <3>2
  <2>14. CASE HealthPanics(n)
    BY <2>14, <2>0 DEF HealthPanics, Fatal, Fail
  <2>15. CASE HealthTimeout(n)
    BY <2>15, <2>0 DEF HealthTimeout, Fatal, Fail
  <2>16. CASE \E b \in Boxes : CheckHealth(n, b)
    <3>1. PICK c \in Boxes : CheckHealth(n, c)
      BY <2>16
    <3> QED
      BY <3>1, <2>0 DEF CheckHealth
  <2> QED
    BY <1>9, <2>0, <2>1, <2>2, <2>3, <2>4, <2>5, <2>6, <2>7, <2>8, <2>9,
       <2>10, <2>11, <2>12, <2>13, <2>14, <2>15, <2>16, <2>17 DEF Step, EngineStep
<1> QED
  BY <1>1, <1>2, <1>3, <1>4, <1>5, <1>6, <1>7, <1>8, <1>9, <1>10 DEF Next, LeaderStep

(* A container that is healthy stays so. *)
LEMMA HealthyStays ==
    ASSUME TypeOK, Created, [Next]_vars
    PROVE  \A b \in Boxes : box[b] = "healthy" => box'[b] = "healthy"
<1> USE BoxNodes DEF TypeOK, EngineTypes, CommandTypes, engine, redis, command,
        Goto, Fault, Created, At
<1>1. CASE UNCHANGED vars
  BY <1>1 DEF vars
<1>2. CASE Start
  BY <1>2 DEF Start
<1>3. CASE Kill \/ SpawnFails
  BY <1>3 DEF Kill, SpawnFails, Fatal, Fail
<1>4. CASE ClusterCreate
  BY <1>4 DEF ClusterCreate, Cli
<1>5. CASE ClusterRefused
  BY <1>5 DEF ClusterRefused, Retry, Fail
<1>6. CASE ClusterMade
  BY <1>6 DEF ClusterMade
<1>10. CASE \E r \in Inits : CliStep(r)
  BY <1>10, CliSteps
<1>7. CASE Finish
  BY <1>7 DEF Finish
<1>8. CASE \E b \in Boxes : BecomesHealthy(b)
  <2>1. PICK c \in Boxes : BecomesHealthy(c)
    BY <1>8
  <2> QED
    BY <2>1 DEF BecomesHealthy
<1>9. ASSUME NEW n \in Nodes, Step(n) \/ EngineStep(n)
      PROVE  \A b \in Boxes : box[b] = "healthy" => box'[b] = "healthy"
  <2>0. Box(n) \in Boxes /\ Box(n)[1] = n /\ Box(n)[2] = stage[n]
      /\ \A b \in Boxes : b[1] = n /\ b[2] = stage[n] => b = Box(n)
    BY BoxAt DEF TypeOK
  <2>1. CASE Ensure(n)
    BY <2>1, <2>0 DEF Ensure
  <2>17. CASE EnsureErrs(n)
    BY <2>17, <2>0 DEF EnsureErrs
  <2>2. CASE NetworkCreate(n)
    BY <2>2, <2>0 DEF NetworkCreate
  <2>3. CASE NetworkRefused(n)
    BY <2>3, <2>0 DEF NetworkRefused, Fatal, Fail
  <2>4. CASE Vol(n)
    BY <2>4, <2>0 DEF Vol
  <2>5. CASE VolLost(n)
    BY <2>5, <2>0 DEF VolLost
  <2>6. CASE VolFails(n)
    BY <2>6, <2>0 DEF VolFails, Fatal, Fail
  <2>7. CASE JoinFails(n)
    BY <2>7, <2>0 DEF JoinFails, Fatal, Fail
  <2>8. CASE ContainerCreate(n)
    BY <2>8, <2>0 DEF ContainerCreate
  <2>9. CASE Conflict(n)
    BY <2>9, <2>0 DEF Conflict, Onward
  <2>10. CASE ContainerStart(n)
    BY <2>10, <2>0 DEF ContainerStart
  <2>11. CASE StartFails(n)
    BY <2>11, <2>0 DEF StartFails, Fatal, Fail
  <2>12. CASE WaitHealthy(n)
    BY <2>12, <2>0 DEF WaitHealthy, Prefixed
  <2>13. CASE Healthy(n)
    BY <2>13, <2>0 DEF Healthy, Onward
  <2>14. CASE HealthPanics(n)
    BY <2>14, <2>0 DEF HealthPanics, Fatal, Fail
  <2>15. CASE HealthTimeout(n)
    BY <2>15, <2>0 DEF HealthTimeout, Fatal, Fail
  <2>16. CASE \E b \in Boxes : CheckHealth(n, b)
    <3>1. PICK c \in Boxes : CheckHealth(n, c)
      BY <2>16
    <3> QED
      BY <3>1, <2>0 DEF CheckHealth
  <2> QED
    BY <1>9, <2>0, <2>1, <2>2, <2>3, <2>4, <2>5, <2>6, <2>7, <2>8, <2>9,
       <2>10, <2>11, <2>12, <2>13, <2>14, <2>15, <2>16, <2>17 DEF Step, EngineStep
<1> QED
  BY <1>1, <1>2, <1>3, <1>4, <1>5, <1>6, <1>7, <1>8, <1>9, <1>10 DEF Next, LeaderStep

(* Nor does a Redis node stop to run. *)
LEMMA RunningStays ==
    ASSUME TypeOK, Created, [Next]_vars
    PROVE  \A n \in Nodes : Running(n) => Running(n)'
  BY HealthyStays, BoxInBoxes DEF Running

(* Its container is among those that WaitHealthy lists. *)
LEMMA NextOwnWatched == ASSUME TypeOK, Created, OwnWatched, [Next]_vars PROVE OwnWatched'
<1> USE BoxNodes DEF TypeOK, EngineTypes, CommandTypes, engine, redis, command,
        Goto, Fault, OwnWatched, Created, At
<1>1. CASE UNCHANGED vars
  BY <1>1 DEF vars
<1>2. CASE Start
  BY <1>2 DEF Start
<1>3. CASE Kill \/ SpawnFails
  BY <1>3 DEF Kill, SpawnFails, Fatal, Fail
<1>4. CASE ClusterCreate
  BY <1>4 DEF ClusterCreate, Cli
<1>5. CASE ClusterRefused
  BY <1>5 DEF ClusterRefused, Retry, Fail
<1>6. CASE ClusterMade
  BY <1>6 DEF ClusterMade
<1>10. CASE \E r \in Inits : CliStep(r)
  BY <1>10, CliSteps
<1>7. CASE Finish
  BY <1>7 DEF Finish
<1>8. CASE \E b \in Boxes : BecomesHealthy(b)
  <2>1. PICK c \in Boxes : BecomesHealthy(c)
    BY <1>8
  <2> QED
    BY <2>1 DEF BecomesHealthy
<1>9. ASSUME NEW n \in Nodes, Step(n) \/ EngineStep(n)
      PROVE  OwnWatched'
  <2>0. Box(n) \in Boxes /\ Box(n)[1] = n /\ Box(n)[2] = stage[n]
      /\ \A b \in Boxes : b[1] = n /\ b[2] = stage[n] => b = Box(n)
    BY BoxAt DEF TypeOK
  <2>1. CASE Ensure(n)
    BY <2>1, <2>0 DEF Ensure
  <2>17. CASE EnsureErrs(n)
    BY <2>17, <2>0 DEF EnsureErrs
  <2>2. CASE NetworkCreate(n)
    BY <2>2, <2>0 DEF NetworkCreate
  <2>3. CASE NetworkRefused(n)
    BY <2>3, <2>0 DEF NetworkRefused, Fatal, Fail
  <2>4. CASE Vol(n)
    BY <2>4, <2>0 DEF Vol
  <2>5. CASE VolLost(n)
    BY <2>5, <2>0 DEF VolLost
  <2>6. CASE VolFails(n)
    BY <2>6, <2>0 DEF VolFails, Fatal, Fail
  <2>7. CASE JoinFails(n)
    BY <2>7, <2>0 DEF JoinFails, Fatal, Fail
  <2>8. CASE ContainerCreate(n)
    BY <2>8, <2>0 DEF ContainerCreate
  <2>9. CASE Conflict(n)
    <3>1. /\ pc'[n] \in {"volume", "cluster", "done"}
          /\ \A m \in Nodes : m # n => pc'[m] = pc[m] /\ stage'[m] = stage[m]
      BY <2>9, OnwardMoves DEF Conflict
    <3>2. UNCHANGED <<box, watched>>
      BY <2>9 DEF Conflict
    <3> HIDE DEF TypeOK, EngineTypes, CommandTypes
    <3> QED
      BY <3>1, <3>2
  <2>10. CASE ContainerStart(n)
    BY <2>10, <2>0 DEF ContainerStart
  <2>11. CASE StartFails(n)
    BY <2>11, <2>0 DEF StartFails, Fatal, Fail
  <2>12. CASE WaitHealthy(n)
    BY <2>12, <2>0 DEF WaitHealthy, Prefixed
  <2>13. CASE Healthy(n)
    <3>1. /\ pc'[n] \in {"volume", "cluster", "done"}
          /\ \A m \in Nodes : m # n => pc'[m] = pc[m] /\ stage'[m] = stage[m]
      BY <2>13, OnwardMoves DEF Healthy
    <3>2. UNCHANGED <<box, watched>>
      BY <2>13 DEF Healthy
    <3> HIDE DEF TypeOK, EngineTypes, CommandTypes
    <3> QED
      BY <3>1, <3>2
  <2>14. CASE HealthPanics(n)
    BY <2>14, <2>0 DEF HealthPanics, Fatal, Fail
  <2>15. CASE HealthTimeout(n)
    BY <2>15, <2>0 DEF HealthTimeout, Fatal, Fail
  <2>16. CASE \E b \in Boxes : CheckHealth(n, b)
    <3>1. PICK c \in Boxes : CheckHealth(n, c)
      BY <2>16
    <3> QED
      BY <3>1, <2>0 DEF CheckHealth
  <2> QED
    BY <1>9, <2>0, <2>1, <2>2, <2>3, <2>4, <2>5, <2>6, <2>7, <2>8, <2>9,
       <2>10, <2>11, <2>12, <2>13, <2>14, <2>15, <2>16, <2>17 DEF Step, EngineStep
<1> QED
  BY <1>1, <1>2, <1>3, <1>4, <1>5, <1>6, <1>7, <1>8, <1>9, <1>10 DEF Next, LeaderStep

(* A command that has started is the first, or a later one. *)
LEMMA StartCommands ==
    ASSUME TypeOK, Start
    PROVE  state' = "running" /\ runs' = runs + 1 /\ runs' # 0 /\ runs \in Nat
  BY DEF Start, TypeOK

(* Goroutines start with a command and end with it. *)
LEMMA NextInCommand == ASSUME TypeOK, InCommand, [Next]_vars PROVE InCommand'
<1> USE LeadInNodes DEF TypeOK, CommandTypes, engine, redis, command, Goto, Fault, InCommand
<1>1. CASE UNCHANGED vars
  BY <1>1 DEF vars
<1>2. CASE Start
  BY <1>2, StartCommands
<1>3. CASE Kill \/ SpawnFails
  BY <1>3 DEF Kill, SpawnFails, Fatal, Fail
<1>4. CASE ClusterCreate \/ ClusterMade
  BY <1>4 DEF ClusterCreate, ClusterMade
<1>5. CASE ClusterRefused
  BY <1>5 DEF ClusterRefused, Retry, Fail
<1>6. CASE Finish
  BY <1>6 DEF Finish
<1>7. CASE \E b \in Boxes : BecomesHealthy(b)
  BY <1>7 DEF BecomesHealthy
<1>8. ASSUME NEW n \in Nodes, Step(n) \/ EngineStep(n) PROVE InCommand'
  BY <1>8, GoroutineSteps
<1>9. CASE \E r \in Inits : CliStep(r)
  BY <1>9, CliSteps
<1> QED
  BY <1>1, <1>2, <1>3, <1>4, <1>5, <1>6, <1>7, <1>8, <1>9 DEF Next, LeaderStep

(* A step that leaves Redis alone and the leader where it is, or on its    *)
(* way to redis-cli.                                                       *)
LEMMA RedisRests ==
    ASSUME TypeOK, Created, Told, LeadDone, [Next]_vars, UNCHANGED <<redis, runs>>,
           pc'[Lead] \notin {"redis", "done", "idle"} => pc[Lead] \notin {"redis", "done", "idle"},
           pc'[Lead] = "done" => pc[Lead] = "done"
    PROVE  Told' /\ LeadDone'
<1>1. \A n \in Nodes : Running(n) => Running(n)'
  BY RunningStays
<1>2. UNCHANGED <<teller, cli, runs>>
  BY DEF redis
<1> QED
  BY <1>1, <1>2 DEF Told, LeadDone

(* What redis-cli does is known to the nodes before the leader hears of it.*)
LEMMA NextTold ==
    ASSUME TypeOK, Created, InCommand, Told, LeadDone, [Next]_vars
    PROVE  Told' /\ LeadDone'
<1>0. /\ \A n \in Nodes : Running(n) => Running(n)'
      /\ Lead \in Nodes /\ runs \in Nat /\ \A r \in Inits : r \in Nat
      /\ pc \in [Nodes -> {"idle", "network", "createNetwork", "volume", "container", "start",
                           "list", "health", "cluster", "redis", "done"}]
      /\ cli \in [Inits -> {"none", "asking", "joining", "ok", "failed"}]
      /\ teller \in {0} \cup Inits
  BY RunningStays, LeadInNodes, BringupAssumption DEF TypeOK, EngineTypes, CommandTypes, Inits
<1>1. CASE UNCHANGED vars
  BY <1>1, RedisRests DEF vars, redis, command
<1>2. CASE Start
  <2>1. /\ UNCHANGED <<teller, cli>> /\ runs' = runs + 1 /\ pc'[Lead] = "network"
    BY <1>0, <1>2 DEF Start, redis
  <2>2. \A r \in Inits : r <= runs => r <= runs' /\ r # runs'
    BY <1>0, <2>1
  <2>3. \A r \in Inits : cli'[r] # "none" => r <= runs' /\ r # runs'
    BY <2>1, <2>2 DEF Told
  <2>4. teller' <= runs'
    BY <1>0, <2>1 DEF Told, Inits
  <2>5. \A r \in Inits : cli'[r] \in {"joining", "ok"} =>
            teller' = r /\ \A n \in Nodes : Running(n)'
    BY <1>0, <2>1 DEF Told
  <2> QED
    BY <2>1, <2>3, <2>4, <2>5 DEF Told, LeadDone
<1>3. CASE Kill \/ SpawnFails
  BY <1>0, <1>3, RedisRests DEF Kill, SpawnFails, Fatal, Fail
<1>4. CASE ClusterCreate
  <2>1. /\ runs \in Inits /\ pc'[Lead] = "redis" /\ UNCHANGED <<teller, runs>>
        /\ cli' = [cli EXCEPT ![runs] = "asking"]
    BY <1>0, <1>4 DEF ClusterCreate, Cli, Goto, command, InCommand, TypeOK, Inits
  <2>2. \A r \in Inits : cli'[r] = cli[r] \/ (r = runs /\ cli'[r] = "asking")
    BY <1>0, <2>1
  <2>3. \A r \in Inits : cli'[r] # "none" => r <= runs
    BY <1>0, <2>2 DEF Told
  <2>4. \A r \in Inits : cli'[r] \in {"joining", "ok"} => cli'[r] = cli[r]
    BY <2>2
  <2> QED
    BY <1>0, <2>1, <2>3, <2>4 DEF Told, LeadDone
<1>5. CASE ClusterRefused
  <2>1. /\ cli[runs] = "failed" /\ pc'[Lead] \in {"cluster", "idle"}
        /\ UNCHANGED <<teller, cli, runs>>
    BY <1>0, <1>5 DEF ClusterRefused, Retry, Fail, Goto, redis
  <2> QED
    BY <1>0, <2>1 DEF Told, LeadDone
<1>6. CASE ClusterMade
  <2>1. /\ runs \in Inits /\ cli[runs] = "ok" /\ pc'[Lead] = "done"
        /\ UNCHANGED <<teller, cli, runs>>
    BY <1>0, <1>6 DEF ClusterMade, Goto, redis, command, InCommand, TypeOK, Inits
  <2> QED
    BY <1>0, <2>1 DEF Told, LeadDone
<1>7. CASE Finish
  BY <1>7, RedisRests DEF Finish
<1>8. CASE \E b \in Boxes : BecomesHealthy(b)
  BY <1>8, RedisRests DEF BecomesHealthy, command
<1>9. ASSUME NEW n \in Nodes, Step(n) \/ EngineStep(n) PROVE Told' /\ LeadDone'
  BY <1>0, <1>9, GoroutineSteps, RedisRests
<1>10. ASSUME NEW r \in Inits, CliStep(r) PROVE Told' /\ LeadDone'
  <2>1. /\ UNCHANGED <<pc, runs>> /\ cli[r] \in {"asking", "joining"}
        /\ cli' = [cli EXCEPT ![r] = cli'[r]]
    BY <1>10, CliSteps DEF command
  <2>2. r <= runs /\ \A q \in Inits : q # r => cli'[q] = cli[q]
    BY <1>0, <2>1 DEF Told
  <2>3. /\ \A q \in Inits : cli'[q] # "none" => q <= runs
        /\ pc'[Lead] \notin {"redis", "done", "idle"} =>
              \A q \in Inits : q = runs => cli'[q] \in {"none", "failed"}
        /\ LeadDone'
    BY <2>1, <2>2 DEF Told, LeadDone
  <2>4. CASE teller' = teller /\ (cli'[r] = "failed" \/ (cli[r] = "joining" /\ cli'[r] = "ok"))
    <3>1. \A q \in Inits : cli'[q] \in {"joining", "ok"} => cli[q] \in {"joining", "ok"}
      BY <2>2, <2>4
    <3>2. \A q \in Inits : cli'[q] \in {"joining", "ok"} =>
              teller' = q /\ \A n \in Nodes : Running(n)'
      BY <1>0, <2>4, <3>1 DEF Told
    <3> QED
      BY <2>1, <2>3, <2>4, <3>2 DEF Told
  <2>5. CASE teller = 0 /\ teller' = r /\ cli'[r] = "joining" /\ \A n \in Nodes : Running(n)
    <3>1. \A q \in Inits : q # 0
      BY DEF Inits
    <3>2. \A q \in Inits : cli'[q] \in {"joining", "ok"} => q = r
      BY <2>2, <2>5, <3>1 DEF Told
    <3>3. \A q \in Inits : cli'[q] \in {"joining", "ok"} =>
              teller' = q /\ \A n \in Nodes : Running(n)'
      BY <1>0, <2>5, <3>2
    <3> QED
      BY <2>1, <2>2, <2>3, <2>5, <3>3 DEF Told
  <2> QED
    BY <1>10, <2>4, <2>5, CliSteps
<1> QED
  BY <1>1, <1>2, <1>3, <1>4, <1>5, <1>6, <1>7, <1>8, <1>9, <1>10 DEF Next, LeaderStep

(* The network stays, and nodes that were told of others. *)
LEMMA NextSinceBefore ==
    ASSUME TypeOK, Told, SinceBefore, [Next]_vars
    PROVE  SinceBefore'
<1> USE LeadInNodes DEF SinceBefore
<1>0. /\ before \in [network : {"none", "made"}, teller : {0} \cup Inits, faults : Nat]
      /\ runs \in Nat /\ faults \in Nat /\ \A r \in Inits : r \in Nat
      /\ teller \in {0} \cup Inits /\ network \in {"none", "made"}
      /\ pc \in [Nodes -> {"idle", "network", "createNetwork", "volume", "container", "start",
                           "list", "health", "cluster", "redis", "done"}]
  BY BringupAssumption DEF TypeOK, EngineTypes, CommandTypes, Inits
<1>1. CASE UNCHANGED vars
  BY <1>1 DEF vars, redis, engine, command
<1>2. CASE Start
  <2>1. /\ before' = [network |-> network, teller |-> teller, faults |-> faults]
        /\ UNCHANGED <<network, teller, faults>> /\ runs' = runs + 1
        /\ pc' = [n \in Nodes |-> "network"]
    BY <1>2 DEF Start, engine, redis
  <2>2. teller <= runs
    BY DEF Told
  <2> QED
    BY <1>0, <2>1, <2>2
<1>3. CASE Kill \/ SpawnFails \/ ClusterRefused \/ ClusterCreate \/ ClusterMade
  <2>1. /\ UNCHANGED <<network, teller, before, runs>> /\ faults' \in {faults, faults + 1}
        /\ \A n \in Nodes : pc'[n] = "createNetwork" => pc[n] = "createNetwork"
    BY <1>0, <1>3 DEF Kill, SpawnFails, ClusterRefused, Retry, Fatal, Fail, Fault, Goto,
       ClusterCreate, ClusterMade, engine, redis, command
  <2> QED
    BY <1>0, <2>1
<1>4. CASE Finish \/ \E b \in Boxes : BecomesHealthy(b)
  <2>1. UNCHANGED <<network, teller, before, runs, faults, pc>>
    BY <1>4 DEF Finish, BecomesHealthy, engine, redis, command
  <2> QED
    BY <2>1
<1>5. ASSUME NEW n \in Nodes, Step(n) \/ EngineStep(n) PROVE SinceBefore'
  <2>1. /\ UNCHANGED <<teller, before, runs>> /\ faults' \in {faults, faults + 1}
        /\ network = "made" => network' = "made"
        /\ \A m \in Nodes : pc'[m] = "createNetwork" /\ pc[m] # "createNetwork"
                              => network = "none" \/ faults' = faults + 1
    BY <1>5, GoroutineSteps DEF redis
  <2> QED
    BY <1>0, <2>1
<1>6. ASSUME NEW r \in Inits, CliStep(r) PROVE SinceBefore'
  <2>1. /\ UNCHANGED <<network, before, runs, pc>> /\ faults' \in {faults, faults + 1}
        /\ teller' = teller \/ teller = 0
    BY <1>6, CliSteps DEF engine, command
  <2> QED
    BY <1>0, <2>1
<1> QED
  BY <1>1, <1>2, <1>3, <1>4, <1>5, <1>6 DEF Next, LeaderStep

(* The command ends well only when the leader is done. *)
LEMMA NextEnds ==
    ASSUME TypeOK, Created, InCommand, Told, LeadDone, EndsWhole, [Next]_vars
    PROVE  EndsWhole'
<1>0. /\ \A n \in Nodes : Running(n) => Running(n)'
      /\ Lead \in Nodes /\ runs \in 0..MaxRuns
  BY RunningStays, LeadInNodes DEF TypeOK
<1>1. CASE UNCHANGED <<cli, runs, state>>
  BY <1>0, <1>1 DEF EndsWhole
<1>2. CASE Finish
  <2>1. pc[Lead] = "done" /\ UNCHANGED <<cli, runs>>
    BY <1>0, <1>2 DEF Finish, redis
  <2>2. runs \in Inits /\ cli[runs] = "ok"
    BY <2>1 DEF LeadDone
  <2> QED
    BY <1>0, <2>1, <2>2 DEF Told, EndsWhole
<1>3. CASE state' \in {"running", "failed"}
  BY <1>3 DEF EndsWhole
<1>4. ASSUME NEW r \in Inits, CliStep(r) PROVE EndsWhole'
  <2>1. UNCHANGED <<runs, state>> /\ cli[r] # "ok" /\ cli' = [cli EXCEPT ![r] = cli'[r]]
    BY <1>4, CliSteps DEF command
  <2>2. cli \in [Inits -> {"none", "asking", "joining", "ok", "failed"}]
    BY DEF TypeOK, EngineTypes
  <2>3. runs > 0 => runs \in Inits
    BY <1>0, BringupAssumption DEF Inits
  <2>4. runs > 0 /\ cli[runs] = "ok" => cli'[runs] = "ok"
    BY <2>1, <2>2, <2>3
  <2> QED
    BY <1>0, <2>1, <2>4 DEF EndsWhole
<1>5. ASSUME NEW n \in Nodes, Step(n) \/ EngineStep(n)
      PROVE  UNCHANGED <<cli, runs, state>> \/ state' = "failed"
  BY <1>5, GoroutineSteps DEF redis
<1>6. ClusterCreate => state' = "running"
  BY <1>0 DEF ClusterCreate, InCommand, command
<1>7. Start => state' = "running"
  BY DEF Start
<1>8. Kill \/ SpawnFails => state' = "failed"
  BY DEF Kill, SpawnFails, Fatal, Fail
<1>9. ClusterMade \/ ClusterRefused => UNCHANGED <<cli, runs, state>> \/ state' = "failed"
  BY DEF ClusterMade, ClusterRefused, Retry, Fail, redis, command
<1>10. UNCHANGED vars \/ (\E b \in Boxes : BecomesHealthy(b)) => UNCHANGED <<cli, runs, state>>
  BY DEF vars, BecomesHealthy, redis, command
<1> QED
  BY <1>1, <1>2, <1>3, <1>4, <1>5, <1>6, <1>7, <1>8, <1>9, <1>10 DEF Next, LeaderStep

(* A goroutine leaves the health checks of its container when it is healthy. *)
LEMMA NextAwaited ==
    ASSUME TypeOK, Created, OwnWatched, ContainersAwaited, [Next]_vars
    PROVE  ContainersAwaited'
<1> USE BoxNodes DEF TypeOK, EngineTypes, CommandTypes, engine, redis, command,
        Goto, Fault, ContainersAwaited, OwnWatched, At
<1>1. CASE UNCHANGED vars
  BY <1>1 DEF vars
<1>2. CASE Start
  BY <1>2 DEF Start
<1>3. CASE Kill \/ SpawnFails
  BY <1>3 DEF Kill, SpawnFails, Fatal, Fail
<1>4. CASE ClusterCreate
  BY <1>4 DEF ClusterCreate, Cli
<1>5. CASE ClusterRefused
  BY <1>5 DEF ClusterRefused, Retry, Fail
<1>6. CASE ClusterMade
  BY <1>6 DEF ClusterMade
<1>10. CASE \E r \in Inits : CliStep(r)
  BY <1>10, CliSteps
<1>7. CASE Finish
  BY <1>7 DEF Finish
<1>8. CASE \E b \in Boxes : BecomesHealthy(b)
  <2>1. PICK c \in Boxes : BecomesHealthy(c)
    BY <1>8
  <2> QED
    BY <2>1 DEF BecomesHealthy
<1>9. ASSUME NEW n \in Nodes, Step(n) \/ EngineStep(n)
      PROVE  ContainersAwaited'
  <2>0. Box(n) \in Boxes /\ Box(n)[1] = n /\ Box(n)[2] = stage[n]
      /\ \A b \in Boxes : b[1] = n /\ b[2] = stage[n] => b = Box(n)
    BY BoxAt DEF TypeOK
  <2>1. CASE Ensure(n)
    BY <2>1, <2>0 DEF Ensure
  <2>17. CASE EnsureErrs(n)
    BY <2>17, <2>0 DEF EnsureErrs
  <2>2. CASE NetworkCreate(n)
    BY <2>2, <2>0 DEF NetworkCreate
  <2>3. CASE NetworkRefused(n)
    BY <2>3, <2>0 DEF NetworkRefused, Fatal, Fail
  <2>4. CASE Vol(n)
    BY <2>4, <2>0 DEF Vol
  <2>5. CASE VolLost(n)
    BY <2>5, <2>0 DEF VolLost
  <2>6. CASE VolFails(n)
    BY <2>6, <2>0 DEF VolFails, Fatal, Fail
  <2>7. CASE JoinFails(n)
    BY <2>7, <2>0 DEF JoinFails, Fatal, Fail
  <2>8. CASE ContainerCreate(n)
    BY <2>8, <2>0 DEF ContainerCreate
  <2>9. CASE Conflict(n)
    <3>1. box[Box(n)] = "healthy" \/ Box(n) \notin mine \/ state = "failed"
      BY <2>9, <2>0 DEF Conflict
    <3>2. \A b \in mine : b[1] = n => box[b] = "healthy" \/ state = "failed"
      BY <2>9, <2>0, <3>1 DEF Conflict
    <3>3. /\ \A m \in Nodes : m # n => pc'[m] = pc[m] /\ stage'[m] = stage[m]
          /\ UNCHANGED <<box, mine, state>>
      BY <2>9 DEF Conflict, Onward
    <3> QED
      BY <3>2, <3>3
  <2>10. CASE ContainerStart(n)
    BY <2>10, <2>0 DEF ContainerStart
  <2>11. CASE StartFails(n)
    BY <2>11, <2>0 DEF StartFails, Fatal, Fail
  <2>12. CASE WaitHealthy(n)
    BY <2>12, <2>0 DEF WaitHealthy, Prefixed
  <2>13. CASE Healthy(n)
    <3>1. box[Box(n)] = "healthy" \/ Box(n) \notin mine \/ state = "failed"
      BY <2>13, <2>0 DEF Healthy
    <3>2. \A b \in mine : b[1] = n => box[b] = "healthy" \/ state = "failed"
      BY <2>13, <2>0, <3>1 DEF Healthy
    <3>3. /\ \A m \in Nodes : m # n => pc'[m] = pc[m] /\ stage'[m] = stage[m]
          /\ UNCHANGED <<box, mine, state>>
      BY <2>13 DEF Healthy, Onward
    <3> QED
      BY <3>2, <3>3
  <2>14. CASE HealthPanics(n)
    BY <2>14, <2>0 DEF HealthPanics, Fatal, Fail
  <2>15. CASE HealthTimeout(n)
    BY <2>15, <2>0 DEF HealthTimeout, Fatal, Fail
  <2>16. CASE \E b \in Boxes : CheckHealth(n, b)
    <3>1. PICK c \in Boxes : CheckHealth(n, c)
      BY <2>16
    <3> QED
      BY <3>1, <2>0 DEF CheckHealth
  <2> QED
    BY <1>9, <2>0, <2>1, <2>2, <2>3, <2>4, <2>5, <2>6, <2>7, <2>8, <2>9,
       <2>10, <2>11, <2>12, <2>13, <2>14, <2>15, <2>16, <2>17 DEF Step, EngineStep
<1> QED
  BY <1>1, <1>2, <1>3, <1>4, <1>5, <1>6, <1>7, <1>8, <1>9, <1>10 DEF Next, LeaderStep

(* Only the goroutine that created a container starts it. *)
LEMMA NextStranded ==
    ASSUME TypeOK, [Next]_vars, NEW c \in Boxes, Stranded(c)
    PROVE  Stranded(c)'
<1> USE BoxNodes
    DEF TypeOK, EngineTypes, CommandTypes, engine, redis, command, Goto, Fault, Stranded
<1>1. CASE UNCHANGED vars
  BY <1>1 DEF vars
<1>2. CASE Start
  BY <1>2 DEF Start
<1>3. CASE Kill \/ SpawnFails
  BY <1>3 DEF Kill, SpawnFails, Fatal, Fail
<1>4. CASE ClusterCreate
  BY <1>4 DEF ClusterCreate, Cli
<1>5. CASE ClusterRefused
  BY <1>5 DEF ClusterRefused, Retry, Fail
<1>6. CASE ClusterMade
  BY <1>6 DEF ClusterMade
<1>10. CASE \E r \in Inits : CliStep(r)
  BY <1>10, CliSteps
<1>7. CASE Finish
  BY <1>7 DEF Finish
<1>8. CASE \E b \in Boxes : BecomesHealthy(b)
  BY <1>8 DEF BecomesHealthy
<1>9. ASSUME NEW n \in Nodes, Step(n) \/ EngineStep(n)
      PROVE  Stranded(c)'
  <2>0. Box(n) \in Boxes /\ Box(n)[1] = n /\ Box(n)[2] = stage[n]
      /\ \A b \in Boxes : b[1] = n /\ b[2] = stage[n] => b = Box(n)
    BY BoxAt DEF TypeOK
  <2>1. CASE Ensure(n)
    BY <2>1, <2>0 DEF Ensure
  <2>17. CASE EnsureErrs(n)
    BY <2>17, <2>0 DEF EnsureErrs
  <2>2. CASE NetworkCreate(n)
    BY <2>2, <2>0 DEF NetworkCreate
  <2>3. CASE NetworkRefused(n)
    BY <2>3, <2>0 DEF NetworkRefused, Fatal, Fail
  <2>4. CASE Vol(n)
    BY <2>4, <2>0 DEF Vol
  <2>5. CASE VolLost(n)
    BY <2>5, <2>0 DEF VolLost
  <2>6. CASE VolFails(n)
    BY <2>6, <2>0 DEF VolFails, Fatal, Fail
  <2>7. CASE JoinFails(n)
    BY <2>7, <2>0 DEF JoinFails, Fatal, Fail
  <2>8. CASE ContainerCreate(n)
    BY <2>8, <2>0 DEF ContainerCreate
  <2>9. CASE Conflict(n)
    BY <2>9, <2>0 DEF Conflict, Onward
  <2>10. CASE ContainerStart(n)
    BY <2>10, <2>0 DEF ContainerStart
  <2>11. CASE StartFails(n)
    BY <2>11, <2>0 DEF StartFails, Fatal, Fail
  <2>12. CASE WaitHealthy(n)
    BY <2>12, <2>0 DEF WaitHealthy, Prefixed
  <2>13. CASE Healthy(n)
    BY <2>13, <2>0 DEF Healthy, Onward
  <2>14. CASE HealthPanics(n)
    BY <2>14, <2>0 DEF HealthPanics, Fatal, Fail
  <2>15. CASE HealthTimeout(n)
    BY <2>15, <2>0 DEF HealthTimeout, Fatal, Fail
  <2>16. CASE \E b \in Boxes : CheckHealth(n, b)
    BY <2>16, <2>0 DEF CheckHealth
  <2> QED
    BY <1>9, <2>0, <2>1, <2>2, <2>3, <2>4, <2>5, <2>6, <2>7, <2>8, <2>9,
       <2>10, <2>11, <2>12, <2>13, <2>14, <2>15, <2>16, <2>17 DEF Step, EngineStep
<1> QED
  BY <1>1, <1>2, <1>3, <1>4, <1>5, <1>6, <1>7, <1>8, <1>9, <1>10 DEF Next, LeaderStep

(* The invariant is inductive. *)
LEMMA NextInductive == ASSUME Typed, Inductive, [Next]_vars PROVE Inductive'
<1>1. TypeOK
  BY DEF Typed
<1>2. Created' /\ OwnWatched' /\ ContainersAwaited'
  BY <1>1, NextCreated, NextOwnWatched, NextAwaited DEF Inductive
<1>3. InCommand' /\ Told' /\ LeadDone' /\ SinceBefore' /\ EndsWhole'
  BY <1>1, NextInCommand, NextTold, NextSinceBefore, NextEnds DEF Inductive
<1> QED
  BY <1>2, <1>3 DEF Inductive

(* Both invariants hold in every reachable state. *)
THEOREM Invariants == Spec => [](Typed /\ Inductive)
<1>1. Typed /\ Inductive /\ [Next]_vars => (Typed /\ Inductive)'
  BY NextEngineTypes, NextCommandTypes, NextCounters, NextInductive DEF Typed, TypeOK
<1> QED
  BY <1>1, InitTyped, InitInductive, PTL DEF Spec

(* An init that ends well has made a cluster of nodes that all run. *)
THEOREM EndsWholeAlways == Spec => []EndsWhole
<1>1. Inductive => EndsWhole
  BY DEF Inductive
<1> QED
  BY <1>1, Invariants, PTL

(* A goroutine waits for the health of every container it started. *)
THEOREM ContainersAreAwaited == Spec => []ContainersAwaited
<1>1. Inductive => ContainersAwaited
  BY DEF Inductive
<1> QED
  BY <1>1, Invariants, PTL

(* No init ends well that found nodes which know of others. *)
THEOREM InitSucceedsOnce == Spec => []InitOnce
<1>1. ASSUME Typed, Inductive, state = "ok" PROVE before.teller = 0
  <2>1. /\ runs \in 0..MaxRuns /\ MaxRuns \in Nat
        /\ before.teller # 0 => before.teller < runs /\ teller = before.teller
        /\ before.teller \in {0} \cup Inits
    BY <1>1, BringupAssumption DEF Inductive, SinceBefore, Typed, TypeOK, CommandTypes
  <2>2. runs > 0 => runs \in Inits /\ teller = runs
    BY <1>1, <2>1 DEF Inductive, EndsWhole, Told, Inits
  <2> QED
    BY <2>1, <2>2 DEF Inits
<1>2. Typed /\ Inductive => InitOnce
  BY <1>1 DEF InitOnce
<1> QED
  BY <1>2, Invariants, PTL

(* While the engine answers its inspections, the network is refused only   *)
(* in the init that makes it.                                              *)
THEOREM RefusedOnlyAtFirst == Spec => RefusedAtFirst
<1>1. ASSUME Typed, Inductive, NEW n \in Nodes, NetworkRefused(n), faults = before.faults
      PROVE  before.network = "none"
  <2>1. ~(before.faults < faults)
    BY <1>1 DEF Typed, TypeOK
  <2> QED
    BY <1>1, <2>1 DEF Inductive, SinceBefore, NetworkRefused
<1>2. Typed /\ Inductive /\ [Next]_vars
        => [\A n \in Nodes : NetworkRefused(n) /\ faults = before.faults
                                => before.network = "none"]_vars
  BY <1>1
<1> QED
  BY <1>2, Invariants, PTL DEF Spec, RefusedAtFirst

(* A container left between its creation and its start is never started. *)
THEOREM StrandedForGood == Spec => StrandedStays
<1>1. TypeOK /\ [Next]_vars => [\A b \in Boxes : Stranded(b) => Stranded(b)']_vars
  BY NextStranded
<1> QED
  BY <1>1, TypeCorrect, PTL DEF Spec, StrandedStays

-----------------------------------------------------------------------------
(* Bringup keeps the promise of ClusterInit. *)

(* The cluster is formed when some redis-cli has made it. *)
LEMMA FormedByCli ==
    ASSUME Told
    PROVE  /\ Formed <=> \E r \in Inits : cli[r] = "ok"
           /\ Formed = (\E r \in Inits : cli[r] = "ok")
  BY DEF Formed, Told

(* So it is in the next state. *)
LEMMA FormedByCliNext ==
    ASSUME Told'
    PROVE  /\ Formed' <=> \E r \in Inits : cli'[r] = "ok"
           /\ Formed' = (\E r \in Inits : cli'[r] = "ok")
  BY DEF Formed, Told

(* A redis-cli tells the first node, forms the cluster, or fails. *)
LEMMA CliRefines ==
    ASSUME TypeOK, Told, Told', NEW r \in Inits, CliStep(r)
    PROVE  [Promise!Next]_(Promise!vars)
<1>1. /\ UNCHANGED <<runs, state>>
      /\ cli[r] \in {"asking", "joining"}
      /\ cli' = [cli EXCEPT ![r] = cli'[r]]
      /\ \/ teller' = teller /\ cli'[r] = "failed"
         \/ teller' = teller /\ cli[r] = "joining" /\ cli'[r] = "ok"
         \/ teller = 0 /\ teller' = r /\ cli'[r] = "joining"
  BY CliSteps DEF command
<1>2. /\ Formed = (\E q \in Inits : cli[q] = "ok")
      /\ Formed' = (\E q \in Inits : cli'[q] = "ok")
      /\ Formed <=> \E q \in Inits : cli[q] = "ok"
      /\ Formed' <=> \E q \in Inits : cli'[q] = "ok"
  BY FormedByCli, FormedByCliNext
<1>3. Phase' = Phase
  BY <1>1 DEF Phase
<1>4. \A q \in Inits : q # r => cli'[q] = cli[q]
  BY <1>1 DEF TypeOK, EngineTypes
<1>5. CASE teller' = teller /\ cli'[r] = "failed"
  <2>1. Formed' <=> Formed
    BY <1>1, <1>2, <1>4, <1>5
  <2>2. Formed' = Formed
    BY <1>2, <2>1
  <2> QED
    BY <1>1, <1>3, <1>5, <2>2 DEF Promise!vars
<1>6. CASE teller' = teller /\ cli[r] = "joining" /\ cli'[r] = "ok"
  <2>1. teller = r /\ r # 0
    BY <1>6 DEF Told, Inits
  <2>2. ~ \E q \in Inits : cli[q] = "ok"
    BY <1>6, <2>1 DEF Told
  <2>3. ~Formed /\ Formed' = TRUE
    BY <1>2, <1>6, <2>2
  <2>4. Promise!Form
    BY <1>1, <1>3, <1>6, <2>1, <2>3 DEF Promise!Form
  <2> QED
    BY <2>4 DEF Promise!Next
<1>7. CASE teller = 0 /\ teller' = r /\ cli'[r] = "joining"
  <2>1. Formed' <=> Formed
    BY <1>1, <1>2, <1>4, <1>7
  <2>2. Formed' = Formed
    BY <1>2, <2>1
  <2>3. cli[r] # "none" /\ runs \in Nat
    BY <1>1 DEF TypeOK
  <2>4. r \in 1..runs
    BY <2>3, BringupAssumption DEF Told, Inits
  <2>5. Promise!Tell(r)
    BY <1>1, <1>3, <1>7, <2>2 DEF Promise!Tell
  <2> QED
    BY <2>4, <2>5 DEF Promise!Next
<1> QED
  BY <1>1, <1>5, <1>6, <1>7

(* Every step is one of the promise, or is not seen by it. *)
LEMMA StepRefines ==
    ASSUME Typed, Inductive, Inductive', [Next]_vars
    PROVE  [Promise!Next]_(Promise!vars)
<1>1. /\ Formed = (\E q \in Inits : cli[q] = "ok")
      /\ Formed' = (\E q \in Inits : cli'[q] = "ok")
      /\ Formed <=> \E q \in Inits : cli[q] = "ok"
      /\ Formed' <=> \E q \in Inits : cli'[q] = "ok"
  BY FormedByCli, FormedByCliNext DEF Inductive
<1>2. TypeOK /\ InCommand /\ Told /\ Told' /\ LeadDone /\ runs \in Nat /\ Lead \in Nodes
  BY LeadInNodes DEF Typed, TypeOK, Inductive
<1>3. CASE UNCHANGED <<teller, cli, runs, state>>
  <2>1. Formed' = Formed /\ Phase' = Phase
    BY <1>1, <1>3 DEF Phase
  <2> QED
    BY <1>3, <2>1 DEF Promise!vars
<1>4. CASE /\ state = "running" /\ state' = "failed"
           /\ UNCHANGED <<teller, cli, runs>>
  <2>1. Formed' = Formed /\ Phase = "running" /\ Phase' = "failed"
    BY <1>1, <1>2, <1>4 DEF InCommand, Phase
  <2>2. Promise!Fail
    BY <1>4, <2>1 DEF Promise!Fail
  <2> QED
    BY <2>2 DEF Promise!Next
<1>5. CASE Start
  <2>1. /\ UNCHANGED <<teller, cli>> /\ state # "running" /\ state' = "running"
        /\ runs' = runs + 1 /\ runs' # 0
    BY <1>2, <1>5, StartCommands DEF Start, redis
  <2>2. Formed' = Formed /\ Phase # "running" /\ Phase' = "running"
    BY <1>1, <2>1 DEF Phase
  <2>3. Promise!Begin
    BY <2>1, <2>2 DEF Promise!Begin
  <2> QED
    BY <2>3 DEF Promise!Next
<1>6. CASE ClusterCreate
  <2>1. /\ cli' = [cli EXCEPT ![runs] = "asking"] /\ UNCHANGED <<teller, runs, state>>
        /\ pc[Lead] = "cluster"
    BY <1>6 DEF ClusterCreate, Cli, command
  <2>2. \A q \in Inits : q = runs => cli[q] # "ok"
    BY <1>2, <2>1 DEF Told
  <2>3. \A q \in Inits : cli'[q] = "ok" <=> cli[q] = "ok"
    BY <1>2, <2>1, <2>2 DEF TypeOK, EngineTypes
  <2>4. Formed' <=> Formed
    BY <1>1, <2>3
  <2>5. Formed' = Formed
    BY <1>1, <2>4
  <2> QED
    BY <2>1, <2>5 DEF Promise!vars, Phase
<1>7. CASE ClusterMade
  BY <1>3, <1>7 DEF ClusterMade, redis, command
<1>8. CASE ClusterRefused
  <2>1. state = "running" /\ state' \in {state, "failed"} /\ UNCHANGED <<teller, cli, runs>>
    BY <1>2, <1>8 DEF ClusterRefused, Retry, Fail, redis, InCommand
  <2> QED
    BY <1>3, <1>4, <2>1
<1>9. CASE Kill \/ SpawnFails
  <2>1. state = "running" /\ state' = "failed" /\ UNCHANGED <<teller, cli, runs>>
    BY <1>2, <1>9 DEF Kill, SpawnFails, Fatal, Fail, redis, InCommand
  <2> QED
    BY <1>4, <2>1
<1>10. CASE Finish
  <2>1. /\ state = "running" /\ state' = "ok" /\ runs # 0 /\ pc[Lead] = "done"
        /\ UNCHANGED <<teller, cli, runs>>
    BY <1>2, <1>10 DEF Finish, InCommand, redis
  <2>2. runs \in Inits /\ cli[runs] = "ok" /\ teller = runs
    BY <1>2, <2>1 DEF LeadDone, Told
  <2>3. Formed /\ Formed' = Formed /\ Phase = "running" /\ Phase' = "ok"
    BY <1>1, <2>1, <2>2 DEF Phase
  <2>4. Promise!Succeed
    BY <2>1, <2>2, <2>3 DEF Promise!Succeed
  <2> QED
    BY <2>4 DEF Promise!Next
<1>11. ASSUME NEW n \in Nodes, Step(n) \/ EngineStep(n)
       PROVE  [Promise!Next]_(Promise!vars)
  <2>1. /\ state = "running" /\ state' \in {state, "failed"}
        /\ UNCHANGED <<teller, cli, runs>>
    BY <1>2, <1>11, GoroutineSteps DEF InCommand, redis
  <2> QED
    BY <1>3, <1>4, <2>1
<1>12. ASSUME NEW r \in Inits, CliStep(r)
       PROVE  [Promise!Next]_(Promise!vars)
  BY <1>2, <1>12, CliRefines
<1>13. UNCHANGED vars \/ (\E b \in Boxes : BecomesHealthy(b))
         => UNCHANGED <<teller, cli, runs, state>>
  BY DEF vars, BecomesHealthy, redis, command
<1> QED
  BY <1>3, <1>5, <1>6, <1>7, <1>8, <1>9, <1>10, <1>11, <1>12, <1>13 DEF Next, LeaderStep

(* An init that ends without an error has said the truth of the cluster,   *)
(* also next to a redis-cli that the process of an earlier one has left:   *)
(* the goroutines keep a promise that one process without them would keep. *)
THEOREM Refinement == Spec => ImplementsInit
<1>1. Init => Promise!Init
  BY DEF Init, Promise!Init, Phase, Formed
<1>2. Typed /\ Inductive /\ Inductive' /\ [Next]_vars => [Promise!Next]_(Promise!vars)
  BY StepRefines
<1> QED
  BY <1>1, <1>2, Invariants, PTL DEF Spec, ImplementsInit, Promise!Spec

-----------------------------------------------------------------------------
(* Why init ends: a goroutine only ever moves on.                          *)

Rank(p) == CASE p = "network" -> 1 [] p = "createNetwork" -> 2 [] p = "volume" -> 3
             [] p = "container" -> 4 [] p = "start" -> 5 [] p = "list" -> 6
             [] p = "health" -> 7 [] p = "cluster" -> 8 [] p = "redis" -> 9
             [] p = "done" -> 10 [] OTHER -> 0

(* At a later container, or further with the same one, or with fewer to    *)
(* wait for; these are bounded by Services, by 10 and by Boxes.            *)
MovesOn(n) ==
    \/ stage'[n] > stage[n]
    \/ stage'[n] = stage[n] /\ Rank(pc'[n]) > Rank(pc[n])
    \/ UNCHANGED <<stage[n], pc[n]>> /\ watched'[n] \subseteq watched[n] /\ watched'[n] # watched[n]

(* Each step of a goroutine moves it on, counts an attempt at the cluster  *)
(* or ends the command, and while the command runs no step of anybody      *)
(* moves a goroutine back otherwise: createNode has no loop but those of   *)
(* WaitHealthy and Retry.                                                  *)
Progress ==
    [][/\ \A n \in Nodes : Step(n) \/ EngineStep(n) => MovesOn(n) \/ state' = "failed"
       /\ LeaderStep => MovesOn(Lead) \/ attempt' > attempt
       /\ \A n \in Nodes : state = "running" /\ state' = "running"
             => \/ MovesOn(n) \/ attempt' > attempt
                \/ UNCHANGED <<stage[n], pc[n], watched[n]>>]_vars

(* The points of createNode in their order. *)
LEMMA Ranks ==
    /\ Rank("network") = 1 /\ Rank("createNetwork") = 2 /\ Rank("volume") = 3
    /\ Rank("container") = 4 /\ Rank("start") = 5 /\ Rank("list") = 6
    /\ Rank("health") = 7 /\ Rank("cluster") = 8 /\ Rank("redis") = 9
    /\ Rank("done") = 10
  BY DEF Rank

(* The next container, or the end of the last, is further on. *)
LEMMA OnwardIsOn ==
    ASSUME CommandTypes, NEW n \in Nodes, pc[n] \in {"container", "health"}, Onward(n)
    PROVE  MovesOn(n)
<1>0. stage[n] \in 1..Services
  BY DEF CommandTypes
<1>1. stage[n] \in Int
  BY <1>0
<1>2. CASE stage[n] < Services
  <2>1. stage'[n] = stage[n] + 1
    BY <1>2 DEF Onward, CommandTypes
  <2> QED
    BY <1>1, <2>1 DEF MovesOn
<1>3. CASE ~(stage[n] < Services)
  <2>1. stage'[n] = stage[n] /\ pc'[n] \in {"cluster", "done"}
    BY <1>3 DEF Onward, CommandTypes, Goto
  <2>2. Rank(pc'[n]) > Rank(pc[n])
    BY <2>1, Ranks
  <2> QED
    BY <2>1, <2>2 DEF MovesOn
<1> QED
  BY <1>2, <1>3

(* Each step of a goroutine, with what may happen to its helpers. *)
LEMMA StepMovesOn ==
    ASSUME TypeOK, NEW n \in Nodes,
           Step(n) \/ EngineStep(n)
    PROVE  MovesOn(n) \/ state' = "failed"
<1> USE DEF TypeOK, CommandTypes
<1>1. CASE Ensure(n)
  <2>1. stage'[n] = stage[n] /\ pc[n] = "network" /\ pc'[n] \in {"volume", "createNetwork"}
    BY <1>1 DEF Ensure, Goto
  <2> QED
    BY <2>1, Ranks DEF MovesOn
<1>17. CASE EnsureErrs(n)
  <2>1. stage'[n] = stage[n] /\ pc[n] = "network" /\ pc'[n] = "createNetwork"
    BY <1>17 DEF EnsureErrs, Goto
  <2> QED
    BY <2>1, Ranks DEF MovesOn
<1>2. CASE NetworkCreate(n)
  <2>1. stage'[n] = stage[n] /\ pc[n] = "createNetwork" /\ pc'[n] = "volume"
    BY <1>2 DEF NetworkCreate, Goto
  <2> QED
    BY <2>1, Ranks DEF MovesOn
<1>3. CASE NetworkRefused(n)
  BY <1>3 DEF NetworkRefused, Fatal, Fail
<1>4. CASE Vol(n)
  <2>1. stage'[n] = stage[n] /\ pc[n] = "volume" /\ pc'[n] = "container"
    BY <1>4 DEF Vol, Goto
  <2> QED
    BY <2>1, Ranks DEF MovesOn
<1>5. CASE VolLost(n)
  <2>1. stage'[n] = stage[n] /\ pc[n] = "volume" /\ pc'[n] = "container"
    BY <1>5 DEF VolLost, Goto
  <2> QED
    BY <2>1, Ranks DEF MovesOn
<1>6. CASE VolFails(n)
  BY <1>6 DEF VolFails, Fatal, Fail
<1>7. CASE JoinFails(n)
  BY <1>7 DEF JoinFails, Fatal, Fail
<1>8. CASE ContainerCreate(n)
  <2>1. stage'[n] = stage[n] /\ pc[n] = "container" /\ pc'[n] = "start"
    BY <1>8 DEF ContainerCreate, Goto
  <2> QED
    BY <2>1, Ranks DEF MovesOn
<1>9. CASE Conflict(n)
  BY <1>9, OnwardIsOn DEF Conflict
<1>10. CASE ContainerStart(n)
  <2>1. stage'[n] = stage[n] /\ pc[n] = "start" /\ pc'[n] = "list"
    BY <1>10 DEF ContainerStart, Goto
  <2> QED
    BY <2>1, Ranks DEF MovesOn
<1>11. CASE StartFails(n)
  BY <1>11 DEF StartFails, Fatal, Fail
<1>12. CASE WaitHealthy(n)
  <2>1. stage'[n] = stage[n] /\ pc[n] = "list" /\ pc'[n] = "health"
    BY <1>12 DEF WaitHealthy, Goto
  <2> QED
    BY <2>1, Ranks DEF MovesOn
<1>13. CASE Healthy(n)
  BY <1>13, OnwardIsOn DEF Healthy
<1>14. CASE HealthPanics(n)
  BY <1>14 DEF HealthPanics, Fatal, Fail
<1>15. CASE HealthTimeout(n)
  BY <1>15 DEF HealthTimeout, Fatal, Fail
<1>16. CASE \E b \in Boxes : CheckHealth(n, b)
  BY <1>16 DEF CheckHealth, MovesOn
<1> QED
  BY <1>1, <1>2, <1>3, <1>4, <1>5, <1>6, <1>7, <1>8, <1>9, <1>10, <1>11, <1>12,
     <1>13, <1>14, <1>15, <1>16, <1>17 DEF Step, EngineStep

(* An attempt at the cluster is under way, or made, or counted. *)
LEMMA ClusterMovesOn ==
    ASSUME TypeOK, LeaderStep
    PROVE  MovesOn(Lead) \/ attempt' > attempt
<1>1. CASE ClusterCreate
  <2>1. stage'[Lead] = stage[Lead] /\ pc[Lead] = "cluster" /\ pc'[Lead] = "redis"
    BY <1>1, LeadInNodes DEF ClusterCreate, Goto, TypeOK, CommandTypes
  <2> QED
    BY <2>1, Ranks DEF MovesOn
<1>2. CASE ClusterMade
  <2>1. stage'[Lead] = stage[Lead] /\ pc[Lead] = "redis" /\ pc'[Lead] = "done"
    BY <1>2, LeadInNodes DEF ClusterMade, Goto, TypeOK, CommandTypes
  <2> QED
    BY <2>1, Ranks DEF MovesOn
<1>3. CASE ClusterRefused
  <2>1. attempt \in 0..MaxAttempts
    BY DEF TypeOK, CommandTypes
  <2>2. attempt' = attempt + 1
    BY <1>3 DEF ClusterRefused, Retry, Fail
  <2> QED
    BY <2>1, <2>2
<1> QED
  BY <1>1, <1>2, <1>3 DEF LeaderStep

(* While the command runs nobody moves a goroutine back, but for another   *)
(* attempt.                                                                *)
LEMMA NobodyMovesBack ==
    ASSUME TypeOK, [Next]_vars, state = "running", state' = "running", NEW m \in Nodes
    PROVE  MovesOn(m) \/ attempt' > attempt \/ UNCHANGED <<stage[m], pc[m], watched[m]>>
<1>1. ASSUME NEW n \in Nodes, Step(n) \/ EngineStep(n)
      PROVE  MovesOn(m) \/ UNCHANGED <<stage[m], pc[m], watched[m]>>
  <2>1. CASE m = n
    BY <1>1, <2>1, StepMovesOn
  <2>2. CASE m # n
    BY <1>1, <2>2, GoroutineSteps
  <2> QED
    BY <2>1, <2>2
<1>2. CASE LeaderStep
  <2>1. CASE m = Lead
    BY <1>2, <2>1, ClusterMovesOn
  <2>2. CASE m # Lead /\ ~ClusterRefused
    BY <1>2, <2>2 DEF LeaderStep, ClusterCreate, ClusterMade, Goto, TypeOK, CommandTypes
  <2>3. CASE ClusterRefused
    BY <1>2, <2>3 DEF ClusterRefused, Retry, TypeOK, CommandTypes
  <2> QED
    BY <2>1, <2>2, <2>3
<1>3. CASE \E r \in Inits : CliStep(r)
  BY <1>3, CliSteps
<1>4. CASE UNCHANGED vars \/ \E b \in Boxes : BecomesHealthy(b)
  BY <1>4 DEF vars, BecomesHealthy
<1>5. ~Start /\ ~Kill /\ ~SpawnFails /\ ~Finish
  BY DEF Start, Kill, SpawnFails, Fatal, Fail, Finish
<1> QED
  BY <1>1, <1>2, <1>3, <1>4, <1>5 DEF Next

(* The goroutines of a command only move on, each at most through all its  *)
(* containers, and the leader as often as it has attempts.                 *)
THEOREM AllProgress == Spec => Progress
<1>1. TypeOK /\ [Next]_vars
        => [/\ \A n \in Nodes : Step(n) \/ EngineStep(n) => MovesOn(n) \/ state' = "failed"
            /\ LeaderStep => MovesOn(Lead) \/ attempt' > attempt
            /\ \A n \in Nodes : state = "running" /\ state' = "running"
                  => \/ MovesOn(n) \/ attempt' > attempt
                     \/ UNCHANGED <<stage[n], pc[n], watched[n]>>]_vars
  BY StepMovesOn, ClusterMovesOn, NobodyMovesBack
<1> QED
  BY <1>1, TypeCorrect, PTL DEF Spec, Progress
=============================================================================
