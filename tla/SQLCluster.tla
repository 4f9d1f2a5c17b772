----------------------------- MODULE SQLCluster -----------------------------
(***************************************************************************)
(* Bringing up the SQL replicas of one shard: commands/init.go and join.go *)
(* run createNode once per replica, which calls SQLNode.StartSQLContainers *)
(* and through it JoinGroupReplication (db/db.go).  Under `init' the       *)
(* replicas are goroutines of one process, so that a fatal error of one    *)
(* ends them all; under `join' each has a process of its own.  The mysqld  *)
(* servers, the volumes and the group are the environment.                 *)
(***************************************************************************)
EXTENDS Naturals

CONSTANTS Reps,           \* replicas of the shard
          Boot,           \* the replica with RepIndex 0
          Retries,        \* numRetriesJoinGroupReplication
          SharedProcess,  \* TRUE: `init', FALSE: `join'
          WipeAllowed,    \* may deinit be given --remove-volume?
          MaxRuns,        \* bound: invocations of the command
          MaxFaults       \* bound: crashes, timeouts and interrupts

ASSUME ConfigAssumption ==
    /\ Boot \in Reps
    /\ Retries \in Nat \ {0}
    /\ SharedProcess \in BOOLEAN
    /\ WipeAllowed \in BOOLEAN
    /\ MaxRuns \in Nat
    /\ MaxFaults \in Nat

VARIABLES
    pc,          \* where createNode stands for each replica
    tries,       \* attempts of the join loop that are left
    server,      \* mysqld: no container, (re)starting, or accepting queries
    configured,  \* group_replication_* globals are set in the server
    bootstrap,   \* group_replication_bootstrap_group
    group,       \* the group the server is a member of, 0 for none
    user,        \* data volume: 'repl'@'%' exists
    bootFile,    \* config volume: gr-boot.cnf exists
    lost,        \* history: replicas whose gr-boot.cnf the helper did not write
    born,        \* groups bootstrapped so far
    runs,        \* commands launched so far
    faults       \* faults so far

memory == <<configured, bootstrap, group>>
disk   == <<user, bootFile, lost>>
counts == <<runs, faults>>
vars   == <<pc, tries, server, memory, disk, born, counts>>

(* The points of JoinGroupReplication at which a query is sent. *)
Querying == {"configure", "createUser", "grant", "bootstrapOn", "reset",
             "start", "bootstrapOff", "status"}
Active   == Querying \cup {"replica", "health", "router", "wait", "bootFile"}
Ended    == {"idle", "done", "killed"}

(* Calls of the container engine that have no limit in time: the image     *)
(* pulls of StartContainer and Vol, and ContainerWait on Vol's helper.     *)
Unlimited == {"replica", "router", "bootFile"}

Processes == IF SharedProcess THEN {Reps} ELSE {{n} : n \in Reps}
Mates(n)  == IF SharedProcess THEN Reps ELSE {n}

Live == {n \in Reps : group[n] # 0}

Init ==
    /\ pc = [n \in Reps |-> "idle"]
    /\ tries = [n \in Reps |-> Retries]
    /\ server = [n \in Reps |-> "absent"]
    /\ configured = [n \in Reps |-> FALSE]
    /\ bootstrap = [n \in Reps |-> FALSE]
    /\ group = [n \in Reps |-> 0]
    /\ user = [n \in Reps |-> FALSE]
    /\ bootFile = [n \in Reps |-> FALSE]
    /\ lost = {}
    /\ born = 0
    /\ runs = 0
    /\ faults = 0

-----------------------------------------------------------------------------
(* Control flow shared by the steps. *)

Goto(n, l) == pc' = [pc EXCEPT ![n] = l]

(* logger.Fatal exits the process, and with it every goroutine. *)
Fatal(n) == pc' = [m \in Reps |-> IF m \in Mates(n) /\ pc[m] \in Active
                                  THEN "killed" ELSE pc[m]]

Fault == faults < MaxFaults /\ faults' = faults + 1

(* Mutation: the counter of the loop is not moved on. *)
AttemptNotCounted(n) ==
    /\ Goto(n, "wait")
    /\ UNCHANGED <<tries, server, memory, disk, born, runs>>

(* JoinGroupReplication returned an error: the loop sleeps, also after the *)
(* last attempt.                                                           *)
AttemptFails(n) ==
    /\ tries' = [tries EXCEPT ![n] = @ - 1]
    /\ Goto(n, "wait")
    /\ UNCHANGED <<server, memory, disk, born, runs>>

-----------------------------------------------------------------------------
(* The commands. *)

Launch(P) ==
    /\ \A n \in P : pc[n] \in Ended
    /\ runs < MaxRuns
    /\ runs' = runs + 1
    /\ pc' = [n \in Reps |-> IF n \in P THEN "replica" ELSE pc[n]]
    /\ tries' = [n \in Reps |-> IF n \in P THEN Retries ELSE tries[n]]
    /\ UNCHANGED <<server, memory, disk, born, faults>>

(* deinit stops and removes the containers of its host one by one; it may  *)
(* end after any of them ...                                               *)
RemoveContainer(n) ==
    /\ \A m \in Mates(n) : pc[m] \in Ended
    /\ server[n] # "absent"
    /\ Goto(n, "idle")
    /\ server' = [server EXCEPT ![n] = "absent"]
    /\ configured' = [configured EXCEPT ![n] = FALSE]
    /\ bootstrap' = [bootstrap EXCEPT ![n] = FALSE]
    /\ group' = [group EXCEPT ![n] = 0]
    /\ UNCHANGED <<tries, disk, born, counts>>

(* ... and with -v, when none is left, goes on to the volumes.  The two of *)
(* a replica go together.                                                  *)
RemoveVolumes(n) ==
    /\ WipeAllowed
    /\ \A m \in Mates(n) : pc[m] \in Ended /\ server[m] = "absent"
    /\ Goto(n, "idle")
    /\ user' = [user EXCEPT ![n] = FALSE]
    /\ bootFile' = [bootFile EXCEPT ![n] = FALSE]
    /\ lost' = lost \ {n}
    /\ UNCHANGED <<tries, server, memory, born, counts>>

(* The process is interrupted from outside. *)
Interrupt(n) ==
    /\ pc[n] \in Active
    /\ Fault
    /\ Fatal(n)
    /\ UNCHANGED <<tries, server, memory, disk, born, runs>>

-----------------------------------------------------------------------------
(* StartSQLContainers before its join loop. *)

(* StartContainer creates and starts the container, then waits for its     *)
(* health check ...                                                        *)
CreateReplica(n) ==
    /\ pc[n] = "replica"
    /\ server[n] = "absent"
    /\ server' = [server EXCEPT ![n] = "booting"]
    /\ Goto(n, "health")
    /\ UNCHANGED <<tries, memory, disk, born, counts>>

(* ... but takes a container of that name as good, whatever its health. *)
ReplicaExists(n) ==
    /\ pc[n] = "replica"
    /\ server[n] # "absent"
    /\ Goto(n, "router")
    /\ UNCHANGED <<tries, server, memory, disk, born, counts>>

(* The check also passes on the server that the image runs, without a      *)
(* network port, while it initialises a fresh data volume.                 *)
ReplicaHealthy(n) ==
    /\ pc[n] = "health"
    /\ Goto(n, "router")
    /\ UNCHANGED <<tries, server, memory, disk, born, counts>>

StartRouter(n) ==
    /\ pc[n] = "router"
    /\ Goto(n, "configure")
    /\ UNCHANGED <<tries, server, memory, disk, born, counts>>

(* The health check times out, or the engine refuses the router, or the    *)
(* helper that is to write the boot file.                                  *)
ContainerFails(n) ==
    /\ pc[n] \in {"health", "router", "bootFile"}
    /\ Fault
    /\ Fatal(n)
    /\ UNCHANGED <<tries, server, memory, disk, born, runs>>

-----------------------------------------------------------------------------
(* JoinGroupReplication, query by query. *)

At(n, l) == pc[n] = l /\ server[n] = "up"

Configure(n) ==
    /\ At(n, "configure")
    /\ configured' = [configured EXCEPT ![n] = TRUE]
    /\ Goto(n, "createUser")
    /\ UNCHANGED <<tries, server, bootstrap, group, disk, born, counts>>

(* Mutation: CREATE USER IF NOT EXISTS. *)
CreateUserIfNotExists(n) ==
    /\ At(n, "createUser")
    /\ user' = [user EXCEPT ![n] = TRUE]
    /\ Goto(n, "grant")
    /\ UNCHANGED <<tries, server, memory, bootFile, lost, born, counts>>

(* CREATE USER, without IF NOT EXISTS. *)
CreateUser(n) ==
    /\ At(n, "createUser")
    /\ ~user[n]
    /\ user' = [user EXCEPT ![n] = TRUE]
    /\ Goto(n, "grant")
    /\ UNCHANGED <<tries, server, memory, bootFile, lost, born, counts>>

CreateUserRejected(n) ==
    /\ At(n, "createUser")
    /\ user[n]
    /\ AttemptFails(n)
    /\ UNCHANGED faults

(* Mutation: the test of RepIndex is dropped. *)
GrantThenBootstrap(n) ==
    /\ At(n, "grant")
    /\ Goto(n, "bootstrapOn")
    /\ UNCHANGED <<tries, server, memory, disk, born, counts>>

Grant(n) ==
    /\ At(n, "grant")
    /\ Goto(n, IF n = Boot THEN "bootstrapOn" ELSE "reset")
    /\ UNCHANGED <<tries, server, memory, disk, born, counts>>

BootstrapOn(n) ==
    /\ At(n, "bootstrapOn")
    /\ bootstrap' = [bootstrap EXCEPT ![n] = TRUE]
    /\ Goto(n, "start")
    /\ UNCHANGED <<tries, server, configured, group, disk, born, counts>>

(* STOP GROUP_REPLICATION, the resets, and the recovery channel's source. *)
ResetReplica(n) ==
    /\ At(n, "reset")
    /\ group' = [group EXCEPT ![n] = 0]
    /\ Goto(n, "start")
    /\ UNCHANGED <<tries, server, configured, bootstrap, disk, born, counts>>

CanStart(n) == configured[n] /\ group[n] = 0

(* START GROUP_REPLICATION with the bootstrap flag makes a new group ... *)
StartNewGroup(n) ==
    /\ At(n, "start")
    /\ CanStart(n)
    /\ bootstrap[n]
    /\ born' = born + 1
    /\ group' = [group EXCEPT ![n] = born + 1]
    /\ Goto(n, "bootstrapOff")
    /\ UNCHANGED <<tries, server, configured, bootstrap, disk, counts>>

(* ... and without it is admitted by a member the seeds lead to, ... *)
StartJoins(n) ==
    /\ At(n, "start")
    /\ CanStart(n)
    /\ ~bootstrap[n]
    /\ \E m \in Live : group' = [group EXCEPT ![n] = group[m]]
    /\ Goto(n, "bootstrapOff")
    /\ UNCHANGED <<tries, server, configured, bootstrap, disk, born, counts>>

(* ... or fails. *)
StartRejected(n) ==
    /\ At(n, "start")
    /\ IF CanStart(n) /\ (bootstrap[n] \/ Live # {}) THEN Fault ELSE UNCHANGED faults
    /\ AttemptFails(n)

BootstrapOff(n) ==
    /\ At(n, "bootstrapOff")
    /\ bootstrap' = [bootstrap EXCEPT ![n] = FALSE]
    /\ Goto(n, "status")
    /\ UNCHANGED <<tries, server, configured, group, disk, born, counts>>

(* The members are only logged: their state is not looked at. *)
Status(n) ==
    /\ At(n, "status")
    /\ Goto(n, "bootFile")
    /\ UNCHANGED <<tries, server, memory, disk, born, counts>>

QueryFails(n) ==
    /\ pc[n] \in Querying
    /\ server[n] # "up"
    /\ AttemptFails(n)
    /\ UNCHANGED faults

-----------------------------------------------------------------------------
(* The rest of the loop, and the boot file. *)

(* Mutation: the condition of the loop is dropped. *)
RetryForEver(n) ==
    /\ pc[n] = "wait"
    /\ Goto(n, "configure")
    /\ UNCHANGED <<tries, server, memory, disk, born, counts>>

Retry(n) ==
    /\ pc[n] = "wait"
    /\ tries[n] > 0
    /\ Goto(n, "configure")
    /\ UNCHANGED <<tries, server, memory, disk, born, counts>>

GiveUp(n) ==
    /\ pc[n] = "wait"
    /\ tries[n] = 0
    /\ Fatal(n)
    /\ UNCHANGED <<tries, server, memory, disk, born, counts>>

(* Mutation: the boot file is not written. *)
SkipBootFile(n) ==
    /\ pc[n] = "bootFile"
    /\ Goto(n, "done")
    /\ UNCHANGED <<tries, server, memory, disk, born, counts>>

WriteBootFile(n) ==
    /\ pc[n] = "bootFile"
    /\ bootFile' = [bootFile EXCEPT ![n] = TRUE]
    /\ lost' = lost \ {n}
    /\ Goto(n, "done")
    /\ UNCHANGED <<tries, server, memory, user, born, counts>>

(* The helper's exit status is discarded: when its tee fails, the replica  *)
(* is brought up all the same.                                             *)
BootFileLost(n) ==
    /\ pc[n] = "bootFile"
    /\ Fault
    /\ lost' = lost \cup {n}
    /\ Goto(n, "done")
    /\ UNCHANGED <<tries, server, memory, user, bootFile, born, runs>>

-----------------------------------------------------------------------------
(* mysqld. *)

(* What a server keeps in memory is lost with it. *)
Crash(n) ==
    /\ server[n] = "up"
    /\ Fault
    /\ server' = [server EXCEPT ![n] = "booting"]
    /\ configured' = [configured EXCEPT ![n] = FALSE]
    /\ bootstrap' = [bootstrap EXCEPT ![n] = FALSE]
    /\ group' = [group EXCEPT ![n] = 0]
    /\ UNCHANGED <<pc, tries, disk, born, runs>>

(* The container's restart policy is "always".  A server that finds        *)
(* gr-boot.cnf is configured by it, and starts group replication on boot.  *)
Boots(n) ==
    /\ server[n] = "booting"
    /\ server' = [server EXCEPT ![n] = "up"]
    /\ configured' = [configured EXCEPT ![n] = bootFile[n]]
    /\ IF bootFile[n] /\ Live # {}
       THEN \/ /\ \E m \in Live : group' = [group EXCEPT ![n] = group[m]]
               /\ UNCHANGED faults
            \/ Fault /\ UNCHANGED group
       ELSE UNCHANGED <<group, faults>>
    /\ UNCHANGED <<pc, tries, bootstrap, disk, born, runs>>

-----------------------------------------------------------------------------
(* Steps that wait for the engine, and steps that only the code awaits. *)
EngineStep(n) ==
    \/ CreateReplica(n) \/ ReplicaExists(n) \/ StartRouter(n)
    \/ WriteBootFile(n) \/ BootFileLost(n) \/ ContainerFails(n)

JoinStep(n) ==
    \/ ReplicaHealthy(n)
    \/ Configure(n) \/ CreateUser(n) \/ CreateUserRejected(n) \/ Grant(n)
    \/ BootstrapOn(n) \/ ResetReplica(n)
    \/ StartNewGroup(n) \/ StartJoins(n) \/ StartRejected(n)
    \/ BootstrapOff(n) \/ Status(n) \/ QueryFails(n)
    \/ Retry(n) \/ GiveUp(n)

NodeStep(n) == EngineStep(n) \/ JoinStep(n)

Next ==
    \/ \E P \in Processes : Launch(P)
    \/ \E n \in Reps : \/ NodeStep(n) \/ Interrupt(n) \/ Crash(n) \/ Boots(n)
                       \/ RemoveContainer(n) \/ RemoveVolumes(n)

(* Goroutines and processes are scheduled, and containers restarted; the   *)
(* engine need not answer.                                                 *)
Fairness == \A n \in Reps : WF_vars(JoinStep(n)) /\ WF_vars(Boots(n))

Spec     == Init /\ [][Next]_vars
FairSpec == Spec /\ Fairness

-----------------------------------------------------------------------------
(* Properties. *)

(* Every variable has its type, and no attempt is made that the loop does  *)
(* not have left (StartSQLContainers counts numRetriesJoinGroupReplication *)
(* down to 0).                                                             *)
TypeOK ==
    /\ pc \in [Reps -> Active \cup Ended]
    /\ tries \in [Reps -> 0..Retries]
    /\ server \in [Reps -> {"absent", "booting", "up"}]
    /\ configured \in [Reps -> BOOLEAN]
    /\ bootstrap \in [Reps -> BOOLEAN]
    /\ group \in [Reps -> Nat]
    /\ user \in [Reps -> BOOLEAN]
    /\ bootFile \in [Reps -> BOOLEAN]
    /\ lost \subseteq Reps
    /\ born \in Nat
    /\ runs \in Nat
    /\ faults \in Nat

(* All members of a shard are members of the same group, whatever crashes, *)
(* retries and reruns there were: JoinGroupReplication bootstraps on       *)
(* replica 0 only, and its CREATE USER keeps it from doing so again.       *)
NoSplitBrain ==
    \A m, n \in Live : group[m] = group[n]

(* As long as the volumes are kept a group is bootstrapped at most once,   *)
(* so the replicas' data has one lineage even after all of them restarted. *)
OneLineage == born <= 1

(* Running the command again on a shard never takes a member out of its    *)
(* group: STOP GROUP_REPLICATION is reached on non-members only.           *)
RerunKeepsMembers ==
    [][\A n \in Reps : NodeStep(n) => Live \subseteq Live']_vars

(* Without faults, a replica StartSQLContainers returned from without an   *)
(* error is a member.                                                      *)
DoneIsMember ==
    faults = 0 => \A n \in Reps : pc[n] = "done" => n \in Live

(* The server of a replica that was brought up goes back into the group    *)
(* when it restarts while the group has members, without another command,  *)
(* unless the helper lost its boot file: MakeGroupReplicationBootstrapFile *)
(* runs before the replica is done, on every way there.                    *)
RestartRejoins ==
    [][\A n \in Reps \ lost :
         pc[n] = "done" /\ Boots(n) /\ Live # {} /\ UNCHANGED faults => n \in Live']_vars

(* Out of the group, with a repl user from an earlier attempt and without  *)
(* a boot file: what a crash or an interrupt between CREATE USER and       *)
(* MakeGroupReplicationBootstrapFile leaves, or the loss of that file.     *)
LeftOut(n) == /\ user[n] /\ ~bootFile[n] /\ group[n] = 0
              /\ pc[n] \notin {"grant", "bootstrapOn", "reset", "start",
                               "bootstrapOff", "status", "bootFile"}

(* Such a replica stays out: no retry, no new command and no restart of    *)
(* its server brings it into the group until its volumes are removed, as   *)
(* CREATE USER stands before START, and the boot file after it.            *)
LeftOutStays ==
    [][\A n \in Reps : LeftOut(n) => LeftOut(n)' \/ ~user'[n]]_vars

(* Every run of a command ends, or waits for the engine: if the engine     *)
(* answers what it was asked, no replica waits or retries for ever.        *)
RunsEnd ==
    (\A n \in Reps : []<>(pc[n] \notin Unlimited))
        => \A n \in Reps : pc[n] \in Active ~> pc[n] \in Ended

(* The shard keeps what its operators rely on. *)
Group == INSTANCE ReplicationGroup WITH formed <- born
ImplementsGroup == Group!Spec

(* db.go:209 logs "Waiting for group replication to be ready..." before it *)
(* sleeps: a replica that waits with attempts left, on a server that is    *)
(* up, joins once the group has members, or the group is gone.             *)
WaitingReplicaJoins ==
    \A n \in Reps \ {Boot} :
        (pc[n] = "wait" /\ tries[n] > 0 /\ server[n] = "up" /\ Live # {})
            ~> (n \in Live \/ Live = {})

(* join.go:17, "JoinCommand joins to a remote cluster": while the cluster  *)
(* has a member no command forms another group.                            *)
JoinExtendsCluster ==
    [][Live # {} => born' = born]_vars

-----------------------------------------------------------------------------
(* The inductive invariant behind the safety properties. *)

(* The repl user is missing, or was created by the attempt under way and   *)
(* START GROUP_REPLICATION has not been reached since.                     *)
Fresh(n) == ~user[n] \/ pc[n] \in {"grant", "bootstrapOn", "reset", "start"}

(* The attempt that is under way was one the loop had left. *)
AttemptsLeft == \A n \in Reps :
    pc[n] \in Querying \cup {"replica", "health", "router"} => tries[n] > 0

PastUser == {"grant", "bootstrapOn", "reset", "start",
             "bootstrapOff", "status", "bootFile", "done"}

(* No host is wiped while the servers of others live on. *)
WipesTogether == SharedProcess \/ ~WipeAllowed

MembersAreUp    == \A n \in Reps : group[n] # 0 => server[n] = "up"
FreshIsOutside  == \A n \in Reps : Fresh(n) => group[n] = 0 /\ ~bootFile[n]
UserIsCreated   == \A n \in Reps : pc[n] \in PastUser => user[n]
OnlyBootStarts  == \A n \in Reps : bootstrap[n] \/ pc[n] = "bootstrapOn" => n = Boot
NothingBefore   == WipesTogether /\ Fresh(Boot) => Live = {}
OneGroup        == WipesTogether => NoSplitBrain
FirstGroup      == ~WipeAllowed => OneLineage /\ (Fresh(Boot) => born = 0)

Lineage == /\ MembersAreUp
           /\ FreshIsOutside
           /\ UserIsCreated
           /\ OnlyBootStarts
           /\ NothingBefore
           /\ OneGroup
           /\ FirstGroup

(* What a replica has once START GROUP_REPLICATION returned, and at the end. *)
Joined       == {"bootstrapOff", "status", "bootFile", "done"}
JoinedIsLive == faults = 0 => \A n \in Reps : pc[n] \in Joined => n \in Live
DoneHasFile  == \A n \in Reps \ lost : pc[n] = "done" => bootFile[n]

Inv == TypeOK /\ AttemptsLeft /\ Lineage /\ JoinedIsLive /\ DoneHasFile
=============================================================================
