-------------------------- MODULE SQLClusterProofs --------------------------
(* Theorems about SQLCluster, for every set of replicas and every bound. *)
EXTENDS SQLCluster, TLAPS

(* The points of createNode are distinct, and partitioned as Active/Ended. *)
LEMMA InitTyped == Init => TypeOK /\ AttemptsLeft
  BY ConfigAssumption DEF Init, TypeOK, AttemptsLeft, Active, Ended, Querying

(* Every step keeps every variable in its type, and no attempt of the join *)
(* loop is made that is not left.                                          *)
LEMMA NextTyped ==
    ASSUME TypeOK, AttemptsLeft, [Next]_vars
    PROVE  TypeOK' /\ AttemptsLeft'
<1> USE ConfigAssumption DEF TypeOK, AttemptsLeft, Active, Ended, Querying
<1>1. CASE UNCHANGED vars
  BY <1>1 DEF vars, memory, disk, counts
<1>2. ASSUME NEW P \in Processes, Launch(P)
      PROVE  TypeOK' /\ AttemptsLeft'
  BY <1>2 DEF Launch, memory, disk
<1>3. ASSUME NEW n \in Reps,
             \/ NodeStep(n) \/ Interrupt(n) \/ Crash(n) \/ Boots(n)
             \/ RemoveContainer(n) \/ RemoveVolumes(n)
      PROVE  TypeOK' /\ AttemptsLeft'
  <2> USE DEF memory, disk, counts, Goto, Fault, At
  <2>1. CASE CreateReplica(n)
    BY <2>1 DEF CreateReplica
  <2>2. CASE ReplicaExists(n)
    BY <2>2 DEF ReplicaExists
  <2>3. CASE ReplicaHealthy(n)
    BY <2>3 DEF ReplicaHealthy
  <2>4. CASE StartRouter(n)
    BY <2>4 DEF StartRouter
  <2>5. CASE ContainerFails(n)
    BY <2>5 DEF ContainerFails, Fatal
  <2>6. CASE Configure(n)
    BY <2>6 DEF Configure
  <2>7. CASE CreateUser(n)
    BY <2>7 DEF CreateUser
  <2>8. CASE CreateUserRejected(n)
    BY <2>8 DEF CreateUserRejected, AttemptFails
  <2>9. CASE Grant(n)
    BY <2>9 DEF Grant
  <2>10. CASE BootstrapOn(n)
    BY <2>10 DEF BootstrapOn
  <2>11. CASE ResetReplica(n)
    BY <2>11 DEF ResetReplica
  <2>12. CASE StartNewGroup(n)
    BY <2>12 DEF StartNewGroup
  <2>13. CASE StartJoins(n)
    BY <2>13 DEF StartJoins, Live
  <2>14. CASE StartRejected(n)
    BY <2>14 DEF StartRejected, AttemptFails
  <2>15. CASE BootstrapOff(n)
    BY <2>15 DEF BootstrapOff
  <2>16. CASE Status(n)
    BY <2>16 DEF Status
  <2>17. CASE QueryFails(n)
    BY <2>17 DEF QueryFails, AttemptFails
  <2>18. CASE Retry(n)
    BY <2>18 DEF Retry
  <2>19. CASE GiveUp(n)
    BY <2>19 DEF GiveUp, Fatal
  <2>20. CASE WriteBootFile(n)
    BY <2>20 DEF WriteBootFile
  <2>21. CASE Interrupt(n)
    BY <2>21 DEF Interrupt, Fatal
  <2>22. CASE Crash(n)
    BY <2>22 DEF Crash
  <2>23. CASE Boots(n)
    BY <2>23 DEF Boots, Live
  <2>24. CASE BootFileLost(n)
    BY <2>24 DEF BootFileLost
  <2>25. CASE RemoveContainer(n)
    BY <2>25 DEF RemoveContainer, Mates
  <2>26. CASE RemoveVolumes(n)
    BY <2>26 DEF RemoveVolumes, Mates
  <2> QED
    BY <1>3, <2>1, <2>2, <2>3, <2>4, <2>5, <2>6, <2>7, <2>8, <2>9, <2>10,
       <2>11, <2>12, <2>13, <2>14, <2>15, <2>16, <2>17, <2>18, <2>19, <2>20,
       <2>21, <2>22, <2>23, <2>24, <2>25, <2>26 DEF NodeStep, EngineStep, JoinStep
<1> QED
  BY <1>1, <1>2, <1>3 DEF Next

(* Type correctness of every variable in every reachable state. *)
THEOREM TypeCorrect == Spec => []TypeOK
<1>1. Init => TypeOK /\ AttemptsLeft
  BY InitTyped
<1>2. TypeOK /\ AttemptsLeft /\ [Next]_vars => TypeOK' /\ AttemptsLeft'
  BY NextTyped
<1> QED
  BY <1>1, <1>2, PTL DEF Spec

(* The repl user is followed through createNode, and the groups are tied   *)
(* to it.                                                                  *)
LEMMA InitLineage == Init => Lineage
  BY ConfigAssumption DEF Init, Lineage, MembersAreUp, FreshIsOutside, UserIsCreated,
     OnlyBootStarts, NothingBefore, OneGroup, FirstGroup, PastUser, Fresh,
     NoSplitBrain, OneLineage, Live

(* Every step of the commands and servers keeps the lineage of the groups. *)
LEMMA NextLineage ==
    ASSUME TypeOK, TypeOK', Lineage, [Next]_vars
    PROVE  Lineage'
<1> USE ConfigAssumption DEF TypeOK, Lineage, MembersAreUp, FreshIsOutside, UserIsCreated,
        OnlyBootStarts, NothingBefore, OneGroup, FirstGroup, PastUser, Fresh,
        NoSplitBrain, OneLineage, Live, WipesTogether, Active, Ended, Querying,
        memory, disk, counts, Goto, Fault, At
<1>1. CASE UNCHANGED vars
  BY <1>1 DEF vars
<1>2. ASSUME NEW P \in Processes, Launch(P)
      PROVE  Lineage'
  BY <1>2 DEF Launch, Processes
<1>3. ASSUME NEW n \in Reps,
             \/ NodeStep(n) \/ Interrupt(n) \/ Crash(n) \/ Boots(n)
             \/ RemoveContainer(n) \/ RemoveVolumes(n)
      PROVE  Lineage'
  <2>1. CASE CreateReplica(n)
    BY <2>1 DEF CreateReplica
  <2>2. CASE ReplicaExists(n)
    BY <2>2 DEF ReplicaExists
  <2>3. CASE ReplicaHealthy(n)
    BY <2>3 DEF ReplicaHealthy
  <2>4. CASE StartRouter(n)
    BY <2>4 DEF StartRouter
  <2>5. CASE ContainerFails(n)
    BY <2>5 DEF ContainerFails, Fatal
  <2>6. CASE Configure(n)
    BY <2>6 DEF Configure
  <2>7. CASE CreateUser(n)
    BY <2>7 DEF CreateUser
  <2>8. CASE CreateUserRejected(n)
    BY <2>8 DEF CreateUserRejected, AttemptFails
  <2>9. CASE Grant(n)
    BY <2>9 DEF Grant
  <2>10. CASE BootstrapOn(n)
    BY <2>10 DEF BootstrapOn
  <2>11. CASE ResetReplica(n)
    BY <2>11 DEF ResetReplica
  <2>12. CASE StartNewGroup(n)
    BY <2>12 DEF StartNewGroup, CanStart
  <2>13. CASE StartJoins(n)
    BY <2>13 DEF StartJoins, CanStart
  <2>14. CASE StartRejected(n)
    BY <2>14 DEF StartRejected, AttemptFails
  <2>15. CASE BootstrapOff(n)
    BY <2>15 DEF BootstrapOff
  <2>16. CASE Status(n)
    BY <2>16 DEF Status
  <2>17. CASE QueryFails(n)
    BY <2>17 DEF QueryFails, AttemptFails
  <2>18. CASE Retry(n)
    BY <2>18 DEF Retry
  <2>19. CASE GiveUp(n)
    BY <2>19 DEF GiveUp, Fatal
  <2>20. CASE WriteBootFile(n)
    BY <2>20 DEF WriteBootFile
  <2>21. CASE Interrupt(n)
    BY <2>21 DEF Interrupt, Fatal
  <2>22. CASE Crash(n)
    BY <2>22 DEF Crash
  <2>23. CASE Boots(n)
    BY <2>23 DEF Boots
  <2>24. CASE BootFileLost(n)
    BY <2>24 DEF BootFileLost
  <2>25. CASE RemoveContainer(n)
    BY <2>25 DEF RemoveContainer, Mates
  <2>26. CASE RemoveVolumes(n)
    BY <2>26 DEF RemoveVolumes, Mates
  <2> QED
    BY <1>3, <2>1, <2>2, <2>3, <2>4, <2>5, <2>6, <2>7, <2>8, <2>9, <2>10,
       <2>11, <2>12, <2>13, <2>14, <2>15, <2>16, <2>17, <2>18, <2>19, <2>20,
       <2>21, <2>22, <2>23, <2>24, <2>25, <2>26 DEF NodeStep, EngineStep, JoinStep
<1> QED
  BY <1>1, <1>2, <1>3 DEF Next

(* Nobody has joined at first. *)
LEMMA InitJoined == Init => JoinedIsLive /\ DoneHasFile
  BY DEF Init, JoinedIsLive, DoneHasFile, Joined

(* Who passed START GROUP_REPLICATION is a member, and has its boot file. *)
LEMMA NextJoined ==
    ASSUME TypeOK, TypeOK', JoinedIsLive, DoneHasFile, [Next]_vars
    PROVE  JoinedIsLive' /\ DoneHasFile'
<1> USE ConfigAssumption DEF TypeOK, JoinedIsLive, DoneHasFile, Joined, Live,
        Active, Ended, Querying, memory, disk, counts, Goto, Fault, At
<1>1. CASE UNCHANGED vars
  BY <1>1 DEF vars
<1>2. ASSUME NEW P \in Processes, Launch(P)
      PROVE  JoinedIsLive' /\ DoneHasFile'
  BY <1>2 DEF Launch, Processes
<1>3. ASSUME NEW n \in Reps,
             \/ NodeStep(n) \/ Interrupt(n) \/ Crash(n) \/ Boots(n)
             \/ RemoveContainer(n) \/ RemoveVolumes(n)
      PROVE  JoinedIsLive' /\ DoneHasFile'
  <2>1. CASE CreateReplica(n)
    BY <2>1 DEF CreateReplica
  <2>2. CASE ReplicaExists(n)
    BY <2>2 DEF ReplicaExists
  <2>3. CASE ReplicaHealthy(n)
    BY <2>3 DEF ReplicaHealthy
  <2>4. CASE StartRouter(n)
    BY <2>4 DEF StartRouter
  <2>5. CASE ContainerFails(n)
    BY <2>5 DEF ContainerFails, Fatal
  <2>6. CASE Configure(n)
    BY <2>6 DEF Configure
  <2>7. CASE CreateUser(n)
    BY <2>7 DEF CreateUser
  <2>8. CASE CreateUserRejected(n)
    BY <2>8 DEF CreateUserRejected, AttemptFails
  <2>9. CASE Grant(n)
    BY <2>9 DEF Grant
  <2>10. CASE BootstrapOn(n)
    BY <2>10 DEF BootstrapOn
  <2>11. CASE ResetReplica(n)
    BY <2>11 DEF ResetReplica
  <2>12. CASE StartNewGroup(n)
    BY <2>12 DEF StartNewGroup, CanStart
  <2>13. CASE StartJoins(n)
    BY <2>13 DEF StartJoins, CanStart
  <2>14. CASE StartRejected(n)
    BY <2>14 DEF StartRejected, AttemptFails
  <2>15. CASE BootstrapOff(n)
    BY <2>15 DEF BootstrapOff
  <2>16. CASE Status(n)
    BY <2>16 DEF Status
  <2>17. CASE QueryFails(n)
    BY <2>17 DEF QueryFails, AttemptFails
  <2>18. CASE Retry(n)
    BY <2>18 DEF Retry
  <2>19. CASE GiveUp(n)
    BY <2>19 DEF GiveUp, Fatal
  <2>20. CASE WriteBootFile(n)
    BY <2>20 DEF WriteBootFile
  <2>21. CASE Interrupt(n)
    BY <2>21 DEF Interrupt, Fatal
  <2>22. CASE Crash(n)
    BY <2>22 DEF Crash
  <2>23. CASE Boots(n)
    BY <2>23 DEF Boots
  <2>24. CASE BootFileLost(n)
    BY <2>24 DEF BootFileLost
  <2>25. CASE RemoveContainer(n)
    BY <2>25 DEF RemoveContainer, Mates
  <2>26. CASE RemoveVolumes(n)
    BY <2>26 DEF RemoveVolumes, Mates
  <2> QED
    BY <1>3, <2>1, <2>2, <2>3, <2>4, <2>5, <2>6, <2>7, <2>8, <2>9, <2>10,
       <2>11, <2>12, <2>13, <2>14, <2>15, <2>16, <2>17, <2>18, <2>19, <2>20,
       <2>21, <2>22, <2>23, <2>24, <2>25, <2>26 DEF NodeStep, EngineStep, JoinStep
<1> QED
  BY <1>1, <1>2, <1>3 DEF Next

(* The inductive invariant holds in every reachable state. *)
THEOREM Invariance == Spec => []Inv
<1>1. Init => Inv
  BY InitTyped, InitLineage, InitJoined DEF Inv
<1>2. Inv /\ [Next]_vars => Inv'
  BY NextTyped, NextLineage, NextJoined DEF Inv
<1> QED
  BY <1>1, <1>2, PTL DEF Spec

-----------------------------------------------------------------------------
(* All members of a shard are in one group, unless hosts are wiped one by  *)
(* one: only replica 0 bootstraps, and only when nobody is a member.       *)
THEOREM OneGroupOnly ==
    ASSUME WipesTogether
    PROVE  Spec => []NoSplitBrain
<1>1. Inv => NoSplitBrain
  BY WipesTogether DEF Inv, Lineage, OneGroup
<1> QED
  BY <1>1, Invariance, PTL

(* A shard whose volumes are kept never bootstraps a second group, however *)
(* often init or join is run and its servers restart.                      *)
THEOREM OneLineageOnly ==
    ASSUME ~WipeAllowed
    PROVE  Spec => []OneLineage
<1>1. Inv => OneLineage
  BY ~WipeAllowed DEF Inv, Lineage, FirstGroup
<1> QED
  BY <1>1, Invariance, PTL

(* Without faults a replica that createNode is done with is a member.      *)
THEOREM DoneMeansMember == Spec => []DoneIsMember
<1>1. Inv => DoneIsMember
  BY DEF Inv, JoinedIsLive, DoneIsMember, Joined
<1> QED
  BY <1>1, Invariance, PTL

(* No step of createNode takes a member out of its group.                  *)
THEOREM MembersKept == Spec => RerunKeepsMembers
<1>1. Inv /\ [Next]_vars
        => [\A n \in Reps : NodeStep(n) => Live \subseteq Live']_vars
  <2> SUFFICES ASSUME Inv, NEW n \in Reps, NodeStep(n)
               PROVE  Live \subseteq Live'
    OBVIOUS
  <2>1. CASE ResetReplica(n)
    <3>1. group[n] = 0
      BY <2>1 DEF ResetReplica, At, Inv, Lineage, FreshIsOutside, Fresh
    <3> QED
      BY <2>1, <3>1 DEF ResetReplica, Live, Inv, TypeOK
  <2>2. CASE StartNewGroup(n) \/ StartJoins(n)
    BY <2>2 DEF StartNewGroup, StartJoins, CanStart, Live, Inv, TypeOK
  <2>3. CASE UNCHANGED group
    BY <2>3 DEF Live
  <2>4. ResetReplica(n) \/ StartNewGroup(n) \/ StartJoins(n) \/ UNCHANGED group
    BY DEF NodeStep, EngineStep, JoinStep, CreateReplica, ReplicaExists, ReplicaHealthy,
       StartRouter, ContainerFails, Configure, CreateUser, CreateUserRejected,
       Grant, BootstrapOn, StartRejected, BootstrapOff, Status, QueryFails,
       Retry, GiveUp, WriteBootFile, BootFileLost, AttemptFails, memory
  <2> QED
    BY <2>1, <2>2, <2>3, <2>4
<1> QED
  BY <1>1, Invariance, PTL DEF Spec, RerunKeepsMembers

(* A server that was brought up rejoins on boot while the group has        *)
(* members, unless Vol's helper lost its boot file (container.go:288).     *)
THEOREM RestartsRejoin == Spec => RestartRejoins
<1>1. Inv /\ [Next]_vars
        => [\A n \in Reps \ lost : pc[n] = "done" /\ Boots(n) /\ Live # {} /\ UNCHANGED faults
                => n \in Live']_vars
  <2> SUFFICES ASSUME Inv, NEW n \in Reps \ lost, pc[n] = "done", Boots(n), Live # {},
                      UNCHANGED faults
               PROVE  n \in Live'
    OBVIOUS
  <2>1. bootFile[n]
    BY DEF Inv, DoneHasFile
  <2>2. ~Fault
    BY DEF Fault, Inv, TypeOK
  <2>3. PICK m \in Live : group' = [group EXCEPT ![n] = group[m]]
    BY <2>1, <2>2 DEF Boots
  <2> QED
    BY <2>3 DEF Live, Inv, TypeOK
<1> QED
  BY <1>1, Invariance, PTL DEF Spec, RestartRejoins

-----------------------------------------------------------------------------
(* The shard behaves like the abstract group, group by group: the only     *)
(* bootstrap there is forms one while there are no members, other starts   *)
(* and boots join the group of a member, and crashes, the reset before     *)
(* START and deinit leave it.                                              *)
LEMMA StepRefines ==
    ASSUME WipesTogether, Inv, [Next]_vars
    PROVE  [Group!Next]_<<group, born>>
<1> USE ConfigAssumption DEF Inv, TypeOK
<1>1. CASE UNCHANGED <<group, born>>
  BY <1>1
<1>2. ASSUME NEW n \in Reps, StartNewGroup(n)
      PROVE  Group!Next
  <2>1. n = Boot /\ Group!Members = {}
    BY <1>2, WipesTogether
       DEF StartNewGroup, At, Lineage, OnlyBootStarts, NothingBefore, Fresh, Live,
           Group!Members
  <2> QED
    BY <1>2, <2>1 DEF StartNewGroup, Group!Next, Group!Form
<1>3. ASSUME NEW n \in Reps, NEW m \in Live,
             group' = [group EXCEPT ![n] = group[m]], born' = born
      PROVE  Group!Next
  <2>1. m \in Group!Members
    BY DEF Live, Group!Members
  <2> QED
    BY <1>3, <2>1 DEF Group!Next, Group!Join
<1>4. ASSUME NEW n \in Reps, group' = [group EXCEPT ![n] = 0], born' = born
      PROVE  Group!Next
  <2>1. group' = [m \in Reps |-> IF m \in {n} THEN 0 ELSE group[m]]
    BY <1>4
  <2>2. {n} \in SUBSET Reps
    OBVIOUS
  <2> QED
    BY <1>4, <2>1, <2>2 DEF Group!Next, Group!Leave
<1>5. ASSUME NEW n \in Reps, ResetReplica(n) \/ Crash(n) \/ RemoveContainer(n)
      PROVE  Group!Next
  BY <1>4, <1>5 DEF ResetReplica, Crash, RemoveContainer
<1>6. ASSUME NEW n \in Reps, StartJoins(n) \/ Boots(n)
      PROVE  Group!Next \/ UNCHANGED <<group, born>>
  BY <1>3, <1>6 DEF StartJoins, Boots
<1>7. ASSUME NEW n \in Reps, NodeStep(n) \/ Interrupt(n) \/ RemoveVolumes(n)
      PROVE  \/ UNCHANGED <<group, born>>
             \/ StartNewGroup(n) \/ StartJoins(n) \/ ResetReplica(n)
  BY <1>7 DEF NodeStep, EngineStep, JoinStep, CreateReplica, ReplicaExists,
       ReplicaHealthy, StartRouter, ContainerFails, Configure, CreateUser,
       CreateUserRejected, Grant, BootstrapOn, StartRejected, BootstrapOff, Status,
       QueryFails, Retry, GiveUp, WriteBootFile, BootFileLost, RemoveVolumes,
       Interrupt, AttemptFails, memory
<1>8. ASSUME NEW P \in Processes, Launch(P)
      PROVE  UNCHANGED <<group, born>>
  BY <1>8 DEF Launch, memory
<1>9. UNCHANGED vars => UNCHANGED <<group, born>>
  BY DEF vars, memory
<1> QED
  BY <1>1, <1>2, <1>5, <1>6, <1>7, <1>8, <1>9 DEF Next

(* The shard implements ReplicationGroup when hosts are not wiped singly:  *)
(* no bootstrap of JoinGroupReplication (db.go:756) makes a group beside   *)
(* one that has members, and no start changes the group of a member.       *)
THEOREM Refinement ==
    ASSUME WipesTogether
    PROVE  Spec => ImplementsGroup
<1>1. Init => Group!Init
  BY DEF Init, Group!Init
<1>2. Inv /\ [Next]_vars => [Group!Next]_<<group, born>>
  BY WipesTogether, StepRefines
<1> QED
  BY <1>1, <1>2, Invariance, PTL DEF Spec, ImplementsGroup, Group!Spec

(* ReplicationGroup says what it is for: its members are in one group.     *)
LEMMA PromisesOneGroup == Group!Spec => []Group!OneGroup
<1> DEFINE Typed == group \in [Reps -> Nat] /\ born \in Nat
<1>1. Group!Init => Typed /\ Group!OneGroup
  BY DEF Group!Init, Group!OneGroup, Group!Members
<1>2. Typed /\ Group!OneGroup /\ [Group!Next]_<<group, born>>
        => Typed' /\ Group!OneGroup'
  <2> SUFFICES ASSUME Typed, Group!OneGroup, [Group!Next]_<<group, born>>
               PROVE  Typed' /\ Group!OneGroup'
    OBVIOUS
  <2> USE ConfigAssumption DEF Group!OneGroup, Group!Members
  <2>1. CASE UNCHANGED <<group, born>>
    BY <2>1
  <2>2. CASE Group!Form
    BY <2>2 DEF Group!Form
  <2>3. CASE \E n \in Reps : Group!Join(n)
    BY <2>3 DEF Group!Join
  <2>4. CASE \E N \in SUBSET Reps : Group!Leave(N)
    BY <2>4 DEF Group!Leave
  <2> QED
    BY <2>1, <2>2, <2>3, <2>4 DEF Group!Next
<1> QED
  BY <1>1, <1>2, PTL DEF Group!Spec

-----------------------------------------------------------------------------
(* Why runs end: each step of a replica uses up one of a bounded number.   *)

(* Steps of an attempt that are ahead; an attempt that fails leads to wait. *)
Ahead(p) ==
    CASE p = "replica" -> 13 [] p = "health" -> 12 [] p = "router" -> 11
      [] p = "wait" -> 10 [] p = "configure" -> 9 [] p = "createUser" -> 8
      [] p = "grant" -> 7 [] p = "bootstrapOn" -> 6 [] p = "reset" -> 5
      [] p = "start" -> 4 [] p = "bootstrapOff" -> 3 [] p = "status" -> 2
      [] p = "bootFile" -> 1 [] OTHER -> 0

StepsLeft(n) == IF pc[n] \in Active THEN 10 * tries[n] + Ahead(pc[n]) ELSE 0

(* A step of createNode lowers the number of its own steps that are left,  *)
(* and nothing but a new command raises it for any replica: no crash, no   *)
(* restart and no step of another gives an attempt of the loop in          *)
(* StartSQLContainers back.                                                *)
Progress ==
    [][/\ \A n \in Reps : NodeStep(n) => StepsLeft(n)' < StepsLeft(n)
       /\ \A n \in Reps : runs' = runs => StepsLeft(n)' <= StepsLeft(n)]_vars

(* A step that stays within the attempt is a step ahead. *)
LEMMA StepsAhead ==
    ASSUME TypeOK, NEW n \in Reps, NEW p \in Active, NEW q \in Active \cup Ended,
           pc[n] = p, pc' = [pc EXCEPT ![n] = q], tries' = tries, Ahead(q) < Ahead(p)
    PROVE  /\ StepsLeft(n)' < StepsLeft(n)
           /\ \A m \in Reps \ {n} : StepsLeft(m)' = StepsLeft(m)
<1>1. pc'[n] = q /\ \A m \in Reps \ {n} : pc'[m] = pc[m]
  BY DEF TypeOK
<1>2. tries[n] \in Nat /\ Ahead(p) \in Nat /\ Ahead(q) \in Nat
  BY ConfigAssumption DEF TypeOK, Ahead
<1> QED
  BY <1>1, <1>2 DEF StepsLeft

(* An attempt that fails costs more than the wait after it. *)
LEMMA AttemptsCost ==
    ASSUME TypeOK, NEW n \in Reps, pc[n] \in Querying, tries[n] > 0, AttemptFails(n)
    PROVE  /\ StepsLeft(n)' < StepsLeft(n)
           /\ \A m \in Reps \ {n} : StepsLeft(m)' = StepsLeft(m)
<1>1. pc'[n] = "wait" /\ \A m \in Reps \ {n} : pc'[m] = pc[m] /\ tries'[m] = tries[m]
  BY DEF TypeOK, AttemptFails, Goto
<1>2. tries[n] \in Nat /\ tries'[n] = tries[n] - 1
  BY ConfigAssumption DEF TypeOK, AttemptFails
<1>3. Ahead("wait") = 10 /\ Ahead(pc[n]) \in Nat /\ Ahead(pc[n]) > 0
      /\ pc[n] \in Active /\ "wait" \in Active
  BY DEF Ahead, Querying, Active
<1> QED
  BY <1>1, <1>2, <1>3 DEF StepsLeft

(* The end of a process leaves none of its replicas a step. *)
LEMMA FatalEnds ==
    ASSUME TypeOK, NEW n \in Reps, pc[n] \in Active, Fatal(n), tries' = tries
    PROVE  /\ StepsLeft(n)' < StepsLeft(n)
           /\ \A m \in Reps : StepsLeft(m)' <= StepsLeft(m)
<1>1. n \in Mates(n)
  BY DEF Mates
<1>2. \A m \in Reps : tries[m] \in Nat /\ Ahead(pc[m]) \in Nat
  BY ConfigAssumption DEF TypeOK, Ahead
<1>3. \A m \in Reps : StepsLeft(m) \in Nat
  BY <1>2 DEF StepsLeft
<1>4. Ahead(pc[n]) > 0
  BY DEF Ahead, Active, Querying
<1>5. StepsLeft(n) > 0
  BY <1>2, <1>4 DEF StepsLeft
<1>6. "killed" \notin Active
  BY DEF Active, Querying
<1>7. \A m \in Reps : pc'[m] = pc[m] \/ pc'[m] = "killed"
  BY DEF Fatal
<1>8. \A m \in Reps : StepsLeft(m)' \in {0, StepsLeft(m)}
  BY <1>6, <1>7 DEF StepsLeft
<1>9. pc'[n] = "killed"
  BY <1>1 DEF Fatal
<1>10. StepsLeft(n)' = 0
  BY <1>6, <1>9 DEF StepsLeft
<1> QED
  BY <1>3, <1>5, <1>8, <1>10

(* A step of createNode is one of the three. *)
LEMMA NodeProgresses ==
    ASSUME TypeOK, AttemptsLeft, NEW n \in Reps, NodeStep(n)
    PROVE  /\ StepsLeft(n)' < StepsLeft(n)
           /\ \A m \in Reps \ {n} : StepsLeft(m)' <= StepsLeft(m)
<1>0. \A m \in Reps : StepsLeft(m) \in Nat
  BY ConfigAssumption DEF TypeOK, StepsLeft, Ahead
<1>1. CASE AttemptFails(n) /\ pc[n] \in Querying
  <2>1. tries[n] > 0
    BY <1>1 DEF AttemptsLeft
  <2> QED
    BY <1>0, <1>1, <2>1, AttemptsCost
<1>2. CASE Fatal(n) /\ pc[n] \in Active /\ tries' = tries
  BY <1>2, FatalEnds
<1>3. ASSUME NEW p \in Active, NEW q \in Active \cup Ended, pc[n] = p, Goto(n, q),
             tries' = tries, Ahead(q) < Ahead(p)
      PROVE  /\ StepsLeft(n)' < StepsLeft(n)
             /\ \A m \in Reps \ {n} : StepsLeft(m)' <= StepsLeft(m)
  <2>1. pc' = [pc EXCEPT ![n] = q]
    BY <1>3 DEF Goto
  <2>2. /\ StepsLeft(n)' < StepsLeft(n)
        /\ \A m \in Reps \ {n} : StepsLeft(m)' = StepsLeft(m)
    BY <1>3, <2>1, StepsAhead
  <2>3. \A m \in Reps \ {n} : StepsLeft(m) \in Nat
    BY <1>0
  <2> QED
    BY <2>2, <2>3
<1>4. CASE CreateReplica(n) \/ ReplicaExists(n) \/ ReplicaHealthy(n) \/ StartRouter(n)
  BY <1>3, <1>4 DEF CreateReplica, ReplicaExists, ReplicaHealthy, StartRouter,
     Ahead, Active, Ended, Querying
<1>5. CASE Configure(n) \/ CreateUser(n) \/ Grant(n) \/ BootstrapOn(n) \/ ResetReplica(n)
  BY <1>3, <1>5 DEF Configure, CreateUser, Grant, BootstrapOn, ResetReplica, At,
     Ahead, Active, Ended, Querying
<1>6. CASE StartNewGroup(n) \/ StartJoins(n) \/ BootstrapOff(n) \/ Status(n)
  BY <1>3, <1>6 DEF StartNewGroup, StartJoins, BootstrapOff, Status, At,
     Ahead, Active, Ended, Querying
<1>7. CASE Retry(n) \/ WriteBootFile(n) \/ BootFileLost(n)
  BY <1>3, <1>7 DEF Retry, WriteBootFile, BootFileLost, Ahead, Active, Ended, Querying
<1>8. CASE CreateUserRejected(n) \/ StartRejected(n) \/ QueryFails(n)
  BY <1>1, <1>8 DEF CreateUserRejected, StartRejected, QueryFails, At, Querying
<1>9. CASE ContainerFails(n) \/ GiveUp(n)
  BY <1>2, <1>9 DEF ContainerFails, GiveUp, Active
<1> QED
  BY <1>4, <1>5, <1>6, <1>7, <1>8, <1>9 DEF NodeStep, EngineStep, JoinStep

(* Only a new command gives attempts. *)
LEMMA NothingGivesBack ==
    ASSUME TypeOK, AttemptsLeft, TypeOK', [Next]_vars, runs' = runs
    PROVE  \A m \in Reps : StepsLeft(m)' <= StepsLeft(m)
<1>0. \A m \in Reps : StepsLeft(m) \in Nat /\ StepsLeft(m)' \in Nat
  BY ConfigAssumption DEF TypeOK, StepsLeft, Ahead
<1>1. CASE UNCHANGED <<pc, tries>>
  BY <1>0, <1>1 DEF StepsLeft
<1>2. ASSUME NEW n \in Reps, RemoveContainer(n) \/ RemoveVolumes(n)
      PROVE  \A m \in Reps : StepsLeft(m)' <= StepsLeft(m)
  <2>1. \A m \in Reps : pc'[m] = pc[m] \/ pc'[m] = "idle"
    BY <1>2 DEF RemoveContainer, RemoveVolumes, Goto, TypeOK
  <2>2. tries' = tries /\ "idle" \notin Active
    BY <1>2 DEF RemoveContainer, RemoveVolumes, Active, Querying
  <2>3. \A m \in Reps : StepsLeft(m)' \in {0, StepsLeft(m)}
    BY <2>1, <2>2 DEF StepsLeft
  <2> QED
    BY <1>0, <2>3
<1>3. ASSUME NEW n \in Reps, NodeStep(n)
      PROVE  \A m \in Reps : StepsLeft(m)' <= StepsLeft(m)
  <2>1. StepsLeft(n)' < StepsLeft(n) /\ \A m \in Reps \ {n} : StepsLeft(m)' <= StepsLeft(m)
    BY <1>3, NodeProgresses
  <2> QED
    BY <1>0, <2>1
<1>4. ASSUME NEW n \in Reps, Interrupt(n)
      PROVE  \A m \in Reps : StepsLeft(m)' <= StepsLeft(m)
  BY <1>4, FatalEnds DEF Interrupt
<1>5. ASSUME NEW P \in Processes PROVE ~Launch(P)
  BY DEF Launch, TypeOK
<1>6. UNCHANGED vars \/ (\E n \in Reps : Crash(n) \/ Boots(n)) => UNCHANGED <<pc, tries>>
  BY DEF vars, Crash, Boots
<1> QED
  BY <1>1, <1>2, <1>3, <1>4, <1>5, <1>6 DEF Next

(* No replica goes on for ever, whatever crashes and restarts meanwhile. *)
THEOREM AllProgress == Spec => Progress
<1>1. Inv /\ [Next]_vars
        => [/\ \A n \in Reps : NodeStep(n) => StepsLeft(n)' < StepsLeft(n)
            /\ \A n \in Reps : runs' = runs => StepsLeft(n)' <= StepsLeft(n)]_vars
  BY NodeProgresses, NothingGivesBack, NextTyped DEF Inv
<1> QED
  BY <1>1, Invariance, PTL DEF Spec, Progress

-----------------------------------------------------------------------------
(* Why the retries of JoinGroupReplication are in vain.                    *)

(* The repl user is there, and this attempt did not create it. *)
Doomed(n) == user[n] /\ pc[n] \in Active \ PastUser

(* A replica that begins or repeats an attempt when its repl user exists   *)
(* is never done: it stays before CREATE USER (db.go:733) until the        *)
(* process ends, whatever its servers, the others and deinit do.           *)
RetriesInVain == [][\A n \in Reps : Doomed(n) => Doomed(n)' \/ pc'[n] = "killed"]_vars

(* CREATE USER is the only way past itself, and asks for no user. *)
LEMMA DoomedStays ==
    ASSUME TypeOK, [Next]_vars, NEW m \in Reps, Doomed(m)
    PROVE  Doomed(m)' \/ pc'[m] = "killed"
<1> USE DEF TypeOK, Doomed, Active, PastUser, Querying, Ended, Goto, At, memory, disk, counts
<1>1. CASE UNCHANGED vars
  BY <1>1 DEF vars
<1>2. ASSUME NEW P \in Processes, Launch(P)
      PROVE  Doomed(m)'
  BY <1>2 DEF Launch
<1>3. ASSUME NEW n \in Reps, RemoveContainer(n) \/ RemoveVolumes(n)
      PROVE  Doomed(m)'
  <2>1. m # n
    BY <1>3 DEF RemoveContainer, RemoveVolumes, Mates
  <2> QED
    BY <1>3, <2>1 DEF RemoveContainer, RemoveVolumes
<1>4. ASSUME NEW n \in Reps, Crash(n) \/ Boots(n)
      PROVE  Doomed(m)'
  BY <1>4 DEF Crash, Boots
<1>5. ASSUME NEW n \in Reps, n # m, NodeStep(n) \/ Interrupt(n)
      PROVE  UNCHANGED <<pc[m], user[m]>> \/ (user'[m] = user[m] /\ pc'[m] = "killed")
  <2>1. pc'[m] \in {pc[m], "killed"}
    BY <1>5 DEF NodeStep, EngineStep, JoinStep, CreateReplica, ReplicaExists, ReplicaHealthy,
       StartRouter, ContainerFails, Configure, CreateUser, CreateUserRejected,
       Grant, BootstrapOn, ResetReplica, StartNewGroup, StartJoins, StartRejected,
       BootstrapOff, Status, QueryFails, Retry, GiveUp, WriteBootFile, BootFileLost, Interrupt,
       AttemptFails, Fatal
  <2>2. user'[m] = user[m]
    BY <1>5 DEF NodeStep, EngineStep, JoinStep, CreateReplica, ReplicaExists, ReplicaHealthy,
       StartRouter, ContainerFails, Configure, CreateUser, CreateUserRejected,
       Grant, BootstrapOn, ResetReplica, StartNewGroup, StartJoins, StartRejected,
       BootstrapOff, Status, QueryFails, Retry, GiveUp, WriteBootFile, BootFileLost, Interrupt,
       AttemptFails
  <2> QED
    BY <2>1, <2>2
<1>6. ASSUME CreateReplica(m) \/ ReplicaExists(m) \/ ReplicaHealthy(m) \/ StartRouter(m)
             \/ Configure(m) \/ Retry(m)
      PROVE  Doomed(m)'
  BY <1>6 DEF CreateReplica, ReplicaExists, ReplicaHealthy, StartRouter, Configure, Retry
<1>7. ASSUME CreateUserRejected(m) \/ QueryFails(m)
      PROVE  Doomed(m)'
  BY <1>7 DEF CreateUserRejected, QueryFails, AttemptFails
<1>8. ASSUME ContainerFails(m) \/ GiveUp(m) \/ Interrupt(m)
      PROVE  pc'[m] = "killed"
  BY <1>8 DEF ContainerFails, GiveUp, Interrupt, Fatal, Mates
<1>9. /\ ~CreateUser(m) /\ ~Grant(m) /\ ~BootstrapOn(m) /\ ~ResetReplica(m)
      /\ ~StartNewGroup(m) /\ ~StartJoins(m) /\ ~StartRejected(m)
      /\ ~BootstrapOff(m) /\ ~Status(m) /\ ~WriteBootFile(m) /\ ~BootFileLost(m)
  BY DEF CreateUser, Grant, BootstrapOn, ResetReplica, StartNewGroup, StartJoins,
     StartRejected, BootstrapOff, Status, WriteBootFile, BootFileLost
<1>10. ASSUME NEW n \in Reps, NodeStep(n) \/ Interrupt(n)
       PROVE  Doomed(m)' \/ pc'[m] = "killed"
  <2>1. CASE n = m
    BY <1>6, <1>7, <1>8, <1>9, <1>10, <2>1 DEF NodeStep, EngineStep, JoinStep
  <2>2. CASE n # m
    BY <1>5, <1>10, <2>2
  <2> QED
    BY <2>1, <2>2
<1> QED
  BY <1>1, <1>2, <1>3, <1>4, <1>10 DEF Next

(* A retry, or a new command, does not help a replica whose user exists. *)
THEOREM RetriesAreInVain == Spec => RetriesInVain
<1>1. TypeOK /\ [Next]_vars
        => [\A n \in Reps : Doomed(n) => Doomed(n)' \/ pc'[n] = "killed"]_vars
  BY DoomedStays
<1> QED
  BY <1>1, TypeCorrect, PTL DEF Spec, RetriesInVain
(* No step of another touches what LeftOut says, and the replica's own lead *)
(* no further than CREATE USER; without a boot file a restart does nothing. *)
LEMMA LeftOutKept ==
    ASSUME TypeOK, [Next]_vars, NEW m \in Reps, LeftOut(m)
    PROVE  LeftOut(m)' \/ ~user'[m]
<1> USE DEF TypeOK, LeftOut, Active, Querying, Ended, Goto, At, memory, disk, counts
<1>1. CASE UNCHANGED vars
  BY <1>1 DEF vars
<1>2. ASSUME NEW P \in Processes, Launch(P)
      PROVE  LeftOut(m)'
  BY <1>2 DEF Launch
<1>3. ASSUME NEW n \in Reps, Crash(n) \/ Boots(n)
      PROVE  LeftOut(m)'
  BY <1>3 DEF Crash, Boots
<1>4. ASSUME NEW n \in Reps, RemoveContainer(n) \/ RemoveVolumes(n)
      PROVE  LeftOut(m)' \/ ~user'[m]
  BY <1>4 DEF RemoveContainer, RemoveVolumes
<1>5. ASSUME NEW n \in Reps, n # m, NodeStep(n) \/ Interrupt(n)
      PROVE  LeftOut(m)'
  <2>1. pc'[m] \in {pc[m], "killed"}
    BY <1>5 DEF NodeStep, EngineStep, JoinStep, CreateReplica, ReplicaExists, ReplicaHealthy,
       StartRouter, ContainerFails, Configure, CreateUser, CreateUserRejected,
       Grant, BootstrapOn, ResetReplica, StartNewGroup, StartJoins, StartRejected,
       BootstrapOff, Status, QueryFails, Retry, GiveUp, WriteBootFile, BootFileLost,
       Interrupt, AttemptFails, Fatal
  <2>2. user'[m] = user[m] /\ bootFile'[m] = bootFile[m] /\ group'[m] = group[m]
    BY <1>5 DEF NodeStep, EngineStep, JoinStep, CreateReplica, ReplicaExists, ReplicaHealthy,
       StartRouter, ContainerFails, Configure, CreateUser, CreateUserRejected,
       Grant, BootstrapOn, ResetReplica, StartNewGroup, StartJoins, StartRejected,
       BootstrapOff, Status, QueryFails, Retry, GiveUp, WriteBootFile, BootFileLost,
       Interrupt, AttemptFails
  <2> QED
    BY <2>1, <2>2
<1>6. ASSUME CreateReplica(m) \/ ReplicaExists(m) \/ ReplicaHealthy(m) \/ StartRouter(m)
             \/ Configure(m) \/ Retry(m)
      PROVE  LeftOut(m)'
  BY <1>6 DEF CreateReplica, ReplicaExists, ReplicaHealthy, StartRouter, Configure, Retry
<1>7. ASSUME CreateUserRejected(m) \/ QueryFails(m)
      PROVE  LeftOut(m)'
  BY <1>7 DEF CreateUserRejected, QueryFails, AttemptFails
<1>8. ASSUME ContainerFails(m) \/ GiveUp(m) \/ Interrupt(m)
      PROVE  LeftOut(m)'
  BY <1>8 DEF ContainerFails, GiveUp, Interrupt, Fatal
<1>9. /\ ~CreateUser(m) /\ ~Grant(m) /\ ~BootstrapOn(m) /\ ~ResetReplica(m)
      /\ ~StartNewGroup(m) /\ ~StartJoins(m) /\ ~StartRejected(m)
      /\ ~BootstrapOff(m) /\ ~Status(m) /\ ~WriteBootFile(m) /\ ~BootFileLost(m)
  BY DEF CreateUser, Grant, BootstrapOn, ResetReplica, StartNewGroup, StartJoins,
     StartRejected, BootstrapOff, Status, WriteBootFile, BootFileLost
<1>10. ASSUME NEW n \in Reps, NodeStep(n) \/ Interrupt(n)
       PROVE  LeftOut(m)'
  <2>1. CASE n = m
    BY <1>6, <1>7, <1>8, <1>9, <1>10, <2>1 DEF NodeStep, EngineStep, JoinStep
  <2>2. CASE n # m
    BY <1>5, <1>10, <2>2
  <2> QED
    BY <2>1, <2>2
<1> QED
  BY <1>1, <1>2, <1>3, <1>4, <1>10 DEF Next

(* A replica that a crash, or the loss of its boot file, left out of its   *)
(* group stays out whatever is run again, until its volumes are removed.   *)
THEOREM LeftOutForGood == Spec => LeftOutStays
<1>1. TypeOK /\ [Next]_vars
        => [\A n \in Reps : LeftOut(n) => LeftOut(n)' \/ ~user'[n]]_vars
  BY LeftOutKept
<1> QED
  BY <1>1, TypeCorrect, PTL DEF Spec, LeftOutStays
=============================================================================
