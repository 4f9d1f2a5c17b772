--------------------------- MODULE MigrationProofs --------------------------
(* Theorems about Migration, for all databases, tables, columns, indexes   *)
(* and runners, and any number of migrations, commands and failures.       *)
EXTENDS Migration, WellFoundedInduction, TLAPS

-----------------------------------------------------------------------------
(* The least and the greatest of a set of numbers. *)

(* A set of numbers has a least one. *)
LEMMA SmallestExists ==
    \A S \in SUBSET Nat : S # {} => \E x \in S : \A y \in S : x <= y
<1> SUFFICES ASSUME NEW S \in SUBSET Nat, S # {}
             PROVE  \E x \in S : \A y \in S : x <= y
  OBVIOUS
<1>1. \E x \in S : \A y \in S : <<y, x>> \notin OpToRel(<, Nat)
  BY NatLessThanWellFounded, WFMin
<1>2. PICK x \in S : \A y \in S : <<y, x>> \notin OpToRel(<, Nat)
  BY <1>1
<1>3. \A y \in Nat : y < x => <<y, x>> \in OpToRel(<, Nat)
  BY DEF OpToRel
<1>4. \A y \in S : y \in Nat /\ x \in Nat /\ ~(y < x)
  BY <1>2, <1>3, Zenon
<1> QED
  BY <1>4

(* One that is bounded has a greatest. *)
LEMMA LargestExists ==
    ASSUME NEW n \in Nat, NEW S \in SUBSET (0..n), S # {}
    PROVE  \E x \in S : \A y \in S : y <= x
<1> DEFINE U == {u \in 0..n : n - u \in S}
<1>1. \E x \in U : \A y \in U : x <= y
  <2>1. PICK z \in S : TRUE
    OBVIOUS
  <2>2. n - z \in U
    BY <2>1
  <2>3. U \subseteq 0..n /\ 0..n \subseteq Nat
    OBVIOUS
  <2>4. U \in SUBSET Nat
    BY <2>3
  <2> QED
    BY <2>2, <2>4, SmallestExists
<1>2. PICK x \in U : \A y \in U : x <= y
  BY <1>1
<1>3. n - x \in S /\ \A y \in S : n - y \in U
  BY <1>2
<1>4. \A y \in S : n - y \in 0..n /\ y \in 0..n /\ x \in 0..n
  BY <1>2
<1>5. \A y \in S : x <= n - y
  BY <1>2, <1>3
<1>6. \A y \in S : y <= n - x
  <2> HIDE DEF U
  <2> QED
    BY <1>4, <1>5
<1> QED
  BY <1>3, <1>6

(* Smallest and Largest are among the versions they are taken of. *)
LEMMA Extremes ==
    ASSUME NEW S \in SUBSET (0..MaxSaves), S # {}
    PROVE  /\ Smallest(S) \in S /\ \A w \in S : Smallest(S) <= w
           /\ Largest(S) \in S /\ \A w \in S : w <= Largest(S)
<1>1. S \in SUBSET Nat /\ MaxSaves \in Nat
  BY MigrationAssumption
<1>2. \E x \in S : \A y \in S : x <= y
  BY <1>1, SmallestExists
<1>3. \E x \in S : \A y \in S : y <= x
  BY <1>1, LargestExists
<1> QED
  BY <1>2, <1>3 DEF Smallest, Largest

-----------------------------------------------------------------------------
(* What a step is: of the generate command, or of a runner. *)

(* The command of a runner ends, well or not. *)
Left(m) == Leave(m) /\ UNCHANGED <<saveVars, dbVars, runs>> /\ faults' \in {faults, faults + 1}

Begun(m) == Lock(m) \/ Begin(m) \/ Mark(m) \/ RunNothing(m) \/ Run(m) \/ Clear(m)

Saving ==
    \/ GenerateDB \/ GenerateTable \/ GenerateColumn \/ GenerateProp \/ GenerateIndex
    \/ Save \/ SaveCut

(* Every step is one of these. *)
LEMMA StepCases ==
    ASSUME [Next]_vars
    PROVE  \/ UNCHANGED vars
           \/ Saving
           \/ \E m \in Runners : Up(m) \/ Down(m) \/ Begun(m) \/ Left(m)
<1>1. ASSUME NEW m \in Runners, Step(m) PROVE Begun(m) \/ Left(m)
  BY <1>1 DEF Step, Begun, Left, LockTimeout, BeginFails, RunFails, Finish
<1>2. ASSUME NEW m \in Runners, RunCut(m) PROVE Left(m)
  BY <1>2 DEF RunCut, Left
<1> QED
  BY <1>1, <1>2 DEF Next, Saving

-----------------------------------------------------------------------------
(* Types. *)

Types ==
    /\ object \in Seq(Objects) /\ Saved <= MaxSaves
    /\ up \in [Versions -> File] /\ down \in [Versions -> File]
    /\ gpc \in {"idle", "up", "uptext", "down", "downtext"}
    /\ schema \subseteq Objects /\ premade \subseteq Databases
    /\ version \in 0..MaxSaves
    /\ dirty \in BOOLEAN
    /\ skipped \subseteq Versions
    /\ lock \in Runners \cup {"free"}
    /\ pc \in [Runners -> {"idle", "lock", "version", "next", "run", "clear"}]
    /\ command \in [Runners -> {"up", "down"}]
    /\ index \in [Runners -> [up : SUBSET Versions, down : SUBSET Versions]]
    /\ body \in [Runners -> [Versions -> File]]
    /\ todo \in [Runners -> SUBSET Versions]
    /\ runs \in Nat /\ faults \in Nat

(* Numbers of migrations are numbers. *)
LEMMA VersionsAreNumbers ==
    MaxSaves \in Nat /\ Versions = 1..MaxSaves /\ Versions \subseteq 0..MaxSaves
  BY MigrationAssumption DEF Versions

(* What a command knows is of the type at first. *)
LEMMA NothingKnown ==
    NoFiles \in [Versions -> File] /\ NoScan \in [up : SUBSET Versions, down : SUBSET Versions]
  BY DEF NoFiles, NoScan, File

(* Where a migration leads to and from. *)
LEMMA CurrentTypes ==
    ASSUME Types, NEW m \in Runners, todo[m] # {}
    PROVE  Current(m) \in todo[m] /\ Target(m) \in 0..MaxSaves
<1>1. todo[m] \subseteq Versions /\ todo[m] \subseteq 0..MaxSaves
  BY VersionsAreNumbers DEF Types
<1>2. Current(m) \in todo[m]
  BY <1>1, Extremes DEF Current
<1>3. {0} \cup (todo[m] \ {Current(m)}) \in SUBSET (0..MaxSaves)
  BY <1>1, VersionsAreNumbers
<1> QED
  BY <1>1, <1>2, <1>3, Extremes DEF Target

(* The types hold at first. *)
LEMMA InitTypes == Init => Types
<1> SUFFICES ASSUME Init PROVE Types
  OBVIOUS
<1>1. object \in Seq(Objects) /\ Saved = 0
  BY DEF Init, Saved
<1>2. /\ up \in [Versions -> File] /\ down \in [Versions -> File]
      /\ index \in [Runners -> [up : SUBSET Versions, down : SUBSET Versions]]
      /\ body \in [Runners -> [Versions -> File]]
  BY NothingKnown DEF Init
<1>3. /\ Saved <= MaxSaves /\ version \in 0..MaxSaves
      /\ runs \in Nat /\ faults \in Nat
  BY <1>1, VersionsAreNumbers DEF Init
<1>5. dirty \in BOOLEAN /\ premade \subseteq Databases /\ schema \subseteq Objects
      /\ skipped \subseteq Versions
  BY DEF Init, Objects
<1>4. /\ lock \in Runners \cup {"free"} /\ gpc = "idle"
      /\ pc \in [Runners -> {"idle", "lock", "version", "next", "run", "clear"}]
      /\ command \in [Runners -> {"up", "down"}]
      /\ todo \in [Runners -> SUBSET Versions]
  BY DEF Init
<1> QED
  BY <1>1, <1>2, <1>3, <1>4, <1>5 DEF Types

(* What a scan finds and what a command begins with. *)
LEMMA ReadTypes ==
    ASSUME Types, NEW m \in Runners
    PROVE  /\ Read(m) \in [Versions -> File]
           /\ Known(m) \subseteq Versions /\ Pending(m) \subseteq Known(m)
<1>1. Files(m) \in [Versions -> File] /\ "none" \in File
  BY DEF Files, Types, File
<1>2. Known(m) \subseteq Versions /\ Pending(m) \subseteq Known(m)
  BY DEF Known, Pending, Types
<1> QED
  BY <1>1, <1>2 DEF Read

(* What a runner is to run is there. *)
Runnable ==
    \A m \in Runners :
        todo[m] \subseteq 1..Saved /\ (pc[m] \in {"run", "clear"} => todo[m] # {})

(* The version that is run makes an object. *)
LEMMA CurrentMakes ==
    ASSUME Types, Runnable, NEW m \in Runners, pc[m] \in {"run", "clear"}
    PROVE  Current(m) \in Versions /\ Current(m) \in 1..Saved /\ object[Current(m)] \in Objects
<1>1. Current(m) \in todo[m]
  BY CurrentTypes DEF Runnable
<1> QED
  BY <1>1 DEF Runnable, Types, Saved

(* Every step keeps the types. *)
LEMMA NextTypes == ASSUME Types, Runnable, [Next]_vars PROVE Types'
<1> USE VersionsAreNumbers, NothingKnown
    DEF Types, Saved, saveVars, dbVars, planVars, Goto
<1>1. CASE UNCHANGED vars
  BY <1>1 DEF vars
<1>2. CASE Saving
  <2>1. CASE \E S \in SUBSET Objects : Generate(S)
    <3>1. PICK S \in SUBSET Objects : Generate(S)
      BY <2>1
    <3>2. PICK o \in S : object' = Append(object, o)
      BY <3>1 DEF Generate
    <3>3. object' \in Seq(Objects) /\ Saved' = Saved + 1 /\ Saved < MaxSaves /\ Saved \in Nat
      BY <3>1, <3>2 DEF Generate, Saved
    <3> QED
      BY <3>1, <3>3 DEF Generate
  <2>2. CASE Save
    BY <2>2 DEF Save, File, Saved
  <2>3. CASE SaveCut
    BY <2>3 DEF SaveCut, Saved
  <2> QED
    BY <1>2, <2>1, <2>2, <2>3
       DEF Saving, GenerateDB, GenerateTable, GenerateColumn, GenerateProp, GenerateIndex, Objects
<1>3. ASSUME NEW m \in Runners, Up(m) \/ Down(m) PROVE Types'
  <2>1. index'[m] \in [up : SUBSET Versions, down : SUBSET Versions]
    BY <1>3 DEF Up, Down, Scan
  <2>2. /\ index' = [index EXCEPT ![m] = index'[m]]
        /\ \E c \in {"up", "down"} : command' = [command EXCEPT ![m] = c]
        /\ pc' = [pc EXCEPT ![m] = "lock"]
        /\ runs' \in Nat
        /\ UNCHANGED <<saveVars, dbVars, lock, body, todo, faults>>
    BY <1>3 DEF Up, Down, Scan
  <2> QED
    BY <2>1, <2>2
<1>4. ASSUME NEW m \in Runners, Left(m) PROVE Types'
  BY <1>4 DEF Left, Leave
<1>5. ASSUME NEW m \in Runners, Begun(m) PROVE Types'
  <2>1. CASE Lock(m)
    BY <2>1 DEF Lock
  <2>2. CASE Begin(m)
    BY <2>2, ReadTypes DEF Begin
  <2>3. CASE Mark(m)
    BY <2>3, CurrentTypes DEF Mark
  <2>4. CASE RunNothing(m)
    <3>0. pc[m] = "run" /\ skipped' \subseteq skipped \cup {Current(m)}
      BY <2>4 DEF RunNothing
    <3>1. skipped' \subseteq Versions
      <4> HIDE DEF Types
      <4>1. Current(m) \in Versions /\ skipped \subseteq Versions
        BY <3>0, CurrentMakes DEF Types
      <4> QED
        BY <3>0, <4>1
    <3> QED
      BY <2>4, <3>1 DEF RunNothing
  <2>5. CASE Run(m)
    <3>1. schema' \subseteq Objects
      BY <2>5, CurrentMakes DEF Run, Dropped
    <3> QED
      BY <2>5, <3>1 DEF Run
  <2>6. CASE Clear(m)
    BY <2>6 DEF Clear
  <2> QED
    BY <1>5, <2>1, <2>2, <2>3, <2>4, <2>5, <2>6 DEF Begun
<1> QED
  BY <1>1, <1>2, <1>3, <1>4, <1>5, StepCases

-----------------------------------------------------------------------------
(* The files. *)

Filed == {v \in Versions : up[v] # "none"}

(* Save fills the files of the last version, up before down. *)
Saves ==
    /\ \A v \in Versions : up[v] # "none" => v <= Saved
    /\ \A v \in Versions : down[v] # "none" => up[v] = "full"
    /\ gpc # "idle" => Saved \in Versions
    /\ gpc = "up" => up[Saved] = "none"
    /\ gpc = "uptext" => up[Saved] = "empty"
    /\ gpc \in {"down", "downtext"} => up[Saved] = "full"
    /\ gpc = "down" => down[Saved] = "none"
    /\ gpc = "downtext" => down[Saved] = "empty"

(* Files are never removed or emptied, nor made but of the last version. *)
Grow ==
    /\ Saved' >= Saved /\ \A v \in 1..Saved : object'[v] = object[v]
    /\ \A v \in Versions :
          /\ up[v] = "full" => up'[v] = "full"
          /\ down[v] = "full" => down'[v] = "full"
          /\ up[v] = "empty" => up'[v] # "none"
          /\ down[v] = "empty" => down'[v] # "none"
          /\ up[v] = "none" /\ up'[v] # "none" => v = Saved
          /\ down[v] # "none" => down'[v] # "none"

(* A step of generate appends an object or is one to the files. *)
LEMMA SavingCases ==
    ASSUME Types, Saving
    PROVE  /\ UNCHANGED <<dbVars, lock, pc, planVars, runs>>
           /\ \/ /\ \E o \in Objects : object' = Append(object, o)
                 /\ Saved < MaxSaves /\ gpc' = "up" /\ UNCHANGED <<up, down>>
              \/ Save
              \/ gpc' = "idle" /\ UNCHANGED <<object, up, down>>
<1>1. ASSUME NEW S \in SUBSET Objects, Generate(S)
      PROVE  /\ \E o \in Objects : object' = Append(object, o)
             /\ Saved < MaxSaves /\ gpc' = "up" /\ UNCHANGED <<up, down>>
             /\ UNCHANGED <<dbVars, lock, pc, planVars, runs>>
  BY <1>1 DEF Generate
<1>2. Databases \in SUBSET Objects /\ Tables \in SUBSET Objects
      /\ Columns \in SUBSET Objects /\ Indexes \in SUBSET Objects
  BY DEF Objects
<1>3. ASSUME Save \/ SaveCut
      PROVE  /\ UNCHANGED <<dbVars, lock, pc, planVars, runs>>
             /\ Save \/ (gpc' = "idle" /\ UNCHANGED <<object, up, down>>)
  <2>1. CASE Save
    <3>1. UNCHANGED <<dbVars, lock, pc, planVars, runs>>
      BY <2>1 DEF Save, dbVars, planVars
    <3> QED
      BY <2>1, <3>1
  <2>2. CASE SaveCut
    BY <2>2 DEF SaveCut
  <2> QED
    BY <1>3, <2>1, <2>2
<1> QED
  BY <1>1, <1>2, <1>3
     DEF Saving, GenerateDB, GenerateTable, GenerateColumn, GenerateProp, GenerateIndex

(* Every step keeps the order in which files are made. *)
LEMMA NextSaves ==
    ASSUME Types, Saves, [Next]_vars
    PROVE  /\ Saves' /\ Grow
           /\ \/ Saving /\ UNCHANGED <<dbVars, lock, pc, planVars>>
              \/ UNCHANGED saveVars
<1>1. CASE UNCHANGED saveVars
  BY <1>1, VersionsAreNumbers DEF Types, Saves, Grow, saveVars, Saved
<1>2. CASE Saving
  <2>0. UNCHANGED <<dbVars, lock, pc, planVars>>
    BY <1>2, SavingCases
  <2>1. CASE /\ \E o \in Objects : object' = Append(object, o)
             /\ Saved < MaxSaves /\ gpc' = "up" /\ UNCHANGED <<up, down>>
    <3>1. Saved \in Nat /\ Saved' = Saved + 1 /\ \A v \in 1..Saved : object'[v] = object[v]
      BY <2>1 DEF Types, Saved
    <3>2. Saved' \in Versions /\ up[Saved'] = "none"
      BY <2>1, <3>1, VersionsAreNumbers DEF Saves, Types
    <3>3. \A v \in Versions : v \in Nat
      BY VersionsAreNumbers
    <3>4. Saves'
      BY <2>1, <3>1, <3>2, <3>3 DEF Saves
    <3>5. Grow
      <4>1. UNCHANGED <<up, down>>
        BY <2>1
      <4> QED
        BY <4>1, <3>1, <3>3 DEF Grow
    <3> QED
      BY <2>0, <1>2, <3>4, <3>5
  <2>2. CASE Save
    <3>1. UNCHANGED object /\ Saved' = Saved /\ Saved \in Nat
      BY <2>2 DEF Save, Types, Saved
    <3> QED
      BY <2>0, <1>2, <2>2, <3>1, VersionsAreNumbers DEF Saves, Grow, Types, Save
  <2>3. CASE gpc' = "idle" /\ UNCHANGED <<object, up, down>>
    BY <2>0, <1>2, <2>3, VersionsAreNumbers DEF Saves, Grow, Types, Saved
  <2> QED
    BY <1>2, <2>1, <2>2, <2>3, SavingCases
<1>3. ASSUME NEW m \in Runners, Up(m) \/ Down(m) \/ Begun(m) \/ Left(m) PROVE UNCHANGED saveVars
  BY <1>3 DEF Up, Down, Scan, Begun, Left, Lock, Begin, Mark, RunNothing, Run, Clear
<1>4. UNCHANGED vars => UNCHANGED saveVars
  BY DEF vars
<1> QED
  BY <1>1, <1>2, <1>3, <1>4, StepCases


-----------------------------------------------------------------------------
(* What a runner knows. *)

(* Who is past the lock has it. *)
Locked == \A m \in Runners : pc[m] \in {"version", "next", "run", "clear"} => lock = m

(* A scan saw files that are there, and all those below any it saw. *)
Scanned ==
    \A m \in Runners :
        /\ index[m].up \subseteq Filed /\ index[m].down \subseteq index[m].up
        /\ \A v \in index[m].down : down[v] # "none"
        /\ \A w \in index[m].up : \A v \in Filed : v < w => v \in index[m].up

(* What was in a file that a scan saw, before another step or after it. *)
Texted ==
    \A m \in Runners :
        /\ pc[m] \in {"next", "run", "clear"} => \A v \in Seen(m) : body[m][v] # "none"
        /\ pc[m] \in {"next", "run", "clear"} =>
              \A v \in Versions : body[m][v] = "full" => Files(m)[v] = "full"

(* Every step keeps the lock. *)
LEMMA NextLocked == ASSUME Types, Locked, [Next]_vars PROVE Locked'
<1> USE DEF Types, Saved, saveVars, dbVars, planVars, Goto, Locked
<1>1. CASE UNCHANGED vars
  BY <1>1 DEF vars
<1>2. CASE Saving
  BY <1>2, SavingCases
<1>3. ASSUME NEW m \in Runners, Up(m) \/ Down(m) PROVE Locked'
  BY <1>3 DEF Up, Down, Scan
<1>4. ASSUME NEW m \in Runners, Left(m) PROVE Locked'
  BY <1>4 DEF Left, Leave
<1>5. ASSUME NEW m \in Runners, Begun(m) PROVE Locked'
  <2>1. CASE Lock(m)
    BY <2>1, MigrationAssumption DEF Lock
  <2>2. CASE Begin(m)
    BY <2>2 DEF Begin
  <2>3. CASE Mark(m)
    BY <2>3 DEF Mark
  <2>4. CASE RunNothing(m)
    BY <2>4 DEF RunNothing
  <2>5. CASE Run(m)
    BY <2>5 DEF Run
  <2>6. CASE Clear(m)
    BY <2>6 DEF Clear
  <2> QED
    BY <1>5, <2>1, <2>2, <2>3, <2>4, <2>5, <2>6 DEF Begun
<1> QED
  BY <1>1, <1>2, <1>3, <1>4, <1>5, StepCases

(* Every step keeps what the scans saw. *)
LEMMA NextScanned == ASSUME Types, Saves, Scanned, [Next]_vars PROVE Scanned'
<1>1. CASE Saving /\ UNCHANGED <<dbVars, lock, pc, planVars>>
  <2>1. Grow
    BY NextSaves
  <2>2. UNCHANGED index
    BY <1>1 DEF planVars
  <2>3. Filed \subseteq Filed' /\ \A v \in Filed' \ Filed : v = Saved
    BY <2>1 DEF Filed, Grow, Types, File
  <2>4. \A m \in Runners : \A w \in index[m].up : w \in Nat /\ w <= Saved
    BY VersionsAreNumbers DEF Scanned, Filed, Saves
  <2>5. Saved \in Nat
    BY DEF Types, Saved
  <2>6. \A m \in Runners : \A v \in index[m].down : v \in Versions
    BY DEF Scanned, Filed
  <2> QED
    BY <2>1, <2>2, <2>3, <2>4, <2>5, <2>6 DEF Scanned, Grow
<1>2. CASE UNCHANGED <<up, down, index>>
  BY <1>2 DEF Scanned, Filed
<1>3. ASSUME NEW m \in Runners, Up(m) \/ Down(m) PROVE Scanned'
  <2>1. UNCHANGED <<up, down>>
    BY <1>3 DEF Up, Down, Scan, saveVars
  <2>2. /\ \A n \in Runners : n # m => index'[n] = index[n]
        /\ index'[m].up = Filed /\ index'[m].down = {v \in Versions : down[v] # "none"}
    BY <1>3 DEF Up, Down, Scan, Types, Filed
  <2>3. index'[m].down \subseteq Filed
    BY <2>2 DEF Saves, Filed
  <2> QED
    BY <2>1, <2>2, <2>3 DEF Scanned, Filed
<1>4. ASSUME NEW m \in Runners, Left(m) PROVE Scanned'
  <2>1. UNCHANGED <<up, down>>
    BY <1>4 DEF Left, saveVars
  <2>2. \A n \in Runners : index'[n] = index[n] \/ index'[n] = NoScan
    BY <1>4 DEF Left, Leave, Types
  <2>3. NoScan.up = {} /\ NoScan.down = {}
    BY DEF NoScan
  <2> QED
    BY <2>1, <2>2, <2>3 DEF Scanned, Filed
<1>5. ASSUME NEW m \in Runners, Begun(m) PROVE UNCHANGED <<up, down, index>>
  BY <1>5 DEF Begun, Lock, Begin, Mark, RunNothing, Run, Clear, saveVars, planVars
<1>6. UNCHANGED vars => UNCHANGED <<up, down, index>>
  BY DEF vars, saveVars, planVars
<1>7. Saving => UNCHANGED <<dbVars, lock, pc, planVars>>
  BY SavingCases
<1> QED
  BY <1>1, <1>2, <1>3, <1>4, <1>5, <1>6, <1>7, StepCases

(* Every step keeps what was read. *)
LEMMA NextTexted == ASSUME Types, Saves, Scanned, Texted, [Next]_vars PROVE Texted'
<1>1. CASE Saving /\ UNCHANGED <<dbVars, lock, pc, planVars>>
  <2>1. Grow
    BY NextSaves
  <2>2. UNCHANGED <<pc, command, index, body>>
    BY <1>1 DEF planVars
  <2>3. \A m \in Runners : Seen(m)' = Seen(m)
    BY <2>2 DEF Seen
  <2>4. \A m \in Runners : \A v \in Versions : Files(m)[v] = "full" => Files(m)'[v] = "full"
    BY <2>1, <2>2 DEF Files, Grow
  <2> QED
    BY <2>2, <2>3, <2>4 DEF Texted
<1>2. CASE UNCHANGED <<up, down, command, index, body>>
           /\ \A m \in Runners : pc'[m] \in {"next", "run", "clear"} => pc[m] \in {"next", "run", "clear"}
  BY <1>2 DEF Texted, Seen, Files
<1>3. ASSUME NEW m \in Runners, Up(m) \/ Down(m) \/ Left(m) PROVE Texted'
  <2>1. UNCHANGED <<up, down>> /\ pc'[m] \notin {"next", "run", "clear"}
    BY <1>3 DEF Up, Down, Scan, Left, Leave, Goto, saveVars, Types
  <2>2. \A n \in Runners : n # m =>
            pc'[n] = pc[n] /\ command'[n] = command[n] /\ index'[n] = index[n] /\ body'[n] = body[n]
    BY <1>3 DEF Up, Down, Scan, Left, Leave, Goto, Types
  <2> QED
    BY <2>1, <2>2 DEF Texted, Seen, Files
<1>4. ASSUME NEW m \in Runners, Begin(m) PROVE Texted'
  <2>1. UNCHANGED <<up, down, command, index>>
    BY <1>4 DEF Begin, saveVars
  <2>2. /\ \A n \in Runners : n # m => pc'[n] = pc[n] /\ body'[n] = body[n]
        /\ body'[m] = Read(m)
    BY <1>4 DEF Begin, Goto, Types
  <2>3. \A v \in Seen(m) : v \in Versions /\ Files(m)[v] # "none"
    BY DEF Seen, Files, Scanned, Filed
  <2>4. /\ \A v \in Seen(m) : Read(m)[v] # "none"
        /\ \A v \in Versions : Read(m)[v] = "full" => Files(m)[v] = "full"
    BY <2>3 DEF Read
  <2> QED
    BY <2>1, <2>2, <2>4 DEF Texted, Seen, Files
<1>5. ASSUME NEW m \in Runners, Lock(m) \/ Mark(m) \/ RunNothing(m) \/ Run(m) \/ Clear(m)
      PROVE  Texted'
  <2>1. UNCHANGED <<up, down, command, index, body>>
    BY <1>5 DEF Lock, Mark, RunNothing, Run, Clear, saveVars, planVars
  <2>2. \A n \in Runners : pc'[n] \in {"next", "run", "clear"} => pc[n] \in {"next", "run", "clear"}
    BY <1>5 DEF Lock, Mark, RunNothing, Run, Clear, Goto, Types
  <2> QED
    BY <1>2, <2>1, <2>2
<1>6. UNCHANGED vars => Texted'
  BY <1>2 DEF vars, saveVars, planVars
<1>7. Saving => UNCHANGED <<dbVars, lock, pc, planVars>>
  BY SavingCases
<1> QED
  BY <1>1, <1>3, <1>4, <1>5, <1>6, <1>7, StepCases DEF Begun


-----------------------------------------------------------------------------
(* How far a runner has come. *)

(* Between two migrations: what is to do is above the version, or up to it. *)
AtNext(m) ==
    pc[m] = "next" =>
        /\ ~dirty
        /\ command[m] = "up" => todo[m] = {v \in index[m].up : v > version}
        /\ command[m] = "down" => /\ todo[m] = {v \in index[m].up : v <= version}
                                  /\ version \in {0} \cup todo[m]

(* Within one: it has its mark, and the version it leads to. *)
AtRun(m) ==
    pc[m] \in {"run", "clear"} =>
        /\ dirty /\ Current(m) \in todo[m]
        /\ command[m] = "up" => /\ version = Current(m)
                                /\ todo[m] = {v \in index[m].up : v >= version}
        /\ command[m] = "down" => /\ version \in {0} \cup todo[m] /\ version < Current(m)
                                  /\ todo[m] = {v \in index[m].up : v <= Current(m)}
                                  /\ \A w \in todo[m] : w = Current(m) \/ w <= version

Position ==
    /\ version \in {0} \cup Filed
    /\ \A m \in Runners :
          /\ todo[m] \subseteq index[m].up
          /\ pc[m] \in {"idle", "lock", "version"} => todo[m] = {}
          /\ AtNext(m) /\ AtRun(m)

(* A number that is in a set and not below another of it is the greatest. *)
LEMMA LargestIs ==
    ASSUME NEW S \in SUBSET (0..MaxSaves), NEW c \in S, \A w \in S : w <= c
    PROVE  Largest(S) = c
<1>1. Largest(S) \in S /\ c <= Largest(S) /\ Largest(S) <= c
  BY Extremes
<1>2. c \in Nat /\ Largest(S) \in Nat
  <2>1. \A x \in 0..MaxSaves : x \in Nat
    BY VersionsAreNumbers
  <2> QED
    BY <1>1, <2>1
<1> QED
  BY <1>1, <1>2

(* The other runners stand before the lock. *)
LEMMA OthersWait ==
    ASSUME Types, Locked, Position, NEW m \in Runners, pc[m] \in {"version", "next", "run", "clear"},
           NEW n \in Runners, n # m, pc'[n] = pc[n]
    PROVE  AtNext(n)' /\ AtRun(n)'
  BY DEF Types, Locked, AtNext, AtRun

(* A runner between two migrations has numbers to do. *)
LEMMA TodoNumbers ==
    ASSUME Types, NEW m \in Runners
    PROVE  todo[m] \in SUBSET (0..MaxSaves) /\ index[m].up \subseteq Versions
           /\ \A v \in index[m].up : v \in Nat /\ v > 0 /\ v <= MaxSaves
  BY VersionsAreNumbers DEF Types

(* The mark is set for the next migration. *)
LEMMA MarkPosition ==
    ASSUME Types, Locked, Scanned, Position, NEW m \in Runners, Mark(m)
    PROVE  Position'
<1>1. /\ pc[m] = "next" /\ todo[m] # {} /\ version' = Target(m) /\ dirty'
      /\ pc' = [pc EXCEPT ![m] = "run"]
      /\ UNCHANGED <<up, command, index, todo>>
  BY DEF Mark, Goto, saveVars, planVars
<1>2. Current(m) \in todo[m] /\ todo[m] \subseteq index[m].up /\ AtNext(m)
  BY <1>1, CurrentTypes DEF Position
<1>3. Current(m)' = Current(m)
  BY <1>1 DEF Current
<1>4. ASSUME command[m] = "up" PROVE AtNext(m)' /\ AtRun(m)'
  <2>1. version' = Current(m) /\ \A w \in todo[m] : Current(m) <= w
    BY <1>1, <1>4, TodoNumbers, Extremes DEF Target, Current
  <2>2. todo[m] = {v \in index[m].up : v >= version'}
    BY <1>1, <1>2, <1>4, <2>1, TodoNumbers DEF AtNext, Types
  <2> QED
    BY <1>1, <1>2, <1>3, <1>4, <2>1, <2>2 DEF AtRun, AtNext, Types
<1>5. ASSUME command[m] = "down" PROVE AtNext(m)' /\ AtRun(m)'
  <2>1. Current(m) = version
    <3>1. version \in todo[m]
      BY <1>1, <1>2, <1>5, TodoNumbers DEF AtNext
    <3>2. \A w \in todo[m] : w <= version
      BY <1>1, <1>2, <1>5 DEF AtNext
    <3> QED
      BY <1>5, <3>1, <3>2, TodoNumbers, LargestIs DEF Current
  <2> DEFINE S == {0} \cup (todo[m] \ {Current(m)})
  <2>2. version' = Largest(S)
    BY <1>1, <1>5 DEF Target
  <2>3. S \in SUBSET (0..MaxSaves) /\ S # {}
    BY TodoNumbers, VersionsAreNumbers
  <2>4. version' \in S /\ \A w \in S : w <= version'
    BY <2>2, <2>3, Extremes
  <2>5. todo[m] = {v \in index[m].up : v <= Current(m)}
    BY <1>1, <1>2, <1>5, <2>1 DEF AtNext
  <2>6. version' < Current(m)
    BY <1>2, <2>4, <2>5, TodoNumbers
  <2> QED
    BY <1>1, <1>2, <1>3, <1>5, <2>4, <2>5, <2>6 DEF AtRun, AtNext, Types
<1>6. version' \in {0} \cup Filed
  <2>1. version' \in {0} \cup todo[m]
    <3>1. {0} \cup (todo[m] \ {Current(m)}) \in SUBSET (0..MaxSaves)
      BY TodoNumbers, VersionsAreNumbers
    <3> QED
      BY <1>1, <1>2, <3>1, Extremes DEF Target
  <2> QED
    BY <1>2, <2>1 DEF Scanned
<1>7. AtNext(m)' /\ AtRun(m)'
  BY <1>4, <1>5 DEF Types
<1> QED
  BY <1>1, <1>6, <1>7, OthersWait DEF Position, Types, Filed


(* The mark is cleared: one less to do. *)
LEMMA ClearPosition ==
    ASSUME Types, Locked, Scanned, Position, NEW m \in Runners, Clear(m)
    PROVE  Position'
<1>1. /\ pc[m] = "clear" /\ ~dirty' /\ pc' = [pc EXCEPT ![m] = "next"]
      /\ todo' = [todo EXCEPT ![m] = @ \ {Current(m)}]
      /\ UNCHANGED <<up, command, index, version>>
  BY DEF Clear, Goto, saveVars
<1>2. todo[m] \subseteq index[m].up /\ AtRun(m)
  BY DEF Position
<1>3. todo'[m] = todo[m] \ {Current(m)}
  BY <1>1 DEF Types
<1>4. ASSUME command[m] = "up" PROVE AtNext(m)'
  <2>1. todo'[m] = {v \in index[m].up : v > version}
    BY <1>1, <1>2, <1>3, <1>4, TodoNumbers DEF AtRun
  <2> QED
    BY <1>1, <1>4, <2>1 DEF AtNext, Types
<1>5. ASSUME command[m] = "down" PROVE AtNext(m)'
  <2>1. Current(m) \in Nat /\ version \in Nat /\ version < Current(m)
    BY <1>1, <1>2, <1>5, TodoNumbers, VersionsAreNumbers DEF AtRun, Types
  <2>2. todo'[m] = {v \in index[m].up : v <= version}
    BY <1>1, <1>2, <1>3, <1>5, <2>1, TodoNumbers DEF AtRun
  <2>3. version \in {0} \cup todo'[m]
    BY <1>1, <1>2, <1>3, <1>5, <2>1 DEF AtRun
  <2> QED
    BY <1>1, <1>5, <2>2, <2>3 DEF AtNext, Types
<1>6. AtNext(m)' /\ AtRun(m)'
  BY <1>1, <1>4, <1>5 DEF AtRun, Types
<1>7. \A n \in Runners : n # m => pc'[n] = pc[n] /\ todo'[n] = todo[n]
  BY <1>1 DEF Types
<1>8. \A n \in Runners : n # m => AtNext(n)' /\ AtRun(n)'
  BY <1>1, <1>7, OthersWait
<1> QED
  BY <1>1, <1>2, <1>3, <1>6, <1>7, <1>8 DEF Position, Types, Filed

(* Every step keeps the position. *)
LEMMA NextPosition ==
    ASSUME Types, Saves, Locked, Scanned, Position, [Next]_vars
    PROVE  Position'
<1>1. ASSUME UNCHANGED <<dbVars, planVars, pc>>, Grow PROVE Position'
  <2>1. UNCHANGED <<version, dirty, pc, command, index, todo>>
    BY <1>1 DEF dbVars, planVars
  <2>2. Filed \subseteq Filed'
    BY <1>1 DEF Grow, Filed, Types, File
  <2>3. \A m \in Runners : Current(m)' = Current(m)
    BY <2>1 DEF Current
  <2> QED
    BY <2>1, <2>2, <2>3 DEF Position, AtNext, AtRun
<1>2. ASSUME NEW m \in Runners, Up(m) \/ Down(m) PROVE Position'
  <2>1. /\ UNCHANGED <<up, version, dirty, todo>>
        /\ pc[m] = "idle" /\ pc' = [pc EXCEPT ![m] = "lock"]
        /\ \A n \in Runners : n # m => command'[n] = command[n] /\ index'[n] = index[n]
    BY <1>2 DEF Up, Down, Scan, Goto, saveVars, dbVars, Types
  <2>2. todo'[m] = {} /\ AtNext(m)' /\ AtRun(m)'
    BY <2>1 DEF Position, AtNext, AtRun, Types
  <2>3. \A n \in Runners : n # m => (Current(n)' = Current(n) /\ pc'[n] = pc[n])
    BY <2>1 DEF Current, Types
  <2>4. \A n \in Runners : n # m => AtNext(n)' /\ AtRun(n)'
    BY <2>1, <2>3 DEF Position, AtNext, AtRun
  <2> QED
    BY <2>1, <2>2, <2>3, <2>4 DEF Position, Filed
<1>3. ASSUME NEW m \in Runners, Left(m) PROVE Position'
  <2>1. /\ UNCHANGED <<up, version, dirty>>
        /\ pc'[m] = "idle" /\ todo'[m] = {}
        /\ \A n \in Runners : n # m => /\ command'[n] = command[n] /\ index'[n] = index[n]
                                       /\ pc'[n] = pc[n] /\ todo'[n] = todo[n]
    BY <1>3 DEF Left, Leave, Goto, saveVars, dbVars, Types
  <2>2. AtNext(m)' /\ AtRun(m)'
    BY <2>1 DEF AtNext, AtRun
  <2>3. \A n \in Runners : n # m => Current(n)' = Current(n)
    BY <2>1 DEF Current
  <2>4. \A n \in Runners : n # m => AtNext(n)' /\ AtRun(n)'
    BY <2>1, <2>3 DEF Position, AtNext, AtRun
  <2> QED
    BY <2>1, <2>2, <2>4 DEF Position, Filed
<1>4. ASSUME NEW m \in Runners, Lock(m) PROVE Position'
  <2>1. /\ UNCHANGED <<up, version, dirty, command, index, todo>>
        /\ pc[m] = "lock" /\ pc' = [pc EXCEPT ![m] = "version"]
    BY <1>4 DEF Lock, Goto, saveVars, dbVars, planVars
  <2>2. \A n \in Runners : Current(n)' = Current(n)
    BY <2>1 DEF Current
  <2> QED
    BY <2>1, <2>2 DEF Position, AtNext, AtRun, Types, Filed
<1>5. ASSUME NEW m \in Runners, Begin(m) PROVE Position'
  <2>1. /\ UNCHANGED <<up, version, dirty, command, index>>
        /\ ~dirty /\ pc[m] = "version" /\ pc' = [pc EXCEPT ![m] = "next"]
        /\ version \in Known(m) \cup {0}
        /\ todo' = [todo EXCEPT ![m] = Pending(m)]
    BY <1>5 DEF Begin, Goto, saveVars, dbVars
  <2>2. Known(m) = index[m].up
    BY DEF Known, Scanned
  <2>3. \A n \in Runners : n # m => todo'[n] = todo[n] /\ pc'[n] = pc[n]
    BY <2>1 DEF Types
  <2>4. todo'[m] = {v \in index[m].up : IF command[m] = "up" THEN v > version ELSE v <= version}
    BY <2>1, <2>2 DEF Pending, Types
  <2>5. command[m] = "down" => version \in {0} \cup todo'[m]
    BY <2>1, <2>2, <2>4, TodoNumbers DEF Types
  <2>6. AtNext(m)' /\ AtRun(m)'
    BY <2>1, <2>4, <2>5 DEF AtNext, AtRun, Types
  <2>7. \A n \in Runners : n # m => AtNext(n)' /\ AtRun(n)'
    BY <2>1, <2>3, OthersWait
  <2> QED
    BY <2>1, <2>3, <2>4, <2>6, <2>7 DEF Position, Filed, Types
<1>6. ASSUME NEW m \in Runners, RunNothing(m) \/ Run(m) PROVE Position'
  <2>1. /\ UNCHANGED <<up, version, dirty, command, index, todo>>
        /\ pc[m] = "run" /\ pc' = [pc EXCEPT ![m] = "clear"]
    BY <1>6 DEF RunNothing, Run, Goto, saveVars, planVars
  <2>2. \A n \in Runners : Current(n)' = Current(n)
    BY <2>1 DEF Current
  <2> QED
    BY <2>1, <2>2 DEF Position, AtNext, AtRun, Types, Filed
<1>7. UNCHANGED vars => Position'
  <2>1. UNCHANGED vars => UNCHANGED <<up, version, dirty, pc, command, index, todo>>
    BY DEF vars, saveVars, dbVars, planVars
  <2>2. UNCHANGED vars => \A m \in Runners : Current(m)' = Current(m)
    BY <2>1 DEF Current
  <2> QED
    BY <2>1, <2>2 DEF Position, AtNext, AtRun, Filed
<1>8. Saving => UNCHANGED <<dbVars, planVars, pc>> /\ Grow
  BY SavingCases, NextSaves
<1> QED
  BY <1>1, <1>2, <1>3, <1>4, <1>5, <1>6, <1>7, <1>8, MarkPosition, ClearPosition, StepCases
     DEF Begun


-----------------------------------------------------------------------------
(* What the database holds. *)

Below(k) == {v \in Filed : v <= k}

(* What the versions up to k make is there, and nothing else but what was  *)
(* skipped and what init.sql made; each was made after what it builds on.  *)
Done(k) ==
    /\ Distinct => \A v \in Below(k) : object[v] \in schema /\ Ordered(v)
    /\ Distinct => \A s \in skipped : \A v \in Below(s) : Ordered(v)
    /\ schema \subseteq Made(Below(k)) \cup Made(skipped) \cup premade
    /\ premade \subseteq schema /\ \A v \in Below(k) : object[v] \notin premade

(* The schema is that of the recorded version when there is no mark, and   *)
(* until a statement has run that of the version before it.                *)
Database ==
    /\ skipped \subseteq Filed
    /\ ~dirty => Done(version)
    /\ \A m \in Runners :
          /\ pc[m] = "run" => Done(IF command[m] = "up" THEN version - 1 ELSE Current(m))
          /\ pc[m] = "clear" => Done(version)

(* Versions with files are numbers of migrations. *)
LEMMA FiledNumbers ==
    ASSUME Types, Saves
    PROVE  /\ Saved \in Nat
           /\ \A v \in Filed : v \in Nat /\ v > 0 /\ v <= Saved /\ v \in 1..Saved
           /\ version \in Nat
  BY VersionsAreNumbers DEF Types, Saves, Filed, Saved

(* What is done stays done when generate goes on. *)
LEMMA DoneGrows ==
    ASSUME Types, Saves, Grow, UNCHANGED <<premade, schema, skipped>>, skipped \subseteq Filed,
           NEW k \in Int, k <= 0 \/ \E f \in Filed : k <= f, Done(k)
    PROVE  Done(k)'
<1>1. Filed \subseteq Filed' /\ \A v \in Filed' \ Filed : v = Saved
  BY DEF Grow, Filed, Types, File
<1>2. ASSUME NEW j \in Int, j <= 0 \/ \E f \in Filed : j <= f PROVE Below(j)' = Below(j)
  <2>1. \A v \in Filed' : v \in Filed \/ (v = Saved /\ Saved \notin Filed)
    BY <1>1
  <2>2. ASSUME NEW v \in Filed', v <= j PROVE v \in Filed
    <3>1. CASE j <= 0
      <4>1. v \in Nat /\ v > 0
        BY VersionsAreNumbers DEF Filed
      <4> QED
        BY <2>2, <3>1, <4>1
    <3>2. ASSUME NEW f \in Filed, j <= f, v = Saved, Saved \notin Filed PROVE FALSE
      <4>1. f <= Saved /\ f # Saved /\ f \in Nat /\ Saved \in Nat
        BY <3>2, FiledNumbers
      <4> QED
        BY <2>2, <3>2, <4>1
    <3> QED
      BY <1>2, <2>1, <3>1, <3>2
  <2> QED
    BY <1>1, <2>2 DEF Below
<1>3. Below(k)' = Below(k) /\ \A s \in skipped : Below(s)' = Below(s)
  <2>1. \A s \in skipped : s \in Int /\ s \in Filed /\ s <= s
    BY FiledNumbers
  <2> QED
    BY <1>2, <2>1
<1>4. \A v \in 1..Saved : v \in 1..Saved' /\ object'[v] = object[v]
  BY FiledNumbers DEF Grow, Types, Saved
<1>5. Distinct' => Distinct
  BY <1>4 DEF Distinct
<1>6. ASSUME NEW v \in Filed, Ordered(v) PROVE Ordered(v)'
  <2>1. v \in 1..Saved /\ v \in Nat /\ Saved \in Nat
    BY FiledNumbers
  <2>2. object'[v] = object[v]
    BY <1>4, <2>1
  <2>3. CASE object[v] \in Databases
    BY <2>2, <2>3 DEF Ordered
  <2>5. CASE In[object[v]] \in premade
    BY <2>2, <2>5 DEF Ordered
  <2>4. ASSUME NEW w \in 1..(v - 1), up[w] # "none", object[w] = In[object[v]]
        PROVE  Ordered(v)'
    <3>1. w \in 1..Saved /\ w \in Versions
      BY <2>1, VersionsAreNumbers DEF Filed, Types
    <3>2. up'[w] # "none" /\ object'[w] = object[w]
      BY <1>4, <2>4, <3>1 DEF Grow, Types, File
    <3> QED
      BY <2>2, <2>4, <3>2 DEF Ordered
  <2> QED
    BY <1>6, <2>3, <2>4, <2>5 DEF Ordered
<1>7. \A S \in SUBSET Filed : Made(S)' = Made(S)
  BY <1>4, FiledNumbers DEF Made
<1>8. Below(k) \subseteq Filed /\ \A s \in skipped : Below(s) \subseteq Filed
  BY DEF Below
<1>9. Made(Below(k))' = Made(Below(k)) /\ Made(skipped)' = Made(skipped)
  BY <1>3, <1>4, <1>8, FiledNumbers DEF Made
<1>10. \A v \in Below(k) : object'[v] = object[v]
  BY <1>4, <1>8, FiledNumbers
<1> QED
  BY <1>3, <1>5, <1>6, <1>8, <1>9, <1>10 DEF Done

(* What an object is made in was made by versions up to its own. *)
LEMMA AroundMade ==
    ASSUME Types, Saves, NEW v \in Filed, \A w \in Below(v) : Ordered(w),
           NEW x \in Around(object[v])
    PROVE  x \in premade \/ \E w \in Below(v) : object[w] = x
<1> DEFINE Out(S) == S \cup {In[y] : y \in S \ Databases}
<1> DEFINE There == Made(Below(v)) \cup premade
<1>1. ASSUME NEW S, S \subseteq There PROVE Out(S) \subseteq There
  <2>1. ASSUME NEW w \in Below(v), object[w] \notin Databases, In[object[w]] \notin premade
        PROVE  In[object[w]] \in Made(Below(v))
    <3>1. PICK u \in 1..(w - 1) : up[u] # "none" /\ object[u] = In[object[w]]
      BY <2>1 DEF Ordered
    <3>2. w \in Nat /\ w \in Versions /\ w <= v /\ v \in Nat
      BY FiledNumbers, VersionsAreNumbers DEF Below, Filed
    <3>3. u \in Below(v)
      BY <3>1, <3>2, VersionsAreNumbers DEF Below, Filed
    <3> QED
      BY <3>1, <3>3 DEF Made
  <2> QED
    BY <1>1, <2>1 DEF Made, Types
<1>2. {object[v]} \subseteq There
  BY FiledNumbers DEF Made, Below
<1>3. Out(Out(Out({object[v]}))) \subseteq There
  <2> HIDE DEF Out, There
  <2> QED
    BY <1>1, <1>2
<1>4. Around(object[v]) = Out(Out(Out({object[v]})))
  BY DEF Around
<1> QED
  BY <1>3, <1>4 DEF Made


(* Objects of one kind are of no other. *)
LEMMA Kinds ==
    ASSUME NEW o \in Objects, NEW s, UpAccepted(o, s)
    PROVE  (o \in Databases /\ o \notin s) \/ (o \notin Databases /\ In[o] \in s /\ In[o] # o)
  BY MigrationAssumption
     DEF UpAccepted, CreateDatabase, CreateTable, CreateColumn, CreateProperty, CreateIndex

(* What a migration accepts was made by a version before it. *)
LEMMA UpOrdered ==
    ASSUME Types, Saves, skipped \subseteq Filed, NEW c \in Filed, Done(c - 1), Distinct,
           UpAccepted(object[c], schema)
    PROVE  Ordered(c)
<1>1. c \in Nat /\ c \in 1..Saved /\ object[c] \in Objects
  BY FiledNumbers DEF Types, Saved
<1>2. CASE object[c] \in Databases
  BY <1>2 DEF Ordered
<1>3. CASE In[object[c]] \in schema /\ In[object[c]] # object[c]
  <2>1. CASE In[object[c]] \in Made(Below(c - 1))
    <3>1. PICK w \in Below(c - 1) : object[w] = In[object[c]]
      BY <2>1 DEF Made
    <3>2. w \in 1..(c - 1) /\ up[w] # "none"
      BY <1>1, FiledNumbers DEF Below, Filed
    <3> QED
      BY <3>1, <3>2 DEF Ordered
  <2>2. CASE In[object[c]] \in Made(skipped)
    <3>1. PICK w \in skipped : object[w] = In[object[c]]
      BY <2>2 DEF Made
    <3>2. w \in Nat /\ w > 0 /\ w # c /\ w \in Filed
      BY <1>1, <1>3, <3>1, FiledNumbers
    <3>3. CASE w < c
      <4>1. w \in 1..(c - 1) /\ up[w] # "none"
        BY <1>1, <3>2, <3>3 DEF Filed
      <4> QED
        BY <3>1, <4>1 DEF Ordered
    <3>4. CASE c < w
      <4>1. c \in Below(w)
        BY <1>1, <3>2, <3>4 DEF Below
      <4> QED
        BY <3>1, <4>1 DEF Done
    <3> QED
      BY <1>1, <3>2, <3>3, <3>4
  <2>3. CASE In[object[c]] \in premade
    BY <2>3 DEF Ordered
  <2> QED
    BY <1>3, <2>1, <2>2, <2>3 DEF Done
<1> QED
  BY <1>1, <1>2, <1>3, Kinds

(* A migration that has run is done. *)
LEMMA RunUp ==
    ASSUME Types, Saves, skipped \subseteq Filed, NEW c \in Filed, Done(c - 1),
           UpAccepted(object[c], schema), schema' = schema \cup {object[c]},
           UNCHANGED <<premade, object, up, skipped>>
    PROVE  Done(c)'
<1>1. c \in Nat /\ \A v \in Filed : v \in Nat
  BY FiledNumbers
<1>2. /\ Distinct' = Distinct /\ Filed' = Filed
      /\ \A v \in Filed : Ordered(v)' = Ordered(v)
      /\ \A k : Below(k)' = Below(k)
      /\ \A S : Made(S)' = Made(S)
  BY DEF Distinct, Filed, Below, Made, Ordered, Saved
<1>3. \A v \in Below(c) : v \in Below(c - 1) \/ v = c
  BY <1>1 DEF Below
<1>4. Distinct => Ordered(c)
  BY UpOrdered
<1>5. Distinct' => \A v \in Below(c)' : object'[v] \in schema' /\ Ordered(v)'
  BY <1>2, <1>3, <1>4 DEF Done, Below
<1>6. Distinct' => \A s \in skipped' : \A v \in Below(s)' : Ordered(v)'
  BY <1>2 DEF Done, Below
<1>7. schema' \subseteq Made(Below(c)) \cup Made(skipped) \cup premade
  <2>1. \A v \in Filed : v <= c - 1 => v <= c
    BY <1>1
  <2>2. c \in Below(c)
    BY <1>1 DEF Below
  <2>3. ASSUME NEW v \in Below(c - 1) PROVE v \in Below(c)
    BY <2>1 DEF Below
  <2> QED
    BY <2>2, <2>3 DEF Done, Made
<1>8. object[c] \notin premade
  <2>1. object[c] \in Objects
    BY FiledNumbers DEF Types, Saved
  <2> QED
    BY <2>1, Kinds DEF Done, Types
<1>9. /\ premade' \subseteq schema'
      /\ \A v \in Below(c)' : object'[v] \notin premade'
  BY <1>2, <1>3, <1>8 DEF Done
<1> QED
  BY <1>2, <1>5, <1>6, <1>7, <1>9 DEF Done

(* A migration that was reverted is undone, and nothing else. *)
LEMMA RunDown ==
    ASSUME Types, Saves, skipped \subseteq Filed, NEW c \in Filed, Done(c),
           NEW k \in Nat, k < c, \A v \in Below(c) : v = c \/ v <= k,
           schema' = Dropped(object[c], schema), UNCHANGED <<premade, object, up, skipped>>
    PROVE  Done(k)'
<1>1. c \in Nat /\ \A v \in Filed : v \in Nat /\ v \in 1..Saved
  BY FiledNumbers
<1>2. /\ Distinct' = Distinct /\ Filed' = Filed
      /\ \A v \in Filed : Ordered(v)' = Ordered(v)
      /\ \A j : Below(j)' = Below(j)
      /\ \A S : Made(S)' = Made(S)
  BY DEF Distinct, Filed, Below, Made, Ordered, Saved
<1>3. Below(k) \subseteq Below(c) /\ \A v \in Below(c) : v = c \/ v \in Below(k)
  <2>1. ASSUME NEW v \in Filed, v <= k PROVE v <= c
    BY <1>1, <2>1
  <2>2. ASSUME NEW v \in Below(c) PROVE v \in Filed /\ (v = c \/ v <= k)
    BY DEF Below
  <2> QED
    BY <2>1, <2>2 DEF Below
<1>4. ASSUME Distinct, NEW v \in Below(k) PROVE object[v] \in schema' /\ Ordered(v)
  <2>1. object[v] \in schema /\ Ordered(v) /\ v \in Filed /\ v <= k
    BY <1>3, <1>4 DEF Done, Below
  <2>2. \A w \in Below(v) : w \in Below(c) /\ w # c
    BY <1>1, <2>1 DEF Below
  <2>3. \A w \in Below(v) : Ordered(w)
    BY <1>4, <2>2 DEF Done
  <2>4. object[c] \notin Around(object[v])
    <3>1. SUFFICES ASSUME object[c] \in Around(object[v]) PROVE FALSE
      OBVIOUS
    <3>4. c \in Below(c)
      BY <1>1 DEF Below
    <3>2. PICK w \in Below(v) : object[w] = object[c]
      BY <2>1, <2>3, <3>1, <3>4, AroundMade DEF Done
    <3>3. w # c /\ w \in 1..Saved /\ c \in 1..Saved
      BY <1>1, <2>2 DEF Below
    <3> QED
      BY <1>4, <3>2, <3>3 DEF Distinct
  <2> QED
    BY <2>1, <2>4 DEF Dropped
<1>5. Distinct => \A s \in skipped : \A v \in Below(s) : Ordered(v)
  BY DEF Done
<1>6. schema' \subseteq Made(Below(k)) \cup Made(skipped) \cup premade
  <2>1. object[c] \notin schema'
    BY DEF Dropped, Around
  <2>2. schema' \subseteq schema
    BY DEF Dropped
  <2> QED
    BY <1>3, <2>1, <2>2 DEF Done, Made
<1>7. Distinct' => \A v \in Below(k)' : object'[v] \in schema' /\ Ordered(v)'
  BY <1>2, <1>4 DEF Below
<1>8. Distinct' => \A s \in skipped' : \A v \in Below(s)' : Ordered(v)'
  BY <1>2, <1>5 DEF Below
<1>9. premade' \subseteq schema'
  <2>1. object[c] \notin premade
    BY <1>1 DEF Done, Below
  <2>2. \A x \in premade : Around(x) = {x}
    BY DEF Around, Types
  <2> QED
    BY <2>1, <2>2 DEF Done, Dropped
<1>10. \A v \in Below(k)' : object'[v] \notin premade'
  BY <1>2, <1>3 DEF Done
<1> QED
  BY <1>2, <1>6, <1>7, <1>8, <1>9, <1>10 DEF Done

(* One without a down file is skipped: what it made is left behind. *)
LEMMA SkipDown ==
    ASSUME Types, Saves, skipped \subseteq Filed, NEW c \in Filed, Done(c),
           NEW k \in Nat, k < c, \A v \in Below(c) : v = c \/ v <= k,
           skipped' = skipped \cup {c}, UNCHANGED <<premade, object, up, schema>>
    PROVE  Done(k)'
<1>1. c \in Nat /\ \A v \in Filed : v \in Nat
  BY FiledNumbers
<1>2. /\ Distinct' = Distinct /\ Filed' = Filed
      /\ \A v \in Filed : Ordered(v)' = Ordered(v)
      /\ \A j : Below(j)' = Below(j)
      /\ \A S : Made(S)' = Made(S)
  BY DEF Distinct, Filed, Below, Made, Ordered, Saved
<1>3. Below(k) \subseteq Below(c) /\ \A v \in Below(c) : v = c \/ v \in Below(k)
  <2>1. ASSUME NEW v \in Filed, v <= k PROVE v <= c
    BY <1>1, <2>1
  <2>2. ASSUME NEW v \in Below(c) PROVE v \in Filed /\ (v = c \/ v <= k)
    BY DEF Below
  <2> QED
    BY <2>1, <2>2 DEF Below
<1>4. Distinct' => \A v \in Below(k)' : object'[v] \in schema' /\ Ordered(v)'
  BY <1>2, <1>3 DEF Done, Below
<1>5. Distinct' => \A s \in skipped' : \A v \in Below(s)' : Ordered(v)'
  BY <1>2 DEF Done, Below
<1>6. schema \subseteq Made(Below(k)) \cup Made(skipped \cup {c}) \cup premade
  BY <1>3 DEF Done, Made
<1>7. Made(Below(k))' = Made(Below(k)) /\ Made(skipped)' = Made(skipped \cup {c})
  BY <1>2 DEF Made
<1>8. schema' \subseteq Made(Below(k))' \cup Made(skipped)' \cup premade'
  BY <1>6, <1>7
<1>9. /\ premade' \subseteq schema'
      /\ \A v \in Below(k)' : object'[v] \notin premade'
  BY <1>2, <1>3 DEF Done
<1> QED
  BY <1>4, <1>5, <1>8, <1>9 DEF Done


(* The versions that the runner reverts are those that are recorded. *)
LEMMA DownLeads ==
    ASSUME Types, Saves, Scanned, Position, NEW m \in Runners,
           pc[m] = "run", command[m] = "down"
    PROVE  /\ Current(m) \in Filed /\ version \in Nat /\ version < Current(m)
           /\ \A v \in Below(Current(m)) : v = Current(m) \/ v <= version
<1>1. /\ Current(m) \in todo[m] /\ version < Current(m)
      /\ todo[m] = {v \in index[m].up : v <= Current(m)}
      /\ \A w \in todo[m] : w = Current(m) \/ w <= version
  BY DEF Position, AtRun
<1>2. Current(m) \in Filed /\ Current(m) \in index[m].up
  BY <1>1 DEF Position, Scanned
<1>3. \A v \in Below(Current(m)) : v \in index[m].up
  BY <1>2, FiledNumbers DEF Below, Scanned
<1>4. \A v \in Below(Current(m)) : v \in todo[m]
  BY <1>1, <1>3 DEF Below
<1> QED
  BY <1>1, <1>2, <1>4, FiledNumbers

(* The next version is the first above, or is the one that is recorded. *)
LEMMA MarkLeads ==
    ASSUME Types, Saves, Locked, Scanned, Position, NEW m \in Runners, Mark(m)
    PROVE  /\ command[m] = "up" => Below(version' - 1) = Below(version)
           /\ command[m] = "down" => Current(m) = version
<1>1. /\ pc[m] = "next" /\ todo[m] # {} /\ pc'[m] = "run"
      /\ UNCHANGED <<up, command, index, todo>>
  BY DEF Mark, Goto, saveVars, planVars, Types
<1>2. Current(m) \in todo[m] /\ Current(m)' = Current(m)
  BY <1>1, CurrentTypes DEF Current
<1>3. AtNext(m) /\ AtRun(m)'
  BY MarkPosition DEF Position
<1>4. todo[m] \subseteq index[m].up /\ index[m].up \subseteq Filed
  BY DEF Position, Scanned
<1>5. ASSUME command[m] = "up" PROVE Below(version' - 1) = Below(version)
  <2>1. /\ todo[m] = {v \in index[m].up : v > version}
        /\ todo[m] = {v \in index[m].up : v >= version'}
        /\ version' \in todo[m]
    BY <1>1, <1>2, <1>3, <1>5 DEF AtNext, AtRun
  <2>2. version' \in Nat /\ version' > version /\ version' \in index[m].up /\ version \in Nat
    BY <1>4, <2>1, FiledNumbers
  <2>3. ASSUME NEW v \in Filed, v <= version' - 1 PROVE v <= version
    <3>1. v \in Nat /\ v < version'
      BY <2>2, <2>3, FiledNumbers
    <3>2. v \in index[m].up
      BY <2>2, <3>1 DEF Scanned
    <3> QED
      BY <2>1, <2>2, <3>1, <3>2
  <2>4. ASSUME NEW v \in Filed, v <= version PROVE v <= version' - 1
    BY <2>2, <2>4, FiledNumbers
  <2> QED
    BY <2>3, <2>4 DEF Below
<1>6. ASSUME command[m] = "down" PROVE Current(m) = version
  <2>1. /\ todo[m] = {v \in index[m].up : v <= version}
        /\ todo[m] = {v \in index[m].up : v <= Current(m)}
        /\ version \in {0} \cup todo[m]
    BY <1>1, <1>2, <1>3, <1>6 DEF AtNext, AtRun
  <2>2. Current(m) \in Nat /\ Current(m) > 0 /\ Current(m) <= version /\ version \in Nat
    BY <1>2, <1>4, <2>1, FiledNumbers
  <2>3. version <= Current(m)
    BY <2>1, <2>2
  <2> QED
    BY <2>2, <2>3
<1> QED
  BY <1>5, <1>6

(* What is done depends on the files, the schema and what was skipped. *)
LEMMA DoneStays ==
    ASSUME UNCHANGED <<premade, object, up, schema, skipped>>, NEW j, NEW k,
           Below(j) = Below(k), Done(k)
    PROVE  Done(j)'
<1>1. /\ Distinct' = Distinct /\ Filed' = Filed
      /\ \A v \in Filed : Ordered(v)' = Ordered(v)
      /\ \A i : Below(i)' = Below(i)
      /\ \A S : Made(S)' = Made(S)
  BY DEF Distinct, Filed, Below, Made, Ordered, Saved
<1>2. Made(skipped)' = Made(skipped) /\ Made(Below(j))' = Made(Below(k))
  BY <1>1 DEF Made
<1> QED
  BY <1>1, <1>2 DEF Done, Below


(* Every step keeps what the database holds. *)
LEMMA NextDatabase ==
    ASSUME Types, Saves, Locked, Scanned, Texted, Position, Database, [Next]_vars
    PROVE  Database'
<1>0. version \in Nat /\ \A v \in Filed : v \in Nat
  BY FiledNumbers
<1>1. ASSUME UNCHANGED <<dbVars, planVars, pc>>, Grow PROVE Database'
  <2>1. UNCHANGED <<premade, schema, version, dirty, skipped, pc, command, index, todo>>
    BY <1>1 DEF dbVars, planVars
  <2>2. \A m \in Runners : Current(m)' = Current(m)
    BY <2>1 DEF Current
  <2>3. Filed \subseteq Filed'
    BY <1>1 DEF Grow, Filed, Types, File
  <2>4. ASSUME NEW k \in Int, k <= 0 \/ \E f \in Filed : k <= f, Done(k) PROVE Done(k)'
    BY <1>1, <2>1, <2>4, DoneGrows DEF Database
  <2>5. version <= 0 \/ \E f \in Filed : version <= f /\ version - 1 <= f
    BY <1>0 DEF Position
  <2>6. version \in Int /\ version - 1 \in Int /\ (version - 1 <= 0 \/ version > 0)
    BY <1>0
  <2>7. ~dirty' => Done(version)'
    BY <2>1, <2>4, <2>5, <2>6 DEF Database
  <2>8. ASSUME NEW m \in Runners, pc'[m] = "clear" PROVE Done(version)'
    BY <2>1, <2>4, <2>5, <2>6, <2>8 DEF Database
  <2>9. ASSUME NEW m \in Runners, pc'[m] = "run", command'[m] = "up" PROVE Done(version - 1)'
    <3>1. version - 1 <= 0 \/ \E f \in Filed : version - 1 <= f
      BY <2>5, <1>0
    <3>2. Done(version - 1)
      BY <2>1, <2>9 DEF Database
    <3> QED
      BY <2>1, <2>4, <2>6, <3>1, <3>2
  <2>10. ASSUME NEW m \in Runners, pc'[m] = "run", command'[m] # "up" PROVE Done(Current(m))'
    <3>1. command[m] = "down" /\ pc[m] = "run" /\ Done(Current(m))
      BY <2>1, <2>10 DEF Database, Types
    <3>2. Current(m) \in Filed /\ Current(m) \in Int /\ Current(m) <= Current(m)
      BY <1>0, <3>1, DownLeads
    <3>3. Done(Current(m)) => \A k \in Int : k = Current(m) => Done(k)'
      BY <2>4, <3>2
    <3> QED
      BY <2>2, <3>1, <3>2, <3>3
  <2> QED
    BY <2>1, <2>3, <2>7, <2>8, <2>9, <2>10 DEF Database
<1>2. ASSUME UNCHANGED <<premade, object, up, schema, skipped, version, dirty>>,
             \A m \in Runners : pc'[m] \in {"run", "clear"} =>
                pc'[m] = pc[m] /\ command'[m] = command[m] /\ todo'[m] = todo[m]
      PROVE  Database'
  <2>1. \A k : Done(k) => Done(k)'
    BY <1>2, DoneStays
  <2>2. \A m \in Runners : pc'[m] \in {"run", "clear"} => Current(m)' = Current(m)
    BY <1>2 DEF Current
  <2>3. ~dirty' => Done(version)'
    BY <1>2, DoneStays DEF Database
  <2>4. ASSUME NEW m \in Runners, pc'[m] = "clear" PROVE Done(version)'
    BY <1>2, <2>4, DoneStays DEF Database
  <2>5. ASSUME NEW m \in Runners, pc'[m] = "run", command'[m] = "up" PROVE Done(version - 1)'
    BY <1>2, <2>5, DoneStays DEF Database
  <2>6. ASSUME NEW m \in Runners, pc'[m] = "run", command'[m] # "up" PROVE Done(Current(m))'
    BY <1>2, <2>2, <2>6, DoneStays DEF Database
  <2> QED
    BY <1>2, <2>3, <2>4, <2>5, <2>6 DEF Database, Filed
<1>3. ASSUME NEW m \in Runners, Up(m) \/ Down(m) \/ Left(m) \/ Lock(m) \/ Begin(m)
      PROVE  Database'
  <2>1. UNCHANGED <<premade, object, up, schema, skipped, version, dirty>>
    BY <1>3 DEF Up, Down, Scan, Left, Lock, Begin, saveVars, dbVars
  <2>2. pc'[m] \notin {"run", "clear"}
    BY <1>3 DEF Up, Down, Scan, Left, Leave, Lock, Begin, Goto, Types
  <2>3. \A n \in Runners : n # m =>
            pc'[n] = pc[n] /\ command'[n] = command[n] /\ todo'[n] = todo[n]
    BY <1>3 DEF Up, Down, Scan, Left, Leave, Lock, Begin, Goto, planVars, Types
  <2> QED
    BY <1>2, <2>1, <2>2, <2>3
<1>4. ASSUME NEW m \in Runners, Mark(m) PROVE Database'
  <2>1. /\ pc[m] = "next" /\ pc' = [pc EXCEPT ![m] = "run"] /\ dirty'
        /\ UNCHANGED <<premade, object, up, schema, skipped, command, todo>>
    BY <1>4 DEF Mark, Goto, saveVars, planVars
  <2>2. Done(version)
    BY <2>1 DEF Database, Position, AtNext
  <2>3. \A n \in Runners : n # m => pc'[n] \notin {"run", "clear"}
    BY <2>1 DEF Locked, Types
  <2>4. ASSUME command[m] = "up" PROVE Done(version - 1)'
    <3>1. Below(version' - 1) = Below(version)
      BY <1>4, <2>4, MarkLeads
    <3>2. \A j : j = version' - 1 => Done(j)'
      BY <2>1, <2>2, <3>1, DoneStays
    <3> QED
      BY <3>2
  <2>5. ASSUME command[m] # "up" PROVE Done(Current(m))'
    <3>1. Current(m) = version /\ Current(m)' = Current(m)
      BY <1>4, <2>1, <2>5, MarkLeads DEF Types, Current
    <3>2. \A j : j = Current(m)' => Done(j)'
      BY <2>1, <2>2, <3>1, DoneStays
    <3> QED
      BY <3>2
  <2> QED
    BY <2>1, <2>3, <2>4, <2>5 DEF Database, Filed, Types
<1>5. ASSUME NEW m \in Runners, RunNothing(m) PROVE Database'
  <2>1. /\ pc[m] = "run" /\ pc' = [pc EXCEPT ![m] = "clear"] /\ "none" \in Texts(m)
        /\ skipped' = IF command[m] = "down" THEN skipped \cup {Current(m)} ELSE skipped
        /\ UNCHANGED <<premade, object, up, schema, version, dirty, command, todo>>
    BY <1>5 DEF RunNothing, Goto, saveVars, planVars
  <2>2. \A n \in Runners : n # m => pc'[n] \notin {"run", "clear"}
    BY <2>1 DEF Locked, Types
  <2>3. command[m] = "down"
    <3>1. SUFFICES ASSUME command[m] = "up" PROVE FALSE
      BY DEF Types
    <3>2. Current(m) \in index[m].up /\ Current(m) \in Filed
      BY <2>1 DEF Position, AtRun, Scanned
    <3>3. body[m][Current(m)] # "none" /\ up[Current(m)] # "none"
      BY <2>1, <3>1, <3>2 DEF Texted, Seen, Filed
    <3> QED
      BY <2>1, <3>1, <3>2, <3>3 DEF Texts, Seen, Files
  <2>4. Done(Current(m)) /\ dirty
    BY <2>1, <2>3 DEF Database, Position, AtRun
  <2>5. \A j \in Nat : j = version => Done(j)'
    BY <1>0, <2>1, <2>3, <2>4, DownLeads, SkipDown DEF Database
  <2>6. Done(version)'
    BY <1>0, <2>1, <2>5
  <2>7. skipped' \subseteq Filed
    BY <2>1, <2>3, DownLeads DEF Database
  <2> QED
    BY <2>1, <2>2, <2>4, <2>6, <2>7 DEF Database, Filed, Types
<1>6. ASSUME NEW m \in Runners, Run(m) PROVE Database'
  <2>1. /\ pc[m] = "run" /\ pc' = [pc EXCEPT ![m] = "clear"] /\ Accepted(m)
        /\ schema' = IF command[m] = "up" THEN schema \cup {object[Current(m)]}
                                          ELSE Dropped(object[Current(m)], schema)
        /\ UNCHANGED <<premade, object, up, skipped, version, dirty, command, todo>>
    BY <1>6 DEF Run, Goto, saveVars, planVars
  <2>2. \A n \in Runners : n # m => pc'[n] \notin {"run", "clear"}
    BY <2>1 DEF Locked, Types
  <2>3. dirty
    BY <2>1 DEF Position, AtRun
  <2>4. ASSUME command[m] = "up" PROVE \A j \in Nat : j = version => Done(j)'
    <3>1. version = Current(m) /\ version \in Filed /\ Done(version - 1)
      BY <2>1, <2>4 DEF Position, AtRun, Database, Scanned
    <3>2. UpAccepted(object[version], schema) /\ schema' = schema \cup {object[version]}
      BY <2>1, <2>4, <3>1 DEF Accepted
    <3> QED
      BY <2>1, <3>1, <3>2, RunUp DEF Database
  <2>5. ASSUME command[m] = "down" PROVE \A j \in Nat : j = version => Done(j)'
    <3>1. Done(Current(m)) /\ schema' = Dropped(object[Current(m)], schema)
      BY <2>1, <2>5 DEF Database
    <3> QED
      BY <1>0, <2>1, <2>5, <3>1, DownLeads, RunDown DEF Database
  <2>6. Done(version)'
    BY <1>0, <2>1, <2>4, <2>5 DEF Types
  <2> QED
    BY <2>1, <2>2, <2>3, <2>6 DEF Database, Filed, Types
<1>7. ASSUME NEW m \in Runners, Clear(m) PROVE Database'
  <2>1. /\ pc[m] = "clear" /\ pc' = [pc EXCEPT ![m] = "next"]
        /\ UNCHANGED <<premade, object, up, schema, skipped, version>>
    BY <1>7 DEF Clear, Goto, saveVars
  <2>2. \A n \in Runners : pc'[n] \notin {"run", "clear"}
    BY <2>1 DEF Locked, Types
  <2>3. \A j : j = version => Done(j)'
    BY <2>1, DoneStays DEF Database
  <2>4. Done(version)'
    BY <2>1, <2>3
  <2> QED
    BY <2>1, <2>2, <2>4 DEF Database, Filed
<1>8. CASE UNCHANGED vars
  BY <1>2, <1>8 DEF vars, saveVars, dbVars, planVars
<1>9. Saving => UNCHANGED <<dbVars, planVars, pc>> /\ Grow
  BY SavingCases, NextSaves
<1> QED
  BY <1>1, <1>3, <1>4, <1>5, <1>6, <1>7, <1>8, <1>9, StepCases DEF Begun


-----------------------------------------------------------------------------
(* The properties. *)

Inductive == Types /\ Saves /\ Locked /\ Scanned /\ Texted /\ Position /\ Database

(* The invariant holds at first. *)
LEMMA InitInductive == Init => Inductive
<1> SUFFICES ASSUME Init PROVE Inductive
  OBVIOUS
<1>1. Saves /\ Filed = {}
  BY DEF Init, Saves, Filed, NoFiles
<1>2. Locked /\ Texted
  BY DEF Init, Locked, Texted
<1>3. Scanned
  BY DEF Init, Scanned, NoScan
<1>4. Position
  BY DEF Init, Position, AtNext, AtRun
<1>5. Database
  <2>1. Below(version) = {} /\ skipped = {} /\ schema = premade
    BY <1>1 DEF Below, Init
  <2>2. Done(version)
    BY <2>1 DEF Done
  <2> QED
    BY <2>1, <2>2 DEF Database, Init
<1> QED
  BY <1>1, <1>2, <1>3, <1>4, <1>5, InitTypes DEF Inductive

(* What is to run has files, and so was generated. *)
LEMMA IsRunnable == ASSUME Inductive PROVE Runnable
<1>1. \A m \in Runners : todo[m] \subseteq 1..Saved
  BY FiledNumbers DEF Inductive, Position, Scanned
<1>2. \A m \in Runners : pc[m] \in {"run", "clear"} => todo[m] # {}
  BY DEF Inductive, Position, AtRun
<1> QED
  BY <1>1, <1>2 DEF Runnable

(* It holds in every reachable state. *)
THEOREM Invariant == Spec => []Inductive
<1>1. Inductive /\ [Next]_vars => Inductive'
  BY IsRunnable, NextTypes, NextSaves, NextLocked, NextScanned, NextTexted, NextPosition,
     NextDatabase DEF Inductive
<1> QED
  BY <1>1, InitInductive, PTL DEF Spec

(* Every variable has its type, and the version that is recorded a file. *)
THEOREM TypeCorrect == Spec => []TypeOK
<1>1. Inductive => TypeOK
  BY DEF Inductive, Types, Position, Filed, TypeOK
<1> QED
  BY <1>1, Invariant, PTL

(* In a clean database everything up to its version exists. *)
THEOREM AppliedAlwaysExists == Spec => []AppliedExists
<1>1. ASSUME Inductive, ~dirty, Distinct, NEW v \in 1..version, up[v] # "none"
      PROVE  object[v] \in schema
  <2>1. version \in 0..MaxSaves
    BY <1>1 DEF Inductive, Types
  <2>2. v \in Below(version)
    BY <1>1, <2>1, VersionsAreNumbers DEF Below, Filed
  <2> QED
    BY <1>1, <2>2 DEF Inductive, Database, Done
<1>2. Inductive => AppliedExists
  BY <1>1 DEF AppliedExists
<1> QED
  BY <1>2, Invariant, PTL

(* Nothing exists above its version but what could not be reverted. *)
THEOREM NothingIsLeftBehind == Spec => []NothingLeftBehind
<1>1. ASSUME Inductive, ~dirty
      PROVE  schema \subseteq Made(1..version) \cup Made(skipped) \cup premade
  <2>1. \A v \in Below(version) : v \in 1..version
    BY <1>1, FiledNumbers DEF Below, Inductive
  <2>2. Made(Below(version)) \subseteq Made(1..version)
    BY <2>1 DEF Made
  <2> QED
    BY <1>1, <2>2 DEF Inductive, Database, Done
<1>2. Inductive => NothingLeftBehind
  BY <1>1 DEF NothingLeftBehind
<1> QED
  BY <1>2, Invariant, PTL

(* A statement is refused only for what was generated. *)
LEMMA Explained ==
    ASSUME Inductive, NEW m \in Runners, RunFails(m)
    PROVE  \/ body[m][Current(m)] = "empty"
           \/ object[Current(m)] \in premade \cup Refused
           \/ ~Distinct \/ ~Ordered(Current(m)) \/ skipped # {}
<1> SUFFICES ASSUME body[m][Current(m)] # "empty", object[Current(m)] \notin premade \cup Refused,
                    Distinct, Ordered(Current(m)), skipped = {}
             PROVE  FALSE
  OBVIOUS
<1> DEFINE c == Current(m)
<1>1. pc[m] = "run" /\ ("empty" \in Texts(m) \/ ~Accepted(m))
  BY DEF RunFails
<1>2. c \in Filed /\ c \in Nat /\ c > 0 /\ c \in 1..Saved
  BY <1>1, FiledNumbers DEF Inductive, Position, AtRun, Scanned
<1>3. "empty" \notin Texts(m)
  <2>1. SUFFICES ASSUME "empty" \in Texts(m) PROVE FALSE
    OBVIOUS
  <2>2. c \in Seen(m) /\ Files(m)[c] = "empty" /\ c \in Versions
    BY <1>2, <2>1 DEF Texts, Filed
  <2>3. body[m][c] # "none" /\ body[m][c] # "full"
    BY <1>1, <2>2 DEF Inductive, Texted
  <2>4. body[m][c] \in {"none", "empty", "full"}
    BY <2>2 DEF Inductive, Types, File
  <2> QED
    BY <2>3, <2>4
<1>4. ASSUME command[m] = "up" PROVE Accepted(m)
  <2>1. Done(c - 1)
    BY <1>1, <1>4 DEF Inductive, Database, Position, AtRun
  <2>2. object[c] \notin schema
    <3>1. SUFFICES ASSUME object[c] \in schema PROVE FALSE
      OBVIOUS
    <3>2. PICK v \in Below(c - 1) : object[v] = object[c]
      BY <2>1, <3>1 DEF Done, Made
    <3>3. v # c /\ v \in 1..Saved
      BY <1>2, FiledNumbers DEF Below, Inductive
    <3> QED
      BY <1>2, <3>2, <3>3 DEF Distinct
  <2>3. object[c] \in Databases \/ In[object[c]] \in schema
    <3>0. In[object[c]] \in premade => In[object[c]] \in schema
      BY <2>1 DEF Done
    <3>1. SUFFICES ASSUME NEW w \in 1..(c - 1), up[w] # "none", object[w] = In[object[c]]
                   PROVE  In[object[c]] \in schema
      BY <3>0 DEF Ordered
    <3>2. w \in Below(c - 1)
      <4>1. w \in Versions /\ w \in Nat /\ w <= c - 1
        BY <1>2, VersionsAreNumbers DEF Filed
      <4> QED
        BY <3>1, <4>1 DEF Below, Filed
    <3> QED
      BY <2>1, <3>1, <3>2 DEF Done
  <2>4. object[c] \in Objects
    BY <1>2 DEF Inductive, Types, Saved
  <2>5. UpAccepted(object[c], schema)
    BY <2>2, <2>3, <2>4
       DEF UpAccepted, CreateDatabase, CreateTable, CreateColumn, CreateProperty, CreateIndex, Objects
  <2> QED
    BY <1>4, <2>5 DEF Accepted
<1>5. ASSUME command[m] # "up" PROVE Accepted(m)
  <2>1. Done(c)
    BY <1>1, <1>5 DEF Inductive, Database
  <2>2. c \in Below(c)
    BY <1>2 DEF Below
  <2> QED
    BY <1>5, <2>1, <2>2 DEF Accepted, DownAccepted, Done
<1> QED
  BY <1>1, <1>3, <1>4, <1>5

(* A migration fails of itself only for what was generated. *)
THEOREM FailuresAreExplained == Spec => FailureIsExplained
<1>1. Inductive /\ [Next]_vars =>
          [\A m \in Runners : RunFails(m) =>
              \/ body[m][Current(m)] = "empty"
              \/ object[Current(m)] \in premade \cup Refused
              \/ ~Distinct \/ ~Ordered(Current(m)) \/ skipped # {}]_vars
  BY Explained
<1> QED
  BY <1>1, Invariant, PTL DEF Spec, FailureIsExplained

(* A database whose migration failed stays as it is, with its mark. *)
LEMMA NextDirty ==
    ASSUME Inductive, [Next]_vars, Stuck
    PROVE  Stuck' /\ UNCHANGED <<schema, version>>
<1>1. pc \in [Runners -> {"idle", "lock", "version", "next", "run", "clear"}]
  BY DEF Inductive, Types
<1>2. ASSUME NEW m \in Runners, Up(m) \/ Down(m) \/ Begun(m) \/ Left(m)
      PROVE  /\ UNCHANGED <<dirty, schema, version>>
             /\ \A r \in Runners : pc'[r] = pc[r] \/ pc'[r] \notin {"run", "clear"}
  <2>1. dirty /\ pc[m] \notin {"next", "run", "clear"}
    BY DEF Stuck, Inductive, Position, AtNext
  <2>2. UNCHANGED <<dirty, schema, version>>
    BY <1>2, <2>1
       DEF Up, Down, Scan, Begun, Lock, Begin, Mark, RunNothing, Run, Clear, Left, dbVars
  <2>3. \A r \in Runners : pc'[r] = pc[r] \/ pc'[r] \notin {"run", "clear"}
    BY <1>1, <1>2, <2>1
       DEF Up, Down, Scan, Begun, Lock, Begin, Mark, RunNothing, Run, Clear, Left, Leave, Goto
  <2> QED
    BY <2>2, <2>3
<1>3. Saving => UNCHANGED <<dirty, schema, version, pc>>
  BY SavingCases DEF Inductive, dbVars
<1>4. UNCHANGED vars => UNCHANGED <<dirty, schema, version, pc>>
  BY DEF vars, dbVars
<1> QED
  BY <1>2, <1>3, <1>4, StepCases DEF Stuck

(* No command takes a failed migration up again. *)
THEOREM DirtyForGood == Spec => DirtyStays
<1>1. Inductive /\ [Next]_vars => [Stuck => Stuck' /\ UNCHANGED <<schema, version>>]_vars
  BY NextDirty
<1> QED
  BY <1>1, Invariant, PTL DEF Spec, DirtyStays

=============================================================================
