----------------------------- MODULE Migration ------------------------------
(***************************************************************************)
(* Schema migrations: the generate commands build one (db/db.go) and       *)
(* SQLMigration.Save writes its two files; "migrate up" and "migrate down" *)
(* (migration/migration.go) hand the directory to golang-migrate, which    *)
(* takes a lock in the database and runs the statements, one migration     *)
(* after the other, in the database of shard 0.                            *)
(***************************************************************************)
EXTENDS Integers, Sequences, FiniteSets

CONSTANTS Databases, Tables,  \* what the templates make; Columns are those
          Columns, Indexes,   \* of columns and of properties
          Refused,            \* indexes whose column's type cannot have them
          In,                 \* what a table, a column or an index is made in
          Runners,            \* processes that run migrate
          MaxSaves,           \* bound: migrations generated
          MaxRuns,            \* bound: migrate commands
          MaxFaults           \* bound: processes killed, statements refused

Objects == Databases \cup Tables \cup Columns \cup Indexes

ASSUME MigrationAssumption ==
    /\ In \in [Objects \ Databases -> Objects \ Indexes]
    /\ Databases \cap (Tables \cup Columns \cup Indexes) = {}
    /\ Tables \cap (Columns \cup Indexes) = {} /\ Columns \cap Indexes = {}
    /\ \A o \in Tables : In[o] \in Databases
    /\ \A o \in Columns : In[o] \in Tables
    /\ \A o \in Indexes : In[o] \in Columns
    /\ Refused \subseteq Indexes
    /\ "free" \notin Runners
    /\ MaxSaves \in Nat /\ MaxRuns \in Nat /\ MaxFaults \in Nat

VARIABLES
    premade,   \* databases that init.sql made when the cluster was; it stays
    object,    \* what each version makes, by the order of the versions
    up, down,  \* the files of each version
    gpc,       \* where the generate command stands
    schema,    \* what exists in the database
    version,   \* the version recorded in it, 0 for none
    dirty,     \* with the mark that its migration has not ended
    skipped,   \* history: versions reverted for want of a down file by nothing
    lock,      \* the runner that holds the lock of the database, or "free"
    pc,        \* where a runner stands
    command,   \* what it was called for
    index,     \* the files its scan of the directory saw
    body,      \* what was in them when it began
    todo,      \* versions it still has to run
    runs, faults

saveVars == <<object, up, down, gpc>>
dbVars   == <<premade, schema, version, dirty, skipped>>
planVars == <<command, index, body, todo>>
vars     == <<saveVars, dbVars, lock, pc, planVars, runs, faults>>

Versions == 1..MaxSaves
File     == {"none", "empty", "full"}
Saved    == Len(object)
Largest(S)  == CHOOSE v \in S : \A w \in S : w <= v
Smallest(S) == CHOOSE v \in S : \A w \in S : v <= w

NoFiles == [v \in Versions |-> "none"]
NoScan  == [up |-> {}, down |-> {}]

Init ==
    /\ premade \in {{}} \cup {{o} : o \in Databases}
    /\ object = <<>>
    /\ up = NoFiles /\ down = NoFiles
    /\ gpc = "idle"
    /\ schema = premade
    /\ version = 0
    /\ dirty = FALSE
    /\ skipped = {}
    /\ lock = "free"
    /\ pc = [m \in Runners |-> "idle"]
    /\ command = [m \in Runners |-> "up"]
    /\ index = [m \in Runners |-> NoScan]
    /\ body = [m \in Runners |-> NoFiles]
    /\ todo = [m \in Runners |-> {}]
    /\ runs = 0
    /\ faults = 0

-----------------------------------------------------------------------------
(* The statements of the templates, in a schema s. *)

(* What an object is made in, and in turn: with it the object is dropped. *)
Around(o) ==
    LET Outward(S) == S \cup {In[x] : x \in S \ Databases}
    IN  Outward(Outward(Outward({o})))

CreateDatabase(o, s) == o \in Databases /\ o \notin s

(* CREATE TABLE IF NOT EXISTS *)
CreateTable(o, s) == o \in Tables /\ In[o] \in s

CreateColumn(o, s) == o \in Columns /\ In[o] \in s /\ o \notin s

(* Generated from the column data, which CreateTable makes. *)
CreateProperty(o, s) == CreateColumn(o, s)

CreateIndex(o, s) == o \in Indexes \ Refused /\ In[o] \in s /\ o \notin s

UpAccepted(o, s) == \/ CreateDatabase(o, s) \/ CreateTable(o, s)
                    \/ CreateColumn(o, s) \/ CreateProperty(o, s) \/ CreateIndex(o, s)

(* Databases and tables are dropped IF EXISTS. *)
DownAccepted(o, s) == o \in s \cup Databases \cup Tables

Dropped(o, s) == {x \in s : o \notin Around(x)}

-----------------------------------------------------------------------------
(* generate: Save takes the time for the version and writes two files.     *)
(* Only one generate runs at a time.                                       *)

Generate(S) ==
    /\ gpc = "idle"
    /\ Saved < MaxSaves
    /\ \E o \in S : object' = Append(object, o)
    /\ gpc' = "up"
    /\ UNCHANGED <<up, down, dbVars, lock, pc, planVars, runs, faults>>

GenerateDB     == Generate(Databases)
GenerateTable  == Generate(Tables)
GenerateColumn == Generate(Columns)
GenerateProp   == Generate(Columns)
GenerateIndex  == Generate(Indexes)

(* Mutation: the reversal is written first. *)
SaveDownFirst ==
    /\ \/ /\ gpc = "up" /\ gpc' = "uptext"
          /\ down' = [down EXCEPT ![Saved] = "empty"]
          /\ UNCHANGED up
       \/ /\ gpc = "uptext" /\ gpc' = "down"
          /\ down' = [down EXCEPT ![Saved] = "full"]
          /\ UNCHANGED up
       \/ /\ gpc = "down" /\ gpc' = "downtext"
          /\ up' = [up EXCEPT ![Saved] = "empty"]
          /\ UNCHANGED down
       \/ /\ gpc = "downtext" /\ gpc' = "idle"
          /\ up' = [up EXCEPT ![Saved] = "full"]
          /\ UNCHANGED down
    /\ UNCHANGED <<object, dbVars, lock, pc, planVars, runs, faults>>

(* WriteFile makes a file and then fills it. *)
Save ==
    /\ \/ /\ gpc = "up" /\ gpc' = "uptext"
          /\ up' = [up EXCEPT ![Saved] = "empty"]
          /\ UNCHANGED down
       \/ /\ gpc = "uptext" /\ gpc' = "down"
          /\ up' = [up EXCEPT ![Saved] = "full"]
          /\ UNCHANGED down
       \/ /\ gpc = "down" /\ gpc' = "downtext"
          /\ down' = [down EXCEPT ![Saved] = "empty"]
          /\ UNCHANGED up
       \/ /\ gpc = "downtext" /\ gpc' = "idle"
          /\ down' = [down EXCEPT ![Saved] = "full"]
          /\ UNCHANGED up
    /\ UNCHANGED <<object, dbVars, lock, pc, planVars, runs, faults>>

(* The command is killed, or a write fails and it returns the error. *)
SaveCut ==
    /\ gpc # "idle"
    /\ faults < MaxFaults
    /\ faults' = faults + 1
    /\ gpc' = "idle"
    /\ UNCHANGED <<object, up, down, dbVars, lock, pc, planVars, runs>>

-----------------------------------------------------------------------------
(* migrate *)

Goto(m, p) == pc' = [pc EXCEPT ![m] = p]

(* The command ends; what it held and knew is gone with its process. *)
Leave(m) ==
    /\ Goto(m, "idle")
    /\ lock' = IF lock = m THEN "free" ELSE lock
    /\ index' = [index EXCEPT ![m] = NoScan]
    /\ body' = [body EXCEPT ![m] = NoFiles]
    /\ todo' = [todo EXCEPT ![m] = {}]
    /\ command' = [command EXCEPT ![m] = "up"]

(* Without the directory, which the first generate makes, nothing is done. *)
(* Migrate scans it.                                                       *)
Scan(m, c) ==
    /\ pc[m] = "idle"
    /\ runs < MaxRuns
    /\ Saved > 0
    /\ runs' = runs + 1
    /\ command' = [command EXCEPT ![m] = c]
    /\ index' = [index EXCEPT ![m] = [up   |-> {v \in Versions : up[v] # "none"},
                                      down |-> {v \in Versions : down[v] # "none"}]]
    /\ Goto(m, "lock")
    /\ UNCHANGED <<saveVars, dbVars, lock, body, todo, faults>>

Up(m)   == Scan(m, "up")
Down(m) == Scan(m, "down")

(* Mutation: Config{NoLock: true}. *)
NoLock(m) ==
    /\ pc[m] = "lock"
    /\ lock' = m
    /\ Goto(m, "version")
    /\ UNCHANGED <<saveVars, dbVars, planVars, runs, faults>>

Lock(m) ==
    /\ pc[m] = "lock"
    /\ lock = "free"
    /\ lock' = m
    /\ Goto(m, "version")
    /\ UNCHANGED <<saveVars, dbVars, planVars, runs, faults>>

LockTimeout(m) ==
    /\ pc[m] = "lock"
    /\ lock # "free"
    /\ Leave(m)
    /\ UNCHANGED <<saveVars, dbVars, runs, faults>>

Known(m) == index[m].up \cup index[m].down

(* The migrations above the version, or all from it down. *)
Pending(m) == IF command[m] = "up" THEN {v \in Known(m) : v > version}
                                   ELSE {v \in Known(m) : v <= version}

Files(m) == IF command[m] = "up" THEN up ELSE down

Seen(m) == IF command[m] = "up" THEN index[m].up ELSE index[m].down

Read(m) == [v \in Versions |-> IF v \in Seen(m) THEN Files(m)[v] ELSE "none"]

(* Mutation: the version is taken without its mark. *)
BeginDirty(m) ==
    /\ pc[m] = "version"
    /\ version \in Known(m) \cup {0}
    /\ body' = [body EXCEPT ![m] = Read(m)]
    /\ todo' = [todo EXCEPT ![m] = Pending(m)]
    /\ Goto(m, "next")
    /\ UNCHANGED <<saveVars, dbVars, lock, command, index, runs, faults>>

Begin(m) ==
    /\ pc[m] = "version"
    /\ ~dirty
    /\ version \in Known(m) \cup {0}
    /\ body' = [body EXCEPT ![m] = Read(m)]
    /\ todo' = [todo EXCEPT ![m] = Pending(m)]
    /\ Goto(m, "next")
    /\ UNCHANGED <<saveVars, dbVars, lock, command, index, runs, faults>>

(* "Dirty database version", or a version the directory does not have. *)
BeginFails(m) ==
    /\ pc[m] = "version"
    /\ dirty \/ version \notin Known(m) \cup {0}
    /\ Leave(m)
    /\ UNCHANGED <<saveVars, dbVars, runs, faults>>

Current(m) == IF command[m] = "up" THEN Smallest(todo[m]) ELSE Largest(todo[m])

(* Mutation: the version before is the number before. *)
TargetBefore(m) == IF command[m] = "up" THEN Current(m) ELSE Current(m) - 1

Target(m) == IF command[m] = "up" THEN Current(m)
             ELSE Largest({0} \cup (todo[m] \ {Current(m)}))

(* Mutation: the mark is set with the last statement only. *)
MarkLate(m) ==
    /\ pc[m] = "next"
    /\ todo[m] # {}
    /\ version' = Target(m)
    /\ Goto(m, "run")
    /\ UNCHANGED <<saveVars, premade, schema, dirty, skipped, lock, planVars, runs, faults>>

Mark(m) ==
    /\ pc[m] = "next"
    /\ todo[m] # {}
    /\ version' = Target(m)
    /\ dirty' = TRUE
    /\ Goto(m, "run")
    /\ UNCHANGED <<saveVars, premade, schema, skipped, lock, planVars, runs, faults>>

(* A goroutine reads the files ahead: at Begin, or as late as now. *)
Texts(m) == IF Current(m) \in Seen(m) THEN {body[m][Current(m)], Files(m)[Current(m)]}
                                      ELSE {"none"}

(* A missing file is an empty migration. *)
RunNothing(m) ==
    /\ pc[m] = "run"
    /\ "none" \in Texts(m)
    /\ skipped' = IF command[m] = "down" THEN skipped \cup {Current(m)} ELSE skipped
    /\ Goto(m, "clear")
    /\ UNCHANGED <<saveVars, premade, schema, version, dirty, lock, planVars, runs, faults>>

Accepted(m) == IF command[m] = "up" THEN UpAccepted(object[Current(m)], schema)
                                    ELSE DownAccepted(object[Current(m)], schema)

Run(m) ==
    /\ pc[m] = "run"
    /\ "full" \in Texts(m)
    /\ Accepted(m)
    /\ schema' = IF command[m] = "up" THEN schema \cup {object[Current(m)]}
                                      ELSE Dropped(object[Current(m)], schema)
    /\ Goto(m, "clear")
    /\ UNCHANGED <<saveVars, premade, version, dirty, skipped, lock, planVars, runs, faults>>

(* The statement is refused; an empty one is. *)
RunFails(m) ==
    /\ pc[m] = "run"
    /\ \/ "empty" \in Texts(m)
       \/ "full" \in Texts(m) /\ ~Accepted(m)
    /\ Leave(m)
    /\ UNCHANGED <<saveVars, dbVars, runs, faults>>

Clear(m) ==
    /\ pc[m] = "clear"
    /\ dirty' = FALSE
    /\ todo' = [todo EXCEPT ![m] = @ \ {Current(m)}]
    /\ Goto(m, "next")
    /\ UNCHANGED <<saveVars, premade, schema, version, skipped, lock, command, index, body, runs, faults>>

Finish(m) ==
    /\ pc[m] = "next"
    /\ todo[m] = {}
    /\ Leave(m)
    /\ UNCHANGED <<saveVars, dbVars, runs, faults>>

(* The process is killed, or the database refuses a statement for reasons  *)
(* of its own: rows that violate a unique index, a lost connection.        *)
RunCut(m) ==
    /\ pc[m] # "idle"
    /\ faults < MaxFaults
    /\ faults' = faults + 1
    /\ Leave(m)
    /\ UNCHANGED <<saveVars, dbVars, runs>>

Step(m) ==
    \/ Lock(m) \/ LockTimeout(m) \/ Begin(m) \/ BeginFails(m)
    \/ Mark(m) \/ RunNothing(m) \/ Run(m) \/ RunFails(m) \/ Clear(m) \/ Finish(m)

Next ==
    \/ GenerateDB \/ GenerateTable \/ GenerateColumn \/ GenerateProp \/ GenerateIndex
    \/ Save \/ SaveCut
    \/ \E m \in Runners : Up(m) \/ Down(m) \/ Step(m) \/ RunCut(m)

Spec == Init /\ [][Next]_vars

-----------------------------------------------------------------------------
(* Properties. *)

(* Every variable has its type; the version that is recorded is none or    *)
(* one that has a file, so that golang-migrate finds it again.             *)
TypeOK ==
    /\ object \in Seq(Objects) /\ Saved <= MaxSaves
    /\ up \in [Versions -> File] /\ down \in [Versions -> File]
    /\ gpc \in {"idle", "up", "uptext", "down", "downtext"}
    /\ schema \subseteq Objects /\ premade \subseteq Databases
    /\ version \in {0} \cup {v \in Versions : up[v] # "none"}
    /\ dirty \in BOOLEAN
    /\ skipped \subseteq Versions
    /\ lock \in Runners \cup {"free"}
    /\ pc \in [Runners -> {"idle", "lock", "version", "next", "run", "clear"}]
    /\ command \in [Runners -> {"up", "down"}]
    /\ index \in [Runners -> [up : SUBSET Versions, down : SUBSET Versions]]
    /\ body \in [Runners -> [Versions -> File]]
    /\ todo \in [Runners -> SUBSET Versions]
    /\ runs \in Nat /\ faults \in Nat

(* No object is generated twice. *)
Distinct == \A v, w \in 1..Saved : object[v] = object[w] => v = w

(* In a clean database everything up to its version exists, whatever was   *)
(* killed and however generate and two migrate commands interleaved: Save  *)
(* writes the up file first, and a migration that failed stays marked.     *)
AppliedExists ==
    ~dirty /\ Distinct =>
        \A v \in 1..version : up[v] # "none" => object[v] \in schema

Made(S) == {object[v] : v \in S}

(* Nothing exists above the version of a clean database but what a down    *)
(* without its file could not revert, and what init.sql made.              *)
NothingLeftBehind ==
    ~dirty => schema \subseteq Made(1..version) \cup Made(skipped) \cup premade

(* The migration of v comes after the one it builds on. *)
Ordered(v) ==
    \/ object[v] \in Databases
    \/ In[object[v]] \in premade
    \/ \E w \in 1..(v - 1) : up[w] # "none" /\ object[w] = In[object[v]]

(* A migration fails of itself only for what was generated: an object made *)
(* twice, by init.sql already or before what it builds on, an index that   *)
(* its column cannot have, a file met half-written, or what a missing down *)
(* file left behind; never because two migrate commands run at once.       *)
FailureIsExplained ==
    [][\A m \in Runners : RunFails(m) =>
          \/ body[m][Current(m)] = "empty"
          \/ object[Current(m)] \in premade \cup Refused
          \/ ~Distinct \/ ~Ordered(Current(m)) \/ skipped # {}]_vars

Stuck == dirty /\ \A m \in Runners : pc[m] \notin {"run", "clear"}

(* No command of zygote takes a failed migration up again: the database    *)
(* stays as it is, with its mark, until somebody repairs it by hand.       *)
DirtyStays == [][Stuck => Stuck' /\ UNCHANGED <<schema, version>>]_vars
=============================================================================
