# zygote: verification project

TLA+ models of zygote (`src/`, Go), TLC configurations that check them on small
instances, and TLAPS proofs of their main properties for every value of the
constants.

Zygote brings up and serves a sharded cluster: `zygote init` (or one `zygote
join` per host) starts, for every replica and shard, a MySQL server, a MySQL
router and a Redis node in Docker containers and forms a MySQL replication group
per shard and one Redis cluster over all shards. The API server
(`src/cmd/zcore/api.go`) holds connections to every shard and to Redis and
serves queries over HTTPS with client certificates. The other commands are
clients, generators and wrappers.

All paths below are relative to `src/lib/cluster/` unless they begin with `src/`.

## 1. Inventory

### SQL replica bring-up (`commands/init.go`, `join.go`, `deinit.go`, `db/db.go`)

- *State.* In the process: where `createNode` stands for each replica, and
  `numRetriesJoinGroupReplication` in `StartSQLContainers`. In the MySQL server:
  the `group_replication_*` globals, the bootstrap flag, membership. On the
  volumes: the user `repl`, the file `gr-boot.cnf`.
- *Operations.* `createNode`: create the container and wait for its health, start
  the router, then up to `numRetries` times `JoinGroupReplication` (a fixed list
  of queries that ends at the first error), then write the boot file. `deinit`
  removes the containers one by one and, with `-v`, the volumes after them.
- *Interaction.* Under `init` all replicas are goroutines of one process and
  `logger.FatalIfErr` in any of them exits it under all the others; under `join`
  each host runs its own process. The servers meet in the group.
- *Hard.* Any order of the replicas; a process that dies between two queries;
  servers that crash and lose their globals while volumes persist; reruns on a
  half-built or complete shard; retries that repeat queries that are not
  idempotent.
- *Correct when* a shard has one group (no split brain), bootstrapped once;
  reruns never take a member out; a replica that is "done" is a member and goes
  back by itself after a restart; every run ends that the engine answers.

### Shard connector (`tables/connection.go`, `utils/backoff.go`, `controller/sql.go`)

- *State.* `MultiDBConnector`: `configs`, `readConns`, `writeConns`, guarded by one
  `RWMutex`; per call of `RetryOperation` a handle and a count of attempts.
- *Operations.* `ConnectAllShardsRead/Write` (a goroutine per shard, each with
  `Retry`), `connect`, `GetReadConnection/GetWriteConnection`, `RetryOperation`,
  `Close`, `CloseAll`.
- *Hard.* The map is read under one lock section and written under another; a
  handle that does not answer must be closed on every path; a handle may be
  replaced or closed under a request that works on it; a silent server.
- *Correct when* maps hold open handles only, are complete when the caller is told
  so, no handle leaks, one that is in use is not closed, calls return.

### Redis controller (`controller/mem.go`, `memconn/mem_conn.go`)

- *State.* `client`, `lastCheck`, `mu`; per request its attempts and responses.
- *Operations.* `ensureConnection` (replace the client under `mu` when it was not
  checked for five minutes), `QueryHandler` (three attempts),
  `ClusterNodesHandler`, `Close`.
- *Hard.* `rc.client` is used after `mu` was given up, so another request may close
  it or set it to nil; the reconnection after an error may do nothing.
- *Correct when* one request at a time reconnects, clients do not leak, and a
  request never meets a nil or closed client without another one's doing.

### Host ports (`utils/cluster.go`, `mem/memory.go`, `db/db.go`)

- *State.* None of its own: formulas `NodePort` and the expression in
  `mem/memory.go:128`; the engine's table of published ports.
- *Hard.* The numbers of different targets, replicas and shards can meet, and the
  clients (`SQLEndpoints`, `MemEndpoints`) compute them independently.
- *Correct when* no container fails to start for lack of a free port and a client
  that dials a shard reaches that shard.

### Container engine client and `init` as a whole (`container/container.go`, `commands/init.go`)

- *State.* In the engine: the network, the volumes and what is in them, the
  containers (absent, created, started, healthy). In the process: where each node's
  goroutine stands and which containers it waits for.
- *Operations.* `NetworkConfig.Ensure` (inspect, then create), `Vol` (a helper
  container that writes its input to a volume and is removed by the engine),
  `StartContainer` (create, start, `WaitHealthy`; a name conflict counts as
  success), `WaitHealthy` (every container whose name has the prefix).
- *Hard.* Nine goroutines inspect and create the same things, and the first error in
  any of them ends all; what a run leaves half done is what the next one starts from;
  the name of shard 0's container is a prefix of those of the other shards. Helpers
  are containers of the engine: the code waits for them without a limit, does not look at
  how they ended, and they go on when the process is gone.
- *Correct when* `init` ends without an error only if everything runs, goes past no
  container it started before that is healthy, and ends.

### Redis cluster creation (`mem/memory.go`, `mem/client.go`)

`MemNode.Init` runs `redis-cli --cluster create` on the leader, after its own
Redis node, and repeats it up to ten times; the other nodes may not be up yet, and
a try may fail after it has told some nodes of others, which redis-cli then refuses.
Each redis-cli is a container of the engine, which an exit of the process does not stop.
Correct when the cluster is made of all nodes, and `init` says so truthfully.

### Certificates (`cert/cert.go`, `commands/cert.go`)

- *State.* The files of the root and of each name under `~/.config/zygote`, shared by
  all processes of the user without a lock or a rename.
- *Operations.* `MakeCaCert`, `Sign` (`cert sign`, or `ensureCert` on first use), and
  the readers: `TLSConfig`, `makeCertsVolume` of SQL and Redis nodes, the API server
  and its client.
- *Hard.* Each tests for one file and writes two, in steps that other goroutines and
  processes see; a kill leaves one of them missing or empty.
- *Correct when* certificate and key are of one pair, and what anybody loads verifies
  against the root it took.

### Migrations and SQL generation (`db/db.go`, `commands/generate.go`, `migration/migration.go`, `commands/migrate.go`)

- *State.* The directory `sqls` with two files per version; in the database the
  schema, the version, its dirty mark and golang-migrate's lock.
- *Operations.* five `generate` commands and `SQLMigration.Save`; `migrate up` and
  `migrate down`.
- *Hard.* A file written while a command reads the directory; commands at once; a
  kill between the two files, or between the mark, the statement and the end mark;
  a down file that is missing.
- *Correct when* what the recorded version says is what the schema has.

### HTTP server and responses (`server/http.go`, `http/`, `controller/hello.go`, `relay.go`)

One response per request; the user comes from the client certificate. `BindBody`
answers a body it cannot bind and returns nil, so the handler goes on.

### Without state worth a model

Names (`utils/cluster.go`, `utils/calc_indices.go`): formatting and parsing of one
name; the prefixes among container names are in `Bringup`. The client commands,
remote execution, shell, vault, logging, prompts and the blueprints: text, pure
input and output, or third-party services. `PROJECT.json` lists each with the reason.

## 2. Modules

| Module | Models | State | Actions |
|---|---|---|---|
| `ReplicationGroup` | what the operators of a shard rely on | the group of each member, the groups formed so far | `Form`, `Join`, `Leave` |
| `HandlePool` | what the users of a connector rely on | handle of each link, open handles, what users have taken | `Open`, `Serve`, `Discard`, `Take`, `Release`, `End` |
| `ClientSlot` | what the Redis controller promises of its clients | the client in its place, the one that is tried, the open ones | `Replace`, `Install`, `Abandon`, `End` |
| `ClusterInit` | what `init` tells of the Redis cluster | phase and number of the last command, the command that told nodes of others, whether the cluster is formed | `Begin`, `Tell`, `Form`, `Succeed`, `Fail` |
| `SQLCluster` | bring-up of a shard's replicas | program counters, attempts, server, globals, group, volumes | one per query of `JoinGroupReplication` whose effect or failure matters, one per stage of `createNode`, commands, crashes |
| `Connector` | `MultiDBConnector` and its callers | the fields of the struct, the goroutine of each link, each request | one per stretch of code between two lock operations or two calls of the database |
| `MemController` | `RedisQueryController` | its fields, each request | as above |
| `Ports` | the host ports of a whole cluster | status of each container, published ports | start, failure to start, rejection by `NodePort` |
| `Bringup` | `init` of all nodes: network, volumes, containers, Redis cluster, and the redis-cli it starts | the engine's objects, what the Redis nodes know of each other, each command's redis-cli, a goroutine per node | one per call of the engine, and per effect of redis-cli, over several commands |
| `CertStore` | the certificate files, who writes and who reads them | each file, each goroutine with what it has read | one per file test, creation, write and read |
| `Migration` | the directory of migrations, the database and the commands | two files per version, schema, version, mark, lock, each command's plan | one per file written, and per step of golang-migrate |
| `MC...` | instances of the above for TLC | | |
| `...Proofs` | theorems about the above | | |

The first four have no counterpart line by line in the code. They are abstract
specifications, each stated in the module that implements it with the substitution
that maps one to the other: `ImplementsGroup` in `SQLCluster`, `ImplementsPool` in
`Connector` (a user has taken the handle with which it makes its attempts),
`ImplementsSlot` in `MemController` (the client that is tried is in the local
variable of the request that pings), `ImplementsInit` in `Bringup` (before the first
command the phase is "new"; the cluster is formed when some redis-cli ended well and all
nodes run). `ImplementsGroup` keeps the identity of groups: `formed` is the number of
groups born so far, and a bootstrap beside a living group is no step of
`ReplicationGroup`, where `Form` needs that there is no member.

Operators whose comment begins with "Mutation:" are not part of a specification:
each is a form that a plausible bug would give to the definition after it, and
documents which error a property would detect (`PROJECT.json`, `mutants`).

### How the models correspond to the code

**SQLCluster.** `pc[n]` is the point the code has reached for replica `n`:
`replica`, `health`, `router` in `StartSQLContainers` before its loop; one value
per group of queries of `JoinGroupReplication` (`configure` stands for the
`SET GLOBAL`s before `CREATE USER`, `reset` for `STOP GROUP_REPLICATION` to
`CHANGE REPLICATION SOURCE`, `status` for the final `SELECT`s); `wait` for the
sleep of the loop; `bootFile`. An error of any query ends the attempt
(`AttemptFails`), the loop counts it down, sleeps (after the last one too) and
starts again or calls Fatal. `Fatal` and `Interrupt` end all goroutines of the
process: all replicas under `init` (`SharedProcess = TRUE`), one under `join`.
`Launch` can occur again once a run has ended, so reruns on any leftover state are
included. Things that are easy to miss in the code and are in the model:

- `CREATE USER 'repl'` (`db/db.go:733`) has no `IF NOT EXISTS`. It is the only
  thing that keeps replica 0 from bootstrapping a second group when the command is
  rerun, and it also makes every retry after it useless (finding `JoinWaits`).
  With `deinit` that keeps the volumes, every later init fails at this query.
- Health: `StartContainer` takes an existing container as good whatever its health
  (`ReplicaExists`), and the check can pass on the temporary server of the
  image's initialisation, so a query may meet a server that is not up.
- The bootstrap flag may stay ON in a server whose process was killed between
  `START GROUP_REPLICATION` and the query that turns it off.
- The rows of `replication_group_members` are only logged.
- The boot file is written by a helper container whose exit status is discarded
  (`container/container.go:288`): `BootFileLost` ends a replica as done without it, and the
  history variable `lost` remembers for which. `RestartRejoins` excepts these and no
  others. Their servers come back from a restart outside the group, and so do
  those of replicas whose command died between `CREATE USER` and the boot file:
  `LeftOutStays` says that no retry, rerun or restart then helps, only the removal
  of the volumes.
- `deinit` stops and removes one container after the other (`RemoveContainer`), and may
  fail after any of them; with `-v` it removes the volumes when no container of the host
  is left (`RemoveVolumes`). The data volume and the configuration volume of one replica
  go in one step.

**Connector.** `connect` takes `RLock` to read the configuration, gives it up, and
takes `Lock` for everything from the map to the end of the ping: `Acquire`, then `Reuse`, `Stale`, `Open`, `PingOk`, `PingFails` while `lock` is
held. The handle in a goroutine's local variable is `mine`; `conns` is both maps;
`open` are the handles that are not closed. A handle replaced in a map is not
closed by the code, and the model does the same: no path of the repository calls
`ConnectAll` twice, `ConnectAgain` models the use its API allows. `RetryOperation`
takes its handle once (`Get`) and retries the operation on it. The branches for an
error of `sql.Open` and for a missing configuration cannot be reached with the
arguments the code gives, and are left out. `Close` of one shard has no caller.
Handles are numbers that are used again when nobody knows of them any more
(`Fresh`), at most `MaxHandles` of a link at a time. `BackoffConfig.Retry` knows
nothing of `backoff.Permanent`, in which `RetryOperation` wraps errors that are not
transient (`tables/connection.go:486`): both kinds are retried alike, and
`OperationFails` is one action. `commands/queryCommand.go:40` makes a connector and
asks it for a handle without a `ConnectAll`, so the command always fails; that is a
process without steps, and has no model.

**MemController.** `ensureConnection` is atomic up to its ping, which is a step of
its own under the mutex (`Reconnect`, then `PingOk` or `PingFails`); `Command`
reads `rc.client` without it. `Bind` has both results of `BindBody`, the second of
which has already written a response, and a third: the write of that response fails, and
the handler ends. `Reconnect` and `Close` close the client and set `rc.client` to nil in
one step: a handler that reads the variable between the two holds the same closed client
as one that read it just before. When a connection error is answered with
`ensureConnection` while the last check is less than five minutes old, that returns
at once (`StillFresh`) and the next attempt has the same client. An error of go-redis whose text contains
"connection" counts as a connection error; "redis: client is closed" does not. A nil
client makes the handler panic; there is no recover middleware, so the connection
is dropped without a response (`panic`).

**Ports.** `NodePort`, `mapPort`, the formula of `mem/memory.go` and the
clients' endpoints are the functions of the code; `Start` and `StartFails` are
`StartContainer` against the engine's table of taken ports. The cluster is one
that `init` makes in a Docker network on one host.

**Bringup.** `pc[n]` and `stage[n]` are the point `createNode` has reached for node
`n` and the container it is at: 1 is the SQL server, 2 the router, 3
(`Services`) Redis. For each of them the code fills volumes (`Vol`, one step for all
files of the container), then calls `StartContainer`: `ContainerCreate`,
`ContainerStart`, `WaitHealthy` (the list is taken once), `CheckHealth` for each
container of the list, `Healthy`. What the code's conditions make of it:

- The first `FatalIfErr` ends the process (`Fatal`); containers and volumes stay, and
  `Start` runs the command again on them.
- `Conflict`: a container that exists is taken to run, so one that was created and
  not started is never started (`StrandedStays`). A goroutine of another node that
  has it in its list reads `State.Health`, which is nil, and panics
  (`HealthPanics`).
- `EnsureErrs`: whatever error `NetworkInspect` returns is taken for "not found"
  (`container/container.go:547`), so a network that is there is created, and refused, when
  an inspection fails.
- `VolLost`: the exit status of the helper is not examined. `VolFails`: the helper
  removes itself, so the wait for it can fail after it has done its work; or the engine
  fails, also at the inspection that `Vol` makes of the network.
- The wait for a helper has no limit, nor have the pull of an image and the wait for
  redis-cli (`Unlimited`). With empty input (the certificate of an unfinished `Sign`, say)
  a helper is attached to no stdin and may never end (`container/container.go:252`).
- `Prefixed`: names are compared by prefix, so a node of shard 0 waits for those of
  the other shards as well. Up to ten shards these are the only coincidences
  (`BringupAssumption`).
- The SQL part after the router, the join of the group, is `SQLCluster`'s; here it may
  fail (`JoinFails`) before the node goes on to Redis.
- `ClusterCreate` starts redis-cli in a container of the engine, and `cli[r]` is the last
  one of command `r`. It asks all nodes first (`CliTells`, `CliRefuses`: a node that
  does not answer or knows of others), tells the first of another, and waits for all to join
  (`CliForms`) or fails before or after that (`CliBreaks`). Its steps need no process:
  a command that is killed leaves it at work, and it may form the cluster, or spoil the
  nodes for every later command, under the next one. The leader looks at it again only
  when it has ended (`ClusterMade`, `ClusterRefused`).
- The helper of redis-cli asks for host port 6373, the number of the Redis node of replica 0 of
  shard 0 (`mem/memory.go:190`, `128`), without exposing it; an engine that publishes it all the
  same refuses its start, which is `SpawnFails`.

**CertStore.** A file is absent, empty, or a key or certificate of pair `of` signed by
root `by`. `os.Create` and the encoding are two steps, and every read is one, so
other goroutines see files between them. `Work[g]` is what a goroutine is for:
`root` and `sign` are the commands, `tls` is `TLSConfig`, `volume` is
`makeCertsVolume` of either kind of node, `load` the API server and its client,
which do not sign. The API server loads its pair a second time, in
`ListenAndServeTLS`, and serves with that (`servecert`, `servekey`); the client loads
it once, and what it does are the first steps of the server. `ensureCert` is called by `TLSConfig`, and again by `Cert` and by
`Key`, so a `volume` goroutine passes `EnsureCert` twice. An error or a nil block
ends the whole process (`Fail`), as a signal does (`Kill`). `spoilt` and `lost` are
history variables that say for which pairs a kill or a second signer explains a
mismatch. Only one `cert root` runs at a time (`CertAssumption`); expiry and the
contents of a certificate other than its two keys are not represented.
`cert root` promises to "validate an existing one" (`commands/cert.go:25`) and
returns as soon as the key's file exists, be it empty: finding `RootValidated`. That such
a root stays as it is and nothing is signed with it any more is the theorem
`CutRootForGood`.

**Migration.** What a template makes is an object made in another one (`In`); the
statement is accepted when the object is missing and what it is made in exists,
with the `IF EXISTS` and `IF NOT EXISTS` of the templates
(`db/templates/create_*.sql`). `Save` has four steps, for two files that are made
and then filled. golang-migrate is external: it scans the directory when it is
made, takes the lock, refuses a dirty version, runs the pending versions in order,
each between a mark and its removal, and takes a missing file for an empty
migration (`RunNothing`); a goroutine reads files ahead, so a text is that of
`Begin` or of now (`Texts`). The database of the tenant may be there before the first
migration, made by `init.sql` (`premade`), and a generated `CREATE DATABASE` of that name
fails. `Refused` are the indexes that MySQL refuses for the type of their column
(`TEXT`, `JSON`, a `FULLTEXT` index on numbers): generated by `generateIndexCommand`
without a look at the type, they fail whenever they are run, and `FailureIsExplained`
names both causes, apart from the statements that MySQL or a signal cuts (`RunCut`).
A statement in flight when its process is killed takes effect before the kill or not at all.
`migrate down` reverts every applied version (`migration/migration.go:68`), although the
help text of the command speaks of the last one. `skipped` is the history of reversals that a missing
file swallowed. Only one `generate` runs at a time, and versions are ordered as
their times are. `NewMigration` connects to all shards, and both commands
use the write handle of shard 0 only (`migration/migration.go:36`).

## 3. Runs

Expected to pass:

| Run | Shows | Bounds |
|---|---|---|
| `InitSafety` | one process brings up two replicas, up to three times, with crashes, timeouts, interrupts and lost helpers anywhere, and `deinit -v`: `RerunKeepsMembers`, `RestartRejoins`, `LeftOutStays`, and the refinement `ImplementsGroup`, in which all members are in one group (`PromisesOneGroup`) | 2 replicas, 2 attempts, 3 runs, 3 faults |
| `JoinKeepVolumes` | a process per replica, any order, volumes kept: `NoSplitBrain`, `OneLineage`, and under fairness `RunsEnd` | 3 replicas, 2 attempts, 3 runs, 1 fault |
| `ConnectorServes` | both `ConnectAll` over two shards, twice, with a request and `CloseAll` at any time: the refinement `ImplementsPool`, which implies that what is served is open and that what is taken stays open until `CloseAll`; no leaked handle, none closed under a request, completeness, and under fairness every call returns | 2 shards, 1 request, 2 attempts, 2 rounds, 4 handles |
| `MemServes` | two requests share the client while it expires, is replaced, fails and is closed: the refinement `ImplementsSlot`, which implies that no client leaks; no nil or closed client in the first five minutes, every request ends | 2 requests, 3 attempts, 2 expiries |
| `HostPorts` | the nodes of replicas 0, 4, 9 of shards 0, 4, 31 start in any order | the indices at which numbers meet: replica 9 is rejected, replica 4 of shard 0 meets shard 31 |
| `Bringup` | `init` of the nodes of two shards, up to three times, next to the redis-cli of an `init` that is gone: a run that ends well leaves a whole cluster (`EndsWhole`), made by its own redis-cli (the refinement `ImplementsInit`); containers are waited for; while inspections are answered the network is refused in the first run only; stranded containers stay; every run ends that is not left waiting for the engine | 2 nodes, 2 containers each, 3 attempts, 3 runs, 2 faults |
| `CertStore` | `cert root`, `cert sign`, an API server and an `init` with one volume and two connectors: the root alone signs itself (`TypeOK`), `LeavesVerify`, `PairsMatch`, what is loaded or delivered is one pair that verifies, and a leaf that a kill leaves half made stays | 4 processes, 6 goroutines, 2 names, 3 process starts, 1 kill |
| `Migrations` | three versions are generated while two processes run up and down, on a server with or without the database: a clean database has what its version says (`AppliedExists`) and no more (`NothingLeftBehind`); failures have their cause in what was generated, or in what was there before; a failed migration stays marked | a database, a table, a column, an index that is refused; 3 versions, 2 processes, 2 commands, 1 fault |

Expected to find a violation, each of one sentence of the code's own comments or
messages (`PROJECT.json`, `findings`, has the quotations):

| Run | Shows |
|---|---|
| `JoinWaits` | a replica that came before the group stays out although attempts are left: its first attempt created the user, and all others fail at that query |
| `JoinReplacedHost` | `join` on a replaced first host (empty volumes) bootstraps a second group beside the living one |
| `ConnectorParallel` | shards are connected one at a time; one that never answers holds up the rest |
| `RootValidated` | `cert root` ends well beside a root certificate whose key file an earlier, killed command left empty |

*Why the bounds are enough.* Two attempts give a first, a repeated and a last one;
three replicas give the one that bootstraps, a joiner, and a joiner that meets
either; under `init`, where one fatal error ends all, two of them do, and three runs with
three faults give a rerun on what a rerun left, a loss of the boot file followed by a crash
among it; elsewhere one fault at every point is what separates partial from complete
effects. An index that is accepted behaves as a column does in `Migration`; the proofs
cover both kinds together. In the connector two
shards contend for the one lock, and the second round is the first that replaces a
handle under the request. Two expiries let a client be replaced twice, so a request
can hold one that is two generations old. Two nodes of `init` are the leader and one
whose container the leader waits for; its third run is the first that meets what
a rerun left. Its two containers are one with something after it and the last one; two
faults are a kill and the failure of what it left at work. Three starts
of a process are the root and two processes that work under it, or beside it. Three versions give a migration that has one before and one after
it, and a dependency in a dependency. Two
commands of `migrate` are two at once, or one on what the other left; three make the run
four times as long, and what a third command meets is covered by the proofs. Beyond these bounds, the invariants are
proved (section 5).

*Deadlock* is not checked in these runs: all of the systems end (every command
done and its budget of runs spent, every request answered).

## 4. Fairness

Weak fairness only, of the steps the runtime schedules, or whose waits the code ends
itself:

- `SQLCluster`: the health check, queries and sleeps of each replica's goroutine
  (`JoinStep`: the check has a limit, a query returns or fails, and the loop counts), and the restart of its container
  (`RestartPolicy: always`, `container/container.go:603`). What the engine is asked for,
  containers and the boot file, is under no fairness (`EngineStep`).
- `Connector`: each goroutine of `ConnectAll`, its caller and each request, where a
  step that waits for a server is enabled only if the server answers. `Silent` is
  empty in the run that claims termination, and not in `ConnectorParallel`: the ping
  of `connect` has no timeout.
- `MemController`: each request, whose pings and commands have contexts of five seconds.
- `Bringup`: each goroutine of `init` (`Step`: inspections, creations, and the health check,
  which gives up after two minutes, `HealthTimeout`), the start of an attempt at the
  cluster and its result once redis-cli has ended (`LeaderStep`), and the return of
  `wg.Wait`. No container need ever become healthy.

Three waits have no limit in the code, as they use `context.Background()`: for a
helper of `Vol` (`container/container.go:283`), for redis-cli (line 173), and for the
pull of an image (line 622). Nothing is assumed of them. `Unlimited` names the points at which a
goroutine may stand in one, and `RunsEnd` and `InitEnds` say that a command ends if no
goroutine stands at one of these points for ever. The fairness of the other steps is what makes
that hold: without it a goroutine could stop anywhere.

The delays of `Retry` are finite (`utils/backoff.go`). Nothing is assumed of commands,
crashes, expiry, or the arrival of requests. No strong fairness: a goroutine that
waits for the lock is served in the runs because each goroutine takes it a bounded
number of times. `CertStore` and `Migration` state no fairness: their properties
are safety properties.

## 5. Proofs

All invariants and action properties of the passing runs are theorems of the
specifications, for every number of replicas, shards, nodes, goroutines, requests,
attempts, runs and faults. They follow the scheme Init => Inv, Inv /\ [Next]_vars =>
Inv', Inv => property, with one step per action. The only assumptions are those
named in the modules (`...Assumption`) and in the statements. Some theorems are about
properties that no run lists: mutual exclusion in the two controllers, a nil
client's cause (`NilOnlyWhileReconnecting`), `DoneIsMember`, what becomes of a cut root
(`CutRootForGood`), `StoredIsOpen`,
`NoClientLeak`, `InitOnce` (the refinements in the runs imply the last three); they
are parts of the inductive invariants or follow from them.

**Refinements.** Each of the four detailed modules with an abstract specification
implements it, for every value of the constants: theorem `Refinement` of
`SQLClusterProofs`, `ConnectorProofs`, `MemControllerProofs` and `BringupProofs`. The
lemma `StepRefines` before it shows for every step of the code which step of the
abstract specification it is, or that it is none (`[Next]_vars` of the abstract
variables). What the abstract steps demand is where the inductive invariants are
needed:

- `HandlePool` lets a handle be discarded only if it is neither served nor taken,
  and `MineIsPrivate` says so of the handle whose ping fails. `HandlePoolProofs` proves
  the promise itself from the abstract steps (`PromiseKept`).
- `ClientSlot` has one trial at a time (`OneReconnects`) and closes in the step in
  which it replaces or abandons. `OpenClients` draws the conclusion for the code: the
  open clients are `rc.client` and the one that is pinged, no more and no less.
- `ReplicationGroup` has no step for a bootstrap beside a member, and a join only
  to the group of a member; groups have numbers, which the mapping keeps (`formed <-
  born`). That its steps never give members of two groups is `PromisesOneGroup`.
- `ClusterInit` lets a command succeed only if the cluster is formed and this command,
  no earlier one, was the first to tell a node of another. `Told` says that a redis-cli gets
  beyond its questions only as the teller, when all nodes run; `LeadDone` that the
  leader is done when the redis-cli of its own command has ended well. The steps of a
  redis-cli whose process is gone are `Tell` and `Form` under a later command, so
  the abstract steps do not depend on the phase.

**Progress.** What the prover cannot do is fairness and `ENABLED`, so the liveness
properties stay with TLC. Their arithmetic is proved: the theorems `AllProgress` of
`SQLClusterProofs`, `ConnectorProofs` and `BringupProofs` and `RequestsProgress` of
`MemControllerProofs` say that each step of a goroutine or a request uses up one of a
bounded number (`StepsLeft`; in `Bringup` the goroutine moves on in a bounded order),
and that neither the steps of others nor crashes and restarts of servers, `deinit`, `CloseAll`,
`Close` or the expiry of a check give any back. If the
engine ends the three waits of section 4, nothing but the scheduler then keeps a
call from its end; that the scheduler does not is the fairness that the runs assume.

**SQLClusterProofs.** `NoSplitBrain` is not inductive: that a bootstrap happens
while a group lives is excluded only by the history of the volumes. The invariant
uses the `repl` user as a token. `Fresh(n)` says that n has not passed `START
GROUP_REPLICATION` since its user was created; a fresh replica is in no group and
has no boot file (`FreshIsOutside`), only replica 0 carries the flag
(`OnlyBootStarts`), and while replica 0 is fresh nobody is in a group
(`NothingBefore`). A bootstrap makes replica 0 not fresh, and only a wipe of its
volumes undoes that. `FirstGroup` counts bootstraps in the same way for
`OneLineage`. In the refinement each step is a `Form`, `Join`, `Leave` or a stutter of
`ReplicationGroup`, with the group's number; that a start with the flag set is a `Form`,
and not a second group beside a member, is where `NothingBefore` is needed.
*Assumptions in the statements*: `WipesTogether` (no host is wiped while servers of
others live on: `init`, or volumes kept) for `NoSplitBrain` and the refinement,
`~WipeAllowed` for `OneLineage`. They are needed: without the first
`JoinReplacedHost` is a counterexample.

`RetriesAreInVain` is the finding of `JoinWaits` as a theorem, for any number of
replicas and attempts: a replica that begins or repeats an attempt while its `repl` user
exists (`Doomed`) never gets past `CREATE USER`, until its process ends. `LeftOutForGood`
draws the conclusion over reruns and restarts: such a replica that has no boot file stays
out of the group until its volumes are removed. `RestartsRejoin` covers the others, those that
are done with the file on their volume.

**ConnectorProofs.** The key part is `MineIsPrivate`: the handle being pinged is
open and in no map and in no request, so closing it on a failed ping hurts
nobody. With `OneAtATime`, which ties the program counters to the lock, it gives
`StoredIsOpen` and `RequestKeepsHandle`. `ReadyIsComplete` needs `SuccessIsStored`
(a goroutine that ended without an error has stored a handle) and `CallerWaits`
(the caller goes on only when all goroutines have ended).

`AllProgress` counts up to seven steps per attempt of `connect`, and two per attempt of
`RetryOperation`.

**MemControllerProofs.** `MineIsPinged` is the same idea. `NilIsExplained` and
`StartIsQuiet` relate a nil client to a request that reconnects or failed to,
or to `Close`; the action property `NilOnlyWhileReconnecting` follows from it.

**PortsProofs.** `OwnersRun`: what is published belongs to running containers of
accepted replicas, at their own numbers. The rest is arithmetic: below shard 31
replica * 10 + shard * 100 leaves the target's last digits readable; the cases are
split by pairs of targets.

**BringupProofs.** `EndsWhole` needs what the leader has behind it, and what redis-cli
does beside it. A redis-cli tells nodes of each other only when all of them run, and
no step of the model makes a healthy container anything else (`HealthyStays`,
`RunningStays`); `Told` keeps that for as long as there is a redis-cli beyond its questions,
with or without its process; `LeadDone` gives the result to the leader that is past it, and
`Finish` waits for the leader. `SinceBefore` ties the network and the knowledge of the nodes
to what they were when the command began, which gives `InitOnce`; and it counts the
faults since, as a failed inspection leads to the creation of a network that is there:
`RefusedAtFirst` holds of commands without such a fault. `OwnWatched` says that a goroutine at
`health` has its own container on its list or the container is healthy, although the list
holds those of others too: `ContainersAwaited`.

**CertStoreProofs.** The two halves are the root and the leaves. `RootSafe`: while the
key of the root is not written nobody holds a signing key and no leaf is in the store, since
`MakeCaCert` goes on only if there is no key and writes it last; so a root under which
leaves exist is not replaced (`LeavesVerify`). `Alone`: a name that is not spoilt
has at most one writer, because a second one that creates the certificate while the
first is at work spoils it. Without a writer its two files
are one pair (`PairsMatch`). `Leaves` carries that to what goroutines have read of them.
`Roots` says which certificates a reader's pool can be: the root in use, an empty
file, or one whose command was cut. `CutRootForGood`: once the key's file is there and
its command is gone before the write, no step ever writes it, and no leaf is issued.

**MigrationProofs.** `Position` describes the runner that holds the lock: at each of its
points the version, the mark and its list fit together, so that `todo` without
its next element is always the versions beyond the recorded one. `Database` relates
the schema to it: what is below the version exists (`Distinct` versions), what
exists is below it or was skipped. `Saves` carries the order of the files: a
version has a down file only if its up file is complete. A scanned version
stays on disk (`Scanned`), and a text read ahead is one the file had (`Texted`).
That the least and the greatest of a set of versions exist is taken from
`WellFoundedInduction`.

*Only model-checked*: liveness (`RunsEnd`, `ConnectEnds`, `RequestsEnd` of both
controllers, `InitEnds`), since the prover does not handle fairness, and the four
violations, which are counterexamples on an instance. No proof is by induction over
data; what the recursive or counting operators do at the bounds is checked by the runs.

## 6. Not modelled, and limits

- MySQL is an environment: it accepts a member if some member lives, or may fail.
  Quorum loss, RECOVERING and ERROR states, certification of writes and
  the `SET SQL_LOG_BIN` of a session that reconnects are not represented.
- `SQLCluster` and `Bringup` are two views of one command: the group of a shard, and
  the nodes of all shards with their containers. What each leaves to the other is a
  step that may fail (`Interrupt`, `JoinFails`).
- In `Bringup` a Redis node once healthy stays so; crashes of Redis are not
  represented, nor a shard count above ten.
- The clock: a leaf's year, an expired root.
- Two `cert root` or two `generate` at once.
- golang-migrate, go-redis and the Docker engine are modelled from how they are
  used.
- The effect of statements sent twice by `RetryOperation` is the user's.
- The API server's write handles go to port 6447, which `router.conf` makes
  read-only; no handler uses them.
- Ports are those of one host; on several hosts the same numbers are further apart.
- Routing, `GetUser`, the relay and the hello controller: one request, one answer and
  no state.
- Client commands, remote execution, shell, vault, prompts, logging, the blueprints:
  text and input and output of one goroutine.

`PROJECT.json` lists every hazard found, those no property covers with the reason.

## 7. Plan

Done, in this order: `SQLCluster` with `ReplicationGroup`, `Connector`,
`MemController`, `Ports`, `CertStore`, `Migration`, `Bringup`, the proofs of each, and the
abstract specifications `HandlePool`, `ClientSlot` and `ClusterInit` with their refinements.
What would come next, by importance:

1. `SQLCluster` per shard and `Bringup` composed by INSTANCE, with one Fatal for all.
2. `Naming`: `NodeHost` and `GetClusterIndex` are inverse on the indices in use.
