-------------------------------- MODULE Ports -------------------------------
(***************************************************************************)
(* The host ports of a cluster whose nodes all run on one host in a Docker *)
(* network, as `init' makes it: every container publishes its ports at     *)
(* numbers computed from its target ports, replica and shard               *)
(* (utils/cluster.go NodePort, db.go mapPort, and the expression of its    *)
(* own in mem/memory.go), and the clients compute the numbers they dial    *)
(* (tables/connection.go SQLEndpoints, memconn MemEndpoints).              *)
(***************************************************************************)
EXTENDS Integers

CONSTANTS Reps, Shards   \* replica and shard indices

ASSUME IndexAssumption == 0 \in Reps /\ Reps \subseteq Nat /\ Shards \subseteq Nat

VARIABLES
    status,   \* of each container: "absent", "running", or "failed" to start
    owner,    \* the containers and targets published at host ports
    exited    \* the process ended with an error

vars == <<status, owner, exited>>

maxShardSize           == 9
mysqlPublicDefaultPort == 3306
groupRepDefaultPort    == 33061
routerPortNumRead      == 6446
routerPortNumWrite     == 6447
defaultRedisPort       == 6373

(* The containers of a node, in the order createNode starts them. *)
Kinds  == {"sql", "sql-router", "mem"}
Before(kind) == CASE kind = "sql"        -> {}
                  [] kind = "sql-router" -> {"sql"}
                  [] kind = "mem"        -> {"sql", "sql-router"}

Containers == [kind : Kinds, rep : Reps, shard : Shards]

Rejected(rep) == rep >= maxShardSize

(* Mutation: shards are ten apart, as replicas are. *)
NodePortNarrow(target, rep, shard) == target + rep * 10 + 10 * shard

NodePort(target, rep, shard) == target + rep * 10 + 100 * shard

(* Mutation: replica and shard are swapped. *)
MemPortSwapped(rep, shard) == defaultRedisPort + rep * 100 + shard * 10

MemPort(rep, shard) == defaultRedisPort + rep * 10 + shard * 100

Targets(kind) == CASE kind = "sql"        -> {mysqlPublicDefaultPort, groupRepDefaultPort}
                   [] kind = "sql-router" -> {routerPortNumRead, routerPortNumWrite}
                   [] kind = "mem"        -> {defaultRedisPort}

(* Mutation: the router's write port is mapped like its read port. *)
HostPortCopied(c, t) ==
    IF c.kind = "mem" THEN MemPort(c.rep, c.shard)
    ELSE NodePort(IF t = routerPortNumWrite THEN routerPortNumRead ELSE t, c.rep, c.shard)

HostPort(c, t) == IF c.kind = "mem" THEN MemPort(c.rep, c.shard)
                  ELSE NodePort(t, c.rep, c.shard)

Published(c) == {[port |-> HostPort(c, t), by |-> c, target |-> t] : t \in Targets(c.kind)}

Clash(c) == \E e \in owner, t \in Targets(c.kind) : e.port = HostPort(c, t)

-----------------------------------------------------------------------------
Init ==
    /\ status = [c \in Containers |-> "absent"]
    /\ owner = {}
    /\ exited = FALSE

Ready(c) ==
    /\ ~exited
    /\ status[c] = "absent"
    /\ \A k \in Before(c.kind) : status[[c EXCEPT !.kind = k]] = "running"

Start(c) ==
    /\ Ready(c)
    /\ c.kind = "mem" \/ ~Rejected(c.rep)
    /\ ~Clash(c)
    /\ status' = [status EXCEPT ![c] = "running"]
    /\ owner' = owner \cup Published(c)
    /\ UNCHANGED exited

(* The engine refuses to start a container on a host port that is taken. *)
StartFails(c) ==
    /\ Ready(c)
    /\ c.kind = "mem" \/ ~Rejected(c.rep)
    /\ Clash(c)
    /\ status' = [status EXCEPT ![c] = "failed"]
    /\ exited' = TRUE
    /\ UNCHANGED owner

(* NodePort exits the process on a replica it has no ports for. *)
Reject(c) ==
    /\ Ready(c)
    /\ c.kind # "mem"
    /\ Rejected(c.rep)
    /\ exited' = TRUE
    /\ UNCHANGED <<status, owner>>

Next == \E c \in Containers : Start(c) \/ StartFails(c) \/ Reject(c)

Spec == Init /\ [][Next]_vars

-----------------------------------------------------------------------------
(* What the clients dial for a shard: replica 0. *)

SQLEndpoint(target, shard) == NodePort(target, 0, shard)
MemEndpoint(shard)         == NodePort(defaultRedisPort, 0, shard)

-----------------------------------------------------------------------------
(* Properties. *)

(* Every variable has its type, and a host port has one publisher: the     *)
(* port maps of MakeDB, MakeSQLRouter and CreateReplica never give two     *)
(* targets the same host port.                                             *)
TypeOK ==
    /\ status \in [Containers -> {"absent", "running", "failed"}]
    /\ owner \subseteq [port : Nat, by : Containers, target : Nat]
    /\ \A e, f \in owner : e.port = f.port => e = f
    /\ exited \in BOOLEAN

(* A container fails to start for its host ports only next to one of shard *)
(* 31 or later: NodePort and memory.go leave room between the numbers for  *)
(* nine replicas of 31 shards (4 replicas and 31 shards on, the MySQL port *)
(* 3306 is another shard's router port 6446).                              *)
PortsSuffice ==
    \A c \in Containers :
        status[c] = "failed" =>
            \E d \in Containers : d.shard >= 31 /\ (d = c \/ status[d] = "running")

(* What answers at the port a client computes for a shard is that shard's  *)
(* replica 0, at the target the client means, with up to 31 shards:        *)
(* SQLEndpoints, MemEndpoints and the containers agree, though memory.go   *)
(* has a formula of its own.                                               *)
EndpointsAgree ==
    \A e \in {p \in owner : p.by.shard < 31}, s \in {v \in Shards : v < 31} :
        /\ \A t \in Targets("sql-router") :
              e.port = SQLEndpoint(t, s)
                 => e.by = [kind |-> "sql-router", rep |-> 0, shard |-> s] /\ e.target = t
        /\ e.port = MemEndpoint(s)
              => e.by = [kind |-> "mem", rep |-> 0, shard |-> s]
=============================================================================
