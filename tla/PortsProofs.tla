----------------------------- MODULE PortsProofs -----------------------------
(* Theorems about Ports, for every set of replicas and of shards. *)
EXTENDS Ports, TLAPS

AllTargets == UNION {Targets(k) : k \in Kinds}

(* What is published belongs to a running container, which NodePort did    *)
(* not reject.                                                             *)
OwnersRun ==
    /\ \A c \in Containers : status[c] = "running" => c.rep < maxShardSize
    /\ \A e \in owner : /\ status[e.by] = "running"
                        /\ e.target \in Targets(e.by.kind)
                        /\ e.port = HostPort(e.by, e.target)

Inv == TypeOK /\ OwnersRun /\ PortsSuffice

(* The targets the containers publish. *)
LEMMA Numbers == AllTargets = {3306, 33061, 6446, 6447, 6373}
BY DEF AllTargets, Targets, Kinds, mysqlPublicDefaultPort, groupRepDefaultPort,
       routerPortNumRead, routerPortNumWrite, defaultRedisPort

(* What a container is made of. *)
LEMMA Fields ==
    ASSUME NEW c \in Containers
    PROVE  c.kind \in Kinds /\ c.rep \in Nat /\ c.shard \in Nat
BY IndexAssumption DEF Containers

(* The two formulas agree, and give numbers. *)
LEMMA HostPortIs ==
    ASSUME NEW c \in Containers, NEW t \in Targets(c.kind)
    PROVE  /\ HostPort(c, t) = NodePort(t, c.rep, c.shard)
           /\ t \in AllTargets /\ t \in Nat
           /\ HostPort(c, t) \in Nat
<1>1. c.kind \in Kinds /\ c.rep \in Nat /\ c.shard \in Nat
  BY Fields
<1>2. t \in AllTargets
  BY <1>1 DEF AllTargets
<1>3. t \in Nat /\ (c.kind = "mem" => t = defaultRedisPort)
  BY <1>1 DEF Kinds, Targets, mysqlPublicDefaultPort, groupRepDefaultPort,
         routerPortNumRead, routerPortNumWrite, defaultRedisPort
<1>4. HostPort(c, t) = NodePort(t, c.rep, c.shard)
  BY <1>1, <1>3 DEF HostPort, MemPort, NodePort
<1>5. HostPort(c, t) \in Nat
  BY <1>1, <1>3, <1>4 DEF NodePort
<1> QED
  BY <1>1, <1>2, <1>3, <1>4, <1>5

(* A target determines the kind of its container. *)
LEMMA TargetKind ==
    ASSUME NEW k \in Kinds, NEW m \in Kinds, NEW t \in Targets(k), t \in Targets(m)
    PROVE  k = m
BY DEF Kinds, Targets, mysqlPublicDefaultPort, groupRepDefaultPort,
       routerPortNumRead, routerPortNumWrite, defaultRedisPort

(* A host port determines the container and the target, below shard 31. *)
LEMMA PortsDiffer ==
    ASSUME NEW c \in Containers, NEW d \in Containers,
           NEW t \in Targets(c.kind), NEW u \in Targets(d.kind),
           c.rep < maxShardSize, d.rep < maxShardSize,
           c.shard < 31, d.shard < 31,
           HostPort(c, t) = HostPort(d, u)
    PROVE  c = d /\ t = u
<1>1. c.rep \in 0..8 /\ d.rep \in 0..8 /\ c.shard \in 0..30 /\ d.shard \in 0..30
  BY Fields DEF maxShardSize
<1>2. /\ t \in AllTargets /\ u \in AllTargets
      /\ NodePort(t, c.rep, c.shard) = NodePort(u, d.rep, d.shard)
  BY HostPortIs
<1>3. t = u /\ c.rep = d.rep /\ c.shard = d.shard
  <2>1. PICK q \in 0..8, r \in 0..8, s \in 0..30, v \in 0..30 :
             q = c.rep /\ r = d.rep /\ s = c.shard /\ v = d.shard
    BY <1>1
  <2>2. NodePort(t, q, s) = NodePort(u, r, v)
    BY <1>2, <2>1
  <2>3. /\ t \in {3306, 33061, 6446, 6447, 6373}
        /\ u \in {3306, 33061, 6446, 6447, 6373}
    BY <1>2, Numbers
  <2>4. t = u
    BY <2>2, <2>3 DEF NodePort
  <2>5. q = r /\ s = v
    BY <2>2, <2>3, <2>4 DEF NodePort
  <2> QED
    BY <2>1, <2>4, <2>5
<1>4. c.kind = d.kind
  BY <1>3, Fields, TargetKind
<1> QED
  BY <1>3, <1>4 DEF Containers

(* Within a container the targets have ports of their own. *)
LEMMA OwnPorts ==
    ASSUME NEW c \in Containers, NEW t \in Targets(c.kind), NEW u \in Targets(c.kind),
           HostPort(c, t) = HostPort(c, u)
    PROVE  t = u
<1>1. t \in Nat /\ u \in Nat /\ c.rep \in Nat /\ c.shard \in Nat
  BY HostPortIs, Fields
<1>2. t + c.rep * 10 + 100 * c.shard = u + c.rep * 10 + 100 * c.shard
  BY HostPortIs DEF NodePort
<1> QED
  BY <1>1, <1>2

(* Nothing is published at first. *)
LEMMA InitInv == Init => Inv
BY DEF Init, Inv, TypeOK, OwnersRun, PortsSuffice

(* Every start of a container, its failure, and NodePort's exit keep it. *)
LEMMA NextInv ==
    ASSUME Inv, [Next]_vars
    PROVE  Inv'
<1> USE DEF Inv
<1>1. CASE UNCHANGED vars
  BY <1>1 DEF vars, TypeOK, OwnersRun, PortsSuffice
<1>2. ASSUME NEW c \in Containers, Start(c)
      PROVE  Inv'
  <2>1. c.rep < maxShardSize
    <3>1. CASE c.kind = "mem"
      <4> DEFINE b == [c EXCEPT !.kind = "sql"]
      <4>1. b \in Containers /\ b.rep = c.rep
        BY DEF Containers, Kinds
      <4>2. status[b] = "running"
        BY <1>2, <3>1 DEF Start, Ready, Before
      <4> QED
        BY <4>1, <4>2 DEF OwnersRun
    <3>2. CASE c.kind # "mem"
      BY <1>2, <3>2, Fields DEF Start, Rejected, maxShardSize
    <3> QED
      BY <3>1, <3>2
  <2>2. \A e \in Published(c) :
            /\ e \in [port : Nat, by : Containers, target : Nat]
            /\ e.by = c /\ e.target \in Targets(c.kind)
            /\ e.port = HostPort(c, e.target)
    BY HostPortIs DEF Published
  <2>3. TypeOK'
    <3>1. status' \in [Containers -> {"absent", "running", "failed"}]
      BY <1>2 DEF Start, TypeOK
    <3>2. owner' \subseteq [port : Nat, by : Containers, target : Nat]
      BY <1>2, <2>2 DEF Start, TypeOK
    <3>3. ASSUME NEW e \in owner', NEW f \in owner', e.port = f.port
          PROVE  e = f
      <4>1. CASE e \in owner /\ f \in owner
        BY <3>3, <4>1 DEF TypeOK
      <4>2. CASE e \in Published(c) /\ f \in Published(c)
        <5>1. e.target = f.target /\ e.by = f.by
          BY <3>3, <4>2, <2>2, OwnPorts
        <5> QED
          BY <5>1, <3>3, <4>2, <2>2
      <4>3. CASE e \in owner /\ f \in Published(c)
        BY <1>2, <3>3, <4>3, <2>2 DEF Start, Clash
      <4>4. CASE f \in owner /\ e \in Published(c)
        BY <1>2, <3>3, <4>4, <2>2 DEF Start, Clash
      <4> QED
        BY <1>2, <4>1, <4>2, <4>3, <4>4 DEF Start
    <3> QED
      BY <1>2, <3>1, <3>2, <3>3 DEF Start, TypeOK
  <2>4. \A d \in Containers : status'[d] = IF d = c THEN "running" ELSE status[d]
    BY <1>2 DEF Start, TypeOK
  <2>5. OwnersRun'
    <3>1. \A d \in Containers : status'[d] = "running" => d.rep < maxShardSize
      BY <2>1, <2>4 DEF OwnersRun
    <3>2. ASSUME NEW e \in owner'
          PROVE  /\ status'[e.by] = "running"
                 /\ e.target \in Targets(e.by.kind)
                 /\ e.port = HostPort(e.by, e.target)
      <4>1. CASE e \in owner
        BY <4>1, <2>4 DEF OwnersRun, TypeOK
      <4>2. CASE e \in Published(c)
        BY <4>2, <2>2, <2>4
      <4> QED
        BY <1>2, <4>1, <4>2 DEF Start
    <3> QED
      BY <3>1, <3>2 DEF OwnersRun
  <2>6. PortsSuffice'
    BY <2>4 DEF PortsSuffice
  <2> QED
    BY <2>3, <2>5, <2>6
<1>3. ASSUME NEW c \in Containers, StartFails(c)
      PROVE  Inv'
  <2>1. \A d \in Containers : status'[d] = IF d = c THEN "failed" ELSE status[d]
    BY <1>3 DEF StartFails, TypeOK
  <2>2. status[c] = "absent"
    BY <1>3 DEF StartFails, Ready
  <2>3. TypeOK'
    BY <1>3 DEF StartFails, TypeOK
  <2>4. OwnersRun'
    <3>1. \A e \in owner : e.by \in Containers /\ e.by # c
      BY <2>2 DEF OwnersRun, TypeOK
    <3> QED
      BY <1>3, <2>1, <3>1 DEF StartFails, OwnersRun
  <2>5. c.rep < maxShardSize
    <3>1. CASE c.kind = "mem"
      <4> DEFINE b == [c EXCEPT !.kind = "sql"]
      <4>1. b \in Containers /\ b.rep = c.rep
        BY DEF Containers, Kinds
      <4>2. status[b] = "running"
        BY <1>3, <3>1 DEF StartFails, Ready, Before
      <4> QED
        BY <4>1, <4>2 DEF OwnersRun
    <3>2. CASE c.kind # "mem"
      BY <1>3, <3>2, Fields DEF StartFails, Rejected, maxShardSize
    <3> QED
      BY <3>1, <3>2
  <2>6. PICK e \in owner, t \in Targets(c.kind) : e.port = HostPort(c, t)
    BY <1>3 DEF StartFails, Clash
  <2>7. /\ e.by \in Containers /\ e.by # c /\ status[e.by] = "running"
        /\ e.by.rep < maxShardSize
        /\ e.target \in Targets(e.by.kind)
        /\ e.port = HostPort(e.by, e.target)
    BY <2>2 DEF OwnersRun, TypeOK
  <2>8. c.shard \in Nat /\ e.by.shard \in Nat
    BY <2>7, Fields
  <2>9. c.shard >= 31 \/ e.by.shard >= 31
    <3>1. SUFFICES ASSUME c.shard < 31, e.by.shard < 31 PROVE FALSE
      BY <2>8
    <3>2. HostPort(c, t) = HostPort(e.by, e.target)
      BY <2>6, <2>7
    <3>3. c = e.by
      BY <2>5, <2>7, <3>1, <3>2, PortsDiffer
    <3> QED
      BY <2>7, <3>3
  <2>10. PortsSuffice'
    <3>1. \E d \in Containers : d.shard >= 31 /\ (d = c \/ status'[d] = "running")
      BY <2>1, <2>7, <2>9
    <3> QED
      BY <2>1, <2>2, <3>1 DEF PortsSuffice
  <2> QED
    BY <2>3, <2>4, <2>10
<1>4. ASSUME NEW c \in Containers, Reject(c)
      PROVE  Inv'
  BY <1>4 DEF Reject, TypeOK, OwnersRun, PortsSuffice
<1> QED
  BY <1>1, <1>2, <1>3, <1>4 DEF Next

(* The invariant of NodePort, of CreateReplica's port map and of the order *)
(* in which createNode starts the containers of a node.                    *)
THEOREM Invariance == Spec => []Inv
<1>1. Inv /\ [Next]_vars => Inv'
  BY NextInv
<1> QED
  BY InitInv, <1>1, PTL DEF Spec

(* A host port has one publisher: no container's port map gives two of its *)
(* targets, and no two containers' maps, the same port.                    *)
THEOREM TypeCorrect == Spec => []TypeOK
<1>1. Inv => TypeOK
  BY DEF Inv
<1> QED
  BY Invariance, <1>1, PTL

(* NodePort and memory.go keep the host ports of nine replicas of 31       *)
(* shards apart: no container fails to start for its ports.                *)
THEOREM EnoughPorts == Spec => []PortsSuffice
<1>1. Inv => PortsSuffice
  BY DEF Inv
<1> QED
  BY Invariance, <1>1, PTL

(* With up to 31 shards SQLEndpoints and MemEndpoints lead to the shard    *)
(* they are computed for.                                                  *)
THEOREM ClientsFindShards == Spec => []EndpointsAgree
<1>1. Inv => EndpointsAgree
  <2> SUFFICES ASSUME Inv, NEW e \in owner, e.by.shard < 31, NEW s \in Shards, s < 31
               PROVE  /\ \A t \in Targets("sql-router") : e.port = SQLEndpoint(t, s)
                           => /\ e.by = [kind |-> "sql-router", rep |-> 0, shard |-> s]
                              /\ e.target = t
                      /\ e.port = MemEndpoint(s)
                           => e.by = [kind |-> "mem", rep |-> 0, shard |-> s]
    BY DEF EndpointsAgree
  <2>1. e.by \in Containers
    BY DEF Inv, TypeOK
  <2>2. /\ e.by.rep < maxShardSize
        /\ e.target \in Targets(e.by.kind) /\ e.port = HostPort(e.by, e.target)
    BY <2>1 DEF Inv, OwnersRun
  <2>3. ASSUME NEW t \in Targets("sql-router"), e.port = SQLEndpoint(t, s)
        PROVE  /\ e.by = [kind |-> "sql-router", rep |-> 0, shard |-> s]
               /\ e.target = t
    <3> DEFINE d == [kind |-> "sql-router", rep |-> 0, shard |-> s]
    <3>1. d \in Containers /\ d.rep < maxShardSize /\ d.shard < 31 /\ t \in Targets(d.kind)
      BY IndexAssumption DEF Containers, Kinds, maxShardSize
    <3>2. HostPort(d, t) = e.port
      BY <2>3 DEF HostPort, SQLEndpoint
    <3> HIDE DEF d
    <3>3. e.by = d /\ e.target = t
      BY <2>1, <2>2, <3>1, <3>2, PortsDiffer
    <3> QED
      BY <3>3 DEF d
  <2>4. ASSUME e.port = MemEndpoint(s)
        PROVE  e.by = [kind |-> "mem", rep |-> 0, shard |-> s]
    <3> DEFINE d == [kind |-> "mem", rep |-> 0, shard |-> s]
    <3>1. /\ d \in Containers /\ d.rep < maxShardSize /\ d.shard < 31
          /\ defaultRedisPort \in Targets(d.kind)
      BY IndexAssumption DEF Containers, Kinds, maxShardSize, Targets
    <3>2. HostPort(d, defaultRedisPort) = e.port
      BY <2>4, IndexAssumption DEF HostPort, MemPort, MemEndpoint, NodePort, defaultRedisPort
    <3> HIDE DEF d
    <3>3. e.by = d
      BY <2>1, <2>2, <3>1, <3>2, PortsDiffer
    <3> QED
      BY <3>3 DEF d
  <2> QED
    BY <2>3, <2>4
<1> QED
  BY Invariance, <1>1, PTL
=============================================================================
