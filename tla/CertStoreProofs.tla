-------------------------- MODULE CertStoreProofs ---------------------------
(* Theorems about CertStore, for all sets of processes, goroutines and     *)
(* names, and any number of commands and cuts.                             *)
EXTENDS CertStore, TLAPS

(* What a step can be, but for the end of a process. *)
Act(g) ==
    \/ MakeCaCert(g) \/ CreateCert(g) \/ WriteCert(g) \/ CreateKey(g) \/ WriteKey(g)
    \/ ReadCaKey(g) \/ ReadCaCert(g) \/ ExportP12(g)
    \/ ReadCa(g) \/ EnsureCert(g) \/ ReadCert(g) \/ ReadKey(g)

(* A process ends: it is killed or a goroutine of it fails. *)
Ended(p) ==
    /\ Exit(p) /\ UNCHANGED <<files, issued, locals, runs>>
    /\ cuts' \in {cuts, cuts + 1}

(* A step starts a process, ends one or is one of a goroutine. *)
LEMMA StepCases ==
    ASSUME [Next]_vars
    PROVE  \/ UNCHANGED vars
           \/ \E p \in Processes : Start(p)
           \/ \E p \in Processes : Ended(p)
           \/ \E g \in Goroutines : Act(g)
<1>1. ASSUME NEW p \in Processes, Kill(p) PROVE Ended(p)
  BY <1>1 DEF Kill, Ended
<1>2. ASSUME NEW g \in Goroutines, Fail(g) PROVE \E p \in Processes : Ended(p)
  BY <1>2, CertAssumption DEF Fail, Ended
<1>3. ASSUME NEW g \in Goroutines, Step(g)
      PROVE  Act(g) \/ Fail(g)
  BY <1>3 DEF Step, Act, SignFails, ExportFails, ReadCaFails, ReadCertFails, ReadKeyFails
<1> QED
  BY <1>1, <1>2, <1>3 DEF Next

(* What the end of a process leaves behind. *)
LEMMA ExitLeaves ==
    ASSUME NEW p, Exit(p)
    PROVE  /\ \A g \in Goroutines : pc'[g] = IF Of[g] = p THEN "idle" ELSE pc[g]
           /\ spoilt \subseteq spoilt' /\ lost \subseteq lost'
           /\ \A g \in Goroutines : Of[g] = p /\ Writing(g) =>
                 IF Work[g] = "root" THEN own[g] \in lost' ELSE NameOf[g] \in spoilt'
  BY DEF Exit, Signers

(* The files that are written are files. *)
LEMMA FilesAreFiles ==
    /\ Absent \in File /\ Empty \in File
    /\ \A x, y \in Nat : [made |-> TRUE, of |-> x, by |-> y] \in File
    /\ ~Absent.made /\ Absent.of = 0 /\ Empty.made /\ Empty.of = 0
  BY DEF File, Absent, Empty

-----------------------------------------------------------------------------
(* Types. *)

(* A goroutine writes files of the store. *)
LEMMA OwnerInOwners ==
    /\ Authority \in Owners /\ Names \subseteq Owners /\ Authority \notin Names
    /\ \A g \in Goroutines : Owner(g) \in Owners /\ NameOf[g] \in Names
  BY CertAssumption DEF Owner, Owners

(* The types hold at first. *)
LEMMA InitTypes == Init => Typed
  BY FilesAreFiles DEF Init, Typed

(* What a process that ends leaves half made is of its goroutines. *)
LEMMA ExitLoses ==
    ASSUME NEW p, Exit(p)
    PROVE  \E S \in SUBSET Goroutines : lost' = lost \cup {own[g] : g \in S}
<1> DEFINE cut == {g \in Goroutines : Of[g] = p /\ Writing(g)} \ Signers
<1>1. lost' = lost \cup {own[g] : g \in cut}
  BY DEF Exit
<1>2. cut \in SUBSET Goroutines
  OBVIOUS
<1> HIDE DEF cut
<1> QED
  BY <1>1, <1>2

(* Every step keeps the types. *)
LEMMA NextTypes == ASSUME Typed, [Next]_vars PROVE Typed'
<1> USE FilesAreFiles, OwnerInOwners
    DEF Typed, files, locals, history, Goto, Owner
<1>1. CASE UNCHANGED vars
  BY <1>1 DEF vars
<1>2. ASSUME NEW p \in Processes, Start(p) PROVE Typed'
  BY <1>2 DEF Start, First, Idle
<1>3. ASSUME NEW p \in Processes, Ended(p) PROVE Typed'
  <2>1. UNCHANGED <<files, issued, locals>>
    BY <1>3 DEF Ended
  <2>2. pc' = [g \in Goroutines |-> IF Of[g] = p THEN "idle" ELSE pc[g]]
    BY <1>3 DEF Ended, Exit
  <2>4. spoilt' \subseteq Names
    <3>1. \A x \in spoilt' : x \in spoilt \/ \E g \in Goroutines : x = NameOf[g]
      BY <1>3 DEF Ended, Exit, Signers
    <3> QED
      BY <3>1
  <2>5. lost' \subseteq 0..issued
    <3>1. \E S \in SUBSET Goroutines : lost' = lost \cup {own[g] : g \in S}
      BY <1>3, ExitLoses DEF Ended
    <3> QED
      BY <3>1
  <2>6. pc' \in [Goroutines -> {"idle", "stat", "cakey", "cacert", "cert", "certtext", "key",
                              "keytext", "p12", "ca", "ensure", "readcert", "readkey",
                              "servecert", "servekey", "done"}]
    BY <2>2
  <2>3. runs' \in Nat /\ cuts' \in Nat
    BY <1>3 DEF Ended
  <2> QED
    BY <2>1, <2>3, <2>4, <2>5, <2>6
<1>4. ASSUME NEW g \in Goroutines, Act(g) PROVE Typed'
  <2>1. CASE MakeCaCert(g)
    BY <2>1 DEF MakeCaCert, Generate
  <2>2. CASE CreateCert(g)
    BY <2>2 DEF CreateCert
  <2>3. CASE WriteCert(g)
    BY <2>3 DEF WriteCert
  <2>4. CASE CreateKey(g)
    BY <2>4 DEF CreateKey
  <2>5. CASE WriteKey(g)
    BY <2>5 DEF WriteKey
  <2>6. CASE ReadCaKey(g)
    <3>1. key[Authority].of \in Nat
      BY DEF File
    <3> QED
      BY <2>6, <3>1 DEF ReadCaKey
  <2>7. CASE ReadCaCert(g)
    BY <2>7 DEF ReadCaCert, Generate
  <2>8. CASE ExportP12(g)
    BY <2>8 DEF ExportP12, Load
  <2>9. CASE ReadCa(g)
    BY <2>9 DEF ReadCa
  <2>10. CASE EnsureCert(g)
    BY <2>10 DEF EnsureCert, Load
  <2>11. CASE ReadCert(g)
    BY <2>11 DEF ReadCert
  <2>12. CASE ReadKey(g)
    BY <2>12 DEF ReadKey, Usable
  <2> QED
    BY <1>4, <2>1, <2>2, <2>3, <2>4, <2>5, <2>6, <2>7, <2>8, <2>9, <2>10, <2>11, <2>12 DEF Act
<1> QED
  BY <1>1, <1>2, <1>3, <1>4, StepCases

(* Key pairs are numbered as they are generated: those in the store are     *)
(* behind the count, and a leaf's behind that of the key it is signed with. *)
Numbered ==
    /\ \A n \in Owners : key[n].of <= issued
    /\ \A g \in Goroutines : signing[g] <= issued
    /\ \A g \in Goroutines : Work[g] # "root" /\ pc[g] \in {"cert", "certtext"} =>
          signing[g] < own[g]
    /\ cert[Authority].by = cert[Authority].of
    /\ \A n \in Names : Full(cert[n]) => cert[n].by # cert[n].of

(* Every step keeps the numbers. *)
LEMMA NextNumbered == ASSUME Typed, Typed', Numbered, [Next]_vars PROVE Numbered'
<1> USE FilesAreFiles, OwnerInOwners
    DEF Typed, files, locals, history, Goto, Owner, Numbered, Full
<1>0. \A n \in Owners : key[n].of \in Nat /\ cert[n].of \in Nat /\ cert[n].by \in Nat
  BY DEF File
<1>1. CASE UNCHANGED vars
  BY <1>1 DEF vars
<1>2. ASSUME NEW p \in Processes, Start(p) PROVE Numbered'
  BY <1>2 DEF Start, First, Idle
<1>3. ASSUME NEW p \in Processes, Ended(p) PROVE Numbered'
  BY <1>3, ExitLeaves DEF Ended
<1>4. ASSUME NEW g \in Goroutines, Act(g) PROVE Numbered'
  <2>1. CASE MakeCaCert(g)
    BY <1>0, <2>1 DEF MakeCaCert, Generate
  <2>2. CASE CreateCert(g)
    BY <1>0, <2>2 DEF CreateCert, Empty
  <2>3. CASE WriteCert(g)
    BY <1>0, <2>3 DEF WriteCert
  <2>4. CASE CreateKey(g)
    BY <1>0, <2>4 DEF CreateKey
  <2>5. CASE WriteKey(g)
    BY <1>0, <2>5 DEF WriteKey
  <2>6. CASE ReadCaKey(g)
    BY <1>0, <2>6 DEF ReadCaKey
  <2>7. CASE ReadCaCert(g)
    BY <1>0, <2>7 DEF ReadCaCert, Generate
  <2>8. CASE ExportP12(g)
    BY <2>8 DEF ExportP12, Load
  <2>9. CASE ReadCa(g)
    BY <2>9 DEF ReadCa
  <2>10. CASE EnsureCert(g)
    BY <2>10 DEF EnsureCert, Load
  <2>11. CASE ReadCert(g)
    BY <2>11 DEF ReadCert
  <2>12. CASE ReadKey(g)
    BY <2>12 DEF ReadKey, Usable
  <2> QED
    BY <1>4, <2>1, <2>2, <2>3, <2>4, <2>5, <2>6, <2>7, <2>8, <2>9, <2>10, <2>11, <2>12 DEF Act
<1> QED
  BY <1>1, <1>2, <1>3, <1>4, StepCases

(* Type correctness of every variable in every reachable state, and that    *)
(* Sign makes no certificate that signs itself, whoever signs meanwhile.    *)
THEOREM TypeCorrect == Spec => []TypeOK
<1>1. Init => Numbered
  BY FilesAreFiles, OwnerInOwners DEF Init, Numbered, Absent, Full
<1>2. Typed /\ Numbered => TypeOK
  BY DEF Numbered, TypeOK
<1> QED
  BY <1>1, <1>2, InitTypes, NextTypes, NextNumbered, PTL DEF Spec

-----------------------------------------------------------------------------
(* The inductive invariant. *)

(* Where the kinds of goroutines go. *)
Phases ==
    \A g \in Goroutines :
        /\ Work[g] = "root" => pc[g] \in {"idle", "stat", "cert", "certtext", "key",
                                          "keytext", "done"}
        /\ Work[g] = "sign" => pc[g] \notin {"ca", "ensure", "readcert", "readkey"}
        /\ Work[g] = "load" => pc[g] \in {"idle", "ca", "readcert", "readkey",
                                          "servecert", "servekey", "done"}
        /\ Work[g] # "load" => pc[g] \notin {"servecert", "servekey"}
        /\ Work[g] # "root" => pc[g] # "stat"
        /\ pc[g] \in {"cert", "certtext", "key", "keytext"} => own[g] # 0

(* When they have read a key and a certificate. *)
Reads ==
    \A g \in Goroutines :
        /\ gotKey[g].made => /\ pc[g] \in {"idle", "servecert", "done"}
                             /\ Work[g] \in {"tls", "load", "volume"}
        /\ pc[g] \in {"readkey", "servekey"} => got[g].made
        /\ got[g].made => \/ pc[g] \in {"idle", "done", "readkey", "servecert", "servekey"}
                          \/ Work[g] = "volume" /\ pc[g] = "ensure" /\ cert[NameOf[g]].made

(* What is full is there. *)
FullMade == \A n \in Owners : (Full(cert[n]) => cert[n].made) /\ (Full(key[n]) => key[n].made)

(* While the root is in the making nothing is signed; then its key stays. *)
RootSafe ==
    /\ \A g \in Goroutines : Work[g] = "root" =>
          /\ pc[g] \in {"cert", "certtext", "key"} => ~key[Authority].made
          /\ pc[g] = "keytext" => ~Full(key[Authority])
    /\ \A g \in Signers : pc[g] \in {"cacert", "cert", "certtext", "key", "keytext"} =>
          Full(key[Authority]) /\ signing[g] = key[Authority].of
    /\ \A g \in Goroutines : Full(got[g]) =>
          Full(key[Authority]) /\ got[g].by = key[Authority].of

Base == Typed /\ Phases /\ Reads /\ FullMade /\ RootSafe /\ LeavesVerify

(* It holds at first. *)
LEMMA InitBase == Init => Base
<1> USE OwnerInOwners, FilesAreFiles DEF Init
<1>1. Init => Phases /\ Reads
  BY DEF Phases, Reads
<1>2. Init => FullMade /\ LeavesVerify
  BY DEF FullMade, LeavesVerify, Full
<1>3. Init => RootSafe
  BY DEF RootSafe, Full, Signers
<1> QED
  BY <1>1, <1>2, <1>3, InitTypes DEF Base

(* Every step keeps the phases. *)
LEMMA NextPhases == ASSUME Typed, Phases, [Next]_vars PROVE Phases'
<1> USE FilesAreFiles, OwnerInOwners
    DEF Typed, files, locals, history, Goto, Owner, Phases
<1>1. CASE UNCHANGED vars
  BY <1>1 DEF vars
<1>2. ASSUME NEW p \in Processes, Start(p) PROVE Phases'
  BY <1>2 DEF Start, First, Idle
<1>3. ASSUME NEW p \in Processes, Ended(p) PROVE Phases'
  BY <1>3, ExitLeaves DEF Ended
<1>4. ASSUME NEW g \in Goroutines, Act(g) PROVE Phases'
  <2>1. CASE MakeCaCert(g)
    BY <2>1 DEF MakeCaCert, Generate
  <2>2. CASE CreateCert(g)
    BY <2>2 DEF CreateCert
  <2>3. CASE WriteCert(g)
    BY <2>3 DEF WriteCert
  <2>4. CASE CreateKey(g)
    BY <2>4 DEF CreateKey
  <2>5. CASE WriteKey(g)
    BY <2>5 DEF WriteKey
  <2>6. CASE ReadCaKey(g)
    BY <2>6 DEF ReadCaKey
  <2>7. CASE ReadCaCert(g)
    BY <2>7 DEF ReadCaCert, Generate
  <2>8. CASE ExportP12(g)
    BY <2>8 DEF ExportP12, Load
  <2>9. CASE ReadCa(g)
    BY <2>9 DEF ReadCa
  <2>10. CASE EnsureCert(g)
    BY <2>10 DEF EnsureCert, Load
  <2>11. CASE ReadCert(g)
    BY <2>11 DEF ReadCert
  <2>12. CASE ReadKey(g)
    BY <2>12 DEF ReadKey, Usable
  <2> QED
    BY <1>4, <2>1, <2>2, <2>3, <2>4, <2>5, <2>6, <2>7, <2>8, <2>9, <2>10, <2>11, <2>12 DEF Act
<1> QED
  BY <1>1, <1>2, <1>3, <1>4, StepCases

(* Every step keeps what was read when. *)
LEMMA NextReads == ASSUME Typed, Phases, Reads, [Next]_vars PROVE Reads'
<1> USE FilesAreFiles, OwnerInOwners, CertAssumption
    DEF Typed, files, locals, history, Goto, Owner, Phases, Reads
<1>1. CASE UNCHANGED vars
  BY <1>1 DEF vars
<1>2. ASSUME NEW p \in Processes, Start(p) PROVE Reads'
  BY <1>2 DEF Start, First, Idle
<1>3. ASSUME NEW p \in Processes, Ended(p) PROVE Reads'
  BY <1>3, ExitLeaves DEF Ended
<1>4. ASSUME NEW g \in Goroutines, Act(g) PROVE Reads'
  <2>1. CASE MakeCaCert(g)
    <3>1. /\ pc[g] = "stat" /\ pc'[g] \in {"cert", "done"} /\ Work[g] = "root"
          /\ \A h \in Goroutines : h # g => pc'[h] = pc[h] /\ own'[h] = own[h]
      BY <2>1 DEF MakeCaCert, Generate
    <3>2. UNCHANGED <<files, ca, signing, got, gotKey, history>>
      BY <2>1 DEF MakeCaCert
    <3> QED
      BY <3>1, <3>2
  <2>2. CASE CreateCert(g)
    BY <2>2 DEF CreateCert
  <2>3. CASE WriteCert(g)
    BY <2>3 DEF WriteCert
  <2>4. CASE CreateKey(g)
    BY <2>4 DEF CreateKey
  <2>5. CASE WriteKey(g)
    BY <2>5 DEF WriteKey
  <2>6. CASE ReadCaKey(g)
    BY <2>6 DEF ReadCaKey
  <2>7. CASE ReadCaCert(g)
    BY <2>7 DEF ReadCaCert, Generate
  <2>8. CASE ExportP12(g)
    BY <2>8 DEF ExportP12, Load
  <2>9. CASE ReadCa(g)
    BY <2>9 DEF ReadCa
  <2>10. CASE EnsureCert(g)
    BY <2>10 DEF EnsureCert, Load
  <2>11. CASE ReadCert(g)
    BY <2>11 DEF ReadCert
  <2>12. CASE ReadKey(g)
    BY <2>12 DEF ReadKey, Usable
  <2> QED
    BY <1>4, <2>1, <2>2, <2>3, <2>4, <2>5, <2>6, <2>7, <2>8, <2>9, <2>10, <2>11, <2>12 DEF Act
<1> QED
  BY <1>1, <1>2, <1>3, <1>4, StepCases

(* A file that is full is there after every step. *)
LEMMA NextFullMade == ASSUME Typed, FullMade, [Next]_vars PROVE FullMade'
<1> USE FilesAreFiles, OwnerInOwners
    DEF Typed, files, locals, history, Goto, Owner, FullMade, Full
<1>1. CASE UNCHANGED vars
  BY <1>1 DEF vars
<1>2. ASSUME NEW p \in Processes, Start(p) PROVE FullMade'
  BY <1>2 DEF Start, First, Idle
<1>3. ASSUME NEW p \in Processes, Ended(p) PROVE FullMade'
  BY <1>3, ExitLeaves DEF Ended
<1>4. ASSUME NEW g \in Goroutines, Act(g) PROVE FullMade'
  <2>1. CASE MakeCaCert(g)
    BY <2>1 DEF MakeCaCert, Generate
  <2>2. CASE CreateCert(g)
    BY <2>2 DEF CreateCert
  <2>3. CASE WriteCert(g)
    BY <2>3 DEF WriteCert
  <2>4. CASE CreateKey(g)
    BY <2>4 DEF CreateKey
  <2>5. CASE WriteKey(g)
    BY <2>5 DEF WriteKey
  <2>6. CASE ReadCaKey(g)
    BY <2>6 DEF ReadCaKey
  <2>7. CASE ReadCaCert(g)
    BY <2>7 DEF ReadCaCert, Generate
  <2>8. CASE ExportP12(g)
    BY <2>8 DEF ExportP12, Load
  <2>9. CASE ReadCa(g)
    BY <2>9 DEF ReadCa
  <2>10. CASE EnsureCert(g)
    BY <2>10 DEF EnsureCert, Load
  <2>11. CASE ReadCert(g)
    BY <2>11 DEF ReadCert
  <2>12. CASE ReadKey(g)
    BY <2>12 DEF ReadKey, Usable
  <2> QED
    BY <1>4, <2>1, <2>2, <2>3, <2>4, <2>5, <2>6, <2>7, <2>8, <2>9, <2>10, <2>11, <2>12 DEF Act
<1> QED
  BY <1>1, <1>2, <1>3, <1>4, StepCases

(* The key of the root is written once, before the first leaf is signed. *)
LEMMA NextRootSafe ==
    ASSUME Base, [Next]_vars
    PROVE  RootSafe' /\ LeavesVerify'
<1> USE FilesAreFiles, OwnerInOwners, CertAssumption
    DEF Typed, files, locals, history, Goto, Owner,
        Base, Phases, FullMade, RootSafe, LeavesVerify, Full, Signers
<1>1. CASE UNCHANGED vars
  BY <1>1 DEF vars
<1>2. ASSUME NEW p \in Processes, Start(p) PROVE RootSafe' /\ LeavesVerify'
  BY <1>2 DEF Start, First, Idle
<1>3. ASSUME NEW p \in Processes, Ended(p) PROVE RootSafe' /\ LeavesVerify'
  BY <1>3, ExitLeaves DEF Ended
<1>4. ASSUME NEW g \in Goroutines, Act(g) PROVE RootSafe' /\ LeavesVerify'
  <2>1. CASE MakeCaCert(g)
    BY <2>1 DEF MakeCaCert, Generate
  <2>2. CASE CreateCert(g)
    BY <2>2 DEF CreateCert
  <2>3. CASE WriteCert(g)
    BY <2>3 DEF WriteCert
  <2>4. CASE CreateKey(g)
    BY <2>4 DEF CreateKey
  <2>5. CASE WriteKey(g)
    BY <2>5 DEF WriteKey
  <2>6. CASE ReadCaKey(g)
    BY <2>6 DEF ReadCaKey
  <2>7. CASE ReadCaCert(g)
    BY <2>7 DEF ReadCaCert, Generate
  <2>8. CASE ExportP12(g)
    BY <2>8 DEF ExportP12, Load
  <2>9. CASE ReadCa(g)
    BY <2>9 DEF ReadCa
  <2>10. CASE EnsureCert(g)
    BY <2>10 DEF EnsureCert, Load
  <2>11. CASE ReadCert(g)
    BY <2>11 DEF ReadCert
  <2>12. CASE ReadKey(g)
    BY <2>12 DEF ReadKey, Usable
  <2> QED
    BY <1>4, <2>1, <2>2, <2>3, <2>4, <2>5, <2>6, <2>7, <2>8, <2>9, <2>10, <2>11, <2>12 DEF Act
<1> QED
  BY <1>1, <1>2, <1>3, <1>4, StepCases

(* Base holds in every reachable state. *)
LEMMA NextBase == ASSUME Base, [Next]_vars PROVE Base'
  BY NextTypes, NextPhases, NextReads, NextFullMade, NextRootSafe DEF Base

(* Every leaf in the store is signed by the root that is there. *)
THEOREM LeavesAlwaysVerify == Spec => []LeavesVerify
<1>1. Base => LeavesVerify
  BY DEF Base
<1> QED
  BY <1>1, InitBase, NextBase, PTL DEF Spec

-----------------------------------------------------------------------------
(* Pairs. *)

(* Who writes a name that is not spoilt is alone, and its key is to follow *)
(* its certificate.                                                        *)
Alone ==
    /\ \A g, h \in Signers :
          Writing(g) /\ Writing(h) /\ NameOf[g] = NameOf[h] /\ NameOf[g] \notin spoilt => g = h
    /\ \A g \in Signers : pc[g] \in {"key", "keytext"} /\ NameOf[g] \notin spoilt =>
          cert[NameOf[g]].of = own[g]
    /\ \A n \in Names : cert[n].made /\ n \notin spoilt =>
          Pair(cert[n], key[n]) \/ \E g \in Signers : Writing(g) /\ NameOf[g] = n

(* The writers of a name are signers. *)
LEMMA WritersSign ==
    \A n \in Names : WritersOf(n) = {g \in Signers : Writing(g) /\ NameOf[g] = n}
  BY OwnerInOwners DEF WritersOf, Owner, Signers

(* Every step keeps the pairs of names that are not spoilt. *)
LEMMA NextAlone == ASSUME Base, Alone, [Next]_vars PROVE Alone'
<1> USE OwnerInOwners, WritersSign, FilesAreFiles
    DEF Typed, files, locals, history, Goto, Owner,
        Base, Phases, Alone, Writing, Pair, Full, Signers
<1>1. CASE UNCHANGED vars
  BY <1>1 DEF vars
<1>2. ASSUME NEW p \in Processes, Start(p) PROVE Alone'
  BY <1>2 DEF Start, First, Idle
<1>3. ASSUME NEW p \in Processes, Ended(p) PROVE Alone'
  BY <1>3, ExitLeaves DEF Ended
<1>4. ASSUME NEW g \in Goroutines, Act(g) PROVE Alone'
  <2>1. CASE MakeCaCert(g)
    <3>1. /\ pc[g] = "stat" /\ pc'[g] \in {"cert", "done"} /\ Work[g] = "root"
          /\ \A h \in Goroutines : h # g => pc'[h] = pc[h] /\ own'[h] = own[h]
      BY <2>1 DEF MakeCaCert, Generate
    <3>2. UNCHANGED <<files, ca, signing, got, gotKey, history>>
      BY <2>1 DEF MakeCaCert
    <3>3. \A h \in Signers : h # g /\ pc'[h] = pc[h] /\ own'[h] = own[h]
      BY <3>1
    <3> QED
      BY <3>2, <3>3
  <2>2. CASE CreateCert(g)
    <3>1. /\ pc[g] = "cert" /\ pc'[g] = "certtext"
          /\ \A h \in Goroutines : h # g => pc'[h] = pc[h]
          /\ UNCHANGED <<key, own>>
      BY <2>2 DEF CreateCert
    <3>2. CASE Work[g] = "root"
      <4>1. spoilt' = spoilt /\ \A n \in Names : cert'[n] = cert[n]
        BY <2>2, <3>2 DEF CreateCert
      <4> QED
        BY <3>1, <3>2, <4>1
    <3>3. CASE Work[g] # "root"
      <4>1. \A n \in Names : n # NameOf[g] => cert'[n] = cert[n] /\ (n \in spoilt' <=> n \in spoilt)
        BY <2>2, <3>3 DEF CreateCert
      <4>2. NameOf[g] \notin spoilt' => WritersOf(NameOf[g]) = {}
        BY <2>2, <3>3 DEF CreateCert
      <4>3. NameOf[g] \notin spoilt' =>
                \A h \in Signers : h # g /\ NameOf[h] = NameOf[g] => ~Writing(h) /\ ~Writing(h)'
        BY <3>1, <4>2
      <4> QED
        BY <3>1, <3>3, <4>1, <4>3
    <3> QED
      BY <3>2, <3>3
  <2>3. CASE WriteCert(g)
    BY <2>3 DEF WriteCert
  <2>4. CASE CreateKey(g)
    BY <2>4 DEF CreateKey
  <2>5. CASE WriteKey(g)
    BY <2>5 DEF WriteKey
  <2>6. CASE ReadCaKey(g)
    BY <2>6 DEF ReadCaKey
  <2>7. CASE ReadCaCert(g)
    BY <2>7 DEF ReadCaCert, Generate
  <2>8. CASE ExportP12(g)
    BY <2>8 DEF ExportP12, Load
  <2>9. CASE ReadCa(g)
    BY <2>9 DEF ReadCa
  <2>10. CASE EnsureCert(g)
    BY <2>10 DEF EnsureCert, Load
  <2>11. CASE ReadCert(g)
    BY <2>11 DEF ReadCert
  <2>12. CASE ReadKey(g)
    BY <2>12 DEF ReadKey, Usable
  <2> QED
    BY <1>4, <2>1, <2>2, <2>3, <2>4, <2>5, <2>6, <2>7, <2>8, <2>9, <2>10, <2>11, <2>12 DEF Act
<1> QED
  BY <1>1, <1>2, <1>3, <1>4, StepCases

(* A root that was read is the one of the key, in the making, or lost. *)
Known(x) ==
    \/ x = 0 \/ x \in lost \/ x = key[Authority].of
    \/ \E r \in Goroutines : Work[r] = "root" /\ pc[r] \in {"key", "keytext"} /\ own[r] = x

Roots ==
    /\ Known(cert[Authority].of)
    /\ \A g \in Goroutines : Known(ca[g].of)
    /\ \A g \in Goroutines : Work[g] \in {"tls", "load"} =>
          (pc[g] \in {"idle", "ca"} /\ ~gotKey[g].made) \/ Full(ca[g])

(* Every step keeps what is known of the roots. *)
LEMMA NextRoots == ASSUME Base, Roots, [Next]_vars PROVE Roots'
<1> USE OwnerInOwners, FilesAreFiles, CertAssumption
    DEF Typed, files, locals, history, Goto, Owner,
        Base, Phases, Reads, RootSafe, Roots, Known, Full, Writing
<1>1. CASE UNCHANGED vars
  BY <1>1 DEF vars
<1>2. ASSUME NEW p \in Processes, Start(p) PROVE Roots'
  BY <1>2 DEF Start, First, Idle
<1>3. ASSUME NEW p \in Processes, Ended(p) PROVE Roots'
  <2>1. ASSUME NEW x, Known(x) PROVE Known(x)'
    <3>1. CASE \E r \in Goroutines : Work[r] = "root" /\ pc[r] \in {"key", "keytext"} /\ own[r] = x
      BY <1>3, <3>1, ExitLeaves DEF Ended
    <3>2. CASE x = 0 \/ x \in lost \/ x = key[Authority].of
      BY <1>3, <3>2, ExitLeaves DEF Ended
    <3> QED
      BY <2>1, <3>1, <3>2
  <2>2. /\ UNCHANGED <<cert, ca, gotKey>>
        /\ \A h \in Goroutines : pc'[h] \in {pc[h], "idle"}
    BY <1>3, ExitLeaves DEF Ended
  <2> HIDE DEF Known
  <2> QED
    BY <2>1, <2>2
<1>4. ASSUME NEW g \in Goroutines, Act(g) PROVE Roots'
  <2>1. CASE MakeCaCert(g)
    <3>1. /\ pc[g] = "stat" /\ pc'[g] \in {"cert", "done"} /\ Work[g] = "root"
          /\ \A h \in Goroutines : h # g => pc'[h] = pc[h] /\ own'[h] = own[h]
      BY <2>1 DEF MakeCaCert, Generate
    <3>2. UNCHANGED <<files, ca, signing, got, gotKey, history>>
      BY <2>1 DEF MakeCaCert
    <3> QED
      BY <3>1, <3>2
  <2>2. CASE CreateCert(g)
    BY <2>2 DEF CreateCert
  <2>3. CASE WriteCert(g)
    BY <2>3 DEF WriteCert
  <2>4. CASE CreateKey(g)
    <3>1. key[Authority].of = 0 \/ key'[Authority] = key[Authority]
      <4>1. CASE Work[g] = "root"
        BY <2>4, <4>1 DEF CreateKey, FullMade
      <4>2. CASE Work[g] # "root"
        BY <2>4, <4>2 DEF CreateKey
      <4> QED
        BY <4>1, <4>2
    <3>2. ASSUME NEW x, Known(x) PROVE Known(x)'
      BY <2>4, <3>1, <3>2 DEF CreateKey
    <3>3. UNCHANGED <<cert, ca, gotKey>> /\ \A h \in Goroutines : pc[h] = "idle" => pc'[h] = "idle"
      BY <2>4 DEF CreateKey
    <3> HIDE DEF Known
    <3> QED
      BY <2>4, <3>2, <3>3 DEF CreateKey
  <2>5. CASE WriteKey(g)
    BY <2>5 DEF WriteKey
  <2>6. CASE ReadCaKey(g)
    BY <2>6 DEF ReadCaKey
  <2>7. CASE ReadCaCert(g)
    <3>1. Work[g] # "root"
      BY <2>7 DEF ReadCaCert
    <3>2. ASSUME NEW x, Known(x) PROVE Known(x)'
      BY <2>7, <3>1, <3>2 DEF ReadCaCert, Generate
    <3>3. UNCHANGED <<cert, ca, gotKey>> /\ \A h \in Goroutines : pc[h] = "idle" => pc'[h] = "idle"
      BY <2>7 DEF ReadCaCert
    <3>4. \A h \in Goroutines : h # g => pc'[h] = pc[h]
      BY <2>7 DEF ReadCaCert
    <3>5. pc[g] = "cacert"
      BY <2>7 DEF ReadCaCert
    <3> HIDE DEF Known
    <3> QED
      BY <3>1, <3>2, <3>3, <3>4, <3>5
  <2>8. CASE ExportP12(g)
    BY <2>8 DEF ExportP12, Load
  <2>9. CASE ReadCa(g)
    BY <2>9 DEF ReadCa
  <2>10. CASE EnsureCert(g)
    BY <2>10 DEF EnsureCert, Load
  <2>11. CASE ReadCert(g)
    BY <2>11 DEF ReadCert
  <2>12. CASE ReadKey(g)
    BY <2>12 DEF ReadKey, Usable
  <2> QED
    BY <1>4, <2>1, <2>2, <2>3, <2>4, <2>5, <2>6, <2>7, <2>8, <2>9, <2>10, <2>11, <2>12 DEF Act
<1> QED
  BY <1>1, <1>2, <1>3, <1>4, StepCases

(* What a goroutine read of its leaf is a pair. *)
Leaves ==
    \A g \in Goroutines :
        /\ gotKey[g].made /\ Work[g] # "volume" => Pair(got[g], gotKey[g])
        /\ Work[g] = "volume" /\ Private(NameOf[g]) /\ NameOf[g] \notin spoilt =>
              /\ gotKey[g].made => Pair(got[g], gotKey[g])
              /\ got[g].made /\ pc[g] \notin {"idle", "done"} => got[g] = cert[NameOf[g]]

(* Every step keeps the pairs that were read. *)
LEMMA NextLeaves == ASSUME Base, Alone, Leaves, [Next]_vars PROVE Leaves'
<1> USE OwnerInOwners, FilesAreFiles, WritersSign
    DEF Typed, files, locals, history, Goto, Owner,
        Base, Phases, Reads, Alone, Leaves, Pair, Full, Writing, Private, Signers
<1>1. CASE UNCHANGED vars
  BY <1>1 DEF vars
<1>2. ASSUME NEW p \in Processes, Start(p) PROVE Leaves'
  BY <1>2 DEF Start, First, Idle
<1>3. ASSUME NEW p \in Processes, Ended(p) PROVE Leaves'
  BY <1>3, ExitLeaves DEF Ended
<1>4. ASSUME NEW g \in Goroutines, Act(g) PROVE Leaves'
  <2>1. CASE MakeCaCert(g)
    BY <2>1 DEF MakeCaCert, Generate
  <2>2. CASE CreateCert(g)
    BY <2>2 DEF CreateCert
  <2>3. CASE WriteCert(g)
    BY <2>3 DEF WriteCert
  <2>4. CASE CreateKey(g)
    BY <2>4 DEF CreateKey
  <2>5. CASE WriteKey(g)
    BY <2>5 DEF WriteKey
  <2>6. CASE ReadCaKey(g)
    BY <2>6 DEF ReadCaKey
  <2>7. CASE ReadCaCert(g)
    BY <2>7 DEF ReadCaCert, Generate
  <2>8. CASE ExportP12(g)
    BY <2>8 DEF ExportP12, Load
  <2>9. CASE ReadCa(g)
    BY <2>9 DEF ReadCa
  <2>10. CASE EnsureCert(g)
    BY <2>10 DEF EnsureCert, Load
  <2>11. CASE ReadCert(g)
    BY <2>11 DEF ReadCert
  <2>12. CASE ReadKey(g)
    <3>1. Usable(g) /\ pc[g] \in {"readkey", "servekey"} /\ gotKey' = [gotKey EXCEPT ![g] = key[NameOf[g]]]
      BY <2>12 DEF ReadKey
    <3>2. ASSUME Work[g] = "volume", Private(NameOf[g]), NameOf[g] \notin spoilt
          PROVE  Pair(got[g], key[NameOf[g]])
      <4>1. \A h \in Signers : NameOf[h] = NameOf[g] => h = g
        BY <3>2
      <4>2. got[g] = cert[NameOf[g]] /\ got[g].made
        BY <3>1, <3>2
      <4>3. ~\E h \in Signers : Writing(h) /\ NameOf[h] = NameOf[g]
        BY <3>1, <4>1
      <4>4. Pair(cert[NameOf[g]], key[NameOf[g]])
        BY <3>2, <4>2, <4>3
      <4> QED
        BY <4>2, <4>4
    <3>3. Work[g] # "volume" => Pair(got[g], key[NameOf[g]])
      BY <3>1 DEF Usable
    <3>4. UNCHANGED <<cert, key, got, spoilt>>
      BY <2>12 DEF ReadKey
    <3>5. \A h \in Goroutines : h # g => pc'[h] = pc[h] /\ gotKey'[h] = gotKey[h]
      BY <2>12 DEF ReadKey
    <3>6. gotKey'[g] = key[NameOf[g]] /\ pc'[g] \in {"servecert", "done"}
          /\ (Work[g] = "volume" => pc'[g] = "done")
      BY <2>12 DEF ReadKey
    <3> HIDE DEF Pair
    <3> QED
      BY <3>2, <3>3, <3>4, <3>5, <3>6
  <2> QED
    BY <1>4, <2>1, <2>2, <2>3, <2>4, <2>5, <2>6, <2>7, <2>8, <2>9, <2>10, <2>11, <2>12 DEF Act
<1> QED
  BY <1>1, <1>2, <1>3, <1>4, StepCases

-----------------------------------------------------------------------------
(* The properties. *)

Inductive == Base /\ Alone /\ Roots /\ Leaves

(* The invariant holds at first. *)
LEMMA InitInductive == Init => Inductive
<1> USE OwnerInOwners, FilesAreFiles DEF Init
<1>1. Init => Alone
  BY DEF Alone, Writing, Signers
<1>2. Init => Roots
  BY DEF Roots, Known
<1>3. Init => Leaves
  BY DEF Leaves
<1> QED
  BY <1>1, <1>2, <1>3, InitBase DEF Inductive

(* It holds in every reachable state. *)
THEOREM Invariant == Spec => []Inductive
<1>1. Inductive /\ [Next]_vars => Inductive'
  BY NextBase, NextAlone, NextRoots, NextLeaves DEF Inductive
<1> QED
  BY <1>1, InitInductive, PTL DEF Spec

(* The certificate and the key of a name are of one pair. *)
THEOREM PairsAlwaysMatch == Spec => []PairsMatch
<1>1. Inductive => PairsMatch
  BY WritersSign DEF Inductive, Alone, PairsMatch
<1> QED
  BY <1>1, Invariant, PTL

(* A root that was read is the one that signed a certificate that was read. *)
LEMMA RootsRead ==
    ASSUME Inductive, NEW g \in Goroutines, Full(got[g])
    PROVE  ca[g].of \in {got[g].by, 0} \cup lost
<1>1. Full(key[Authority]) /\ got[g].by = key[Authority].of
  BY DEF Inductive, Base, RootSafe
<1>2. ~\E r \in Goroutines : Work[r] = "root" /\ pc[r] \in {"key", "keytext"}
  BY <1>1 DEF Inductive, Base, RootSafe, FullMade, Owners
<1> QED
  BY <1>1, <1>2 DEF Inductive, Roots, Known

(* What TLSConfig and the API server load is a pair that verifies. *)
THEOREM TrustedPairs == Spec => []TrustedPair
<1>1. ASSUME Inductive, NEW g \in Goroutines, gotKey[g].made, Work[g] # "volume"
      PROVE  Pair(got[g], gotKey[g]) /\ ca[g].of \in {got[g].by} \cup lost
  <2>1. Pair(got[g], gotKey[g])
    BY <1>1 DEF Inductive, Leaves
  <2>2. Full(ca[g])
    BY <1>1 DEF Inductive, Base, Reads, Roots
  <2> QED
    BY <1>1, <2>1, <2>2, RootsRead DEF Pair, Full
<1>2. Inductive => TrustedPair
  BY <1>1 DEF TrustedPair
<1> QED
  BY <1>2, Invariant, PTL

(* What a volume gives its container is a pair that verifies. *)
THEOREM DeliveredPairs == Spec => []DeliveredPair
<1>1. ASSUME Inductive, NEW g \in Goroutines, gotKey[g].made, Work[g] = "volume",
             Private(NameOf[g]), NameOf[g] \notin spoilt
      PROVE  Pair(got[g], gotKey[g]) /\ ca[g].of \in {got[g].by, 0} \cup lost
  <2>1. Pair(got[g], gotKey[g])
    BY <1>1 DEF Inductive, Leaves
  <2> QED
    BY <1>1, <2>1, RootsRead DEF Pair
<1>2. Inductive => DeliveredPair
  BY <1>1 DEF DeliveredPair
<1> QED
  BY <1>2, Invariant, PTL

RootCut == key[Authority] = Empty /\ \A g \in Goroutines \ Signers : ~Writing(g)

(* "cert root" does not make a root again that was cut at its key: nothing *)
(* is signed any more until somebody removes the file (cert.go:129).       *)
CutRootStays == [][RootCut => RootCut' /\ issued' = issued]_vars

(* Once the key of a root is there and empty no key is ever made. *)
LEMMA NextRootCut ==
    ASSUME Base, RootCut, [Next]_vars
    PROVE  RootCut' /\ issued' = issued
<1> USE OwnerInOwners, CertAssumption, FilesAreFiles
    DEF Typed, files, locals, history, Goto, Owner,
        Base, Phases, RootSafe, RootCut, Writing, Full, Signers
<1>1. CASE UNCHANGED vars
  BY <1>1 DEF vars
<1>2. ASSUME NEW p \in Processes, Start(p) PROVE RootCut' /\ issued' = issued
  BY <1>2 DEF Start, First, Idle
<1>3. ASSUME NEW p \in Processes, Ended(p) PROVE RootCut' /\ issued' = issued
  BY <1>3, ExitLeaves DEF Ended
<1>4. ASSUME NEW g \in Goroutines, Act(g) PROVE RootCut' /\ issued' = issued
  <2>1. CASE MakeCaCert(g)
    BY <2>1 DEF MakeCaCert, Generate
  <2>2. CASE CreateCert(g)
    BY <2>2 DEF CreateCert
  <2>3. CASE WriteCert(g)
    BY <2>3 DEF WriteCert
  <2>4. CASE CreateKey(g)
    BY <2>4 DEF CreateKey
  <2>5. CASE WriteKey(g)
    BY <2>5 DEF WriteKey
  <2>6. CASE ReadCaKey(g)
    BY <2>6 DEF ReadCaKey
  <2>7. CASE ReadCaCert(g)
    BY <2>7 DEF ReadCaCert, Generate
  <2>8. CASE ExportP12(g)
    BY <2>8 DEF ExportP12, Load
  <2>9. CASE ReadCa(g)
    BY <2>9 DEF ReadCa
  <2>10. CASE EnsureCert(g)
    BY <2>10 DEF EnsureCert, Load
  <2>11. CASE ReadCert(g)
    BY <2>11 DEF ReadCert
  <2>12. CASE ReadKey(g)
    BY <2>12 DEF ReadKey, Usable
  <2> QED
    BY <1>4, <2>1, <2>2, <2>3, <2>4, <2>5, <2>6, <2>7, <2>8, <2>9, <2>10, <2>11, <2>12 DEF Act
<1> QED
  BY <1>1, <1>2, <1>3, <1>4, StepCases

(* A root cut at its key is not made again, and nothing is signed. *)
THEOREM CutRootForGood == Spec => CutRootStays
<1>1. Base /\ [Next]_vars => [RootCut => RootCut' /\ issued' = issued]_vars
  BY NextRootCut
<1> QED
  BY <1>1, InitBase, NextBase, PTL DEF Spec, CutRootStays

(* Nobody signs a name whose certificate is there, but "cert sign". *)
LEMMA NextBroken ==
    ASSUME Base, [Next]_vars, NEW n \in Names, Broken(n),
           \A g \in Signers : NameOf[g] = n => Work[g] # "sign"
    PROVE  Broken(n)'
<1> USE OwnerInOwners, CertAssumption
    DEF Typed, files, locals, history, Goto, Owner,
        Base, Phases, Broken, Signing, Signers
<1>1. CASE UNCHANGED vars
  BY <1>1 DEF vars
<1>2. ASSUME NEW p \in Processes, Start(p) PROVE Broken(n)'
  BY <1>2 DEF Start, First, Idle
<1>3. ASSUME NEW p \in Processes, Ended(p) PROVE Broken(n)'
  BY <1>3, ExitLeaves DEF Ended
<1>4. ASSUME NEW g \in Goroutines, Act(g) PROVE Broken(n)'
  <2>1. CASE MakeCaCert(g)
    BY <2>1 DEF MakeCaCert, Generate
  <2>2. CASE CreateCert(g)
    BY <2>2 DEF CreateCert
  <2>3. CASE WriteCert(g)
    BY <2>3 DEF WriteCert
  <2>4. CASE CreateKey(g)
    BY <2>4 DEF CreateKey
  <2>5. CASE WriteKey(g)
    BY <2>5 DEF WriteKey
  <2>6. CASE ReadCaKey(g)
    BY <2>6 DEF ReadCaKey
  <2>7. CASE ReadCaCert(g)
    BY <2>7 DEF ReadCaCert, Generate
  <2>8. CASE ExportP12(g)
    BY <2>8 DEF ExportP12, Load
  <2>9. CASE ReadCa(g)
    BY <2>9 DEF ReadCa
  <2>10. CASE EnsureCert(g)
    BY <2>10 DEF EnsureCert, Load
  <2>11. CASE ReadCert(g)
    BY <2>11 DEF ReadCert
  <2>12. CASE ReadKey(g)
    BY <2>12 DEF ReadKey, Usable
  <2> QED
    BY <1>4, <2>1, <2>2, <2>3, <2>4, <2>5, <2>6, <2>7, <2>8, <2>9, <2>10, <2>11, <2>12 DEF Act
<1> QED
  BY <1>1, <1>2, <1>3, <1>4, StepCases

(* A pair that was cut stays so through every command that needs it. *)
THEOREM HalfSignedForGood == Spec => HalfSignedStays
<1>1. Base /\ [Next]_vars =>
          [\A n \in Names :
              Broken(n) /\ (\A g \in Signers : NameOf[g] = n => Work[g] # "sign") => Broken(n)']_vars
  BY NextBroken
<1> QED
  BY <1>1, InitBase, NextBase, PTL DEF Spec, HalfSignedStays

=============================================================================
