----------------------------- MODULE CertStore ------------------------------
(***************************************************************************)
(* The certificate store of cert/cert.go: files under ~/.config/zygote     *)
(* that every zygote process of the user reads and writes, with neither a  *)
(* lock nor a rename.  "cert root" makes the authority, Sign makes a leaf, *)
(* ensureCert signs the leaf of a name on first use.  A failure ends the   *)
(* process with all its goroutines, among them the nine of init.           *)
(***************************************************************************)
EXTENDS Integers, FiniteSets

CONSTANTS Processes, Goroutines,
          Of,         \* the process of a goroutine
          Work,       \* what it does: root, sign, tls, load or volume
          Authority,  \* the pair of the root
          Names,      \* names of leaf certificates
          NameOf,     \* the name a goroutine works on
          MaxRuns,    \* bound: processes started
          MaxCuts     \* bound: processes killed

Signers == {g \in Goroutines : Work[g] # "root"}
Private(n) == \A g, h \in Signers : NameOf[g] = n /\ NameOf[h] = n => g = h

(* One process at a time makes the root: the user who types "cert root". *)
ASSUME CertAssumption ==
    /\ Of \in [Goroutines -> Processes]
    /\ Work \in [Goroutines -> {"root", "sign", "tls", "load", "volume"}]
    /\ Authority \notin Names
    /\ NameOf \in [Goroutines -> Names]
    /\ \A g, h \in Goroutines : Work[g] = "root" /\ Work[h] = "root" => g = h
    /\ MaxRuns \in Nat /\ MaxCuts \in Nat

VARIABLES
    cert, key,  \* the files, by name
    issued,     \* number of key pairs generated
    pc,         \* where a goroutine stands
    own,        \* the key pair it generated
    ca,         \* what it read of the authority's certificate
    signing,    \* the authority's key it signs with
    got,        \* the certificate it read
    gotKey,     \* and the key
    spoilt,     \* history: names whose last signer was cut, or was not alone
    lost,       \* history: roots whose command was cut
    runs, cuts

files   == <<cert, key>>
locals  == <<own, ca, signing, got, gotKey>>
history == <<spoilt, lost>>
vars    == <<files, issued, pc, locals, history, runs, cuts>>

Owners  == Names \cup {Authority}
Owner(g) == IF Work[g] = "root" THEN Authority ELSE NameOf[g]

(* A file is absent, empty, a key, or a certificate of a key, by a root. *)
File    == [made : BOOLEAN, of : Nat, by : Nat]
Absent  == [made |-> FALSE, of |-> 0, by |-> 0]
Empty   == [made |-> TRUE, of |-> 0, by |-> 0]
Full(f) == f.of # 0
Pair(c, k) == Full(c) /\ c.of = k.of

Init ==
    /\ cert = [n \in Owners |-> Absent] /\ key = [n \in Owners |-> Absent]
    /\ issued = 0
    /\ pc = [g \in Goroutines |-> "idle"]
    /\ own = [g \in Goroutines |-> 0]
    /\ ca = [g \in Goroutines |-> Absent]
    /\ signing = [g \in Goroutines |-> 0]
    /\ got = [g \in Goroutines |-> Absent]
    /\ gotKey = [g \in Goroutines |-> Absent]
    /\ spoilt = {} /\ lost = {}
    /\ runs = 0 /\ cuts = 0

Idle(g)    == pc[g] \in {"idle", "done"}
Writing(g) == pc[g] \in {"certtext", "key", "keytext"}
Signing(g) == Work[g] # "root" /\ pc[g] \in {"cakey", "cacert", "cert", "certtext", "key", "keytext", "p12"}
WritersOf(n) == {g \in Goroutines : Writing(g) /\ Owner(g) = n}

Goto(g, p) == pc' = [pc EXCEPT ![g] = p]

First(g) == CASE Work[g] = "root" -> "stat"
              [] Work[g] = "sign" -> "cakey"
              [] OTHER -> "ca"

Start(p) ==
    /\ runs < MaxRuns
    /\ \A g \in Goroutines : Of[g] = p => Idle(g)
    /\ pc' = [g \in Goroutines |-> IF Of[g] = p THEN First(g) ELSE pc[g]]
    /\ own' = [g \in Goroutines |-> IF Of[g] = p THEN 0 ELSE own[g]]
    /\ ca' = [g \in Goroutines |-> IF Of[g] = p THEN Absent ELSE ca[g]]
    /\ signing' = [g \in Goroutines |-> IF Of[g] = p THEN 0 ELSE signing[g]]
    /\ got' = [g \in Goroutines |-> IF Of[g] = p THEN Absent ELSE got[g]]
    /\ gotKey' = [g \in Goroutines |-> IF Of[g] = p THEN Absent ELSE gotKey[g]]
    /\ runs' = runs + 1
    /\ UNCHANGED <<files, issued, history, cuts>>

(* The process is gone, with whatever its goroutines were in the middle of. *)
Exit(p) ==
    LET cut == {g \in Goroutines : Of[g] = p /\ Writing(g)}
    IN  /\ pc' = [g \in Goroutines |-> IF Of[g] = p THEN "idle" ELSE pc[g]]
        /\ spoilt' = spoilt \cup {NameOf[g] : g \in cut \cap Signers}
        /\ lost' = lost \cup {own[g] : g \in cut \ Signers}

Kill(p) ==
    /\ cuts < MaxCuts
    /\ cuts' = cuts + 1
    /\ \E g \in Goroutines : Of[g] = p /\ ~Idle(g)
    /\ Exit(p)
    /\ UNCHANGED <<files, issued, locals, runs>>

(* An error that reaches FatalIfErr or the user, a panic. *)
Fail(g) ==
    /\ Exit(Of[g])
    /\ UNCHANGED <<files, issued, locals, runs, cuts>>

-----------------------------------------------------------------------------
(* Making a pair: os.Create empties a file, or makes it, and Encode fills   *)
(* it; the certificate first, the key after it.                             *)

Generate(g) ==
    /\ issued' = issued + 1
    /\ own' = [own EXCEPT ![g] = issued']

CreateCert(g) ==
    /\ pc[g] = "cert"
    /\ cert' = [cert EXCEPT ![Owner(g)] = Empty]
    /\ spoilt' = IF Work[g] = "root" THEN spoilt
                 ELSE IF WritersOf(NameOf[g]) = {} THEN spoilt \ {NameOf[g]}
                 ELSE spoilt \cup {NameOf[g]}
    /\ Goto(g, "certtext")
    /\ UNCHANGED <<key, issued, locals, lost, runs, cuts>>

(* Mutation: the template of the leaf is given as its own parent. *)
WriteOwnParent(g) ==
    /\ pc[g] = "certtext"
    /\ cert' = [cert EXCEPT ![Owner(g)] = [made |-> TRUE, of |-> own[g], by |-> own[g]]]
    /\ Goto(g, "key")
    /\ UNCHANGED <<key, issued, locals, history, runs, cuts>>

WriteCert(g) ==
    /\ pc[g] = "certtext"
    /\ cert' = [cert EXCEPT ![Owner(g)] =
          [made |-> TRUE, of |-> own[g],
           by |-> IF Work[g] = "root" THEN own[g] ELSE signing[g]]]
    /\ Goto(g, "key")
    /\ UNCHANGED <<key, issued, locals, history, runs, cuts>>

(* Mutation: a key that is there already is kept. *)
KeepKey(g) ==
    /\ pc[g] = "key"
    /\ key' = [key EXCEPT ![Owner(g)] = IF Full(@) THEN @ ELSE Empty]
    /\ Goto(g, IF Full(key[Owner(g)]) THEN "done" ELSE "keytext")
    /\ UNCHANGED <<cert, issued, locals, history, runs, cuts>>

CreateKey(g) ==
    /\ pc[g] = "key"
    /\ key' = [key EXCEPT ![Owner(g)] = Empty]
    /\ Goto(g, "keytext")
    /\ UNCHANGED <<cert, issued, locals, history, runs, cuts>>

WriteKey(g) ==
    /\ pc[g] = "keytext"
    /\ key' = [key EXCEPT ![Owner(g)] = [made |-> TRUE, of |-> own[g], by |-> 0]]
    /\ Goto(g, IF Work[g] = "root" THEN "done" ELSE "p12")
    /\ UNCHANGED <<cert, issued, locals, history, runs, cuts>>

-----------------------------------------------------------------------------
(* MakeCaCert *)

(* Mutation: the root is made anew each time. *)
MakeCaCertAlways(g) ==
    /\ pc[g] = "stat"
    /\ Generate(g)
    /\ Goto(g, "cert")
    /\ UNCHANGED <<files, ca, signing, got, gotKey, history, runs, cuts>>

(* "Root cert already exists" when its key does, written or not. *)
MakeCaCert(g) ==
    /\ pc[g] = "stat"
    /\ IF key[Authority].made
       THEN /\ Goto(g, "done")
            /\ UNCHANGED <<issued, own>>
       ELSE /\ Generate(g)
            /\ Goto(g, "cert")
    /\ UNCHANGED <<files, ca, signing, got, gotKey, history, runs, cuts>>

-----------------------------------------------------------------------------
(* Sign *)

ReadCaKey(g) ==
    /\ pc[g] = "cakey"
    /\ Full(key[Authority])
    /\ signing' = [signing EXCEPT ![g] = key[Authority].of]
    /\ Goto(g, "cacert")
    /\ UNCHANGED <<files, issued, own, ca, got, gotKey, history, runs, cuts>>

(* CreateCertificate refuses a key that is not of the parent. *)
ReadCaCert(g) ==
    /\ pc[g] = "cacert"
    /\ cert[Authority].of = signing[g]
    /\ Generate(g)
    /\ Goto(g, "cert")
    /\ UNCHANGED <<files, ca, signing, got, gotKey, history, runs, cuts>>

(* Without a file: an error; with an empty one: a nil block, a panic. *)
SignFails(g) ==
    /\ pc[g] \in {"cakey", "cacert"}
    /\ ~IF pc[g] = "cakey" THEN Full(key[Authority])
                           ELSE cert[Authority].of = signing[g]
    /\ Fail(g)

(* What the leaf was needed for. *)
Load(g) == IF Work[g] = "sign" THEN "done"
           ELSE IF got[g].made THEN "readkey" ELSE "readcert"

(* openssl pkcs12 -export, from the files. *)
ExportP12(g) ==
    /\ pc[g] = "p12"
    /\ Pair(cert[NameOf[g]], key[NameOf[g]])
    /\ Goto(g, Load(g))
    /\ UNCHANGED <<files, issued, locals, history, runs, cuts>>

ExportFails(g) == pc[g] = "p12" /\ ~Pair(cert[NameOf[g]], key[NameOf[g]]) /\ Fail(g)

-----------------------------------------------------------------------------
(* The users of a leaf: TLSConfig (tls), makeCertsVolume of the SQL and     *)
(* the Redis nodes (volume), the API server and its client (load).          *)

(* AppendCertsFromPEM refuses an empty file; a volume takes it. *)
ReadCa(g) ==
    /\ pc[g] = "ca"
    /\ IF Work[g] = "volume" THEN cert[Authority].made ELSE Full(cert[Authority])
    /\ ca' = [ca EXCEPT ![g] = cert[Authority]]
    /\ Goto(g, IF Work[g] = "load" THEN "readcert" ELSE "ensure")
    /\ UNCHANGED <<files, issued, own, signing, got, gotKey, history, runs, cuts>>

ReadCaFails(g) ==
    /\ pc[g] = "ca"
    /\ IF Work[g] = "volume" THEN ~cert[Authority].made ELSE ~Full(cert[Authority])
    /\ Fail(g)

(* Mutation: it tests for the key. *)
EnsureKey(g) ==
    /\ pc[g] = "ensure"
    /\ Goto(g, IF key[NameOf[g]].made THEN Load(g) ELSE "cakey")
    /\ UNCHANGED <<files, issued, locals, history, runs, cuts>>

(* ensureCert: once in TLSConfig, once in Cert and once in Key. *)
EnsureCert(g) ==
    /\ pc[g] = "ensure"
    /\ Goto(g, IF cert[NameOf[g]].made THEN Load(g) ELSE "cakey")
    /\ UNCHANGED <<files, issued, locals, history, runs, cuts>>

(* The API server loads the pair twice: for its TLS configuration, and in   *)
(* ListenAndServeTLS, whose pair it serves with.                            *)
ReadCert(g) ==
    /\ pc[g] \in {"readcert", "servecert"}
    /\ cert[NameOf[g]].made
    /\ got' = [got EXCEPT ![g] = cert[NameOf[g]]]
    /\ gotKey' = [gotKey EXCEPT ![g] = Absent]
    /\ Goto(g, CASE Work[g] = "volume" -> "ensure"
                 [] pc[g] = "servecert" -> "servekey"
                 [] OTHER -> "readkey")
    /\ UNCHANGED <<files, issued, own, ca, signing, history, runs, cuts>>

ReadCertFails(g) ==
    /\ pc[g] \in {"readcert", "servecert"}
    /\ ~cert[NameOf[g]].made
    /\ Fail(g)

(* X509KeyPair refuses a pair that does not match; a volume takes it. *)
Usable(g) == IF Work[g] = "volume" THEN key[NameOf[g]].made
                                   ELSE Pair(got[g], key[NameOf[g]])

ReadKey(g) ==
    /\ pc[g] \in {"readkey", "servekey"}
    /\ Usable(g)
    /\ gotKey' = [gotKey EXCEPT ![g] = key[NameOf[g]]]
    /\ Goto(g, IF Work[g] = "load" /\ pc[g] = "readkey" THEN "servecert" ELSE "done")
    /\ UNCHANGED <<files, issued, own, ca, signing, got, history, runs, cuts>>

ReadKeyFails(g) ==
    /\ pc[g] \in {"readkey", "servekey"}
    /\ ~Usable(g)
    /\ Fail(g)

-----------------------------------------------------------------------------

Step(g) ==
    \/ MakeCaCert(g) \/ CreateCert(g) \/ WriteCert(g) \/ CreateKey(g) \/ WriteKey(g)
    \/ ReadCaKey(g) \/ ReadCaCert(g) \/ SignFails(g) \/ ExportP12(g) \/ ExportFails(g)
    \/ ReadCa(g) \/ ReadCaFails(g) \/ EnsureCert(g)
    \/ ReadCert(g) \/ ReadCertFails(g) \/ ReadKey(g) \/ ReadKeyFails(g)

Next == \/ \E p \in Processes : Start(p) \/ Kill(p)
        \/ \E g \in Goroutines : Step(g)

Spec == Init /\ [][Next]_vars

-----------------------------------------------------------------------------
(* Properties. *)

Typed ==
    /\ cert \in [Owners -> File] /\ key \in [Owners -> File]
    /\ issued \in Nat
    /\ pc \in [Goroutines -> {"idle", "stat", "cakey", "cacert", "cert", "certtext", "key",
                              "keytext", "p12", "ca", "ensure", "readcert", "readkey",
                              "servecert", "servekey", "done"}]
    /\ own \in [Goroutines -> 0..issued]
    /\ ca \in [Goroutines -> File]
    /\ signing \in [Goroutines -> Nat]
    /\ got \in [Goroutines -> File] /\ gotKey \in [Goroutines -> File]
    /\ spoilt \subseteq Names /\ lost \subseteq 0..issued
    /\ runs \in Nat /\ cuts \in Nat

(* Every variable has its type, and of the certificates in the store the   *)
(* root's is the one that signs itself: Sign gives CreateCertificate the   *)
(* authority as the parent of a leaf, with a key pair made after it.       *)
TypeOK ==
    /\ Typed
    /\ cert[Authority].by = cert[Authority].of
    /\ \A n \in Names : Full(cert[n]) => cert[n].by # cert[n].of

(* Every leaf in the store is signed by the root that is there: MakeCaCert *)
(* asks for the key, which it writes last, so that a root in use is not    *)
(* made again even when a command was cut.                                 *)
LeavesVerify ==
    \A n \in Names : Full(cert[n]) =>
        Full(key[Authority]) /\ cert[n].by = key[Authority].of

(* The certificate and the key of a name are of one pair, but while it is  *)
(* being signed, when its last signer was cut in between, or when two      *)
(* signed it at once, which ensureCert's test (cert.go:95) lets happen.    *)
PairsMatch ==
    \A n \in Names :
        cert[n].made /\ WritersOf(n) = {} /\ n \notin spoilt => Pair(cert[n], key[n])

(* What TLSConfig and the API server load is one pair, and verifies against *)
(* the pool they took first, whatever is signed or made between the reads; *)
(* except against a root whose command was cut.                            *)
TrustedPair ==
    \A g \in Goroutines : gotKey[g].made /\ Work[g] # "volume" =>
        /\ Pair(got[g], gotKey[g])
        /\ ca[g].of \in {got[g].by} \cup lost

(* makeCertsVolume checks nothing, and yet gives its container, whose name *)
(* no other goroutine has, a pair that verifies against the authority it   *)
(* gave it; unless the pair was cut before, or the root was in the making. *)
DeliveredPair ==
    \A g \in Goroutines :
        /\ gotKey[g].made /\ Work[g] = "volume"
        /\ Private(NameOf[g]) /\ NameOf[g] \notin spoilt
        => Pair(got[g], gotKey[g]) /\ ca[g].of \in {got[g].by, 0} \cup lost

Broken(n) ==
    /\ cert[n].made /\ ~Pair(cert[n], key[n])
    /\ \A g \in Signers : NameOf[g] = n => ~Signing(g)

(* A leaf that was cut stays so, through any number of commands that need  *)
(* it: ensureCert takes the file for the certificate (cert.go:95).         *)
HalfSignedStays ==
    [][\A n \in Names :
          Broken(n) /\ (\A g \in Signers : NameOf[g] = n => Work[g] # "sign") => Broken(n)']_vars

(* commands/cert.go:25, "Create a self-signed certificate or validate an   *)
(* existing one": after a "cert root" that ended well the root is usable.  *)
RootValidated ==
    \A g \in Goroutines : Work[g] = "root" /\ pc[g] = "done" =>
        Pair(cert[Authority], key[Authority])
=============================================================================
