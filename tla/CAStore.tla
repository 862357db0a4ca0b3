------------------------------- MODULE CAStore -------------------------------
(***************************************************************************)
(* The long-lived MITM CA that every runclaude process of a user shares    *)
(* (proxy/ca.go, and its use in main.go): LoadOrCreateCA loads ca.crt and  *)
(* ca.key or generates and writes them; the process then writes the CA     *)
(* into the trust bundle of its working directory's cache, which the       *)
(* sandbox mounts as /tmp, and a LeafCache signs one leaf per host.        *)
(*                                                                         *)
(* A file is absent, empty (os.WriteFile has truncated it and not written  *)
(* all of it) or holds the certificate or key of one generation.  The      *)
(* processes take no lock; a step is one system call that another process  *)
(* can see.  os.Stat is taken to fail only when the file is absent.  All   *)
(* processes here share one working directory, and with it one bundle.     *)
(***************************************************************************)
EXTENDS Integers

CONSTANTS
  Procs,    \* slots for processes: a slot whose process ended can start another
  Hosts,    \* the hosts the proxy intercepts
  MaxGen    \* bound: key pairs generated over all processes

ASSUME MaxGenAssumption == MaxGen \in Nat

Absent == -1
Empty == 0
Generations == 1 .. MaxGen
Content == {Absent, Empty} \cup Generations

VARIABLES
  crt,        \* ca.crt
  key,        \* ca.key
  bundle,     \* <cacheDir>/tmp/runclaude-bundle.crt: the CA it ends with
              \* (runclaude-ca.crt, written just before it, is the same)
  pc,         \* per process: the point LoadOrCreateCA or its caller reached
  cert,       \* per process: the certificate it loaded or generated
  priv,       \* per process: the private key it loaded or generated
  leaf,       \* per process and host: the CA that signed the cached leaf
  generated,  \* number of key pairs generated so far
  ioError,    \* history: per process, a system call failed in this start
  disturbed   \* history: a creation was interrupted, or others saw its middle

files == <<crt, key, bundle>>
locals == <<cert, priv, leaf>>
vars == <<files, pc, locals, generated, ioError, disturbed>>

Phases == {"off", "stat", "loadCrt", "loadKey", "openCrt", "fillCrt",
           "openKey", "fillKey", "openBundle", "fillBundle", "serving",
           "failed"}

\* The phases between the decision to create and the last write.
Creating == {"openCrt", "fillCrt", "openKey", "fillKey"}

NoLeaves == [h \in Hosts |-> Absent]

TypeOK ==
  /\ crt \in Content /\ key \in Content /\ bundle \in Content
  /\ pc \in [Procs -> Phases]
  /\ cert \in [Procs -> {Absent} \cup Generations]
  /\ priv \in [Procs -> {Absent} \cup Generations]
  /\ leaf \in [Procs -> [Hosts -> {Absent} \cup Generations]]
  /\ generated \in 0 .. MaxGen
  /\ ioError \in [Procs -> BOOLEAN]
  /\ disturbed \in BOOLEAN

Init ==
  /\ crt = Absent /\ key = Absent /\ bundle = Absent
  /\ pc = [p \in Procs |-> "off"]
  /\ cert = [p \in Procs |-> Absent]
  /\ priv = [p \in Procs |-> Absent]
  /\ leaf = [p \in Procs |-> NoLeaves]
  /\ generated = 0
  /\ ioError = [p \in Procs |-> FALSE]
  /\ disturbed = FALSE

Go(p, from, to) ==
  /\ pc[p] = from
  /\ pc' = [pc EXCEPT ![p] = to]

(* Faulty variants of actions below, for the mutants of PROJECT.json. *)

\* A load that does not compare the key with the certificate.
LoadKeyUnchecked(p) ==
  /\ Go(p, "loadKey", "openBundle")
  /\ cert[p] \in Generations
  /\ key \in Generations
  /\ priv' = [priv EXCEPT ![p] = key]
  /\ UNCHANGED <<files, cert, leaf, generated, ioError, disturbed>>

\* A load that takes a file without a PEM block for a certificate.
LoadCrtUnparsed(p) ==
  /\ Go(p, "loadCrt", "loadKey")
  /\ cert' = [cert EXCEPT ![p] = crt]
  /\ UNCHANGED <<files, priv, leaf, generated, ioError, disturbed>>

\* A fresh pair whether or not one is stored.
GenerateAlways(p) ==
  /\ Go(p, "stat", "openCrt")
  /\ generated < MaxGen
  /\ generated' = generated + 1
  /\ cert' = [cert EXCEPT ![p] = generated']
  /\ priv' = [priv EXCEPT ![p] = generated']
  /\ disturbed' = (disturbed \/ \E q \in Procs : pc[q] \in Creating)
  /\ UNCHANGED <<files, leaf, ioError>>

\* Only the outcome of the last write is looked at.
IoIgnored(p) ==
  /\ \/ Go(p, "openCrt", "openKey") \/ Go(p, "openKey", "openBundle")
  /\ UNCHANGED <<files, locals, generated, ioError, disturbed>>

\* Get without its look into the map: every handshake mints a leaf, with the
\* certificate that is on disk by now.
MintAgain(p, h) ==
  /\ pc[p] = "serving"
  /\ crt \in Generations
  /\ leaf' = [leaf EXCEPT ![p][h] = crt]
  /\ UNCHANGED <<files, pc, cert, priv, generated, ioError, disturbed>>

-----------------------------------------------------------------------------
(* LoadOrCreateCA: an existing certificate *)

Start(p) ==
  /\ Go(p, "off", "stat")
  /\ ioError' = [ioError EXCEPT ![p] = FALSE]
  /\ UNCHANGED <<files, locals, generated, disturbed>>

\* os.Stat(crtPath) succeeds.
StatPresent(p) ==
  /\ Go(p, "stat", "loadCrt")
  /\ crt # Absent
  /\ disturbed' = (disturbed \/ \E q \in Procs : pc[q] \in Creating)
  /\ UNCHANGED <<files, locals, generated, ioError>>

\* LoadX509KeyPair reads the certificate; an empty file holds no PEM block, which
\* it reports once it has read both files.
LoadCrt(p) ==
  /\ Go(p, "loadCrt", "loadKey")
  /\ cert' = [cert EXCEPT ![p] = IF crt \in Generations THEN crt ELSE Absent]
  /\ UNCHANGED <<files, priv, leaf, generated, ioError, disturbed>>

\* It reads the key and finds that it belongs to the certificate.
LoadKey(p) ==
  /\ Go(p, "loadKey", "openBundle")
  /\ cert[p] \in Generations
  /\ key = cert[p]
  /\ priv' = [priv EXCEPT ![p] = key]
  /\ UNCHANGED <<files, cert, leaf, generated, ioError, disturbed>>

\* The certificate or the key is missing or empty, or the two do not match.
LoadFails(p) ==
  /\ Go(p, "loadKey", "failed")
  /\ cert[p] = Absent \/ key # cert[p]
  /\ UNCHANGED <<files, locals, generated, ioError, disturbed>>

-----------------------------------------------------------------------------
(* LoadOrCreateCA: a fresh pair *)

\* os.Stat(crtPath) fails: generate a key and self-sign its certificate.
Generate(p) ==
  /\ Go(p, "stat", "openCrt")
  /\ crt = Absent
  /\ generated < MaxGen
  /\ generated' = generated + 1
  /\ cert' = [cert EXCEPT ![p] = generated']
  /\ priv' = [priv EXCEPT ![p] = generated']
  /\ disturbed' = (disturbed \/ \E q \in Procs : pc[q] \in Creating)
  /\ UNCHANGED <<files, leaf, ioError>>

\* os.WriteFile(crtPath): open with O_TRUNC, then write.
OpenCrt(p) ==
  /\ Go(p, "openCrt", "fillCrt")
  /\ crt' = Empty
  /\ UNCHANGED <<key, bundle, locals, generated, ioError, disturbed>>

FillCrt(p) ==
  /\ Go(p, "fillCrt", "openKey")
  /\ crt' = cert[p]
  /\ UNCHANGED <<key, bundle, locals, generated, ioError, disturbed>>

OpenKey(p) ==
  /\ Go(p, "openKey", "fillKey")
  /\ key' = Empty
  /\ UNCHANGED <<crt, bundle, locals, generated, ioError, disturbed>>

FillKey(p) ==
  /\ Go(p, "fillKey", "openBundle")
  /\ key' = priv[p]
  /\ UNCHANGED <<crt, bundle, locals, generated, ioError, disturbed>>

\* A system call or the key generation fails; what is on disk stays.
IoFails(p) ==
  /\ pc[p] \in {"stat", "loadCrt", "loadKey", "openBundle", "fillBundle"}
               \cup Creating
  /\ pc' = [pc EXCEPT ![p] = "failed"]
  /\ ioError' = [ioError EXCEPT ![p] = TRUE]
  /\ disturbed' = (disturbed \/ pc[p] \in Creating)
  /\ UNCHANGED <<files, locals, generated>>

-----------------------------------------------------------------------------
(* The caller: WriteBundle, then the proxy's LeafCache *)

OpenBundle(p) ==
  /\ Go(p, "openBundle", "fillBundle")
  /\ bundle' = Empty
  /\ UNCHANGED <<crt, key, locals, generated, ioError, disturbed>>

FillBundle(p) ==
  /\ Go(p, "fillBundle", "serving")
  /\ bundle' = cert[p]
  /\ leaf' = [leaf EXCEPT ![p] = NoLeaves]
  /\ UNCHANGED <<crt, key, cert, priv, generated, ioError, disturbed>>

\* LeafCache.Get mints the leaf of a host; it holds the lock throughout.  A hit
\* changes nothing.
Mint(p, h) ==
  /\ pc[p] = "serving"
  /\ leaf[p][h] = Absent
  /\ leaf' = [leaf EXCEPT ![p][h] = priv[p]]
  /\ UNCHANGED <<files, pc, cert, priv, generated, ioError, disturbed>>

\* The process exits or dies, at any point.
Stop(p) ==
  /\ pc[p] # "off"
  /\ pc' = [pc EXCEPT ![p] = "off"]
  /\ cert' = [cert EXCEPT ![p] = Absent]
  /\ priv' = [priv EXCEPT ![p] = Absent]
  /\ leaf' = [leaf EXCEPT ![p] = NoLeaves]
  /\ disturbed' = (disturbed \/ pc[p] \in Creating)
  /\ UNCHANGED <<files, generated, ioError>>

Step(p) ==
  \/ Start(p) \/ StatPresent(p) \/ LoadCrt(p) \/ LoadKey(p) \/ LoadFails(p)
  \/ Generate(p) \/ OpenCrt(p) \/ FillCrt(p) \/ OpenKey(p) \/ FillKey(p)
  \/ IoFails(p) \/ OpenBundle(p) \/ FillBundle(p) \/ Stop(p)
  \/ \E h \in Hosts : Mint(p, h)

Next == \E p \in Procs : Step(p)

Spec == Init /\ [][Next]_vars

-----------------------------------------------------------------------------
(* Properties *)

\* A process that serves has the key of the certificate it hands out, and every
\* leaf it presents chains to that certificate: also when another process was
\* rewriting one of the two files while this one read them.
ServingPairMatches ==
  \A p \in Procs : pc[p] = "serving" =>
    /\ cert[p] \in Generations
    /\ priv[p] = cert[p]
    /\ \A h \in Hosts : leaf[p][h] \in {Absent, cert[p]}

\* As long as no creation was interrupted, failed half way or was looked at by
\* another process, all processes agree: the stored pair is complete when nobody
\* creates it, everyone serves that CA, the bundle is its or is being written,
\* and a start fails only by an error of its own.
UndisturbedAgree ==
  ~disturbed =>
    /\ (\A p \in Procs : pc[p] \notin Creating) => key = crt
    /\ \A p \in Procs : pc[p] = "serving" =>
         crt = cert[p] /\ bundle \in {Empty, cert[p]}
    /\ \A p \in Procs : pc[p] = "failed" => ioError[p]

\* A complete pair that nobody is creating is never replaced: sessions that
\* start later trust what earlier sessions handed out.
StoredCAKept ==
  \A g \in Generations :
    [](/\ crt = g /\ key = g
       /\ \A p \in Procs : pc[p] \notin Creating
       => [](crt = g /\ key = g))
=============================================================================
