---------------------------- MODULE CAStore_proofs ----------------------------
(***************************************************************************)
(* Proofs about CAStore for any number of processes, hosts and key pairs.  *)
(* ServingPairMatches needs only what a process knows itself.  For         *)
(* UndisturbedAgree the argument is that an undisturbed creation is alone: *)
(* whoever is beyond os.Stat keeps others from creating, and whoever       *)
(* creates is not overtaken.                                               *)
(***************************************************************************)
EXTENDS CAStore, TLAPS

\* The phases in which a process has its pair, and those in which it has none and
\* has not looked yet.
Loaded == {"openBundle", "fillBundle", "serving"}
Outside == {"off", "stat", "failed"}

\* A process that created or loaded a pair has a certificate with its key.
PairHeld ==
  \A p \in Procs : pc[p] \in Creating \cup Loaded =>
    cert[p] \in Generations /\ priv[p] = cert[p]

\* The leaves of a process are signed by its certificate.
LeavesSigned ==
  \A p \in Procs, h \in Hosts : pc[p] = "serving" => leaf[p][h] \in {Absent, cert[p]}

Local == PairHeld /\ LeavesSigned

\* Nobody else is beyond os.Stat while a process creates.
Alone ==
  \A p \in Procs : pc[p] \in Creating => \A q \in Procs \ {p} : pc[q] \in Outside

\* How far the creator is shows in the files.
Written ==
  \A p \in Procs :
    /\ pc[p] = "openCrt" => crt = Absent /\ key = Absent
    /\ pc[p] = "fillCrt" => crt = Empty /\ key = Absent
    /\ pc[p] = "openKey" => crt = cert[p] /\ key = Absent
    /\ pc[p] = "fillKey" => crt = cert[p] /\ key = Empty

\* Without a creator the stored pair is complete, or there is none.
Stored ==
  (\A p \in Procs : pc[p] \notin Creating) => key = crt /\ crt # Empty

\* Who is beyond os.Stat has the stored pair, as far as it has read it.
Agreed ==
  \A p \in Procs :
    /\ pc[p] \in {"loadCrt", "loadKey"} \cup Loaded => crt \in Generations
    /\ pc[p] \in {"loadKey"} \cup Loaded => cert[p] = crt

\* The bundle is being written or has the stored CA.
Bundled ==
  /\ bundle \in {Absent, Empty, crt}
  /\ \A p \in Procs : pc[p] \in {"fillBundle", "serving"} => bundle # Absent

\* A start failed by an error of its own.
OwnErrors == \A p \in Procs : pc[p] = "failed" => ioError[p]

Calm == ~disturbed => Alone /\ Written /\ Stored /\ Agreed /\ Bundled /\ OwnErrors

IInv == TypeOK /\ Local /\ Calm

-----------------------------------------------------------------------------
\* No generation is taken for a missing or an empty file.
LEMMA Distinct ==
  /\ Absent \notin Generations /\ Empty \notin Generations /\ Absent # Empty
  /\ \A g \in Generations : g \in Content
  BY MaxGenAssumption DEF Absent, Empty, Generations, Content

\* A new generation is within the bound.
LEMMA GenerationNext ==
  ASSUME NEW n \in 0 .. MaxGen, n < MaxGen
  PROVE  n + 1 \in Generations /\ n + 1 \in 0 .. MaxGen
  BY MaxGenAssumption DEF Generations

\* The initial state satisfies the invariant.
LEMMA InitInv == Init => IInv
<1>1. SUFFICES ASSUME Init PROVE IInv
  OBVIOUS
<1>2. TypeOK
  <2>1. 0 \in 0 .. MaxGen
    BY MaxGenAssumption
  <2>2. QED
    BY <1>1, <2>1 DEF Init, TypeOK, Content, Phases, NoLeaves
<1>3. Local
  BY <1>1 DEF Init, Local, PairHeld, LeavesSigned, Creating, Loaded
<1>4. Calm
  BY <1>1, Distinct DEF Init, Calm, Alone, Written, Stored, Agreed, Bundled, OwnErrors,
                        Creating, Loaded, Outside
<1>5. QED
  BY <1>2, <1>3, <1>4 DEF IInv

\* Every step keeps the types.
LEMMA TypedStep == ASSUME IInv, NEW p \in Procs, Step(p) PROVE TypeOK'
<1>1. TypeOK /\ PairHeld
  BY DEF IInv, Local
<1> USE Distinct DEF TypeOK, Go, files, locals, Phases
<1>2. CASE Start(p)
  BY <1>1, <1>2 DEF Start
<1>3. CASE StatPresent(p)
  BY <1>1, <1>3 DEF StatPresent
<1>4. CASE LoadCrt(p)
  BY <1>1, <1>4 DEF LoadCrt
<1>5. CASE LoadKey(p)
  BY <1>1, <1>5 DEF LoadKey
<1>6. CASE LoadFails(p)
  BY <1>1, <1>6 DEF LoadFails
<1>7. CASE Generate(p)
  <2>1. generated' \in Generations /\ generated' \in 0 .. MaxGen
    BY <1>1, <1>7, GenerationNext DEF Generate
  <2>2. QED
    BY <1>1, <1>7, <2>1 DEF Generate
<1>8. CASE OpenCrt(p)
  BY <1>1, <1>8 DEF OpenCrt, Content
<1>9. CASE FillCrt(p)
  BY <1>1, <1>9 DEF FillCrt, PairHeld, Creating
<1>10. CASE OpenKey(p)
  BY <1>1, <1>10 DEF OpenKey, Content
<1>11. CASE FillKey(p)
  BY <1>1, <1>11 DEF FillKey, PairHeld, Creating
<1>12. CASE IoFails(p)
  BY <1>1, <1>12 DEF IoFails
<1>13. CASE OpenBundle(p)
  BY <1>1, <1>13 DEF OpenBundle, Content
<1>14. CASE FillBundle(p)
  BY <1>1, <1>14 DEF FillBundle, PairHeld, Loaded, NoLeaves
<1>15. CASE Stop(p)
  BY <1>1, <1>15 DEF Stop, NoLeaves
<1>16. CASE \E h \in Hosts : Mint(p, h)
  BY <1>1, <1>16 DEF Mint, PairHeld, Loaded
<1>17. QED
  BY <1>2, <1>3, <1>4, <1>5, <1>6, <1>7, <1>8, <1>9, <1>10, <1>11, <1>12, <1>13,
     <1>14, <1>15, <1>16 DEF Step

\* Every step keeps what a process knows of its own pair and leaves.
LEMMA LocalStep == ASSUME IInv, NEW p \in Procs, Step(p) PROVE Local'
<1>1. TypeOK /\ Local
  BY DEF IInv
<1> USE DEF TypeOK, Local, PairHeld, LeavesSigned, Go, files, locals, Creating, Loaded
<1>2. CASE Start(p)
  BY <1>1, <1>2 DEF Start
<1>3. CASE StatPresent(p)
  BY <1>1, <1>3 DEF StatPresent
<1>4. CASE LoadCrt(p)
  BY <1>1, <1>4 DEF LoadCrt
<1>5. CASE LoadKey(p)
  BY <1>1, <1>5 DEF LoadKey
<1>6. CASE LoadFails(p)
  BY <1>1, <1>6 DEF LoadFails
<1>7. CASE Generate(p)
  <2>1. generated' \in Generations
    BY <1>1, <1>7, GenerationNext DEF Generate
  <2>2. QED
    BY <1>1, <1>7, <2>1 DEF Generate
<1>8. CASE OpenCrt(p)
  BY <1>1, <1>8 DEF OpenCrt
<1>9. CASE FillCrt(p)
  BY <1>1, <1>9 DEF FillCrt
<1>10. CASE OpenKey(p)
  BY <1>1, <1>10 DEF OpenKey
<1>11. CASE FillKey(p)
  BY <1>1, <1>11 DEF FillKey
<1>12. CASE IoFails(p)
  BY <1>1, <1>12 DEF IoFails
<1>13. CASE OpenBundle(p)
  BY <1>1, <1>13 DEF OpenBundle
<1>14. CASE FillBundle(p)
  BY <1>1, <1>14 DEF FillBundle, NoLeaves
<1>15. CASE Stop(p)
  BY <1>1, <1>15 DEF Stop
<1>16. ASSUME NEW h \in Hosts, Mint(p, h) PROVE Local'
  BY <1>1, <1>16 DEF Mint
<1>17. QED
  BY <1>2, <1>3, <1>4, <1>5, <1>6, <1>7, <1>8, <1>9, <1>10, <1>11, <1>12, <1>13,
     <1>14, <1>15, <1>16 DEF Step

\* Every step that disturbs nothing keeps the agreement of the processes.
LEMMA CalmStep == ASSUME IInv, NEW p \in Procs, Step(p) PROVE Calm'
<1>1. SUFFICES ASSUME ~disturbed'
               PROVE  (Alone /\ Written /\ Stored /\ Agreed /\ Bundled /\ OwnErrors)'
  BY DEF Calm
<1>2. ~disturbed
  BY <1>1 DEF Step, Start, StatPresent, LoadCrt, LoadKey, LoadFails, Generate, OpenCrt,
              FillCrt, OpenKey, FillKey, IoFails, OpenBundle, FillBundle, Mint, Stop
<1>3. Alone /\ Written /\ Stored /\ Agreed /\ Bundled /\ OwnErrors
  BY <1>2 DEF IInv, Calm
<1>4. TypeOK /\ PairHeld
  BY DEF IInv, Local
<1> USE Distinct DEF TypeOK, Alone, Written, Stored, Agreed, Bundled, OwnErrors, Go,
                     files, locals, Creating, Loaded, Outside
<1>5. CASE Start(p)
  BY <1>3, <1>4, <1>5 DEF Start
<1>6. CASE StatPresent(p)
  BY <1>1, <1>3, <1>4, <1>6 DEF StatPresent, Content
<1>7. CASE LoadCrt(p)
  BY <1>3, <1>4, <1>7 DEF LoadCrt
<1>8. CASE LoadKey(p)
  BY <1>3, <1>4, <1>8 DEF LoadKey
<1>9. CASE LoadFails(p)
  BY <1>3, <1>4, <1>9 DEF LoadFails
<1>10. CASE Generate(p)
  <2>1. /\ crt = Absent /\ key = Absent
        /\ \A q \in Procs : pc[q] \in Outside
    <3>1. crt = Absent /\ \A q \in Procs : pc[q] \notin Creating
      BY <1>1, <1>10 DEF Generate
    <3>2. key = Absent
      BY <1>3, <3>1
    <3>3. \A q \in Procs : pc[q] \notin {"loadCrt", "loadKey"} \cup Loaded
      BY <1>3, <3>1
    <3>4. QED
      BY <1>4, <3>1, <3>2, <3>3 DEF Phases
  <2>2. UNCHANGED <<files, ioError>> /\ pc' = [pc EXCEPT ![p] = "openCrt"]
    BY <1>10 DEF Generate
  <2>3. pc'[p] = "openCrt" /\ \A q \in Procs \ {p} : pc'[q] = pc[q]
    BY <1>4, <2>2
  <2>4. (Alone /\ Written /\ Stored /\ Agreed)'
    BY <2>1, <2>2, <2>3
  <2>5. (Bundled /\ OwnErrors)'
    BY <1>3, <2>1, <2>2, <2>3
  <2>6. QED
    BY <2>4, <2>5
<1>11. CASE OpenCrt(p)
  BY <1>3, <1>4, <1>11 DEF OpenCrt
<1>12. CASE FillCrt(p)
  BY <1>3, <1>4, <1>12 DEF FillCrt, PairHeld
<1>13. CASE OpenKey(p)
  BY <1>3, <1>4, <1>13 DEF OpenKey, PairHeld
<1>14. CASE FillKey(p)
  BY <1>3, <1>4, <1>14 DEF FillKey, PairHeld
<1>15. CASE IoFails(p)
  BY <1>1, <1>3, <1>4, <1>15 DEF IoFails
<1>16. CASE OpenBundle(p)
  BY <1>3, <1>4, <1>16 DEF OpenBundle
<1>17. CASE FillBundle(p)
  BY <1>3, <1>4, <1>17 DEF FillBundle
<1>18. CASE Stop(p)
  BY <1>1, <1>3, <1>4, <1>18 DEF Stop
<1>19. CASE \E h \in Hosts : Mint(p, h)
  BY <1>3, <1>4, <1>19 DEF Mint
<1>20. QED
  BY <1>5, <1>6, <1>7, <1>8, <1>9, <1>10, <1>11, <1>12, <1>13, <1>14, <1>15, <1>16,
     <1>17, <1>18, <1>19 DEF Step

\* IInv is inductive.
THEOREM Invariance == Spec => []IInv
<1>1. IInv /\ [Next]_vars => IInv'
  <2>1. SUFFICES ASSUME IInv, [Next]_vars PROVE IInv'
    OBVIOUS
  <2>2. CASE Next
    BY <2>1, <2>2, TypedStep, LocalStep, CalmStep DEF IInv, Next
  <2>3. CASE UNCHANGED vars
    BY <2>1, <2>3 DEF vars, files, locals, IInv, TypeOK, Local, PairHeld, LeavesSigned,
         Calm, Alone, Written, Stored, Agreed, Bundled, OwnErrors
  <2>4. QED
    BY <2>1, <2>2, <2>3
<1>2. QED
  BY InitInv, <1>1, PTL DEF Spec

\* Every reachable state is type-correct.
THEOREM TypeCorrect == Spec => []TypeOK
<1>1. IInv => TypeOK
  BY DEF IInv
<1>2. QED
  BY <1>1, Invariance, PTL

\* A process that serves has one generation's certificate, key and leaves
\* (LoadOrCreateCA, LeafCache.Get).
THEOREM ServesOnePair == Spec => []ServingPairMatches
<1>1. IInv => ServingPairMatches
  BY DEF IInv, Local, PairHeld, LeavesSigned, ServingPairMatches, Loaded
<1>2. QED
  BY <1>1, Invariance, PTL

\* Processes whose creations were not disturbed agree on one CA.
THEOREM Agreement == Spec => []UndisturbedAgree
<1>1. IInv => UndisturbedAgree
  BY Distinct DEF IInv, Calm, Stored, Agreed, Bundled, OwnErrors, UndisturbedAgree, Loaded
<1>2. QED
  BY <1>1, Invariance, PTL

\* A complete stored pair that nobody is creating stays as it is.
THEOREM StoredForGood == Spec => StoredCAKept
<1>1. ASSUME NEW g \in Generations
      PROVE  Spec => [](/\ crt = g /\ key = g
                        /\ \A p \in Procs : pc[p] \notin Creating
                        => [](crt = g /\ key = g))
  <2> DEFINE Settled == crt = g /\ key = g /\ \A p \in Procs : pc[p] \notin Creating
  <2>1. IInv /\ Settled /\ [Next]_vars => Settled'
    <3>1. SUFFICES ASSUME TypeOK, Settled, [Next]_vars PROVE Settled'
      BY DEF IInv
    <3>2. CASE Next
      <4>1. PICK p \in Procs : Step(p)
        BY <3>2 DEF Next
      <4>2. QED
        BY <3>1, <4>1, Distinct DEF TypeOK, Go, files, Creating, Step, Start, StatPresent,
             LoadCrt, LoadKey, LoadFails, Generate, OpenCrt, FillCrt, OpenKey, FillKey,
             IoFails, OpenBundle, FillBundle, Mint, Stop
    <3>3. CASE UNCHANGED vars
      BY <3>1, <3>3 DEF vars, files
    <3>4. QED
      BY <3>1, <3>2, <3>3
  <2>2. /\ crt = g /\ key = g
        /\ \A p \in Procs : pc[p] \notin Creating
        => Settled
    OBVIOUS
  <2>3. Settled => crt = g /\ key = g
    OBVIOUS
  <2> HIDE DEF Settled
  <2>4. QED
    BY <2>1, <2>2, <2>3, Invariance, PTL DEF Spec
<1>2. QED
  BY <1>1 DEF StoredCAKept
=============================================================================
