------------------------ MODULE SessionRegistry_proofs ------------------------
(***************************************************************************)
(* Proofs about SessionRegistry for any pids and any number of starts.  The *)
(* argument: only the process itself writes the file with its pid, so a    *)
(* session that is registered when a scan lists the directory and lives on *)
(* is always collected already, still to be read, or just being judged by  *)
(* a description that is its own; and a file of a process that was gone by *)
(* then is still to be read or about to be removed.                        *)
(***************************************************************************)
EXTENDS SessionRegistry, TLAPS

\* The scan of p is in the middle of the directory.
Scanning(p) == pc[p] \in {"next", "judge", "remove"}

\* Only --approve scans for sessions with an approval UI and posts to them.
Staged ==
  \A p \in Pids :
    /\ stage[p] = "approve" <=> mode[p] = "approve"
    /\ pc[p] \in {"post", "approveOk"} => stage[p] = "approve"

\* A process that is about to list the directory knows of no session, not even
\* after its --exclusive check, and it posts nothing before its scan is done.
Fresh ==
  \A p \in Pids :
    /\ pc[p] \in {"off", "foreign", "list"} =>
         steady[p] = {} /\ found[p] = {} /\ todo[p] = {} /\ posted[p] = {}
    /\ Scanning(p) => posted[p] = {}

\* So does a --exclusive=probe that reports a free directory.
FreeIsEmpty ==
  \A p \in Pids : pc[p] = "free" => steady[p] = {}

\* What has been registered throughout a scan still is.
SteadyRegistered ==
  \A p \in Pids : \A q \in steady[p] : q # p /\ Registered(q)

\* In mid-scan it is collected, to be read, or judged by what it wrote itself.
ScanKeepsSteady ==
  \A p \in Pids : Scanning(p) =>
    \A q \in steady[p] : Wanted(p, Info(q)) =>
      \/ q \in found[p]
      \/ q \in todo[p]
      \/ pc[p] = "judge" /\ entry[p] = [name |-> q, data |-> Info(q)]

\* What was gone when a scan began is gone.
GoneStays ==
  \A p \in Pids :
    /\ Alive(p) \/ gone[p] = {}
    /\ \A q \in gone[p] : ~Alive(q)

\* Its file is removed, to be read, or in the hands of the scan.
ScanKeepsGone ==
  \A p \in Pids : \A q \in gone[p] :
    \/ file[q] = "none"
    \/ Scanning(p) /\ q \in todo[p]
    \/ pc[p] \in {"judge", "remove"} /\ entry[p].name = q

\* As long as no post failed, each has reached its session.
PostsApprove ==
  \A p \in Pids :
    /\ ~failed[p] => steady[p] \cap posted[p] \subseteq approved
    /\ pc[p] = "approveOk" => ~failed[p] /\ found[p] \subseteq posted[p]

\* What a scan has read of a steady session's file is what that session wrote, and
\* that is never removed.
JudgesFairly ==
  \A p \in Pids : pc[p] \in {"judge", "remove"} /\ entry[p].name \in steady[p] =>
    pc[p] = "judge" /\ entry[p].data = Info(entry[p].name)

\* No scan removes the file of a session that was registered when it began and has
\* been since: the file read as empty, or as a dead process's, is not a steady one.
ScanSparesSteady ==
  \A p \in Pids : pc[p] = "remove" => entry[p].name \notin steady[p]

IInv ==
  /\ TypeOK
  /\ Staged /\ Fresh /\ FreeIsEmpty
  /\ SteadyRegistered /\ ScanKeepsSteady /\ ScanFindsSteady
  /\ GoneStays /\ ScanKeepsGone
  /\ PostsApprove

-----------------------------------------------------------------------------
(* The invariant *)

\* The initial state satisfies it.
LEMMA InitInv == Init => IInv
<1>1. SUFFICES ASSUME Init PROVE IInv
  OBVIOUS
<1>2. TypeOK
  BY <1>1, MaxStartsAssumption DEF Init, TypeOK, Contents, Phases, Modes, Stages, NoEntry
<1>3. Staged /\ Fresh /\ FreeIsEmpty
  BY <1>1 DEF Init, Staged, Fresh, FreeIsEmpty, Scanning
<1>4. SteadyRegistered /\ ScanKeepsSteady /\ ScanFindsSteady
  BY <1>1 DEF Init, SteadyRegistered, ScanKeepsSteady, ScanFindsSteady, Scanning
<1>5. GoneStays /\ ScanKeepsGone /\ PostsApprove
  BY <1>1 DEF Init, GoneStays, ScanKeepsGone, PostsApprove
<1>6. QED
  BY <1>2, <1>3, <1>4, <1>5 DEF IInv

\* Forget keeps the types of what it forgets.
LEMMA ForgetTyped ==
  ASSUME TypeOK, NEW p \in Pids, Forget(p),
         file' \in [Pids -> Contents], pc' \in [Pids -> Phases], starts' \in 0 .. MaxStarts
  PROVE  TypeOK'
<1>1. mode' \in [Pids -> Modes] /\ stage' \in [Pids -> Stages] /\ url' \in [Pids -> BOOLEAN]
  BY DEF Forget, TypeOK, Modes, Stages
<1>2. /\ todo' \in [Pids -> SUBSET Pids]
      /\ entry' \in [Pids -> [name: Pids, data: Contents]]
      /\ found' \in [Pids -> SUBSET Pids]
  BY DEF Forget, ForgetScan, NoEntry, TypeOK, Contents
<1>3. /\ posted' \in [Pids -> SUBSET Pids] /\ failed' \in [Pids -> BOOLEAN]
      /\ approved' \subseteq Pids
  BY DEF Forget, TypeOK
<1>4. steady' \in [Pids -> SUBSET Pids] /\ gone' \in [Pids -> SUBSET Pids]
  BY DEF Forget, TypeOK
<1>5. QED
  BY <1>1, <1>2, <1>3, <1>4 DEF TypeOK

\* Every step keeps the types.
LEMMA TypedStep == ASSUME IInv, Next PROVE TypeOK'
<1>1. TypeOK
  BY DEF IInv
<1>2. ASSUME NEW p \in Pids, Start(p) PROVE TypeOK'
  <2>1. starts' \in 0 .. MaxStarts
    BY <1>1, <1>2, MaxStartsAssumption DEF Start, TypeOK
  <2>2. PICK m \in Modes, u \in BOOLEAN :
          /\ mode' = [mode EXCEPT ![p] = m]
          /\ url' = [url EXCEPT ![p] = u]
          /\ stage' = [stage EXCEPT ![p] =
               CASE m = "no" -> "register" [] m = "approve" -> "approve"
                 [] OTHER -> "check"]
    BY <1>2 DEF Start
  <2>3. mode' \in [Pids -> Modes] /\ url' \in [Pids -> BOOLEAN]
    BY <1>1, <2>2 DEF TypeOK
  <2>4. stage' \in [Pids -> Stages]
    BY <1>1, <2>2 DEF TypeOK, Stages
  <2>5. gone' \in [Pids -> SUBSET Pids]
    BY <1>1, <1>2 DEF Start, NoLongerGone, TypeOK
  <2>6. pc' \in [Pids -> Phases]
    BY <1>1, <1>2 DEF Start, Go, Phases, TypeOK
  <2>7. QED
    BY <1>1, <1>2, <2>1, <2>3, <2>4, <2>5, <2>6 DEF Start, scan, post, TypeOK
<1>3. ASSUME NEW p \in Pids, Foreign(p) PROVE TypeOK'
  <2>1. starts' \in 0 .. MaxStarts
    BY <1>1, <1>3, MaxStartsAssumption DEF Foreign, TypeOK
  <2>2. QED
    BY <1>1, <1>3, <2>1 DEF Foreign, Go, locals, scan, post, NoLongerGone, Phases, TypeOK
<1>4. ASSUME NEW p \in Pids, ListDir(p) PROVE TypeOK'
  BY <1>1, <1>4 DEF ListDir, Go, locals, post, Phases, TypeOK
<1>5. ASSUME NEW p \in Pids, ReadEntry(p) PROVE TypeOK'
  <2>1. PICK q \in todo[p] :
          /\ todo' = [todo EXCEPT ![p] = @ \ {q}]
          /\ \/ UNCHANGED <<pc, entry>>
             \/ /\ pc' = [pc EXCEPT ![p] = "judge"]
                /\ entry' = [entry EXCEPT ![p] = [name |-> q, data |-> file[q]]]
    BY <1>5 DEF ReadEntry
  <2>2. q \in Pids /\ file[q] \in Contents
    BY <1>1 DEF TypeOK
  <2>3. todo' \in [Pids -> SUBSET Pids] /\ pc' \in [Pids -> Phases]
    BY <1>1, <2>1 DEF Phases, TypeOK
  <2>4. entry' \in [Pids -> [name: Pids, data: Contents]]
    <3>1. CASE UNCHANGED <<pc, entry>>
      BY <1>1, <3>1 DEF TypeOK
    <3>2. CASE entry' = [entry EXCEPT ![p] = [name |-> q, data |-> file[q]]]
      <4>1. [name |-> q, data |-> file[q]] \in [name: Pids, data: Contents]
        BY <2>2
      <4>2. QED
        BY <1>1, <3>2, <4>1 DEF TypeOK
    <3>3. QED
      BY <2>1, <3>1, <3>2
  <2>5. QED
    BY <1>1, <1>5, <2>3, <2>4 DEF ReadEntry, locals, post, history, TypeOK
<1>6. ASSUME NEW p \in Pids, Keep(p) PROVE TypeOK'
  <2>1. found' \in [Pids -> SUBSET Pids]
    BY <1>1, <1>6 DEF Keep, TypeOK
  <2>2. entry' \in [Pids -> [name: Pids, data: Contents]]
    BY <1>1, <1>6 DEF Keep, NoEntry, Contents, TypeOK
  <2>3. pc' \in [Pids -> Phases]
    BY <1>1, <1>6 DEF Keep, Go, Phases, TypeOK
  <2>4. QED
    BY <1>1, <1>6, <2>1, <2>2, <2>3 DEF Keep, locals, post, history, TypeOK
<1>7. ASSUME NEW p \in Pids, Discard(p) PROVE TypeOK'
  BY <1>1, <1>7 DEF Discard, Go, locals, scan, post, history, Phases, TypeOK
<1>8. ASSUME NEW p \in Pids, Remove(p) PROVE TypeOK'
  BY <1>1, <1>8 DEF Remove, Go, locals, post, NoLongerSteady, Phases, Contents, NoEntry,
       TypeOK
<1>9. ASSUME NEW p \in Pids, Refuse(p) PROVE TypeOK'
  BY <1>1, <1>9 DEF Refuse, locals, scan, post, history, ScanDone, Phases, TypeOK
<1>10. ASSUME NEW p \in Pids, ProbeFree(p) PROVE TypeOK'
  BY <1>1, <1>10 DEF ProbeFree, locals, scan, post, history, ScanDone, Phases, TypeOK
<1>11. ASSUME NEW p \in Pids, Proceed(p) PROVE TypeOK'
  BY <1>1, <1>11 DEF Proceed, scan, post, history, ScanDone, Phases, Stages, TypeOK
<1>12. ASSUME NEW p \in Pids, Warn(p) PROVE TypeOK'
  BY <1>1, <1>12 DEF Warn, locals, scan, post, history, ScanDone, Phases, TypeOK
<1>13. ASSUME NEW p \in Pids, OpenFile(p) PROVE TypeOK'
  BY <1>1, <1>13 DEF OpenFile, Go, locals, scan, post, history, Phases, Contents, TypeOK
<1>14. ASSUME NEW p \in Pids, FillFile(p) PROVE TypeOK'
  BY <1>1, <1>14 DEF FillFile, Go, locals, scan, post, history, Phases, Contents, Info,
       TypeOK
<1>15. ASSUME NEW p \in Pids, WriteFails(p) PROVE TypeOK'
  BY <1>1, <1>15 DEF WriteFails, locals, scan, post, history, Phases, TypeOK
<1>16. ASSUME NEW p \in Pids, NoTargets(p) PROVE TypeOK'
  BY <1>1, <1>16 DEF NoTargets, locals, scan, post, history, ScanDone, Phases, TypeOK
<1>17. ASSUME NEW p \in Pids, PrintUrls(p) PROVE TypeOK'
  BY <1>1, <1>17 DEF PrintUrls, locals, scan, post, history, ScanDone, Phases, TypeOK
<1>18. ASSUME NEW p \in Pids, BeginPosts(p) PROVE TypeOK'
  BY <1>1, <1>18 DEF BeginPosts, locals, scan, post, history, ScanDone, Phases, TypeOK
<1>19. ASSUME NEW p \in Pids, PostOk(p) PROVE TypeOK'
  BY <1>1, <1>19 DEF PostOk, locals, scan, history, TypeOK
<1>20. ASSUME NEW p \in Pids, PostFails(p) PROVE TypeOK'
  BY <1>1, <1>20 DEF PostFails, locals, scan, history, TypeOK
<1>21. ASSUME NEW p \in Pids, ReportApprove(p) PROVE TypeOK'
  BY <1>1, <1>21 DEF ReportApprove, locals, scan, post, history, Phases, TypeOK
<1>22. ASSUME NEW p \in Pids, Cleanup(p) PROVE TypeOK'
  <2>1. file' \in [Pids -> Contents] /\ pc' \in [Pids -> Phases] /\ starts' \in 0 .. MaxStarts
    BY <1>1, <1>22 DEF Cleanup, Go, Contents, Phases, TypeOK
  <2>2. QED
    BY <1>1, <1>22, <2>1, ForgetTyped DEF Cleanup
<1>23. ASSUME NEW p \in Pids, Die(p) PROVE TypeOK'
  <2>1. file' \in [Pids -> Contents] /\ pc' \in [Pids -> Phases] /\ starts' \in 0 .. MaxStarts
    BY <1>1, <1>23 DEF Die, Phases, TypeOK
  <2>2. QED
    BY <1>1, <1>23, <2>1, ForgetTyped DEF Die
<1>24. QED
  BY <1>2, <1>3, <1>4, <1>5, <1>6, <1>7, <1>8, <1>9, <1>10, <1>11, <1>12, <1>13, <1>14,
       <1>15, <1>16, <1>17, <1>18, <1>19, <1>20, <1>21, <1>22, <1>23 DEF Next, Step

\* Every step keeps what a process is up to.
LEMMA StagedStep == ASSUME IInv, Next PROVE Staged' /\ Fresh' /\ FreeIsEmpty'
<1>1. TypeOK /\ Staged /\ Fresh /\ FreeIsEmpty /\ ScanKeepsSteady
  BY DEF IInv
<1>2. ASSUME NEW p \in Pids, Start(p) PROVE Staged' /\ Fresh' /\ FreeIsEmpty'
  BY <1>1, <1>2 DEF Start, Go, scan, post, NoLongerGone, TypeOK, Staged, Fresh,
       FreeIsEmpty, Scanning
<1>3. ASSUME NEW p \in Pids, Foreign(p) PROVE Staged' /\ Fresh' /\ FreeIsEmpty'
  BY <1>1, <1>3 DEF Foreign, Go, locals, scan, post, NoLongerGone, TypeOK, Staged, Fresh,
       FreeIsEmpty, Scanning
<1>4. ASSUME NEW p \in Pids, ListDir(p) PROVE Staged' /\ Fresh' /\ FreeIsEmpty'
  BY <1>1, <1>4 DEF ListDir, Go, locals, post, TypeOK, Staged, Fresh, FreeIsEmpty, Scanning
<1>5. ASSUME NEW p \in Pids, ReadEntry(p) PROVE Staged' /\ Fresh' /\ FreeIsEmpty'
  <2>1. \A r \in Pids : /\ pc[r] = pc'[r] \/ (r = p /\ pc[r] = "next" /\ pc'[r] = "judge")
                        /\ todo'[r] \subseteq todo[r]
    <3>1. PICK q \in todo[p] : /\ todo' = [todo EXCEPT ![p] = @ \ {q}]
                               /\ pc' = pc \/ pc' = [pc EXCEPT ![p] = "judge"]
      BY <1>5 DEF ReadEntry
    <3>2. QED
      BY <1>1, <1>5, <3>1 DEF ReadEntry, TypeOK
  <2>2. UNCHANGED <<mode, stage, found, posted, steady>>
    BY <1>5 DEF ReadEntry, locals, post, history
  <2>3. QED
    BY <1>1, <2>1, <2>2 DEF Staged, Fresh, FreeIsEmpty, Scanning
<1>6. ASSUME NEW p \in Pids, Keep(p) PROVE Staged' /\ Fresh' /\ FreeIsEmpty'
  BY <1>1, <1>6 DEF Keep, Go, locals, post, history, TypeOK, Staged, Fresh, FreeIsEmpty,
       Scanning
<1>7. ASSUME NEW p \in Pids, Discard(p) PROVE Staged' /\ Fresh' /\ FreeIsEmpty'
  BY <1>1, <1>7 DEF Discard, Go, locals, scan, post, history, TypeOK, Staged, Fresh,
       FreeIsEmpty, Scanning
<1>8. ASSUME NEW p \in Pids, Remove(p) PROVE Staged' /\ Fresh' /\ FreeIsEmpty'
  BY <1>1, <1>8 DEF Remove, Go, locals, post, NoLongerSteady, TypeOK, Staged, Fresh,
       FreeIsEmpty, Scanning
<1>9. ASSUME NEW p \in Pids, Refuse(p) PROVE Staged' /\ Fresh' /\ FreeIsEmpty'
  BY <1>1, <1>9 DEF Refuse, locals, scan, post, history, ScanDone, TypeOK, Staged, Fresh,
       FreeIsEmpty, Scanning
<1>10. ASSUME NEW p \in Pids, ProbeFree(p) PROVE Staged' /\ Fresh' /\ FreeIsEmpty'
  <2>1. Staged' /\ Fresh'
    BY <1>1, <1>10 DEF ProbeFree, locals, scan, post, history, ScanDone, TypeOK, Staged,
         Fresh, Scanning
  <2>2. steady[p] = {}
    BY <1>1, <1>10 DEF ProbeFree, ScanDone, ScanKeepsSteady, Scanning, Wanted, Staged,
         TypeOK
  <2>3. FreeIsEmpty'
    BY <1>1, <1>10, <2>2 DEF ProbeFree, history, FreeIsEmpty, TypeOK
  <2>4. QED
    BY <2>1, <2>3
<1>11. ASSUME NEW p \in Pids, Proceed(p) PROVE Staged' /\ Fresh' /\ FreeIsEmpty'
  BY <1>1, <1>11 DEF Proceed, scan, post, history, ScanDone, ScanKeepsSteady, Wanted,
       TypeOK, Staged, Fresh, FreeIsEmpty, Scanning
<1>12. ASSUME NEW p \in Pids, Warn(p) PROVE Staged' /\ Fresh' /\ FreeIsEmpty'
  BY <1>1, <1>12 DEF Warn, locals, scan, post, history, ScanDone, TypeOK, Staged, Fresh,
       FreeIsEmpty, Scanning
<1>13. ASSUME NEW p \in Pids, OpenFile(p) PROVE Staged' /\ Fresh' /\ FreeIsEmpty'
  BY <1>1, <1>13 DEF OpenFile, Go, locals, scan, post, history, TypeOK, Staged, Fresh,
       FreeIsEmpty, Scanning
<1>14. ASSUME NEW p \in Pids, FillFile(p) PROVE Staged' /\ Fresh' /\ FreeIsEmpty'
  BY <1>1, <1>14 DEF FillFile, Go, locals, scan, post, history, TypeOK, Staged, Fresh,
       FreeIsEmpty, Scanning
<1>15. ASSUME NEW p \in Pids, WriteFails(p) PROVE Staged' /\ Fresh' /\ FreeIsEmpty'
  BY <1>1, <1>15 DEF WriteFails, locals, scan, post, history, TypeOK, Staged, Fresh,
       FreeIsEmpty, Scanning
<1>16. ASSUME NEW p \in Pids, NoTargets(p) PROVE Staged' /\ Fresh' /\ FreeIsEmpty'
  BY <1>1, <1>16 DEF NoTargets, locals, scan, post, history, ScanDone, TypeOK, Staged,
       Fresh, FreeIsEmpty, Scanning
<1>17. ASSUME NEW p \in Pids, PrintUrls(p) PROVE Staged' /\ Fresh' /\ FreeIsEmpty'
  BY <1>1, <1>17 DEF PrintUrls, locals, scan, post, history, ScanDone, TypeOK, Staged,
       Fresh, FreeIsEmpty, Scanning
<1>18. ASSUME NEW p \in Pids, BeginPosts(p) PROVE Staged' /\ Fresh' /\ FreeIsEmpty'
  BY <1>1, <1>18 DEF BeginPosts, locals, scan, post, history, ScanDone, TypeOK, Staged,
       Fresh, FreeIsEmpty, Scanning
<1>19. ASSUME NEW p \in Pids, PostOk(p) PROVE Staged' /\ Fresh' /\ FreeIsEmpty'
  BY <1>1, <1>19 DEF PostOk, locals, scan, history, TypeOK, Staged, Fresh, FreeIsEmpty,
       Scanning
<1>20. ASSUME NEW p \in Pids, PostFails(p) PROVE Staged' /\ Fresh' /\ FreeIsEmpty'
  BY <1>1, <1>20 DEF PostFails, locals, scan, history, TypeOK, Staged, Fresh, FreeIsEmpty,
       Scanning
<1>21. ASSUME NEW p \in Pids, ReportApprove(p) PROVE Staged' /\ Fresh' /\ FreeIsEmpty'
  BY <1>1, <1>21 DEF ReportApprove, locals, scan, post, history, TypeOK, Staged, Fresh,
       FreeIsEmpty, Scanning
<1>22. ASSUME NEW p \in Pids, Cleanup(p) PROVE Staged' /\ Fresh' /\ FreeIsEmpty'
  BY <1>1, <1>22 DEF Cleanup, Go, Forget, ForgetScan, Alive, TypeOK, Staged, Fresh,
       FreeIsEmpty, Scanning
<1>23. ASSUME NEW p \in Pids, Die(p) PROVE Staged' /\ Fresh' /\ FreeIsEmpty'
  BY <1>1, <1>23 DEF Die, Forget, ForgetScan, Alive, TypeOK, Staged, Fresh, FreeIsEmpty,
       Scanning
<1>24. QED
  BY <1>2, <1>3, <1>4, <1>5, <1>6, <1>7, <1>8, <1>9, <1>10, <1>11, <1>12, <1>13, <1>14,
       <1>15, <1>16, <1>17, <1>18, <1>19, <1>20, <1>21, <1>22, <1>23 DEF Next, Step

\* Every step keeps the steady sessions registered.
LEMMA SteadyStep == ASSUME IInv, Next PROVE SteadyRegistered'
<1>1. TypeOK /\ SteadyRegistered
  BY DEF IInv
<1>2. ASSUME NEW p \in Pids, Start(p) PROVE SteadyRegistered'
  BY <1>1, <1>2 DEF Start, Go, scan, post, NoLongerGone, TypeOK, SteadyRegistered,
       Registered, Info
<1>3. ASSUME NEW p \in Pids, Foreign(p) PROVE SteadyRegistered'
  BY <1>1, <1>3 DEF Foreign, Go, locals, scan, post, NoLongerGone, TypeOK,
       SteadyRegistered, Registered, Info
<1>4. ASSUME NEW p \in Pids, ListDir(p) PROVE SteadyRegistered'
  BY <1>1, <1>4 DEF ListDir, Go, locals, post, TypeOK, SteadyRegistered, Registered, Info
<1>5. ASSUME NEW p \in Pids, ReadEntry(p) PROVE SteadyRegistered'
  BY <1>1, <1>5 DEF ReadEntry, locals, post, history, TypeOK, SteadyRegistered,
       Registered, Info
<1>6. ASSUME NEW p \in Pids, Keep(p) PROVE SteadyRegistered'
  BY <1>1, <1>6 DEF Keep, Go, locals, post, history, TypeOK, SteadyRegistered, Registered,
       Info
<1>7. ASSUME NEW p \in Pids, Discard(p) PROVE SteadyRegistered'
  BY <1>1, <1>7 DEF Discard, Go, locals, scan, post, history, TypeOK, SteadyRegistered,
       Registered, Info
<1>8. ASSUME NEW p \in Pids, Remove(p) PROVE SteadyRegistered'
  BY <1>1, <1>8 DEF Remove, Go, locals, post, NoLongerSteady, TypeOK, SteadyRegistered,
       Registered, Info
<1>9. ASSUME NEW p \in Pids, Refuse(p) PROVE SteadyRegistered'
  BY <1>1, <1>9 DEF Refuse, locals, scan, post, history, ScanDone, TypeOK,
       SteadyRegistered, Registered, Info
<1>10. ASSUME NEW p \in Pids, ProbeFree(p) PROVE SteadyRegistered'
  BY <1>1, <1>10 DEF ProbeFree, locals, scan, post, history, ScanDone, TypeOK,
       SteadyRegistered, Registered, Info
<1>11. ASSUME NEW p \in Pids, Proceed(p) PROVE SteadyRegistered'
  BY <1>1, <1>11 DEF Proceed, scan, post, history, ScanDone, TypeOK, SteadyRegistered,
       Registered, Info
<1>12. ASSUME NEW p \in Pids, Warn(p) PROVE SteadyRegistered'
  BY <1>1, <1>12 DEF Warn, locals, scan, post, history, ScanDone, TypeOK,
       SteadyRegistered, Registered, Info
<1>13. ASSUME NEW p \in Pids, OpenFile(p) PROVE SteadyRegistered'
  BY <1>1, <1>13 DEF OpenFile, Go, locals, scan, post, history, TypeOK, SteadyRegistered,
       Registered, Info
<1>14. ASSUME NEW p \in Pids, FillFile(p) PROVE SteadyRegistered'
  BY <1>1, <1>14 DEF FillFile, Go, locals, scan, post, history, TypeOK, SteadyRegistered,
       Registered, Info
<1>15. ASSUME NEW p \in Pids, WriteFails(p) PROVE SteadyRegistered'
  BY <1>1, <1>15 DEF WriteFails, locals, scan, post, history, TypeOK, SteadyRegistered,
       Registered, Info
<1>16. ASSUME NEW p \in Pids, NoTargets(p) PROVE SteadyRegistered'
  BY <1>1, <1>16 DEF NoTargets, locals, scan, post, history, ScanDone, TypeOK,
       SteadyRegistered, Registered, Info
<1>17. ASSUME NEW p \in Pids, PrintUrls(p) PROVE SteadyRegistered'
  BY <1>1, <1>17 DEF PrintUrls, locals, scan, post, history, ScanDone, TypeOK,
       SteadyRegistered, Registered, Info
<1>18. ASSUME NEW p \in Pids, BeginPosts(p) PROVE SteadyRegistered'
  BY <1>1, <1>18 DEF BeginPosts, locals, scan, post, history, ScanDone, TypeOK,
       SteadyRegistered, Registered, Info
<1>19. ASSUME NEW p \in Pids, PostOk(p) PROVE SteadyRegistered'
  BY <1>1, <1>19 DEF PostOk, locals, scan, history, TypeOK, SteadyRegistered, Registered,
       Info
<1>20. ASSUME NEW p \in Pids, PostFails(p) PROVE SteadyRegistered'
  BY <1>1, <1>20 DEF PostFails, locals, scan, history, TypeOK, SteadyRegistered,
       Registered, Info
<1>21. ASSUME NEW p \in Pids, ReportApprove(p) PROVE SteadyRegistered'
  BY <1>1, <1>21 DEF ReportApprove, locals, scan, post, history, TypeOK, SteadyRegistered,
       Registered, Info
<1>22. ASSUME NEW p \in Pids, Cleanup(p) PROVE SteadyRegistered'
  BY <1>1, <1>22 DEF Cleanup, Go, Forget, ForgetScan, TypeOK, SteadyRegistered,
       Registered, Info
<1>23. ASSUME NEW p \in Pids, Die(p) PROVE SteadyRegistered'
  BY <1>1, <1>23 DEF Die, Forget, ForgetScan, TypeOK, SteadyRegistered, Registered, Info
<1>24. QED
  BY <1>2, <1>3, <1>4, <1>5, <1>6, <1>7, <1>8, <1>9, <1>10, <1>11, <1>12, <1>13, <1>14,
       <1>15, <1>16, <1>17, <1>18, <1>19, <1>20, <1>21, <1>22, <1>23 DEF Next, Step

\* Every step keeps the gone processes gone, and their files in sight of the scan.
LEMMA GoneStep == ASSUME IInv, Next PROVE GoneStays' /\ ScanKeepsGone'
<1>1. TypeOK /\ Fresh /\ GoneStays /\ ScanKeepsGone
  BY DEF IInv
<1>2. ASSUME NEW p \in Pids, Start(p) PROVE GoneStays' /\ ScanKeepsGone'
  BY <1>1, <1>2 DEF Start, Go, scan, post, NoLongerGone, TypeOK, GoneStays, ScanKeepsGone,
       Scanning, Alive
<1>3. ASSUME NEW p \in Pids, Foreign(p) PROVE GoneStays' /\ ScanKeepsGone'
  BY <1>1, <1>3 DEF Foreign, Go, locals, scan, post, NoLongerGone, TypeOK, GoneStays,
       ScanKeepsGone, Scanning, Alive
<1>4. ASSUME NEW p \in Pids, ListDir(p) PROVE GoneStays' /\ ScanKeepsGone'
  BY <1>1, <1>4 DEF ListDir, Go, locals, post, TypeOK, GoneStays, ScanKeepsGone, Scanning,
       Alive
<1>5. ASSUME NEW p \in Pids, ReadEntry(p) PROVE GoneStays' /\ ScanKeepsGone'
  <2>1. PICK q \in todo[p] :
          /\ todo' = [todo EXCEPT ![p] = @ \ {q}]
          /\ \/ file[q] = "none" /\ UNCHANGED <<pc, entry>>
             \/ /\ pc' = [pc EXCEPT ![p] = "judge"]
                /\ entry' = [entry EXCEPT ![p] = [name |-> q, data |-> file[q]]]
    BY <1>5 DEF ReadEntry
  <2>2. pc[p] = "next" /\ file' = file /\ gone' = gone
    BY <1>5 DEF ReadEntry, history
  <2>3. GoneStays'
    BY <1>1, <2>1, <2>2 DEF GoneStays, Alive, TypeOK
  <2>4. ASSUME NEW r \in Pids, NEW g \in gone[r]
        PROVE  \/ file[g] = "none"
               \/ Scanning(r)' /\ g \in todo'[r]
               \/ pc'[r] \in {"judge", "remove"} /\ entry'[r].name = g
    <3>1. CASE r # p
      BY <1>1, <2>1, <2>2, <3>1 DEF ScanKeepsGone, Scanning, TypeOK
    <3>2. CASE r = p
      BY <1>1, <2>1, <2>2, <3>2 DEF ScanKeepsGone, Scanning, TypeOK
    <3>3. QED
      BY <3>1, <3>2
  <2>5. QED
    BY <2>2, <2>3, <2>4 DEF ScanKeepsGone
<1>6. ASSUME NEW p \in Pids, Keep(p) PROVE GoneStays' /\ ScanKeepsGone'
  BY <1>1, <1>6 DEF Keep, Go, locals, post, history, TypeOK, GoneStays, ScanKeepsGone,
       Scanning, Alive
<1>7. ASSUME NEW p \in Pids, Discard(p) PROVE GoneStays' /\ ScanKeepsGone'
  BY <1>1, <1>7 DEF Discard, Go, locals, scan, post, history, TypeOK, GoneStays,
       ScanKeepsGone, Scanning, Alive
<1>8. ASSUME NEW p \in Pids, Remove(p) PROVE GoneStays' /\ ScanKeepsGone'
  BY <1>1, <1>8 DEF Remove, Go, locals, post, NoLongerSteady, TypeOK, GoneStays,
       ScanKeepsGone, Scanning, Alive
<1>9. ASSUME NEW p \in Pids, Refuse(p) PROVE GoneStays' /\ ScanKeepsGone'
  BY <1>1, <1>9 DEF Refuse, locals, scan, post, history, ScanDone, TypeOK, GoneStays,
       ScanKeepsGone, Scanning, Alive
<1>10. ASSUME NEW p \in Pids, ProbeFree(p) PROVE GoneStays' /\ ScanKeepsGone'
  BY <1>1, <1>10 DEF ProbeFree, locals, scan, post, history, ScanDone, TypeOK, GoneStays,
       ScanKeepsGone, Scanning, Alive
<1>11. ASSUME NEW p \in Pids, Proceed(p) PROVE GoneStays' /\ ScanKeepsGone'
  BY <1>1, <1>11 DEF Proceed, scan, post, history, ScanDone, TypeOK, GoneStays,
       ScanKeepsGone, Scanning, Alive
<1>12. ASSUME NEW p \in Pids, Warn(p) PROVE GoneStays' /\ ScanKeepsGone'
  BY <1>1, <1>12 DEF Warn, locals, scan, post, history, ScanDone, TypeOK, GoneStays,
       ScanKeepsGone, Scanning, Alive
<1>13. ASSUME NEW p \in Pids, OpenFile(p) PROVE GoneStays' /\ ScanKeepsGone'
  BY <1>1, <1>13 DEF OpenFile, Go, locals, scan, post, history, TypeOK, GoneStays,
       ScanKeepsGone, Scanning, Alive
<1>14. ASSUME NEW p \in Pids, FillFile(p) PROVE GoneStays' /\ ScanKeepsGone'
  BY <1>1, <1>14 DEF FillFile, Go, locals, scan, post, history, TypeOK, GoneStays,
       ScanKeepsGone, Scanning, Alive
<1>15. ASSUME NEW p \in Pids, WriteFails(p) PROVE GoneStays' /\ ScanKeepsGone'
  BY <1>1, <1>15 DEF WriteFails, locals, scan, post, history, TypeOK, GoneStays,
       ScanKeepsGone, Scanning, Alive
<1>16. ASSUME NEW p \in Pids, NoTargets(p) PROVE GoneStays' /\ ScanKeepsGone'
  BY <1>1, <1>16 DEF NoTargets, locals, scan, post, history, ScanDone, TypeOK, GoneStays,
       ScanKeepsGone, Scanning, Alive
<1>17. ASSUME NEW p \in Pids, PrintUrls(p) PROVE GoneStays' /\ ScanKeepsGone'
  BY <1>1, <1>17 DEF PrintUrls, locals, scan, post, history, ScanDone, TypeOK, GoneStays,
       ScanKeepsGone, Scanning, Alive
<1>18. ASSUME NEW p \in Pids, BeginPosts(p) PROVE GoneStays' /\ ScanKeepsGone'
  BY <1>1, <1>18 DEF BeginPosts, locals, scan, post, history, ScanDone, TypeOK, GoneStays,
       ScanKeepsGone, Scanning, Alive
<1>19. ASSUME NEW p \in Pids, PostOk(p) PROVE GoneStays' /\ ScanKeepsGone'
  BY <1>1, <1>19 DEF PostOk, locals, scan, history, TypeOK, GoneStays, ScanKeepsGone,
       Scanning, Alive
<1>20. ASSUME NEW p \in Pids, PostFails(p) PROVE GoneStays' /\ ScanKeepsGone'
  BY <1>1, <1>20 DEF PostFails, locals, scan, history, TypeOK, GoneStays, ScanKeepsGone,
       Scanning, Alive
<1>21. ASSUME NEW p \in Pids, ReportApprove(p) PROVE GoneStays' /\ ScanKeepsGone'
  BY <1>1, <1>21 DEF ReportApprove, locals, scan, post, history, TypeOK, GoneStays,
       ScanKeepsGone, Scanning, Alive
<1>22. ASSUME NEW p \in Pids, Cleanup(p) PROVE GoneStays' /\ ScanKeepsGone'
  BY <1>1, <1>22 DEF Cleanup, Go, Forget, ForgetScan, TypeOK, GoneStays, ScanKeepsGone,
       Scanning, Alive
<1>23. ASSUME NEW p \in Pids, Die(p) PROVE GoneStays' /\ ScanKeepsGone'
  BY <1>1, <1>23 DEF Die, Forget, ForgetScan, TypeOK, GoneStays, ScanKeepsGone, Scanning,
       Alive
<1>24. QED
  BY <1>2, <1>3, <1>4, <1>5, <1>6, <1>7, <1>8, <1>9, <1>10, <1>11, <1>12, <1>13, <1>14,
       <1>15, <1>16, <1>17, <1>18, <1>19, <1>20, <1>21, <1>22, <1>23 DEF Next, Step

\* Every step keeps what the posts have reached.
LEMMA PostStep == ASSUME IInv, Next PROVE PostsApprove'
<1>1. TypeOK /\ Fresh /\ PostsApprove
  BY DEF IInv
<1>2. ASSUME NEW p \in Pids, Start(p) PROVE PostsApprove'
  BY <1>1, <1>2 DEF Start, Go, scan, post, NoLongerGone, TypeOK, Fresh, PostsApprove,
       Scanning
<1>3. ASSUME NEW p \in Pids, Foreign(p) PROVE PostsApprove'
  BY <1>1, <1>3 DEF Foreign, Go, locals, scan, post, NoLongerGone, TypeOK, Fresh,
       PostsApprove, Scanning
<1>4. ASSUME NEW p \in Pids, ListDir(p) PROVE PostsApprove'
  BY <1>1, <1>4 DEF ListDir, Go, locals, post, TypeOK, Fresh, PostsApprove, Scanning
<1>5. ASSUME NEW p \in Pids, ReadEntry(p) PROVE PostsApprove'
  BY <1>1, <1>5 DEF ReadEntry, locals, post, history, TypeOK, Fresh, PostsApprove, Scanning
<1>6. ASSUME NEW p \in Pids, Keep(p) PROVE PostsApprove'
  BY <1>1, <1>6 DEF Keep, Go, locals, post, history, TypeOK, Fresh, PostsApprove, Scanning
<1>7. ASSUME NEW p \in Pids, Discard(p) PROVE PostsApprove'
  BY <1>1, <1>7 DEF Discard, Go, locals, scan, post, history, TypeOK, Fresh, PostsApprove,
       Scanning
<1>8. ASSUME NEW p \in Pids, Remove(p) PROVE PostsApprove'
  BY <1>1, <1>8 DEF Remove, Go, locals, post, NoLongerSteady, TypeOK, Fresh, PostsApprove,
       Scanning
<1>9. ASSUME NEW p \in Pids, Refuse(p) PROVE PostsApprove'
  BY <1>1, <1>9 DEF Refuse, locals, scan, post, history, ScanDone, TypeOK, Fresh,
       PostsApprove, Scanning
<1>10. ASSUME NEW p \in Pids, ProbeFree(p) PROVE PostsApprove'
  BY <1>1, <1>10 DEF ProbeFree, locals, scan, post, history, ScanDone, TypeOK, Fresh,
       PostsApprove, Scanning
<1>11. ASSUME NEW p \in Pids, Proceed(p) PROVE PostsApprove'
  BY <1>1, <1>11 DEF Proceed, scan, post, history, ScanDone, TypeOK, Fresh, PostsApprove,
       Scanning
<1>12. ASSUME NEW p \in Pids, Warn(p) PROVE PostsApprove'
  BY <1>1, <1>12 DEF Warn, locals, scan, post, history, ScanDone, TypeOK, Fresh,
       PostsApprove, Scanning
<1>13. ASSUME NEW p \in Pids, OpenFile(p) PROVE PostsApprove'
  BY <1>1, <1>13 DEF OpenFile, Go, locals, scan, post, history, TypeOK, Fresh,
       PostsApprove, Scanning
<1>14. ASSUME NEW p \in Pids, FillFile(p) PROVE PostsApprove'
  BY <1>1, <1>14 DEF FillFile, Go, locals, scan, post, history, TypeOK, Fresh,
       PostsApprove, Scanning
<1>15. ASSUME NEW p \in Pids, WriteFails(p) PROVE PostsApprove'
  BY <1>1, <1>15 DEF WriteFails, locals, scan, post, history, TypeOK, Fresh, PostsApprove,
       Scanning
<1>16. ASSUME NEW p \in Pids, NoTargets(p) PROVE PostsApprove'
  BY <1>1, <1>16 DEF NoTargets, locals, scan, post, history, ScanDone, TypeOK, Fresh,
       PostsApprove, Scanning
<1>17. ASSUME NEW p \in Pids, PrintUrls(p) PROVE PostsApprove'
  BY <1>1, <1>17 DEF PrintUrls, locals, scan, post, history, ScanDone, TypeOK, Fresh,
       PostsApprove, Scanning
<1>18. ASSUME NEW p \in Pids, BeginPosts(p) PROVE PostsApprove'
  BY <1>1, <1>18 DEF BeginPosts, locals, scan, post, history, ScanDone, TypeOK, Fresh,
       PostsApprove, Scanning
<1>19. ASSUME NEW p \in Pids, PostOk(p) PROVE PostsApprove'
  BY <1>1, <1>19 DEF PostOk, locals, scan, history, TypeOK, Fresh, PostsApprove, Scanning
<1>20. ASSUME NEW p \in Pids, PostFails(p) PROVE PostsApprove'
  BY <1>1, <1>20 DEF PostFails, locals, scan, history, TypeOK, Fresh, PostsApprove, Scanning
<1>21. ASSUME NEW p \in Pids, ReportApprove(p) PROVE PostsApprove'
  BY <1>1, <1>21 DEF ReportApprove, locals, scan, post, history, TypeOK, Fresh,
       PostsApprove, Scanning
<1>22. ASSUME NEW p \in Pids, Cleanup(p) PROVE PostsApprove'
  BY <1>1, <1>22 DEF Cleanup, Go, Forget, ForgetScan, TypeOK, Fresh, PostsApprove, Scanning
<1>23. ASSUME NEW p \in Pids, Die(p) PROVE PostsApprove'
  BY <1>1, <1>23 DEF Die, Forget, ForgetScan, TypeOK, Fresh, PostsApprove, Scanning
<1>24. QED
  BY <1>2, <1>3, <1>4, <1>5, <1>6, <1>7, <1>8, <1>9, <1>10, <1>11, <1>12, <1>13, <1>14,
       <1>15, <1>16, <1>17, <1>18, <1>19, <1>20, <1>21, <1>22, <1>23 DEF Next, Step

\* Every step keeps the steady sessions in sight of the scan.
LEMMA ScanStep == ASSUME IInv, Next PROVE ScanKeepsSteady' /\ ScanFindsSteady'
<1>1. TypeOK /\ Fresh /\ SteadyRegistered /\ ScanKeepsSteady /\ ScanFindsSteady
  BY DEF IInv
<1>2. ASSUME NEW p \in Pids, Start(p) PROVE ScanKeepsSteady' /\ ScanFindsSteady'
  <2>1. steady[p] = {} /\ ~Scanning(p)' /\ ~AfterScan(p)'
    BY <1>1, <1>2 DEF Start, Go, Fresh, Scanning, AfterScan, ScanDone, TypeOK
  <2>2. \A r \in Pids : r # p => /\ pc'[r] = pc[r] /\ url'[r] = url[r]
                                /\ stage'[r] = stage[r]
    BY <1>1, <1>2 DEF Start, Go, TypeOK
  <2>3. UNCHANGED <<todo, entry, found, steady>>
    BY <1>2 DEF Start, scan
  <2>4. \A r \in Pids : p \notin steady[r]
    BY <1>1, <1>2 DEF Start, Go, SteadyRegistered, Registered
  <2>5. ASSUME NEW r \in Pids, NEW q \in steady[r]
        PROVE  r # p /\ Info(q)' = Info(q) /\ Wanted(r, Info(q))' = Wanted(r, Info(q))
    BY <1>1, <2>1, <2>2, <2>3, <2>4, <2>5 DEF Info, Wanted, TypeOK
  <2>6. ScanKeepsSteady'
    BY <1>1, <2>1, <2>2, <2>3, <2>5 DEF ScanKeepsSteady, Scanning
  <2>7. ScanFindsSteady'
    BY <1>1, <2>1, <2>2, <2>3, <2>5 DEF ScanFindsSteady, AfterScan, ScanDone
  <2>8. QED
    BY <2>6, <2>7
<1>3. ASSUME NEW p \in Pids, Foreign(p) PROVE ScanKeepsSteady' /\ ScanFindsSteady'
  BY <1>1, <1>3 DEF Foreign, Go, locals, scan, post, NoLongerGone, Fresh, TypeOK,
       ScanKeepsSteady, ScanFindsSteady, Scanning, AfterScan, ScanDone, Wanted, Info
<1>4. ASSUME NEW p \in Pids, ListDir(p) PROVE ScanKeepsSteady' /\ ScanFindsSteady'
  BY <1>1, <1>4 DEF ListDir, Go, locals, post, Registered, TypeOK, ScanKeepsSteady,
       ScanFindsSteady, Scanning, AfterScan, ScanDone, Wanted, Info
<1>5. ASSUME NEW p \in Pids, ReadEntry(p) PROVE ScanKeepsSteady' /\ ScanFindsSteady'
  BY <1>1, <1>5 DEF ReadEntry, locals, post, history, SteadyRegistered, Registered,
       TypeOK, ScanKeepsSteady, ScanFindsSteady, Scanning, AfterScan, ScanDone, Wanted, Info
<1>6. ASSUME NEW p \in Pids, Keep(p) PROVE ScanKeepsSteady' /\ ScanFindsSteady'
  BY <1>1, <1>6 DEF Keep, Go, locals, post, history, SteadyRegistered, TypeOK,
       ScanKeepsSteady, ScanFindsSteady, Scanning, AfterScan, ScanDone, Wanted, Info
<1>7. ASSUME NEW p \in Pids, Discard(p) PROVE ScanKeepsSteady' /\ ScanFindsSteady'
  BY <1>1, <1>7 DEF Discard, Go, locals, scan, post, history, SteadyRegistered,
       Registered, Alive, TypeOK, ScanKeepsSteady, ScanFindsSteady, Scanning, AfterScan,
       ScanDone, Wanted, Info
<1>8. ASSUME NEW p \in Pids, Remove(p) PROVE ScanKeepsSteady' /\ ScanFindsSteady'
  BY <1>1, <1>8 DEF Remove, Go, locals, post, NoLongerSteady, TypeOK, ScanKeepsSteady,
       ScanFindsSteady, Scanning, AfterScan, ScanDone, Wanted, Info
<1>9. ASSUME NEW p \in Pids, Refuse(p) PROVE ScanKeepsSteady' /\ ScanFindsSteady'
  BY <1>1, <1>9 DEF Refuse, locals, scan, post, history, ScanDone, TypeOK,
       ScanKeepsSteady, ScanFindsSteady, Scanning, AfterScan, Wanted, Info
<1>10. ASSUME NEW p \in Pids, ProbeFree(p) PROVE ScanKeepsSteady' /\ ScanFindsSteady'
  BY <1>1, <1>10 DEF ProbeFree, locals, scan, post, history, ScanDone, TypeOK,
       ScanKeepsSteady, ScanFindsSteady, Scanning, AfterScan, Wanted, Info
<1>11. ASSUME NEW p \in Pids, Proceed(p) PROVE ScanKeepsSteady' /\ ScanFindsSteady'
  BY <1>1, <1>11 DEF Proceed, scan, post, history, ScanDone, TypeOK, ScanKeepsSteady,
       ScanFindsSteady, Scanning, AfterScan, Wanted, Info
<1>12. ASSUME NEW p \in Pids, Warn(p) PROVE ScanKeepsSteady' /\ ScanFindsSteady'
  BY <1>1, <1>12 DEF Warn, locals, scan, post, history, ScanDone, TypeOK, ScanKeepsSteady,
       ScanFindsSteady, Scanning, AfterScan, Wanted, Info
<1>13. ASSUME NEW p \in Pids, OpenFile(p) PROVE ScanKeepsSteady' /\ ScanFindsSteady'
  BY <1>1, <1>13 DEF OpenFile, Go, locals, scan, post, history, TypeOK, ScanKeepsSteady,
       ScanFindsSteady, Scanning, AfterScan, ScanDone, Wanted, Info
<1>14. ASSUME NEW p \in Pids, FillFile(p) PROVE ScanKeepsSteady' /\ ScanFindsSteady'
  BY <1>1, <1>14 DEF FillFile, Go, locals, scan, post, history, TypeOK, ScanKeepsSteady,
       ScanFindsSteady, Scanning, AfterScan, ScanDone, Wanted, Info
<1>15. ASSUME NEW p \in Pids, WriteFails(p) PROVE ScanKeepsSteady' /\ ScanFindsSteady'
  BY <1>1, <1>15 DEF WriteFails, locals, scan, post, history, Fresh, TypeOK,
       ScanKeepsSteady, ScanFindsSteady, Scanning, AfterScan, ScanDone, Wanted, Info
<1>16. ASSUME NEW p \in Pids, NoTargets(p) PROVE ScanKeepsSteady' /\ ScanFindsSteady'
  BY <1>1, <1>16 DEF NoTargets, locals, scan, post, history, ScanDone, TypeOK,
       ScanKeepsSteady, ScanFindsSteady, Scanning, AfterScan, Wanted, Info
<1>17. ASSUME NEW p \in Pids, PrintUrls(p) PROVE ScanKeepsSteady' /\ ScanFindsSteady'
  BY <1>1, <1>17 DEF PrintUrls, locals, scan, post, history, ScanDone, TypeOK,
       ScanKeepsSteady, ScanFindsSteady, Scanning, AfterScan, Wanted, Info
<1>18. ASSUME NEW p \in Pids, BeginPosts(p) PROVE ScanKeepsSteady' /\ ScanFindsSteady'
  BY <1>1, <1>18 DEF BeginPosts, locals, scan, post, history, ScanDone, TypeOK,
       ScanKeepsSteady, ScanFindsSteady, Scanning, AfterScan, Wanted, Info
<1>19. ASSUME NEW p \in Pids, PostOk(p) PROVE ScanKeepsSteady' /\ ScanFindsSteady'
  BY <1>1, <1>19 DEF PostOk, locals, scan, history, TypeOK, ScanKeepsSteady,
       ScanFindsSteady, Scanning, AfterScan, ScanDone, Wanted, Info
<1>20. ASSUME NEW p \in Pids, PostFails(p) PROVE ScanKeepsSteady' /\ ScanFindsSteady'
  BY <1>1, <1>20 DEF PostFails, locals, scan, history, TypeOK, ScanKeepsSteady,
       ScanFindsSteady, Scanning, AfterScan, ScanDone, Wanted, Info
<1>21. ASSUME NEW p \in Pids, ReportApprove(p) PROVE ScanKeepsSteady' /\ ScanFindsSteady'
  BY <1>1, <1>21 DEF ReportApprove, locals, scan, post, history, TypeOK, ScanKeepsSteady,
       ScanFindsSteady, Scanning, AfterScan, ScanDone, Wanted, Info
<1>22. ASSUME NEW p \in Pids, Cleanup(p) PROVE ScanKeepsSteady' /\ ScanFindsSteady'
  BY <1>1, <1>22 DEF Cleanup, Go, Forget, ForgetScan, TypeOK, ScanKeepsSteady,
       ScanFindsSteady, Scanning, AfterScan, ScanDone, Wanted, Info
<1>23. ASSUME NEW p \in Pids, Die(p) PROVE ScanKeepsSteady' /\ ScanFindsSteady'
  BY <1>1, <1>23 DEF Die, Forget, ForgetScan, TypeOK, ScanKeepsSteady, ScanFindsSteady,
       Scanning, AfterScan, ScanDone, Wanted, Info
<1>24. QED
  BY <1>2, <1>3, <1>4, <1>5, <1>6, <1>7, <1>8, <1>9, <1>10, <1>11, <1>12, <1>13, <1>14,
       <1>15, <1>16, <1>17, <1>18, <1>19, <1>20, <1>21, <1>22, <1>23 DEF Next, Step

\* Every step keeps the judgement of a scan fair.
LEMMA FairStep == ASSUME IInv, JudgesFairly, Next PROVE JudgesFairly'
<1>1. TypeOK /\ SteadyRegistered /\ JudgesFairly
  BY DEF IInv
<1>2. ASSUME NEW p \in Pids, Start(p) PROVE JudgesFairly'
  BY <1>1, <1>2 DEF Start, Go, scan, post, NoLongerGone, SteadyRegistered, Registered,
       TypeOK, JudgesFairly, Info
<1>3. ASSUME NEW p \in Pids, Foreign(p) PROVE JudgesFairly'
  BY <1>1, <1>3 DEF Foreign, Go, locals, scan, post, NoLongerGone, TypeOK, JudgesFairly,
       Info
<1>4. ASSUME NEW p \in Pids, ListDir(p) PROVE JudgesFairly'
  BY <1>1, <1>4 DEF ListDir, Go, locals, post, TypeOK, JudgesFairly, Info
<1>5. ASSUME NEW p \in Pids, ReadEntry(p) PROVE JudgesFairly'
  <2>1. PICK q \in todo[p] :
          \/ UNCHANGED <<pc, entry>>
          \/ /\ pc' = [pc EXCEPT ![p] = "judge"]
             /\ entry' = [entry EXCEPT ![p] = [name |-> q, data |-> file[q]]]
    BY <1>5 DEF ReadEntry
  <2>2. UNCHANGED <<url, steady>>
    BY <1>5 DEF ReadEntry, locals, history
  <2>3. CASE UNCHANGED <<pc, entry>>
    BY <1>1, <2>2, <2>3 DEF JudgesFairly, Info
  <2>4. CASE /\ pc' = [pc EXCEPT ![p] = "judge"]
             /\ entry' = [entry EXCEPT ![p] = [name |-> q, data |-> file[q]]]
    <3>1. q \in steady[p] => file[q] = Info(q)
      BY <1>1 DEF SteadyRegistered, Registered
    <3>2. pc'[p] = "judge" /\ entry'[p] = [name |-> q, data |-> file[q]]
      BY <1>1, <2>4 DEF TypeOK
    <3>3. \A r \in Pids \ {p} : pc'[r] = pc[r] /\ entry'[r] = entry[r]
      BY <1>1, <2>4 DEF TypeOK
    <3>4. QED
      BY <1>1, <2>2, <3>1, <3>2, <3>3 DEF JudgesFairly, Info
  <2>5. QED
    BY <2>1, <2>3, <2>4
<1>6. ASSUME NEW p \in Pids, Keep(p) PROVE JudgesFairly'
  BY <1>1, <1>6 DEF Keep, Go, locals, post, history, TypeOK, JudgesFairly, Info
<1>7. ASSUME NEW p \in Pids, Discard(p) PROVE JudgesFairly'
  BY <1>1, <1>7 DEF Discard, Go, locals, scan, post, history, SteadyRegistered,
       Registered, Alive, TypeOK, JudgesFairly, Info
<1>8. ASSUME NEW p \in Pids, Remove(p) PROVE JudgesFairly'
  BY <1>1, <1>8 DEF Remove, Go, locals, post, NoLongerSteady, TypeOK, JudgesFairly, Info
<1>9. ASSUME NEW p \in Pids, Refuse(p) PROVE JudgesFairly'
  BY <1>1, <1>9 DEF Refuse, locals, scan, post, history, ScanDone, TypeOK, JudgesFairly,
       Info
<1>10. ASSUME NEW p \in Pids, ProbeFree(p) PROVE JudgesFairly'
  BY <1>1, <1>10 DEF ProbeFree, locals, scan, post, history, ScanDone, TypeOK,
       JudgesFairly, Info
<1>11. ASSUME NEW p \in Pids, Proceed(p) PROVE JudgesFairly'
  BY <1>1, <1>11 DEF Proceed, scan, post, history, ScanDone, TypeOK, JudgesFairly, Info
<1>12. ASSUME NEW p \in Pids, Warn(p) PROVE JudgesFairly'
  BY <1>1, <1>12 DEF Warn, locals, scan, post, history, ScanDone, TypeOK, JudgesFairly,
       Info
<1>13. ASSUME NEW p \in Pids, OpenFile(p) PROVE JudgesFairly'
  BY <1>1, <1>13 DEF OpenFile, Go, locals, scan, post, history, TypeOK, JudgesFairly,
       Info
<1>14. ASSUME NEW p \in Pids, FillFile(p) PROVE JudgesFairly'
  BY <1>1, <1>14 DEF FillFile, Go, locals, scan, post, history, TypeOK, JudgesFairly,
       Info
<1>15. ASSUME NEW p \in Pids, WriteFails(p) PROVE JudgesFairly'
  BY <1>1, <1>15 DEF WriteFails, locals, scan, post, history, TypeOK, JudgesFairly, Info
<1>16. ASSUME NEW p \in Pids, NoTargets(p) PROVE JudgesFairly'
  BY <1>1, <1>16 DEF NoTargets, locals, scan, post, history, ScanDone, TypeOK,
       JudgesFairly, Info
<1>17. ASSUME NEW p \in Pids, PrintUrls(p) PROVE JudgesFairly'
  BY <1>1, <1>17 DEF PrintUrls, locals, scan, post, history, ScanDone, TypeOK,
       JudgesFairly, Info
<1>18. ASSUME NEW p \in Pids, BeginPosts(p) PROVE JudgesFairly'
  BY <1>1, <1>18 DEF BeginPosts, locals, scan, post, history, ScanDone, TypeOK,
       JudgesFairly, Info
<1>19. ASSUME NEW p \in Pids, PostOk(p) PROVE JudgesFairly'
  BY <1>1, <1>19 DEF PostOk, locals, scan, history, TypeOK, JudgesFairly, Info
<1>20. ASSUME NEW p \in Pids, PostFails(p) PROVE JudgesFairly'
  BY <1>1, <1>20 DEF PostFails, locals, scan, history, TypeOK, JudgesFairly, Info
<1>21. ASSUME NEW p \in Pids, ReportApprove(p) PROVE JudgesFairly'
  BY <1>1, <1>21 DEF ReportApprove, locals, scan, post, history, TypeOK, JudgesFairly,
       Info
<1>22. ASSUME NEW p \in Pids, Cleanup(p) PROVE JudgesFairly'
  BY <1>1, <1>22 DEF Cleanup, Go, Forget, ForgetScan, TypeOK, JudgesFairly, Info
<1>23. ASSUME NEW p \in Pids, Die(p) PROVE JudgesFairly'
  BY <1>1, <1>23 DEF Die, Forget, ForgetScan, TypeOK, JudgesFairly, Info
<1>24. QED
  BY <1>2, <1>3, <1>4, <1>5, <1>6, <1>7, <1>8, <1>9, <1>10, <1>11, <1>12, <1>13, <1>14,
       <1>15, <1>16, <1>17, <1>18, <1>19, <1>20, <1>21, <1>22, <1>23 DEF Next, Step

\* IInv is inductive.
THEOREM Invariance == Spec => []IInv
<1>1. IInv /\ [Next]_vars => IInv'
  <2>1. SUFFICES ASSUME IInv, [Next]_vars PROVE IInv'
    OBVIOUS
  <2>2. CASE Next
    BY <2>1, <2>2, TypedStep, StagedStep, SteadyStep, ScanStep, GoneStep, PostStep DEF IInv
  <2>3. CASE UNCHANGED vars
    <3>1. UNCHANGED <<file, pc, mode, stage, url, todo, entry, found, posted, failed,
                      approved, starts, steady, gone>>
      BY <2>3 DEF vars, locals, scan, post, history
    <3>2. TypeOK' /\ Staged' /\ Fresh' /\ FreeIsEmpty'
      BY <2>1, <3>1 DEF IInv, TypeOK, Staged, Fresh, FreeIsEmpty, Scanning
    <3>3. SteadyRegistered' /\ ScanKeepsSteady' /\ ScanFindsSteady'
      BY <2>1, <3>1 DEF IInv, SteadyRegistered, Registered, ScanKeepsSteady,
           ScanFindsSteady,
           AfterScan, ScanDone, Scanning, Wanted, Info
    <3>4. GoneStays' /\ ScanKeepsGone' /\ PostsApprove'
      BY <2>1, <3>1 DEF IInv, GoneStays, ScanKeepsGone, PostsApprove, Scanning, Alive
    <3>5. QED
      BY <3>2, <3>3, <3>4 DEF IInv
  <2>4. QED
    BY <2>1, <2>2, <2>3
<1>2. QED
  BY InitInv, <1>1, PTL DEF Spec

\* Every reachable state is type-correct.
THEOREM TypeCorrect == Spec => []TypeOK
<1>1. IInv => TypeOK
  BY DEF IInv
<1>2. QED
  BY <1>1, Invariance, PTL

\* liveSessions misses no session that was registered when it read the directory
\* and lives on, whatever other scans remove meanwhile.
THEOREM SteadyFound == Spec => []ScanFindsSteady
<1>1. IInv => ScanFindsSteady
  BY DEF IInv
<1>2. QED
  BY <1>1, Invariance, PTL

\* liveSessions leaves no file of a process that was gone when it read the
\* directory, unless the pid was taken again.
THEOREM GonePruned == Spec => []ScanPrunesGone
<1>1. IInv => ScanPrunesGone
  <2>1. SUFFICES ASSUME IInv, NEW p \in Pids, AfterScan(p), NEW q \in gone[p]
                 PROVE  file[q] = "none"
    BY DEF ScanPrunesGone
  <2>2. pc[p] \notin {"judge", "remove"} /\ (Scanning(p) => todo[p] = {})
    BY <2>1 DEF AfterScan, ScanDone, Scanning
  <2>3. QED
    BY <2>1, <2>2 DEF IInv, ScanKeepsGone
<1>2. QED
  BY <1>1, Invariance, PTL

\* --exclusive takes the directory for free only if no other session was
\* registered throughout its check (main.go).
THEOREM ExclusiveChecks == Spec => []ExclusiveSeesSteady
<1>1. IInv => ExclusiveSeesSteady
  BY DEF IInv, ExclusiveSeesSteady, Fresh, FreeIsEmpty
<1>2. QED
  BY <1>1, Invariance, PTL

\* --approve reports success only if each session with an approval UI that was
\* there all the time has approved the host (runApprove).
THEOREM ApprovesAll == Spec => []ApproveReachesSteady
<1>1. IInv => ApproveReachesSteady
  <2>1. SUFFICES ASSUME IInv, NEW p \in Pids, pc[p] = "approveOk",
                        NEW q \in steady[p], url[q]
                 PROVE  q \in approved
    BY DEF ApproveReachesSteady
  <2>2. q \in found[p]
    <3>1. AfterScan(p) /\ Wanted(p, Info(q))
      BY <2>1 DEF AfterScan, Wanted, Info
    <3>2. QED
      BY <2>1, <3>1 DEF IInv, ScanFindsSteady
  <2>3. q \in posted[p] /\ ~failed[p]
    BY <2>1, <2>2 DEF IInv, PostsApprove
  <2>4. QED
    BY <2>1, <2>3 DEF IInv, PostsApprove
<1>2. QED
  BY <1>1, Invariance, PTL

\* No scan removes the file of a session that was registered when it read the
\* directory and has been since, however the files of others come, are caught
\* half-written and go (liveSessions): a session loses its file only to scans
\* that were under way before it had written it.
THEOREM SteadySpared == Spec => []ScanSparesSteady
<1>1. Init => JudgesFairly
  BY DEF Init, JudgesFairly
<1>2. IInv /\ JudgesFairly /\ [Next]_vars => JudgesFairly'
  <2>1. SUFFICES ASSUME IInv, JudgesFairly, [Next]_vars PROVE JudgesFairly'
    OBVIOUS
  <2>2. CASE Next
    BY <2>1, <2>2, FairStep
  <2>3. CASE UNCHANGED vars
    BY <2>1, <2>3 DEF vars, locals, scan, history, JudgesFairly, Info
  <2>4. QED
    BY <2>1, <2>2, <2>3
<1>3. JudgesFairly => ScanSparesSteady
  BY DEF JudgesFairly, ScanSparesSteady
<1>4. QED
  BY <1>1, <1>2, <1>3, Invariance, PTL DEF Spec
=============================================================================
