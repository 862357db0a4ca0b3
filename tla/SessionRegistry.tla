--------------------------- MODULE SessionRegistry ---------------------------
(***************************************************************************)
(* The registry of runclaude sessions that share a working directory       *)
(* (session.go, and --exclusive and --approve in main.go): a session       *)
(* writes sessions/<pid>.json, every starting session scans the directory  *)
(* and removes the files of dead processes, --exclusive decides on such a  *)
(* scan and --approve posts to the sessions it finds.                      *)
(*                                                                         *)
(* A process is known by its pid, and the file is named after the pid and  *)
(* holds it.  A pid is free again when its process is gone, so a new       *)
(* session may find a file with its own pid.  There is no lock; a step is  *)
(* one system call that another process can see.  A write is open with     *)
(* O_TRUNC, then the data: between the two the file is empty.              *)
(***************************************************************************)
EXTENDS Naturals, FiniteSets

CONSTANTS
  Pids,       \* the process ids
  MaxStarts   \* bound: processes that start in a behaviour

ASSUME MaxStartsAssumption == MaxStarts \in Nat

VARIABLES
  file,     \* sessions/<pid>.json: see Contents
  pc,       \* per pid: the point its process reached, "off" if there is none
  mode,     \* per pid: --exclusive, or "approve" for --approve
  stage,    \* per pid: what its scan is for
  url,      \* per pid: the session serves an approval UI
  todo,     \* per pid: directory entries its scan has not looked at yet
  entry,    \* per pid: the entry it looks at, and what it read of it
  found,    \* per pid: the live sessions its scan collected
  posted,   \* per pid: the sessions its --approve has posted to
  failed,   \* per pid: a post failed
  approved, \* the sessions at which the host was approved
  starts,   \* bound: processes started so far
  steady,   \* history: sessions registered and alive throughout the scan
  gone      \* history: entries of no process throughout the scan

locals == <<mode, stage, url>>
scan == <<todo, entry, found>>
post == <<posted, failed, approved>>
history == <<starts, steady, gone>>
vars == <<file, pc, locals, scan, post, history>>

Modes == {"no", "yes", "probe", "approve"}
Stages == {"check", "register", "approve"}
Phases == {"off", "list", "next", "judge", "remove", "post", "open", "fill",
           "running", "foreign", "refused", "free", "printed",
           "approveOk", "approveFailed"}

\* What is found under a name: no file, an empty one, or the description of a
\* session without or with the URL of an approval UI.
Contents == {"none", "empty", "plain", "url"}

NoEntry(p) == [name |-> p, data |-> "none"]

TypeOK ==
  /\ file \in [Pids -> Contents]
  /\ pc \in [Pids -> Phases]
  /\ mode \in [Pids -> Modes]
  /\ stage \in [Pids -> Stages]
  /\ url \in [Pids -> BOOLEAN]
  /\ todo \in [Pids -> SUBSET Pids]
  /\ entry \in [Pids -> [name: Pids, data: Contents]]
  /\ found \in [Pids -> SUBSET Pids]
  /\ posted \in [Pids -> SUBSET Pids]
  /\ failed \in [Pids -> BOOLEAN]
  /\ approved \subseteq Pids
  /\ starts \in 0 .. MaxStarts
  /\ steady \in [Pids -> SUBSET Pids]
  /\ gone \in [Pids -> SUBSET Pids]

\* Nothing runs yet; sessions that die leave their files to those that follow.
Init ==
  /\ file = [p \in Pids |-> "none"]
  /\ pc = [p \in Pids |-> "off"]
  /\ mode = [p \in Pids |-> "no"]
  /\ stage = [p \in Pids |-> "register"]
  /\ url = [p \in Pids |-> FALSE]
  /\ todo = [p \in Pids |-> {}]
  /\ entry = [p \in Pids |-> NoEntry(p)]
  /\ found = [p \in Pids |-> {}]
  /\ posted = [p \in Pids |-> {}]
  /\ failed = [p \in Pids |-> FALSE]
  /\ approved = {}
  /\ starts = 0
  /\ steady = [p \in Pids |-> {}]
  /\ gone = [p \in Pids |-> {}]

Go(p, from, to) ==
  /\ pc[p] = from
  /\ pc' = [pc EXCEPT ![p] = to]

\* processAlive: a process with this pid exists.
Alive(p) == pc[p] # "off"

\* What currentSessionInfo of p marshals to.
Info(p) == IF url[p] THEN "url" ELSE "plain"

Registered(p) == pc[p] = "running" /\ file[p] = Info(p)

\* q leaves the steady sessions of every scan, or its pid is taken again.
NoLongerSteady(q) == steady' = [p \in Pids |-> steady[p] \ {q}]
NoLongerGone(q) == gone' = [p \in Pids |-> gone[p] \ {q}]

\* The scan of p, and all it collected, is over and forgotten.
ForgetScan(p) ==
  /\ todo' = [todo EXCEPT ![p] = {}]
  /\ entry' = [entry EXCEPT ![p] = NoEntry(p)]
  /\ found' = [found EXCEPT ![p] = {}]

(* Faulty variants of actions below, for the mutants of PROJECT.json. *)

\* An entry that vanished ends the scan.
ReadEntryGivesUp(p) ==
  /\ pc[p] = "next"
  /\ \E q \in todo[p] :
       IF file[q] = "none"
       THEN todo' = [todo EXCEPT ![p] = {}] /\ UNCHANGED <<pc, entry>>
       ELSE /\ todo' = [todo EXCEPT ![p] = @ \ {q}]
            /\ pc' = [pc EXCEPT ![p] = "judge"]
            /\ entry' = [entry EXCEPT ![p] = [name |-> q, data |-> file[q]]]
  /\ UNCHANGED <<file, locals, found, post, history>>

\* The scan collects what it read of the entry where it should collect the pid.
KeepWrongField(p) ==
  LET q == entry[p].name
  IN /\ Go(p, "judge", "next")
     /\ entry[p].data # "empty"
     /\ q = p \/ Alive(q)
     /\ found' = [found EXCEPT ![p] = IF q # p THEN @ \cup {entry[p].data} ELSE @]
     /\ entry' = [entry EXCEPT ![p] = NoEntry(p)]
     /\ UNCHANGED <<file, locals, todo, post, history>>

\* Only corrupt entries are removed.
DiscardKeepsStale(p) ==
  LET q == entry[p].name
  IN /\ pc[p] = "judge"
     /\ entry[p].data = "empty" \/ (q # p /\ ~Alive(q))
     /\ pc' = [pc EXCEPT ![p] =
                 IF entry[p].data = "empty" THEN "remove" ELSE "next"]
     /\ UNCHANGED <<file, locals, scan, post, history>>

\* The scanner counts itself among the sessions.
ProceedBesideOne(p) ==
  /\ pc[p] = "next" /\ todo[p] = {}
  /\ mode[p] = "yes" /\ stage[p] = "check"
  /\ Cardinality(found[p]) <= 1
  /\ pc' = [pc EXCEPT ![p] = "list"]
  /\ stage' = [stage EXCEPT ![p] = "register"]
  /\ UNCHANGED <<file, mode, url, scan, post, history>>

\* The report counts the posts and not the failures.
ReportAlwaysOk(p) ==
  /\ Go(p, "post", "approveOk")
  /\ found[p] \subseteq posted[p]
  /\ UNCHANGED <<file, locals, scan, post, history>>

-----------------------------------------------------------------------------
(* A process starts *)

\* main reads the flags: without --exclusive the first scan is registerSession's.
Start(p) ==
  /\ starts < MaxStarts /\ starts' = starts + 1
  /\ Go(p, "off", "list")
  /\ \E m \in Modes, u \in BOOLEAN :
       /\ mode' = [mode EXCEPT ![p] = m]
       /\ url' = [url EXCEPT ![p] = u]
       /\ stage' = [stage EXCEPT ![p] =
            CASE m = "no" -> "register" [] m = "approve" -> "approve"
              [] OTHER -> "check"]
  /\ NoLongerGone(p)
  /\ UNCHANGED <<file, scan, post, steady>>

\* Some other program gets the pid of a session that is gone.
Foreign(p) ==
  /\ starts < MaxStarts /\ starts' = starts + 1
  /\ Go(p, "off", "foreign")
  /\ NoLongerGone(p)
  /\ UNCHANGED <<file, locals, scan, post, steady>>

-----------------------------------------------------------------------------
(* liveSessions *)

\* os.ReadDir.
ListDir(p) ==
  /\ Go(p, "list", "next")
  /\ todo' = [todo EXCEPT ![p] = {q \in Pids : file[q] # "none"}]
  /\ found' = [found EXCEPT ![p] = {}]
  /\ steady' = [steady EXCEPT ![p] = {q \in Pids \ {p} : Registered(q)}]
  /\ gone' = [gone EXCEPT ![p] = {q \in Pids : ~Alive(q)}]
  /\ UNCHANGED <<file, locals, entry, post, starts>>

\* os.ReadFile of the next entry.
ReadEntry(p) ==
  /\ pc[p] = "next"
  /\ \E q \in todo[p] :
       /\ todo' = [todo EXCEPT ![p] = @ \ {q}]
       /\ IF file[q] = "none"
          THEN UNCHANGED <<pc, entry>>
          ELSE /\ pc' = [pc EXCEPT ![p] = "judge"]
               /\ entry' = [entry EXCEPT ![p] = [name |-> q, data |-> file[q]]]
  /\ UNCHANGED <<file, locals, found, post, history>>

\* --approve keeps only the sessions whose entry has an approval URL.
Wanted(p, data) == stage[p] = "approve" => data = "url"

\* The entry parses, and names this process or a live one.
Keep(p) ==
  LET q == entry[p].name
  IN /\ Go(p, "judge", "next")
     /\ entry[p].data # "empty"
     /\ q = p \/ Alive(q)
     /\ found' = [found EXCEPT ![p] =
                    IF q # p /\ Wanted(p, entry[p].data) THEN @ \cup {q} ELSE @]
     /\ entry' = [entry EXCEPT ![p] = NoEntry(p)]
     /\ UNCHANGED <<file, locals, todo, post, history>>

\* The entry does not parse, or names a process that is gone.
Discard(p) ==
  LET q == entry[p].name
  IN /\ Go(p, "judge", "remove")
     /\ entry[p].data = "empty" \/ (q # p /\ ~Alive(q))
     /\ UNCHANGED <<file, locals, scan, post, history>>

\* os.Remove by name: whatever the file holds by now.
Remove(p) ==
  LET q == entry[p].name
  IN /\ Go(p, "remove", "next")
     /\ file' = [file EXCEPT ![q] = "none"]
     /\ entry' = [entry EXCEPT ![p] = NoEntry(p)]
     /\ NoLongerSteady(q)
     /\ UNCHANGED <<locals, todo, found, post, starts, gone>>

ScanDone(p) == pc[p] = "next" /\ todo[p] = {}

-----------------------------------------------------------------------------
(* What the scan is for *)

\* --exclusive=probe or =yes with another session: exit with status 1.
Refuse(p) ==
  /\ ScanDone(p)
  /\ stage[p] = "check"
  /\ found[p] # {}
  /\ pc' = [pc EXCEPT ![p] = "refused"]
  /\ UNCHANGED <<file, locals, scan, post, history>>

\* --exclusive=probe: the directory is free.
ProbeFree(p) ==
  /\ ScanDone(p)
  /\ mode[p] = "probe"
  /\ found[p] = {}
  /\ pc' = [pc EXCEPT ![p] = "free"]
  /\ UNCHANGED <<file, locals, scan, post, history>>

\* --exclusive=yes: go on with the startup, up to registerSession.
Proceed(p) ==
  /\ ScanDone(p)
  /\ mode[p] = "yes" /\ stage[p] = "check"
  /\ found[p] = {}
  /\ pc' = [pc EXCEPT ![p] = "list"]
  /\ stage' = [stage EXCEPT ![p] = "register"]
  /\ UNCHANGED <<file, mode, url, scan, post, history>>

\* registerSession has warned about what it found and writes its own file.
Warn(p) ==
  /\ ScanDone(p)
  /\ stage[p] = "register"
  /\ pc' = [pc EXCEPT ![p] = "open"]
  /\ UNCHANGED <<file, locals, scan, post, history>>

OpenFile(p) ==
  /\ Go(p, "open", "fill")
  /\ file' = [file EXCEPT ![p] = "empty"]
  /\ UNCHANGED <<locals, scan, post, history>>

\* The data reaches the file if it still has its name.
FillFile(p) ==
  /\ Go(p, "fill", "running")
  /\ file' = [file EXCEPT ![p] = IF @ = "none" THEN "none" ELSE Info(p)]
  /\ UNCHANGED <<locals, scan, post, history>>

\* The directory cannot be made (then there is no scan either) or the file cannot
\* be written: the session runs unregistered.
WriteFails(p) ==
  /\ \/ pc[p] \in {"open", "fill"}
     \/ pc[p] = "list" /\ stage[p] = "register"
  /\ pc' = [pc EXCEPT ![p] = "running"]
  /\ UNCHANGED <<file, locals, scan, post, history>>

-----------------------------------------------------------------------------
(* runApprove *)

NoTargets(p) ==
  /\ ScanDone(p)
  /\ stage[p] = "approve"
  /\ found[p] = {}
  /\ pc' = [pc EXCEPT ![p] = "approveFailed"]
  /\ UNCHANGED <<file, locals, scan, post, history>>

BeginPosts(p) ==
  /\ ScanDone(p)
  /\ stage[p] = "approve"
  /\ found[p] # {}
  /\ pc' = [pc EXCEPT ![p] = "post"]
  /\ UNCHANGED <<file, locals, scan, post, history>>

\* --approve without a host prints the URLs.
PrintUrls(p) ==
  /\ ScanDone(p)
  /\ stage[p] = "approve"
  /\ found[p] # {}
  /\ pc' = [pc EXCEPT ![p] = "printed"]
  /\ UNCHANGED <<file, locals, scan, post, history>>

\* postApprove succeeds at a session that runs.
PostOk(p) ==
  /\ pc[p] = "post"
  /\ \E q \in found[p] \ posted[p] :
       /\ url[q] /\ pc[q] = "running"
       /\ posted' = [posted EXCEPT ![p] = @ \cup {q}]
       /\ approved' = approved \cup {q}
  /\ UNCHANGED <<file, pc, locals, scan, failed, history>>

\* It fails: the session is gone, or the connection breaks.
PostFails(p) ==
  /\ pc[p] = "post"
  /\ \E q \in found[p] \ posted[p] :
       posted' = [posted EXCEPT ![p] = @ \cup {q}]
  /\ failed' = [failed EXCEPT ![p] = TRUE]
  /\ UNCHANGED <<file, pc, locals, scan, approved, history>>

ReportApprove(p) ==
  /\ pc[p] = "post"
  /\ found[p] \subseteq posted[p]
  /\ pc' = [pc EXCEPT ![p] = IF failed[p] THEN "approveFailed" ELSE "approveOk"]
  /\ UNCHANGED <<file, locals, scan, post, history>>

-----------------------------------------------------------------------------
(* A process ends *)

Forget(p) ==
  /\ mode' = [mode EXCEPT ![p] = "no"]
  /\ stage' = [stage EXCEPT ![p] = "register"]
  /\ url' = [url EXCEPT ![p] = FALSE]
  /\ ForgetScan(p)
  /\ posted' = [posted EXCEPT ![p] = {}]
  /\ failed' = [failed EXCEPT ![p] = FALSE]
  /\ approved' = approved \ {p}
  /\ steady' = [[q \in Pids |-> steady[q] \ {p}] EXCEPT ![p] = {}]
  /\ gone' = [gone EXCEPT ![p] = {}]

\* The deferred cleanup removes the session's file.
Cleanup(p) ==
  /\ Go(p, "running", "off")
  /\ file' = [file EXCEPT ![p] = "none"]
  /\ Forget(p)
  /\ UNCHANGED starts

\* A signal, a crash or a regular exit before the session runs: no cleanup.
Die(p) ==
  /\ Alive(p)
  /\ pc' = [pc EXCEPT ![p] = "off"]
  /\ Forget(p)
  /\ UNCHANGED <<file, starts>>

Step(p) ==
  \/ Start(p) \/ Foreign(p)
  \/ ListDir(p) \/ ReadEntry(p) \/ Keep(p) \/ Discard(p) \/ Remove(p)
  \/ Refuse(p) \/ ProbeFree(p) \/ Proceed(p) \/ Warn(p)
  \/ OpenFile(p) \/ FillFile(p) \/ WriteFails(p)
  \/ NoTargets(p) \/ PrintUrls(p) \/ BeginPosts(p) \/ PostOk(p) \/ PostFails(p)
  \/ ReportApprove(p)
  \/ Cleanup(p) \/ Die(p)

Next == \E p \in Pids : Step(p)

Spec == Init /\ [][Next]_vars

-----------------------------------------------------------------------------
(* Properties *)

AfterScan(p) ==
  \/ ScanDone(p)
  \/ pc[p] \in {"post", "open", "fill", "running", "refused", "free", "printed",
                "approveOk", "approveFailed"}

\* A scan misses no session that was registered when it began and lives on,
\* whatever files come and go while it reads the directory; registerSession
\* warns about each of them.
ScanFindsSteady ==
  \A p \in Pids : AfterScan(p) =>
    {q \in steady[p] : Wanted(p, Info(q))} \subseteq found[p]

\* A scan leaves no entry behind of a process that was gone when it began, unless
\* the pid was taken again.
ScanPrunesGone ==
  \A p \in Pids : AfterScan(p) => \A q \in gone[p] : file[q] = "none"

\* --exclusive=yes goes on to start, and --exclusive=probe reports a free
\* directory, only if no session was registered throughout the check.
ExclusiveSeesSteady ==
  \A p \in Pids :
    \/ pc[p] = "free"
    \/ pc[p] = "list" /\ mode[p] = "yes" /\ stage[p] = "register"
    => steady[p] = {}

\* --approve that exits with status 0 has approved the host at every session
\* with an approval UI that was registered and alive all the time.
ApproveReachesSteady ==
  \A p \in Pids : pc[p] = "approveOk" =>
    {q \in steady[p] : url[q]} \subseteq approved

(* What the help text of --exclusive says and the code does not do *)

\* --exclusive=yes refuses to start if another session shares the directory; so
\* two sessions that both asked for it are never registered at once.
ExclusiveAlone ==
  \A p, q \in Pids :
    Registered(p) /\ Registered(q) /\ mode[p] = "yes" /\ mode[q] = "yes" => p = q
=============================================================================
