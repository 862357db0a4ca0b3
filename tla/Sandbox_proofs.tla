---------------------------- MODULE Sandbox_proofs ----------------------------
(***************************************************************************)
(* Proofs about the two halves of a sandbox's start-up.                    *)
(*                                                                         *)
(* Startup, for any exit codes and any capacity of init's channel: the     *)
(* argument follows the chain.  A process has not begun before its parent  *)
(* ran it and, undisturbed, has ended before its parent does; so a status  *)
(* that is passed on is about a command that is over.                      *)
(*                                                                         *)
(* MountPlan, for any number of sessions, any settings and any setup: what *)
(* deduplication keeps of a list of binds, and in which order (by          *)
(* induction on the list), decides which bind is seen at a path; which     *)
(* path of the host that leads to, and what the containment check excludes *)
(* of volumes that show a file a second time, decides what claude can      *)
(* reach.                                                                  *)
(***************************************************************************)
EXTENDS Startup, MountPlan, WellFoundedInduction, SequenceTheorems, TLAPS

-----------------------------------------------------------------------------
(* Startup *)

\* Who runs whom.
Chain ==
  /\ host = "prepared" => child = "none"
  /\ child \in {"none", "mounting"} => init = "none"
  /\ init \notin {"started", "running", "ended"} => command = "none"
  /\ command = "running" => init \in {"started", "running"}
  /\ ~disturbed /\ child = "ended" => init \in {"none", "ended"}
  /\ ~disturbed /\ host \in {"reaped", "ended"} => child \in {"none", "ended"}

\* The ways out of the sandbox are settled in the order of setupNetwork.
Settled ==
  restrict =>
    /\ host # "ended" => recv # "none"
    /\ init \in {"confined", "started", "running"} => policy
    /\ init \in {"sent", "confined", "started", "running"} =>
         \/ recv \in {"serving", "failed"}
         \/ recv = "waiting" /\ comm = "fds"
         \/ host # "running"

\* p's status says whether the command ended well.
Faithful(p) == status[p] = 0 <=> command = "ended" /\ status["command"] = 0

\* Undisturbed, so does every status that was passed on.
Statuses ==
  ~disturbed =>
    /\ init = "ended" => Faithful("init")
    /\ child = "ended" \/ host \in {"reaped", "ended"} => Faithful("child")
    /\ host = "ended" => Faithful("host")

IInv == TypeOK /\ Chain /\ Settled /\ Statuses

-----------------------------------------------------------------------------
\* The statuses the processes of the chain end with.
LEMMA StatusValues ==
  /\ None = -1 /\ SIGINT = 2 /\ SIGKILL = 9
  /\ None \in Status /\ 0 \in Status /\ 1 \in Status /\ 255 \in Status
  /\ \A c \in Codes : c \in Status
  /\ Died(SIGINT) = 258 /\ Died(SIGINT) \in Status
  /\ Died(SIGKILL) = 265 /\ Died(SIGKILL) \in Status
  /\ UnhandledSignal = 2 /\ UnhandledSignal \in Status
  BY CodesAssumption DEF None, SIGINT, SIGKILL, Died, Status, UnhandledSignal

\* What init makes of the command's status.
LEMMA InitStatus ==
  ASSUME NEW s \in Status
  PROVE  LET t == IF s <= 255 THEN s ELSE 128 + (s - 256)
         IN t \in Status /\ (t = 0 <=> s = 0)
  BY DEF Status, Died, SIGINT, SIGKILL, None

\* What childMain makes of init's.
LEMMA ChildStatus ==
  ASSUME NEW s \in Status
  PROVE  LET t == IF s <= 255 THEN s ELSE 255
         IN t \in Status /\ (t = 0 <=> s = 0)
  BY DEF Status, Died, SIGINT, SIGKILL, None

\* The initial state satisfies the invariant.
LEMMA InitInv == Init => IInv
<1>1. SUFFICES ASSUME Init PROVE IInv
  OBVIOUS
<1>2. TypeOK
  <2>1. status \in [{"host", "child", "init", "command"} -> Status]
    BY <1>1, StatusValues DEF Init
  <2>2. sigs \in 0 .. Capacity
    BY <1>1, CapacityAssumption DEF Init
  <2>3. QED
    BY <1>1, <2>1, <2>2 DEF Init, TypeOK
<1>3. Chain /\ Settled /\ Statuses
  BY <1>1 DEF Init, Chain, Settled, Statuses
<1>4. QED
  BY <1>2, <1>3 DEF IInv

\* Every step keeps the types.
LEMMA TypedStep == ASSUME IInv, Next PROVE TypeOK'
<1>1. TypeOK
  BY DEF IInv
<1> USE DEF TypeOK, upper, sandbox, signals
<1>2. CASE RunChild
  BY <1>1, <1>2, StatusValues DEF RunChild, End
<1>3. CASE Receive
  BY <1>1, <1>3 DEF Receive
<1>4. CASE HostReaps
  BY <1>1, <1>4 DEF HostReaps
<1>5. CASE HostExits
  BY <1>1, <1>5, StatusValues DEF HostExits, End
<1>6. CASE RunInit
  BY <1>1, <1>6 DEF RunInit
<1>7. CASE ChildFails
  BY <1>1, <1>7, StatusValues DEF ChildFails, End
<1>8. CASE ChildReaps
  BY <1>1, <1>8, ChildStatus DEF ChildReaps, End
<1>9. CASE Listen
  BY <1>1, <1>9 DEF Listen
<1>10. CASE sendFds
  BY <1>1, <1>10 DEF sendFds
<1>11. CASE InstallPolicy
  BY <1>1, <1>11 DEF InstallPolicy
<1>12. CASE InitFails
  BY <1>1, <1>12, StatusValues DEF InitFails, EndInit, End
<1>13. CASE StartCommand
  BY <1>1, <1>13 DEF StartCommand
<1>14. CASE ReapOrphan
  BY <1>1, <1>14 DEF ReapOrphan
<1>15. CASE ReapCommand
  <2> DEFINE t == IF status["command"] <= 255 THEN status["command"]
                  ELSE 128 + (status["command"] - 256)
  <2>1. t \in Status /\ (t = 0 <=> status["command"] = 0)
    BY <1>1, InitStatus
  <2>2. EndInit(t)
    BY <1>15 DEF ReapCommand
  <2>3. status' = [status EXCEPT !["init"] = t] /\ command = "ended"
    BY <1>15, <2>2 DEF ReapCommand, EndInit, End
  <2> HIDE DEF t
  <2>4. QED
    BY <1>1, <1>15, <2>1, <2>2, <2>3 DEF ReapCommand, EndInit
<1>16. CASE ForwardSignal
  BY <1>1, <1>16, CapacityAssumption DEF ForwardSignal
<1>17. CASE CommandEnds
  BY <1>1, <1>17, StatusValues DEF CommandEnds, End
<1>18. CASE LeavesOrphan
  BY <1>1, <1>18 DEF LeavesOrphan
<1>19. CASE OrphanEnds
  BY <1>1, <1>19 DEF OrphanEnds
<1>20. CASE SignalInit
  BY <1>1, <1>20, CapacityAssumption DEF SignalInit, Notify
<1>21. CASE Interrupt
  <2>1. status' \in [{"host", "child", "init", "command"} -> Status]
    BY <1>1, <1>21, StatusValues DEF Interrupt
  <2>2. sigs' \in 0 .. Capacity /\ sigint' \in BOOLEAN
    <3>1. CASE Notify /\ sigint' = TRUE
      <4>1. sigs' \in 0 .. Capacity
        BY <1>1, <3>1, CapacityAssumption DEF Notify
      <4>2. QED
        BY <3>1, <4>1
    <3>2. CASE UNCHANGED signals
      <4>1. sigs' = sigs /\ sigint' = sigint
        BY <3>2
      <4>2. QED
        BY <1>1, <4>1
    <3>3. QED
      BY <1>21, <3>1, <3>2 DEF Interrupt
  <2>3. QED
    BY <1>1, <1>21, <2>1, <2>2 DEF Interrupt
<1>22. CASE KillChild
  BY <1>1, <1>22, StatusValues DEF KillChild, End
<1>23. CASE KillInit
  <2>1. PICK t \in Status : EndInit(t)
    BY <1>23, StatusValues DEF KillInit
  <2>2. status' \in [{"host", "child", "init", "command"} -> Status]
    BY <1>1, <2>1, StatusValues DEF EndInit, End
  <2>3. init' = "ended" /\ orphan' = "none" /\ command' \in {"none", "running", "ended"}
    BY <1>1, <2>1 DEF EndInit
  <2>4. QED
    BY <1>1, <1>23, <2>2, <2>3 DEF KillInit
<1>24. CASE HandleSignals
  BY <1>1, <1>24 DEF HandleSignals
<1>25. QED
  BY <1>2, <1>3, <1>4, <1>5, <1>6, <1>7, <1>8, <1>9, <1>10, <1>11, <1>12, <1>13,
     <1>14, <1>15, <1>16, <1>17, <1>18, <1>19, <1>20, <1>21, <1>22, <1>23, <1>24 DEF Next,
     Progress

\* Every step keeps the order of the chain.
LEMMA ChainStep == ASSUME IInv, Next PROVE Chain'
<1>1. TypeOK /\ Chain
  BY DEF IInv
<1> USE DEF TypeOK, Chain, upper, sandbox, signals
<1>2. CASE RunChild
  BY <1>1, <1>2 DEF RunChild
<1>3. CASE Receive
  BY <1>1, <1>3 DEF Receive
<1>4. CASE HostReaps
  BY <1>1, <1>4 DEF HostReaps
<1>5. CASE HostExits
  BY <1>1, <1>5 DEF HostExits
<1>6. CASE RunInit
  BY <1>1, <1>6 DEF RunInit
<1>7. CASE ChildFails
  BY <1>1, <1>7 DEF ChildFails
<1>8. CASE ChildReaps
  BY <1>1, <1>8 DEF ChildReaps
<1>9. CASE Listen
  BY <1>1, <1>9 DEF Listen
<1>10. CASE sendFds
  BY <1>1, <1>10 DEF sendFds
<1>11. CASE InstallPolicy
  BY <1>1, <1>11 DEF InstallPolicy
<1>12. CASE InitFails
  BY <1>1, <1>12 DEF InitFails, EndInit
<1>13. CASE StartCommand
  BY <1>1, <1>13 DEF StartCommand
<1>14. CASE ReapOrphan
  BY <1>1, <1>14 DEF ReapOrphan
<1>15. CASE ReapCommand
  BY <1>1, <1>15 DEF ReapCommand, EndInit
<1>16. CASE ForwardSignal
  BY <1>1, <1>16 DEF ForwardSignal
<1>17. CASE CommandEnds
  BY <1>1, <1>17 DEF CommandEnds
<1>18. CASE LeavesOrphan
  BY <1>1, <1>18 DEF LeavesOrphan
<1>19. CASE OrphanEnds
  BY <1>1, <1>19 DEF OrphanEnds
<1>20. CASE SignalInit
  BY <1>1, <1>20 DEF SignalInit
<1>21. CASE Interrupt
  BY <1>1, <1>21 DEF Interrupt
<1>22. CASE KillChild
  BY <1>1, <1>22 DEF KillChild
<1>23. CASE KillInit
  BY <1>1, <1>23 DEF KillInit, EndInit
<1>24. CASE HandleSignals
  BY <1>1, <1>24 DEF HandleSignals
<1>25. QED
  BY <1>2, <1>3, <1>4, <1>5, <1>6, <1>7, <1>8, <1>9, <1>10, <1>11, <1>12, <1>13,
     <1>14, <1>15, <1>16, <1>17, <1>18, <1>19, <1>20, <1>21, <1>22, <1>23, <1>24 DEF Next,
     Progress

\* Every step keeps the order of setupNetwork.
LEMMA SettledStep == ASSUME IInv, Next PROVE Settled'
<1>1. TypeOK /\ Chain /\ Settled
  BY DEF IInv
<1> USE DEF TypeOK, Settled, upper, sandbox, signals
<1>2. CASE RunChild
  BY <1>1, <1>2 DEF RunChild, Chain
<1>3. CASE Receive
  BY <1>1, <1>3 DEF Receive
<1>4. CASE HostReaps
  BY <1>1, <1>4 DEF HostReaps
<1>5. CASE HostExits
  BY <1>1, <1>5 DEF HostExits
<1>6. CASE RunInit
  BY <1>1, <1>6 DEF RunInit
<1>7. CASE ChildFails
  BY <1>1, <1>7 DEF ChildFails
<1>8. CASE ChildReaps
  BY <1>1, <1>8 DEF ChildReaps
<1>9. CASE Listen
  BY <1>1, <1>9 DEF Listen
<1>10. CASE sendFds
  BY <1>1, <1>10 DEF sendFds
<1>11. CASE InstallPolicy
  BY <1>1, <1>11 DEF InstallPolicy
<1>12. CASE InitFails
  BY <1>1, <1>12 DEF InitFails, EndInit
<1>13. CASE StartCommand
  BY <1>1, <1>13 DEF StartCommand
<1>14. CASE ReapOrphan
  BY <1>1, <1>14 DEF ReapOrphan
<1>15. CASE ReapCommand
  BY <1>1, <1>15 DEF ReapCommand, EndInit
<1>16. CASE ForwardSignal
  BY <1>1, <1>16 DEF ForwardSignal
<1>17. CASE CommandEnds
  BY <1>1, <1>17 DEF CommandEnds
<1>18. CASE LeavesOrphan
  BY <1>1, <1>18 DEF LeavesOrphan
<1>19. CASE OrphanEnds
  BY <1>1, <1>19 DEF OrphanEnds
<1>20. CASE SignalInit
  BY <1>1, <1>20 DEF SignalInit
<1>21. CASE Interrupt
  BY <1>1, <1>21 DEF Interrupt
<1>22. CASE KillChild
  BY <1>1, <1>22 DEF KillChild
<1>23. CASE KillInit
  BY <1>1, <1>23 DEF KillInit, EndInit
<1>24. CASE HandleSignals
  BY <1>1, <1>24 DEF HandleSignals
<1>25. QED
  BY <1>2, <1>3, <1>4, <1>5, <1>6, <1>7, <1>8, <1>9, <1>10, <1>11, <1>12, <1>13,
     <1>14, <1>15, <1>16, <1>17, <1>18, <1>19, <1>20, <1>21, <1>22, <1>23, <1>24 DEF Next,
     Progress

\* Every step passes on what it was told.
LEMMA StatusesStep == ASSUME IInv, Next PROVE Statuses'
<1>1. TypeOK /\ Chain /\ Statuses
  BY DEF IInv
<1> USE DEF TypeOK, Chain, Statuses, Faithful, upper, sandbox, signals
<1>2. CASE RunChild
  BY <1>1, <1>2, StatusValues DEF RunChild, End
<1>3. CASE Receive
  BY <1>1, <1>3 DEF Receive
<1>4. CASE HostReaps
  BY <1>1, <1>4 DEF HostReaps
<1>5. CASE HostExits
  BY <1>1, <1>5, StatusValues DEF HostExits, End
<1>6. CASE RunInit
  BY <1>1, <1>6 DEF RunInit
<1>7. CASE ChildFails
  BY <1>1, <1>7, StatusValues DEF ChildFails, End
<1>8. CASE ChildReaps
  BY <1>1, <1>8, ChildStatus DEF ChildReaps, End
<1>9. CASE Listen
  BY <1>1, <1>9 DEF Listen
<1>10. CASE sendFds
  BY <1>1, <1>10 DEF sendFds
<1>11. CASE InstallPolicy
  BY <1>1, <1>11 DEF InstallPolicy
<1>12. CASE InitFails
  BY <1>1, <1>12, StatusValues DEF InitFails, EndInit, End
<1>13. CASE StartCommand
  BY <1>1, <1>13 DEF StartCommand
<1>14. CASE ReapOrphan
  BY <1>1, <1>14 DEF ReapOrphan
<1>15. CASE ReapCommand
  <2> DEFINE t == IF status["command"] <= 255 THEN status["command"]
                  ELSE 128 + (status["command"] - 256)
  <2>1. t \in Status /\ (t = 0 <=> status["command"] = 0)
    BY <1>1, InitStatus
  <2>2. EndInit(t)
    BY <1>15 DEF ReapCommand
  <2>3. status' = [status EXCEPT !["init"] = t] /\ command = "ended"
    BY <1>15, <2>2 DEF ReapCommand, EndInit, End
  <2> HIDE DEF t
  <2>4. QED
    BY <1>1, <1>15, <2>1, <2>2, <2>3 DEF ReapCommand, EndInit
<1>16. CASE ForwardSignal
  BY <1>1, <1>16 DEF ForwardSignal
<1>17. CASE CommandEnds
  BY <1>1, <1>17, StatusValues DEF CommandEnds, End
<1>18. CASE LeavesOrphan
  BY <1>1, <1>18 DEF LeavesOrphan
<1>19. CASE OrphanEnds
  BY <1>1, <1>19 DEF OrphanEnds
<1>20. CASE SignalInit
  BY <1>1, <1>20 DEF SignalInit
<1>21. CASE Interrupt
  BY <1>1, <1>21 DEF Interrupt
<1>22. CASE KillChild
  BY <1>1, <1>22, StatusValues DEF KillChild, End
<1>23. CASE KillInit
  BY <1>1, <1>23, StatusValues DEF KillInit, EndInit, End
<1>24. CASE HandleSignals
  BY <1>1, <1>24 DEF HandleSignals
<1>25. QED
  BY <1>2, <1>3, <1>4, <1>5, <1>6, <1>7, <1>8, <1>9, <1>10, <1>11, <1>12, <1>13,
     <1>14, <1>15, <1>16, <1>17, <1>18, <1>19, <1>20, <1>21, <1>22, <1>23, <1>24 DEF Next,
     Progress

\* IInv is inductive.
THEOREM Invariance == Spec => []IInv
<1>1. IInv /\ [Next]_vars => IInv'
  <2>1. SUFFICES ASSUME IInv, [Next]_vars PROVE IInv'
    OBVIOUS
  <2>2. CASE Next
    BY <2>1, <2>2, TypedStep, ChainStep, SettledStep, StatusesStep DEF IInv
  <2>3. CASE UNCHANGED vars
    BY <2>1, <2>3 DEF vars, upper, sandbox, signals, IInv, TypeOK, Chain, Settled,
                      Statuses, Faithful
  <2>4. QED
    BY <2>1, <2>2, <2>3
<1>2. QED
  BY InitInv, <1>1, PTL DEF Spec

\* Every reachable state is type-correct.
THEOREM TypeCorrect == Spec => []TypeOK
<1>1. IInv => TypeOK
  BY DEF IInv
<1>2. QED
  BY <1>1, Invariance, PTL

\* A restricted command runs only with its policy and its proxy settled
\* (setupNetwork, recvFds).
THEOREM Confined == Spec => []CommandConfined
<1>1. IInv => CommandConfined
  BY DEF IInv, Chain, Settled, CommandConfined
<1>2. QED
  BY <1>1, Invariance, PTL

\* Undisturbed, the host ends with 0 exactly if the command did (runAsInit,
\* childMain, mainErr).
THEOREM StatusTrue == Spec => []HostStatusTrue
<1>1. IInv => HostStatusTrue
  BY DEF IInv, Statuses, Faithful, HostStatusTrue
<1>2. QED
  BY <1>1, Invariance, PTL

\* Undisturbed, init does not end under a running command (runAsInit).
THEOREM NotCutShort == Spec => CommandNotCutShort
<1>1. IInv /\ [Next]_vars =>
      [command = "running" /\ init # "ended" /\ init' = "ended" => disturbed']_vars
  <2>1. SUFFICES ASSUME IInv, Next, command = "running", init # "ended", init' = "ended"
                 PROVE  disturbed'
    OBVIOUS
  <2>2. init \in {"started", "running"}
    BY <2>1 DEF IInv, Chain
  <2>3. QED
    BY <2>1, <2>2 DEF Next, Progress, upper, sandbox, signals, RunChild, Receive, HostReaps,
       HostExits, RunInit, ChildFails, ChildReaps, Listen, sendFds, InstallPolicy, InitFails,
       StartCommand, HandleSignals, ReapOrphan, ReapCommand, ForwardSignal, CommandEnds,
       LeavesOrphan, OrphanEnds, SignalInit, Interrupt, KillChild, KillInit
<1>2. QED
  BY <1>1, Invariance, PTL DEF Spec, CommandNotCutShort

-----------------------------------------------------------------------------
(* MountPlan: the inductive invariant *)

\* Where only a session without a merged tree is, and whose settings it has by then
\* given an overlay if they need one.
Unmerged == {"user", "user write", "project", "project write"}
Handled(s) == CASE session[s].at \in {"project", "project write"} -> {"user"}
                [] session[s].at \in {"planned", "running"} -> Files
                [] OTHER -> {}

\* How far a session is, and what follows from that.
Course(s) ==
  /\ session[s].at \in {"start", "loaded", "listed"} \cup Unmerged => ~session[s].merge
  /\ session[s].at \in {"merge", "merging"} => session[s].merge
  /\ session[s].merge \/ session[s].at \in {"start", "loaded", "listed"} =>
       session[s].overlay = {}
  /\ session[s].merge /\ session[s].at \in {"stub", "planned", "running"} => tree[s].present
  /\ session[s].merge /\ session[s].at \in {"planned", "running"} =>
       tree[s].stub \/ UsesBedrock(session[s].env)
  /\ ~session[s].merge =>
       \A f \in Handled(s) : HasAWS(session[s].read[f]) => f \in session[s].overlay
  /\ session[s].at = "running" => ~Leaks(s)

\* What runclaude wrote itself never has an AWS key.
Scrubbed ==
  /\ \A f \in Files : ~HasAWS(copy[f])
  /\ \A s \in Sessions : ~HasAWS(tree[s].settings)

PlanInv == PlanTypeOK /\ Scrubbed /\ \A s \in Sessions : Course(s)

-----------------------------------------------------------------------------
(* Induction, and sequences *)

\* The library states induction for an operator; this states it for a set.
LEMMA LeastExists ==
  ASSUME NEW T \in SUBSET Nat, T # {}
  PROVE  \E n \in T : \A m \in T : n <= m
<1> DEFINE R == {ss \in Nat \X Nat : ss[1] < ss[2]}
<1>1. IsWellFoundedOn(R, Nat)
  BY NatLessThanWellFounded DEF OpToRel
<1>2. PICK n \in T : \A m \in T : <<m, n>> \notin R
  <2> HIDE DEF R
  <2> QED BY <1>1, WFMin
<1>3. \A m \in T : ~(m < n)
  BY <1>2
<1> QED BY <1>3

\* And so induction itself, for a set.
LEMMA NatSetInduction ==
  ASSUME NEW T \in SUBSET Nat, 0 \in T, \A n \in T : n + 1 \in T
  PROVE  T = Nat
<1> SUFFICES ASSUME Nat \ T # {} PROVE FALSE
  OBVIOUS
<1>1. PICK n \in Nat \ T : \A m \in Nat \ T : n <= m
  BY LeastExists
<1>2. n # 0 /\ n - 1 \in T
  BY <1>1
<1> QED BY <1>1, <1>2

\* The elements of a concatenation.
LEMMA ConcatIs ==
  ASSUME NEW X, NEW s \in Seq(X), NEW t \in Seq(X), NEW u, u = s \o t
  PROVE  /\ u \in Seq(X) /\ Len(u) = Len(s) + Len(t)
         /\ \A i \in 1 .. Len(s) : u[i] = s[i]
         /\ \A i \in 1 .. Len(t) : u[Len(s) + i] = t[i]
OBVIOUS

-----------------------------------------------------------------------------
(* Paths *)

\* The names that paths are made of.  (The provers know of no literal that it is in
\* STRING, so those of this program are listed.)
Literals == {"home", "u", ".claude", "src", ".cache", "settings.json", ".credentials.json",
             "projects", "cache", "main.go", ".claude.json", "claude", "settings-0.json",
             "settings-1.json", "tmp", "run", "usr", "srv", "dev", "cwd", "claude-merged",
             "tmpfs"}
Name == STRING \cup Literals \cup Sessions
Names == Seq(Name)
Binding == [path: Names, dest: Names, tmpfs: BOOLEAN]
Bindings == Seq(Binding)

\* A directory is above a path that begins with its names.
LEMMA PrefixIff ==
  ASSUME NEW s \in Names, NEW t \in Names
  PROVE  pathContains(s, t) <=> Len(s) <= Len(t) /\ \A i \in 1 .. Len(s) : s[i] = t[i]
<1>1. Len(s) \in Nat /\ Len(t) \in Nat
  BY DEF Names
<1>2. SubSeq(s, 1, Len(s)) = [i \in 1 .. Len(s) |-> s[i]]
  BY <1>1 DEF Names
<1>3. Len(s) <= Len(t) => SubSeq(t, 1, Len(s)) = [i \in 1 .. Len(s) |-> t[i]]
  BY <1>1 DEF Names
<1>4. pathContains(s, t)
        <=> Len(s) <= Len(t) /\ SubSeq(s, 1, Len(s)) = SubSeq(t, 1, Len(s))
  BY DEF pathContains, IsPrefix
<1> QED BY <1>1, <1>2, <1>3, <1>4

\* What is above a directory is above what is in it.
LEMMA PrefixTrans ==
  ASSUME NEW s \in Names, NEW t \in Names, NEW u \in Names,
         pathContains(s, t), pathContains(t, u)
  PROVE  pathContains(s, u)
<1>1. Len(s) \in Nat /\ Len(t) \in Nat /\ Len(u) \in Nat
  BY DEF Names
<1> QED BY <1>1, PrefixIff

\* Of two directories above the same file one is above the other.
LEMMA PrefixBoth ==
  ASSUME NEW s \in Names, NEW t \in Names, NEW u \in Names,
         pathContains(s, u), pathContains(t, u)
  PROVE  pathContains(s, t) \/ pathContains(t, s)
<1>1. Len(s) \in Nat /\ Len(t) \in Nat /\ Len(u) \in Nat
  BY DEF Names
<1> QED BY <1>1, PrefixIff

\* Nothing else is above a path of its own length.
LEMMA PrefixEqual ==
  ASSUME NEW s \in Names, NEW t \in Names, pathContains(s, t), Len(t) <= Len(s)
  PROVE  s = t
<1>1. Len(s) \in Nat /\ Len(t) \in Nat
  BY DEF Names
<1>2. Len(s) = Len(t) /\ \A i \in 1 .. Len(s) : s[i] = t[i]
  BY <1>1, PrefixIff
<1> QED BY <1>2 DEF Names

\* A path that goes on from another.
LEMMA PrefixConcat ==
  ASSUME NEW s \in Names, NEW u \in Names
  PROVE  s \o u \in Names /\ pathContains(s, s \o u)
<1>1. Len(s) \in Nat /\ Len(u) \in Nat
  BY DEF Names
<1>2. PICK t : t = s \o u
  OBVIOUS
<1>3. t \in Names /\ Len(s) <= Len(t) /\ \A i \in 1 .. Len(s) : s[i] = t[i]
  BY <1>1, <1>2 DEF Names
<1> QED BY <1>2, <1>3, PrefixIff

\* Every path is above itself.
LEMMA PrefixSelf == ASSUME NEW s \in Names PROVE pathContains(s, s)
<1>1. Len(s) \in Nat
  BY DEF Names
<1> QED BY <1>1, PrefixIff

-----------------------------------------------------------------------------
(* Dedup *)

\* D is what deduplication makes of the first n binds: of each destination the
\* last one, in the order in which the destinations are first met.
Deduped(B, n, D) ==
  /\ D \in Bindings
  /\ \A k \in DOMAIN D : \E i \in 1 .. n :
       D[k] = B[i] /\ \A j \in i + 1 .. n : B[j].dest # B[i].dest
  /\ \A i \in 1 .. n : \E k \in DOMAIN D : D[k].dest = B[i].dest
  /\ \A k, l \in DOMAIN D : k < l => \E i \in 1 .. n :
       B[i].dest = D[k].dest /\ \A j \in 1 .. i : B[j].dest # D[l].dest

\* One round of deduplication: the bind goes where its destination was first met, or
\* to the end.
LEMMA PlaceDedupes ==
  ASSUME NEW B \in Bindings, NEW n \in Nat, n + 1 <= Len(B), NEW D, Deduped(B, n, D)
  PROVE  Deduped(B, n + 1, Place(D, B[n + 1]))
<1> DEFINE b == B[n + 1]
<1>0. /\ b \in Binding /\ Len(B) \in Nat /\ D \in Seq(Binding)
      /\ DOMAIN D = 1 .. Len(D) /\ Len(D) \in Nat
      /\ 1 .. n + 1 = (1 .. n) \cup {n + 1}
  BY DEF Deduped, Bindings
<1>1. CASE \E k \in DOMAIN D : D[k].dest = b.dest
  <2>1. PICK E : E = [k \in DOMAIN D |-> IF D[k].dest = b.dest THEN b ELSE D[k]]
    OBVIOUS
  <2>2. Place(D, b) = E
    BY <1>1, <2>1 DEF Place
  <2>3. E \in Seq(Binding) /\ DOMAIN E = DOMAIN D
    <3>1. \A k \in 1 .. Len(D) : E[k] \in Binding
      BY <1>0, <2>1
    <3> QED BY <1>0, <2>1, <3>1
  <2>4. \A k \in DOMAIN D : /\ E[k].dest = D[k].dest
                            /\ D[k].dest = b.dest => E[k] = b
                            /\ D[k].dest # b.dest => E[k] = D[k]
    BY <2>1
  <2>5. ASSUME NEW k \in DOMAIN E
        PROVE  \E i \in 1 .. n + 1 :
                 E[k] = B[i] /\ \A j \in i + 1 .. n + 1 : B[j].dest # B[i].dest
    <3>1. CASE D[k].dest = b.dest
      <4>1. E[k] = B[n + 1] /\ n + 1 \in 1 .. n + 1 /\ (n + 1) + 1 .. n + 1 = {}
        BY <2>3, <2>4, <3>1
      <4> QED BY <4>1
    <3>2. CASE D[k].dest # b.dest
      <4>1. PICK i \in 1 .. n : D[k] = B[i] /\ \A j \in i + 1 .. n : B[j].dest # B[i].dest
        BY <2>3 DEF Deduped
      <4>2. i \in 1 .. n + 1 /\ E[k] = B[i]
        BY <2>3, <2>4, <3>2, <4>1
      <4>3. \A j \in i + 1 .. n + 1 : j \in i + 1 .. n \/ j = n + 1
        OBVIOUS
      <4> QED BY <3>2, <4>1, <4>2, <4>3
    <3> QED BY <3>1, <3>2
  <2>6. ASSUME NEW i \in 1 .. n + 1 PROVE \E k \in DOMAIN E : E[k].dest = B[i].dest
    <3>1. PICK k \in DOMAIN D : D[k].dest = B[i].dest
      <4>1. CASE i = n + 1
        BY <1>1, <4>1
      <4>2. CASE i \in 1 .. n
        BY <4>2 DEF Deduped
      <4> QED BY <1>0, <4>1, <4>2
    <3> QED BY <2>3, <2>4, <3>1
  <2>7. ASSUME NEW k \in DOMAIN E, NEW l \in DOMAIN E, k < l
        PROVE  \E i \in 1 .. n + 1 :
                 B[i].dest = E[k].dest /\ \A j \in 1 .. i : B[j].dest # E[l].dest
    <3>1. k \in DOMAIN D /\ l \in DOMAIN D
      BY <2>3
    <3>2. PICK i \in 1 .. n :
            B[i].dest = D[k].dest /\ \A j \in 1 .. i : B[j].dest # D[l].dest
      BY <2>7, <3>1 DEF Deduped
    <3>3. i \in 1 .. n + 1 /\ E[k].dest = D[k].dest /\ E[l].dest = D[l].dest
      BY <2>4, <3>1
    <3> QED BY <3>2, <3>3
  <2>8. Deduped(B, n + 1, E)
    BY <2>3, <2>5, <2>6, <2>7 DEF Deduped, Bindings
  <2> QED BY <2>2, <2>8
<1>2. CASE \A k \in DOMAIN D : D[k].dest # b.dest
  <2>1. PICK E : E = Append(D, b)
    OBVIOUS
  <2>2. Place(D, b) = E
    BY <1>2, <2>1 DEF Place
  <2>3. /\ E \in Seq(Binding) /\ DOMAIN E = 1 .. Len(D) + 1
        /\ E[Len(D) + 1] = b /\ \A k \in DOMAIN D : E[k] = D[k]
    BY <1>0, <2>1
  <2>4. ASSUME NEW k \in DOMAIN E
        PROVE  \E i \in 1 .. n + 1 :
                 E[k] = B[i] /\ \A j \in i + 1 .. n + 1 : B[j].dest # B[i].dest
    <3>1. CASE k = Len(D) + 1
      <4>1. E[k] = B[n + 1] /\ n + 1 \in 1 .. n + 1 /\ (n + 1) + 1 .. n + 1 = {}
        BY <2>3, <3>1
      <4> QED BY <4>1
    <3>2. CASE k \in DOMAIN D
      <4>1. PICK i \in 1 .. n : D[k] = B[i] /\ \A j \in i + 1 .. n : B[j].dest # B[i].dest
        BY <3>2 DEF Deduped
      <4>2. i \in 1 .. n + 1 /\ E[k] = B[i] /\ B[n + 1].dest # B[i].dest
        BY <1>2, <2>3, <3>2, <4>1
      <4>3. \A j \in i + 1 .. n + 1 : j \in i + 1 .. n \/ j = n + 1
        OBVIOUS
      <4> QED BY <4>1, <4>2, <4>3
    <3>3. k \in DOMAIN D \/ k = Len(D) + 1
      BY <1>0, <2>3
    <3> QED BY <3>1, <3>2, <3>3
  <2>5. ASSUME NEW i \in 1 .. n + 1 PROVE \E k \in DOMAIN E : E[k].dest = B[i].dest
    <3>1. CASE i = n + 1
      BY <1>0, <2>3, <3>1
    <3>2. CASE i \in 1 .. n
      <4>1. PICK k \in DOMAIN D : D[k].dest = B[i].dest
        BY <3>2 DEF Deduped
      <4>2. k \in DOMAIN E /\ E[k] = D[k]
        BY <1>0, <2>3
      <4> QED BY <4>1, <4>2
    <3> QED BY <1>0, <3>1, <3>2
  <2>6. ASSUME NEW k \in DOMAIN E, NEW l \in DOMAIN E, k < l
        PROVE  \E i \in 1 .. n + 1 :
                 B[i].dest = E[k].dest /\ \A j \in 1 .. i : B[j].dest # E[l].dest
    <3>0. k \in DOMAIN D
      BY <1>0, <2>3, <2>6
    <3>1. CASE l \in DOMAIN D
      <4>1. PICK i \in 1 .. n :
              B[i].dest = D[k].dest /\ \A j \in 1 .. i : B[j].dest # D[l].dest
        BY <2>6, <3>0, <3>1 DEF Deduped
      <4>2. i \in 1 .. n + 1 /\ E[k] = D[k] /\ E[l] = D[l]
        BY <2>3, <3>0, <3>1
      <4> QED BY <4>1, <4>2
    <3>2. CASE l = Len(D) + 1
      <4>1. PICK i \in 1 .. n : D[k] = B[i]
        BY <3>0 DEF Deduped
      <4>2. ASSUME NEW j \in 1 .. i PROVE B[j].dest # b.dest
        <5>1. j \in 1 .. n
          OBVIOUS
        <5>2. PICK m \in DOMAIN D : D[m].dest = B[j].dest
          BY <5>1 DEF Deduped
        <5> QED BY <1>2, <5>2
      <4>3. i \in 1 .. n + 1 /\ B[i].dest = E[k].dest
        BY <1>0, <2>3, <3>0, <4>1
      <4>4. E[l].dest = b.dest
        BY <2>3, <3>2
      <4>5. \A j \in 1 .. i : B[j].dest # E[l].dest
        BY ONLY <4>2, <4>4
      <4> QED BY ONLY <4>3, <4>5
    <3>3. l \in DOMAIN D \/ l = Len(D) + 1
      BY <1>0, <2>3
    <3> QED BY <3>1, <3>2, <3>3
  <2>7. Deduped(B, n + 1, E)
    BY <2>3, <2>4, <2>5, <2>6 DEF Deduped, Bindings
  <2> QED BY <2>2, <2>7
<1> QED BY <1>1, <1>2

\* One round of Dedup.
Kept(g, B, n) == IF n = 0 THEN <<>> ELSE Place(g[n - 1], B[n])

\* The recursion of Dedup has a solution.
LEMMA KeptExists ==
  ASSUME NEW B \in Bindings
  PROVE  \E g : g = [n \in 0 .. Len(B) |-> Kept(g, B, n)]
<1> DEFINE Has(m) == \E g : g = [n \in 0 .. m |-> Kept(g, B, n)]
<1> DEFINE T == {m \in Nat : Has(m)}
<1>1. 0 \in T
  <2>1. PICK g : g = [n \in 0 .. 0 |-> <<>>]
    OBVIOUS
  <2>2. g = [n \in 0 .. 0 |-> Kept(g, B, n)]
    BY <2>1 DEF Kept
  <2> QED BY <2>2
<1>2. ASSUME NEW m \in T PROVE m + 1 \in T
  <2>1. PICK g : g = [n \in 0 .. m |-> Kept(g, B, n)]
    OBVIOUS
  <2>2. PICK h : h = [n \in 0 .. m + 1 |-> IF n = m + 1 THEN Place(g[m], B[m + 1]) ELSE g[n]]
    OBVIOUS
  <2>3. ASSUME NEW n \in 0 .. m + 1 PROVE h[n] = Kept(h, B, n)
    <3>1. CASE n = m + 1
      BY <2>2, <3>1 DEF Kept
    <3>2. CASE n \in 0 .. m
      <4>1. h[n] = Kept(g, B, n)
        BY <2>1, <2>2, <3>2
      <4>2. n # 0 => h[n - 1] = g[n - 1]
        BY <2>2, <3>2
      <4> QED BY <4>1, <4>2 DEF Kept
    <3> QED BY <3>1, <3>2
  <2>4. h = [n \in 0 .. m + 1 |-> Kept(h, B, n)]
    BY <2>2, <2>3
  <2> QED BY <2>4
<1> HIDE DEF T
<1>3. T = Nat
  BY <1>1, <1>2, NatSetInduction DEF T
<1>4. Len(B) \in T
  BY <1>3 DEF Bindings
<1> QED BY <1>4 DEF T

\* Dedup keeps, of any list of binds, the last one of each destination, in the order in
\* which the destinations are first met (childMain).
THEOREM DedupDedupes == ASSUME NEW B \in Bindings PROVE Deduped(B, Len(B), Dedup(B))
<1> DEFINE kept == CHOOSE g : g = [n \in 0 .. Len(B) |-> Kept(g, B, n)]
<1>1. kept = [n \in 0 .. Len(B) |-> Kept(kept, B, n)]
  BY KeptExists
<1>2. Dedup(B) = kept[Len(B)]
  BY DEF Dedup, Kept
<1> HIDE DEF kept
<1> DEFINE T == {n \in Nat : n <= Len(B) => Deduped(B, n, kept[n])}
<1>0. Len(B) \in Nat
  BY DEF Bindings
<1>3. 0 \in T
  <2>1. PICK D : D = <<>>
    OBVIOUS
  <2>2. kept[0] = D
    BY <1>0, <1>1, <2>1 DEF Kept
  <2>3. D \in Bindings /\ DOMAIN D = {} /\ 1 .. 0 = {}
    BY <2>1 DEF Bindings
  <2>4. Deduped(B, 0, D)
    BY <2>3 DEF Deduped
  <2> QED BY <2>2, <2>4
<1>4. ASSUME NEW n \in T PROVE n + 1 \in T
  <2>1. CASE n + 1 <= Len(B)
    <3>1. kept[n + 1] = Place(kept[n], B[n + 1])
      BY <1>0, <1>1, <2>1 DEF Kept
    <3>2. Deduped(B, n, kept[n])
      BY <1>0, <2>1
    <3> QED BY <2>1, <3>1, <3>2, PlaceDedupes
  <2>2. CASE ~(n + 1 <= Len(B))
    BY <2>2
  <2> QED BY <2>1, <2>2
<1> HIDE DEF T
<1>5. T = Nat
  BY <1>3, <1>4, NatSetInduction DEF T
<1> QED BY <1>0, <1>2, <1>5 DEF T

-----------------------------------------------------------------------------
(* What the mounts show *)

\* The mount that decides what p shows.
Top(M, p, i) ==
  /\ i \in DOMAIN M /\ pathContains(M[i].dest, p)
  /\ \A j \in DOMAIN M : pathContains(M[j].dest, p) => j <= i

\* The mount that decides is the one that Shown finds.
LEMMA ShownAt ==
  ASSUME NEW M \in Bindings, NEW p, NEW i, Top(M, p, i)
  PROVE  Shown(M, p) = Through(M[i], p)
<1> DEFINE C == Covering(M, p)
<1> DEFINE top == CHOOSE k \in C : \A j \in C : j <= k
<1>1. i \in C /\ (\A j \in C : j <= i) /\ \A j \in C : j \in Nat
  BY DEF Top, Covering, Bindings
<1>2. top \in C /\ \A j \in C : j <= top
  <2> HIDE DEF C
  <2> QED BY <1>1
<1>3. top = i
  <2> HIDE DEF C, top
  <2> QED BY <1>1, <1>2
<1> QED BY <1>1, <1>3 DEF Shown

\* Where something is shown, some mount decides.
LEMMA TopExists ==
  ASSUME NEW M \in Bindings, NEW p, Shown(M, p) # Nothing
  PROVE  \E i \in DOMAIN M : Top(M, p, i) /\ Shown(M, p) = Through(M[i], p)
<1> DEFINE T == {n \in Nat : n <= Len(M) /\ Len(M) - n \in Covering(M, p)}
<1>0. Len(M) \in Nat /\ DOMAIN M = 1 .. Len(M)
  BY DEF Bindings
<1>1. PICK h \in DOMAIN M : h \in Covering(M, p)
  BY DEF Shown, Covering
<1>2. Len(M) - h \in T
  BY <1>0, <1>1
<1>3. PICK n \in T : \A m \in T : n <= m
  BY <1>2, LeastExists
<1>4. PICK i : i = Len(M) - n
  OBVIOUS
<1>5. i \in DOMAIN M /\ i \in Covering(M, p)
  BY <1>3, <1>4 DEF Covering
<1>6. ASSUME NEW j \in DOMAIN M, pathContains(M[j].dest, p) PROVE j <= i
  <2>1. Len(M) - j \in T
    BY <1>0, <1>6 DEF Covering
  <2> QED BY <1>0, <1>3, <1>4, <2>1
<1>7. Top(M, p, i)
  BY <1>5, <1>6 DEF Top, Covering
<1> QED BY <1>5, <1>7, ShownAt

\* The places of this program.
LEMMA Places ==
  /\ Home \in Names /\ Cwd \in Names /\ Claude \in Names /\ ClaudeJson \in Names
  /\ Credentials \in Names /\ Projects \in Names /\ Cache \in Names /\ Source \in Names
  /\ \A x \in Literals : InCache(x) \in Names /\ <<x>> \in Names
  /\ <<>> \in Names
  /\ \A s \in Sessions : MergedDir(s) \in Names
  /\ Settings["user"] \in Names /\ Settings["project"] \in Names
  /\ SanitizedCopy["user"] \in Names /\ SanitizedCopy["project"] \in Names
<1>1. \A x \in Literals \cup Sessions : x \in Name
  BY DEF Name
<1>2. Home \in Names /\ Cwd \in Names /\ Claude \in Names /\ ClaudeJson \in Names
  BY <1>1 DEF Names, Literals, Home, Cwd, Claude, ClaudeJson
<1>3. Credentials \in Names /\ Projects \in Names /\ Cache \in Names /\ Source \in Names
  BY <1>1 DEF Names, Literals, Credentials, Projects, Cache, Source
<1>4. \A x \in Literals : InCache(x) \in Names /\ <<x>> \in Names
  BY <1>1 DEF Names, Literals, InCache
<1>5. ASSUME NEW s \in Sessions PROVE MergedDir(s) \in Names
  <2>1. s \in Name /\ "tmp" \in Name /\ "claude-merged" \in Name
    BY <1>1 DEF Literals
  <2> QED BY <2>1 DEF Names, MergedDir
<1>6. Settings["user"] \in Names /\ Settings["project"] \in Names
  BY <1>1 DEF Names, Literals, Settings
<1>7. SanitizedCopy["user"] \in Names /\ SanitizedCopy["project"] \in Names
  BY <1>1 DEF Names, Literals, SanitizedCopy
<1> QED BY <1>2, <1>3, <1>4, <1>5, <1>6, <1>7 DEF Names

\* Binds between paths.
LEMMA BindIs ==
  ASSUME NEW q \in Names, NEW d \in Names
  PROVE  Bind(q, d) \in Binding /\ Tmpfs(d) \in Binding
BY Places DEF Bind, Tmpfs, Binding

\* The mounts that childMain makes before the binds, one by one.
LEMMA RootMountsAre ==
  /\ RootMounts \in Bindings /\ Len(RootMounts) = 6
  /\ RootMounts[1] = Bind(<<"usr">>, <<"usr">>)
  /\ RootMounts[2] = Bind(<<"srv">>, <<"srv">>)
  /\ RootMounts[3] = Tmpfs(<<"dev">>)
  /\ RootMounts[4] = Bind(InCache("home"), Home)
  /\ RootMounts[5] = Bind(InCache("tmp"), <<"tmp">>)
  /\ RootMounts[6] = Bind(InCache("run"), <<"run">>)
<1>1. \A x \in {"home", "tmp", "run"} : InCache(x) \in Names
  BY Places DEF Literals
<1>2. \A x \in {"usr", "srv", "dev", "tmp", "run"} : <<x>> \in Names
  BY Places DEF Literals
<1>3. Home \in Names
  BY Places
<1>4. Bind(<<"usr">>, <<"usr">>) \in Binding /\ Bind(<<"srv">>, <<"srv">>) \in Binding
  BY <1>2, BindIs
<1>5. Tmpfs(<<"dev">>) \in Binding /\ Bind(InCache("home"), Home) \in Binding
  BY <1>1, <1>2, <1>3, BindIs
<1>6. /\ Bind(InCache("tmp"), <<"tmp">>) \in Binding
      /\ Bind(InCache("run"), <<"run">>) \in Binding
  BY <1>1, <1>2, BindIs
<1> QED BY <1>4, <1>5, <1>6 DEF RootMounts, Bindings

\* All mounts: those of the root, then the deduplicated binds.
LEMMA MountsAre ==
  ASSUME NEW B \in Bindings
  PROVE  LET M == RootMounts \o Dedup(B) IN
         /\ Dedup(B) \in Bindings /\ M \in Bindings
         /\ DOMAIN M = 1 .. 6 + Len(Dedup(B))
         /\ \A i \in 1 .. 6 : M[i] = RootMounts[i]
         /\ \A k \in DOMAIN Dedup(B) : 6 + k \in DOMAIN M /\ M[6 + k] = Dedup(B)[k]
<1>1. PICK R : R = RootMounts
  OBVIOUS
<1>2. PICK D : D = Dedup(B)
  OBVIOUS
<1>3. R \in Bindings /\ Len(R) = 6 /\ D \in Bindings
  BY <1>1, <1>2, RootMountsAre, DedupDedupes DEF Deduped
<1>4. PICK M : M = R \o D
  OBVIOUS
<1>5. /\ M \in Seq(Binding) /\ Len(M) = Len(R) + Len(D)
      /\ \A i \in 1 .. Len(R) : M[i] = R[i]
      /\ \A k \in 1 .. Len(D) : M[Len(R) + k] = D[k]
  <2>1. R \in Seq(Binding) /\ D \in Seq(Binding)
    BY <1>3 DEF Bindings
  <2> QED BY ONLY <1>4, <2>1, ConcatIs
<1>6. /\ M \in Bindings /\ DOMAIN M = 1 .. 6 + Len(D)
      /\ \A i \in 1 .. 6 : M[i] = R[i]
      /\ \A k \in DOMAIN D : 6 + k \in DOMAIN M /\ M[6 + k] = D[k]
  <2>1. Len(D) \in Nat /\ DOMAIN D = 1 .. Len(D) /\ DOMAIN M = 1 .. Len(M)
    BY <1>3, <1>5 DEF Bindings
  <2>2. Len(M) = 6 + Len(D)
    BY <1>3, <1>5
  <2>3. \A k \in 1 .. Len(D) : M[6 + k] = D[k] /\ 6 + k \in 1 .. 6 + Len(D)
    BY <1>3, <1>5, <2>1
  <2>4. \A i \in 1 .. 6 : M[i] = R[i]
    BY <1>3, <1>5
  <2> QED BY <1>5, <2>1, <2>2, <2>3, <2>4 DEF Bindings
<1> QED BY <1>1, <1>2, <1>3, <1>4, <1>6

\* Each of them was a mount of the root or is one of the binds.
LEMMA MountedFrom ==
  ASSUME NEW B \in Bindings, NEW i \in DOMAIN (RootMounts \o Dedup(B))
  PROVE  (RootMounts \o Dedup(B))[i] \in Range(RootMounts) \cup Range(B)
<1>1. PICK M : M = RootMounts \o Dedup(B)
  OBVIOUS
<1>2. PICK D : D = Dedup(B)
  OBVIOUS
<1>3. /\ D \in Bindings /\ DOMAIN M = 1 .. 6 + Len(D)
      /\ \A j \in 1 .. 6 : M[j] = RootMounts[j]
      /\ \A k \in DOMAIN D : M[6 + k] = D[k]
  BY <1>1, <1>2, MountsAre
<1>4. i \in DOMAIN M /\ Len(D) \in Nat /\ DOMAIN D = 1 .. Len(D)
  BY <1>1, <1>3 DEF Bindings
<1>5. CASE i \in 1 .. 6
  <2>1. i \in DOMAIN RootMounts
    BY <1>5, RootMountsAre DEF Bindings
  <2> QED BY <1>1, <1>3, <1>5, <2>1 DEF Range
<1>6. CASE i \notin 1 .. 6
  <2>1. PICK k : k = i - 6
    OBVIOUS
  <2>2. k \in DOMAIN D /\ M[i] = D[k]
    BY <1>3, <1>4, <1>6, <2>1
  <2>3. PICK j \in 1 .. Len(B) : D[k] = B[j]
    BY <1>2, <2>2, DedupDedupes DEF Deduped
  <2>4. j \in DOMAIN B
    BY DEF Bindings
  <2> QED BY <1>1, <2>2, <2>3, <2>4 DEF Range
<1> QED BY <1>5, <1>6

\* None of the first a binds is at d, of the others none is at another place above
\* p, and one past the first c is at d.
Parted(B, a, c, d, p) ==
  /\ B \in Bindings /\ a \in Nat /\ c \in Nat /\ a <= c
  /\ pathContains(d, p)
  /\ \A i \in 1 .. a : B[i].dest # d
  /\ \A i \in a + 1 .. Len(B) : pathContains(B[i].dest, p) => B[i].dest = d
  /\ \E h \in c + 1 .. Len(B) : B[h].dest = d

\* Then the last of these shows at p.
LEMMA UppermostIndex ==
  ASSUME NEW B, NEW a, NEW c, NEW d, NEW p, Parted(B, a, c, d, p)
  PROVE  \E i \in c + 1 .. Len(B) :
           B[i].dest = d /\ Shown(RootMounts \o Dedup(B), p) = Through(B[i], p)
<1> /\ B \in Bindings /\ a \in Nat /\ c \in Nat /\ a <= c /\ pathContains(d, p)
    /\ \A i \in 1 .. a : B[i].dest # d
    /\ \A i \in a + 1 .. Len(B) : pathContains(B[i].dest, p) => B[i].dest = d
  BY DEF Parted
<1>0. PICK h \in c + 1 .. Len(B) : B[h].dest = d
  BY DEF Parted
<1>1. PICK M : M = RootMounts \o Dedup(B)
  OBVIOUS
<1>2. PICK D : D = Dedup(B)
  OBVIOUS
<1>3. /\ D \in Bindings /\ M \in Bindings /\ DOMAIN M = 1 .. 6 + Len(D)
      /\ \A k \in DOMAIN D : 6 + k \in DOMAIN M /\ M[6 + k] = D[k]
  BY <1>1, <1>2, MountsAre
<1>4. Deduped(B, Len(B), D)
  BY <1>2, DedupDedupes
<1>5. Len(B) \in Nat /\ DOMAIN B = 1 .. Len(B) /\ Len(D) \in Nat /\ DOMAIN D = 1 .. Len(D)
  BY <1>3 DEF Bindings
<1>6. h \in 1 .. Len(B)
  BY <1>5
<1>7. PICK k \in DOMAIN D : D[k].dest = d
  BY <1>0, <1>4, <1>6 DEF Deduped
<1>8. PICK i \in 1 .. Len(B) : D[k] = B[i] /\ \A j \in i + 1 .. Len(B) : B[j].dest # B[i].dest
  BY <1>4 DEF Deduped
<1>9. i \in c + 1 .. Len(B) /\ B[i].dest = d
  <2>1. B[i].dest = d
    BY <1>7, <1>8
  <2>2. ~(h \in i + 1 .. Len(B))
    BY <1>0, <1>8, <2>1
  <2> QED BY <1>5, <1>6, <2>1, <2>2
<1>10. ASSUME NEW l \in DOMAIN D, pathContains(D[l].dest, p) PROVE l <= k
  <2>1. SUFFICES ASSUME k < l PROVE FALSE
    BY <1>5
  <2>2. PICK g \in 1 .. Len(B) :
          B[g].dest = D[k].dest /\ \A j \in 1 .. g : B[j].dest # D[l].dest
    BY <1>4, <2>1 DEF Deduped
  <2>3. g > a
    BY <1>7, <2>2
  <2>4. PICK m \in 1 .. Len(B) : D[l] = B[m]
    BY <1>4 DEF Deduped
  <2>5. D[l].dest # d
    BY <1>5, <1>7, <2>2
  <2>6. m <= a
    BY <1>5, <1>10, <2>4, <2>5
  <2>7. m \in 1 .. g
    BY <2>3, <2>6
  <2> QED BY <2>2, <2>4, <2>7
<1>11. Top(M, p, 6 + k)
  <2>1. 6 + k \in DOMAIN M /\ pathContains(M[6 + k].dest, p)
    BY <1>3, <1>7
  <2>2. ASSUME NEW j \in DOMAIN M, pathContains(M[j].dest, p) PROVE j <= 6 + k
    <3>1. CASE j <= 6
      BY <1>3, <1>5, <3>1
    <3>2. CASE j > 6
      <4>1. j - 6 \in DOMAIN D /\ 6 + (j - 6) = j
        BY <1>3, <1>5, <3>2
      <4>2. M[j] = D[j - 6]
        BY <1>3, <4>1
      <4> QED BY <1>5, <1>10, <2>2, <4>1, <4>2
    <3> QED BY <1>3, <1>5, <3>1, <3>2
  <2> QED BY <2>1, <2>2 DEF Top
<1>12. Shown(M, p) = Through(B[i], p)
  BY <1>3, <1>8, <1>11, ShownAt
<1> QED BY <1>1, <1>9, <1>12

\* The same of three lists of binds: B is made of S, U and V, d decides at p, and
\* the last bind there is in V.
Split(B, S, U, V, d, p) ==
  /\ S \in Bindings /\ U \in Bindings /\ V \in Bindings /\ B = (S \o U) \o V
  /\ pathContains(d, p)
  /\ \A b \in Range(S) : b.dest # d
  /\ \A b \in Range(U) : pathContains(b.dest, p) => b.dest = d
  /\ \A b \in Range(V) : pathContains(b.dest, p) => b.dest = d
  /\ \E b \in Range(V) : b.dest = d

\* Of such a list, a bind of V at d is what is seen at p.
LEMMA Uppermost ==
  ASSUME NEW B, NEW S, NEW U, NEW V, NEW d, NEW p, Split(B, S, U, V, d, p)
  PROVE  \E b \in Range(V) :
           b.dest = d /\ Shown(RootMounts \o Dedup(B), p) = Through(b, p)
<1> /\ S \in Bindings /\ U \in Bindings /\ V \in Bindings /\ pathContains(d, p)
    /\ \A b \in Range(S) : b.dest # d
    /\ \A b \in Range(U) : pathContains(b.dest, p) => b.dest = d
    /\ \A b \in Range(V) : pathContains(b.dest, p) => b.dest = d
    /\ \E b \in Range(V) : b.dest = d
  BY DEF Split
<1>1. B = (S \o U) \o V
  BY DEF Split
<1>2. PICK a : a = Len(S)
  OBVIOUS
<1>3. PICK c : c = Len(S) + Len(U)
  OBVIOUS
<1>4. /\ a \in Nat /\ c \in Nat /\ Len(V) \in Nat /\ a <= c
      /\ DOMAIN S = 1 .. a /\ DOMAIN U = 1 .. c - a /\ DOMAIN V = 1 .. Len(V)
  BY <1>2, <1>3 DEF Bindings
<1>5. /\ B \in Bindings /\ Len(B) = c + Len(V)
      /\ \A i \in 1 .. a : B[i] = S[i]
      /\ \A i \in a + 1 .. c : B[i] = U[i - a]
      /\ \A i \in c + 1 .. Len(B) : B[i] = V[i - c]
  BY <1>1, <1>2, <1>3 DEF Bindings
<1>6. \A i \in 1 .. a : B[i].dest # d
  BY <1>4, <1>5 DEF Range
<1>7. ASSUME NEW i \in a + 1 .. Len(B), pathContains(B[i].dest, p) PROVE B[i].dest = d
  <2>1. CASE i <= c
    <3>1. i - a \in DOMAIN U /\ B[i] = U[i - a]
      BY <1>4, <1>5, <2>1
    <3> QED BY <1>7, <3>1 DEF Range
  <2>2. CASE i > c
    <3>1. i - c \in DOMAIN V /\ B[i] = V[i - c]
      BY <1>4, <1>5, <2>2
    <3> QED BY <1>7, <3>1 DEF Range
  <2> QED BY <1>4, <2>1, <2>2
<1>8. PICK g \in DOMAIN V : V[g].dest = d
  BY DEF Range
<1>9. PICK h : h = c + g
  OBVIOUS
<1>10. h \in c + 1 .. Len(B) /\ B[h].dest = d
  BY <1>4, <1>5, <1>8, <1>9
<1>11. PICK i \in c + 1 .. Len(B) :
         B[i].dest = d /\ Shown(RootMounts \o Dedup(B), p) = Through(B[i], p)
  <2>1. Parted(B, a, c, d, p)
    BY <1>4, <1>5, <1>6, <1>7, <1>10 DEF Parted
  <2> QED BY <2>1, UppermostIndex
<1>12. i - c \in DOMAIN V /\ B[i] = V[i - c]
  BY <1>4, <1>5
<1> QED BY <1>1, <1>11, <1>12 DEF Range

\* Lists of binds can be joined in any order.
LEMMA Associates ==
  ASSUME NEW x \in Seq(Binding), NEW y \in Seq(Binding), NEW z \in Seq(Binding)
  PROVE  (x \o y) \o z = x \o (y \o z)
BY ConcatAssociative

\* Other ways to see five lists of binds as three.
Rejoined(F, A, C, K, O) ==
  LET B == (((F \o A) \o C) \o K) \o O IN
  /\ B \in Bindings
  /\ Range(B) = Range(F) \cup Range(A) \cup Range(C) \cup Range(K) \cup Range(O)
  /\ B = (F \o A) \o ((C \o K) \o O)
  /\ B = ((F \o A) \o (C \o K)) \o O
  /\ B = (F \o ((A \o C) \o K)) \o O
  /\ B = (((F \o A) \o C) \o <<>>) \o (K \o O)
  /\ B = ((F \o A) \o <<>>) \o ((C \o K) \o O)

\* Any five lists of binds can be seen so.
LEMMA Joined ==
  ASSUME NEW F \in Bindings, NEW A \in Bindings, NEW C \in Bindings, NEW K \in Bindings,
         NEW O \in Bindings
  PROVE  Rejoined(F, A, C, K, O)
<1>1. PICK FA : FA = F \o A
  OBVIOUS
<1>2. PICK CK : CK = C \o K
  OBVIOUS
<1>3. PICK KO : KO = K \o O
  OBVIOUS
<1>4. PICK FAC : FAC = FA \o C
  OBVIOUS
<1>5. PICK AC : AC = A \o C
  OBVIOUS
<1>6. PICK FACK : FACK = FAC \o K
  OBVIOUS
<1>7. /\ F \in Seq(Binding) /\ A \in Seq(Binding) /\ C \in Seq(Binding)
      /\ K \in Seq(Binding) /\ O \in Seq(Binding)
  BY DEF Bindings
<1>8. FA \in Seq(Binding) /\ CK \in Seq(Binding) /\ KO \in Seq(Binding) /\ AC \in Seq(Binding)
  BY ONLY <1>1, <1>2, <1>3, <1>5, <1>7, ConcatIs
<1>9. FAC \in Seq(Binding)
  BY ONLY <1>4, <1>7, <1>8, ConcatIs
<1>10. FACK \in Seq(Binding)
  BY ONLY <1>6, <1>7, <1>9, ConcatIs
<1>11. PICK B : B = FACK \o O
  OBVIOUS
<1>12. B \in Seq(Binding)
  BY ONLY <1>7, <1>10, <1>11, ConcatIs
<1>13. Range(B) = Range(F) \cup Range(A) \cup Range(C) \cup Range(K) \cup Range(O)
  <2>1. Range(FA) = Range(F) \cup Range(A)
    BY ONLY <1>1, <1>7, RangeConcatenation
  <2>2. Range(FAC) = Range(FA) \cup Range(C)
    BY ONLY <1>4, <1>7, <1>8, RangeConcatenation
  <2>3. Range(FACK) = Range(FAC) \cup Range(K)
    BY ONLY <1>6, <1>7, <1>9, RangeConcatenation
  <2>4. Range(B) = Range(FACK) \cup Range(O)
    BY ONLY <1>7, <1>10, <1>11, RangeConcatenation
  <2> QED BY ONLY <2>1, <2>2, <2>3, <2>4
<1>14. FACK = FA \o CK
  <2>0. FA \in Seq(Binding) /\ C \in Seq(Binding) /\ K \in Seq(Binding)
    BY ONLY <1>7, <1>8
  <2>1. (FA \o C) \o K = FA \o (C \o K)
    BY ONLY <2>0, Associates
  <2> QED BY ONLY <1>2, <1>4, <1>6, <2>1
<1>15. B = FA \o (CK \o O)
  <2>0. FA \in Seq(Binding) /\ CK \in Seq(Binding) /\ O \in Seq(Binding)
    BY ONLY <1>7, <1>8
  <2>1. (FA \o CK) \o O = FA \o (CK \o O)
    BY ONLY <2>0, Associates
  <2> QED BY ONLY <1>11, <1>14, <2>1
<1>16. FACK = F \o (AC \o K)
  <2>1. PICK ACK : ACK = AC \o K
    OBVIOUS
  <2>2. ACK = A \o CK
    <3>0. A \in Seq(Binding) /\ C \in Seq(Binding) /\ K \in Seq(Binding)
      BY ONLY <1>7
    <3>1. (A \o C) \o K = A \o (C \o K)
      BY ONLY <3>0, Associates
    <3> QED BY <1>2, <1>5, <2>1, <3>1
  <2>3. FACK = F \o ACK
    <3>0. F \in Seq(Binding) /\ A \in Seq(Binding) /\ CK \in Seq(Binding)
      BY <1>7, <1>8
    <3>1. (F \o A) \o CK = F \o (A \o CK)
      BY ONLY <3>0, Associates
    <3> QED BY <1>1, <1>14, <2>2, <3>1
  <2> QED BY <2>1, <2>3
<1>17. B = FAC \o KO
  <2>1. (FAC \o K) \o O = FAC \o (K \o O)
    BY ONLY <1>7, <1>9, Associates
  <2> QED BY <1>3, <1>6, <1>11, <2>1
<1>18. FAC \o <<>> = FAC /\ FA \o <<>> = FA
  BY ONLY <1>8, <1>9, ConcatEmptySeq
<1> QED
  BY <1>1, <1>2, <1>3, <1>4, <1>5, <1>6, <1>11, <1>12, <1>13, <1>14, <1>15, <1>16, <1>17, <1>18
  DEF Rejoined, Bindings

\* The segments of a session's binds.
LEMMA FrontIs ==
  <<CwdBind>> \in Bindings /\ \A b \in Range(<<CwdBind>>) : b = CwdBind
<1>1. InCache("cwd") \in Names /\ Cwd \in Names
  BY Places DEF Literals
<1>2. CwdBind \in Binding
  BY <1>1, BindIs DEF CwdBind
<1> QED BY <1>2 DEF Bindings, Range

\* What is asked for is mounted where it is.
LEMMA AskedIs ==
  ASSUME PlanTypeOK
  PROVE  /\ Asked \in Bindings
         /\ \A b \in Range(Asked) : \E i \in DOMAIN AskedFor(setup) :
              b = Bind(AskedFor(setup)[i], AskedFor(setup)[i])
         /\ \A i \in DOMAIN AskedFor(setup) :
              /\ AskedFor(setup)[i] \in Names
              /\ Bind(AskedFor(setup)[i], AskedFor(setup)[i]) \in Range(Asked)
<1>1. PICK q : q = AskedFor(setup)
  OBVIOUS
<1>2. PICK e : e = setup.expose
  OBVIOUS
<1>3. PICK o : o = setup.only
  OBVIOUS
<1>4. e \in Seq(Path) /\ o \in Seq(Path)
  BY <1>2, <1>3, SetupsAssumption DEF PlanTypeOK
<1>5. q \in Seq(Path)
  BY <1>1, <1>2, <1>3, <1>4, ConcatIs DEF AskedFor
<1>6. \A p \in Path : p \in Names
  BY DEF Path, Names, Name
<1>7. DOMAIN q = 1 .. Len(q) /\ Len(q) \in Nat /\ \A i \in DOMAIN q : q[i] \in Names
  BY <1>5, <1>6
<1>8. PICK a : a = [i \in DOMAIN q |-> Bind(q[i], q[i])]
  OBVIOUS
<1>9. \A i \in 1 .. Len(q) : a[i] = Bind(q[i], q[i]) /\ a[i] \in Binding
  BY <1>7, <1>8, BindIs
<1>10. a \in Seq(Binding) /\ DOMAIN a = DOMAIN q
  BY <1>7, <1>8, <1>9
<1> QED BY <1>1, <1>7, <1>8, <1>9, <1>10 DEF Asked, Bindings, Range

\* Short lists and their elements.
LEMMA Single ==
  ASSUME NEW a \in Binding
  PROVE  <<a>> \in Seq(Binding) /\ Range(<<a>>) = {a}
<1>1. \A b \in Range(<<a>>) : b = a
  BY DEF Range
<1>2. 1 \in DOMAIN <<a>> /\ <<a>>[1] = a
  OBVIOUS
<1>3. a \in Range(<<a>>)
  BY <1>2 DEF Range
<1> QED BY <1>1, <1>3

LEMMA Pair ==
  ASSUME NEW a \in Binding, NEW b \in Binding
  PROVE  <<a>> \o <<b>> \in Seq(Binding) /\ Range(<<a>> \o <<b>>) = {a, b}
<1>1. PICK x : x = <<a>>
  OBVIOUS
<1>2. PICK y : y = <<b>>
  OBVIOUS
<1>3. x \in Seq(Binding) /\ y \in Seq(Binding) /\ Range(x) = {a} /\ Range(y) = {b}
  BY <1>1, <1>2, Single
<1>4. PICK z : z = x \o y
  OBVIOUS
<1>5. z \in Seq(Binding)
  BY ONLY <1>3, <1>4, ConcatIs
<1>6. Range(z) = Range(x) \cup Range(y)
  BY ONLY <1>3, <1>4, RangeConcatenation
<1> QED BY <1>1, <1>2, <1>3, <1>4, <1>5, <1>6

LEMMA Triple ==
  ASSUME NEW a \in Binding, NEW b \in Binding, NEW c \in Binding
  PROVE  /\ (<<a>> \o <<b>>) \o <<c>> \in Seq(Binding)
         /\ Range((<<a>> \o <<b>>) \o <<c>>) = {a, b, c}
<1>1. PICK x : x = <<a>> \o <<b>>
  OBVIOUS
<1>2. PICK y : y = <<c>>
  OBVIOUS
<1>3. x \in Seq(Binding) /\ y \in Seq(Binding) /\ Range(x) = {a, b} /\ Range(y) = {c}
  BY <1>1, <1>2, Pair, Single
<1>4. PICK z : z = x \o y
  OBVIOUS
<1>5. z \in Seq(Binding)
  BY ONLY <1>3, <1>4, ConcatIs
<1>6. Range(z) = Range(x) \cup Range(y)
  BY ONLY <1>3, <1>4, RangeConcatenation
<1> QED BY <1>1, <1>2, <1>3, <1>4, <1>5, <1>6

\* The binds of claude, with and without a merged tree.
LEMMA ExtraIs ==
  ASSUME NEW s \in Sessions
  PROVE  /\ ClaudeExtra(s) \in Bindings
         /\ Bind(Projects, Projects) \in Range(ClaudeExtra(s))
         /\ ~session[s].merge => \A b \in Range(ClaudeExtra(s)) :
              b \in {Bind(Settings["user"], Settings["user"]), Bind(Projects, Projects),
                     Bind(ClaudeJson, ClaudeJson)}
         /\ session[s].merge =>
              /\ \A b \in Range(ClaudeExtra(s)) :
                   b \in {Bind(ClaudeJson, ClaudeJson), Bind(MergedDir(s), Claude),
                          Bind(Projects, Projects)}
              /\ Bind(MergedDir(s), Claude) \in Range(ClaudeExtra(s))
<1>1. PICK u : u = Bind(Settings["user"], Settings["user"])
  OBVIOUS
<1>2. PICK p : p = Bind(Projects, Projects)
  OBVIOUS
<1>3. PICK j : j = Bind(ClaudeJson, ClaudeJson)
  OBVIOUS
<1>4. PICK m : m = Bind(MergedDir(s), Claude)
  OBVIOUS
<1>5. u \in Binding /\ p \in Binding /\ j \in Binding /\ m \in Binding
  BY <1>1, <1>2, <1>3, <1>4, BindIs, Places
<1>6. PICK c : c = ClaudeExtra(s)
  OBVIOUS
<1>7. CASE session[s].merge
  <2>1. c = (<<j>> \o <<m>>) \o <<p>>
    BY <1>2, <1>3, <1>4, <1>6, <1>7 DEF ClaudeExtra, BesideClaude, LiveState
  <2>3. c \in Seq(Binding) /\ Range(c) = {j, m, p}
    BY <1>5, <2>1, Triple
  <2> QED BY <1>2, <1>3, <1>4, <1>6, <1>7, <2>3 DEF Bindings
<1>8. CASE ~session[s].merge
  <2>1. CASE session[s].listed
    <3>1. c = (<<u>> \o <<p>>) \o <<j>>
      BY <1>1, <1>2, <1>3, <1>6, <1>8, <2>1 DEF ClaudeExtra, BesideClaude, LiveState, Listed
    <3>3. c \in Seq(Binding) /\ Range(c) = {u, p, j}
      BY <1>5, <3>1, Triple
    <3> QED BY <1>1, <1>2, <1>3, <1>6, <1>8, <3>3 DEF Bindings
  <2>2. CASE ~session[s].listed
    <3>1. c = (<<>> \o <<p>>) \o <<j>>
      BY <1>2, <1>3, <1>6, <1>8, <2>2 DEF ClaudeExtra, BesideClaude, LiveState, Listed
    <3>2. <<>> \o <<p>> = <<p>>
      BY <1>5, ConcatEmptySeq
    <3>3. c \in Seq(Binding) /\ Range(c) = {p, j}
      BY <1>5, <3>1, <3>2, Pair
    <3> QED BY <1>2, <1>3, <1>6, <1>8, <3>3 DEF Bindings
  <2> QED BY <2>1, <2>2
<1> QED BY <1>7, <1>8

\* The scratch of the cache.
LEMMA ScratchIs ==
  <<Tmpfs(Cache)>> \in Bindings /\ \A b \in Range(<<Tmpfs(Cache)>>) : b = Tmpfs(Cache)
<1>1. Tmpfs(Cache) \in Binding
  BY BindIs, Places
<1> QED BY <1>1 DEF Bindings, Range

\* The overlays of the sanitized settings.
LEMMA OverlaysAre ==
  ASSUME NEW s \in Sessions
  PROVE  /\ SettingsOverlays(s) \in Bindings
         /\ \A b \in Range(SettingsOverlays(s)) : \E f \in Files :
              f \in session[s].overlay /\ b = Bind(SanitizedCopy[f], Settings[f])
         /\ \A f \in Files : f \in session[s].overlay =>
              Bind(SanitizedCopy[f], Settings[f]) \in Range(SettingsOverlays(s))
<1>1. PICK u : u = Bind(SanitizedCopy["user"], Settings["user"])
  OBVIOUS
<1>2. PICK p : p = Bind(SanitizedCopy["project"], Settings["project"])
  OBVIOUS
<1>3. u \in Binding /\ p \in Binding
  BY <1>1, <1>2, BindIs, Places
<1>4. PICK o : o = SettingsOverlays(s)
  OBVIOUS
<1>5. PICK x : x = IF "user" \in session[s].overlay THEN <<u>> ELSE <<>>
  OBVIOUS
<1>6. PICK y : y = IF "project" \in session[s].overlay THEN <<p>> ELSE <<>>
  OBVIOUS
<1>7. o = x \o y
  BY <1>1, <1>2, <1>4, <1>5, <1>6 DEF SettingsOverlays
<1>8. x \in Seq(Binding) /\ Range(x) = IF "user" \in session[s].overlay THEN {u} ELSE {}
  BY <1>3, <1>5 DEF Range
<1>9. y \in Seq(Binding) /\ Range(y) = IF "project" \in session[s].overlay THEN {p} ELSE {}
  BY <1>3, <1>6 DEF Range
<1>10. o \in Seq(Binding) /\ Range(o) = Range(x) \cup Range(y)
  <2>1. x \in Seq(Binding) /\ y \in Seq(Binding)
    BY <1>8, <1>9
  <2>2. o \in Seq(Binding)
    BY ONLY <1>7, <2>1, ConcatIs
  <2>3. Range(o) = Range(x) \cup Range(y)
    BY ONLY <1>7, <2>1, RangeConcatenation
  <2> QED BY <2>2, <2>3
<1> QED BY <1>1, <1>2, <1>4, <1>8, <1>9, <1>10 DEF Bindings, Files

\* At its destination a bind shows its path.
LEMMA ThroughSelf ==
  ASSUME NEW q \in Names, NEW p \in Names
  PROVE  Through(Bind(q, p), p) = q
<1>1. Len(p) \in Nat
  BY DEF Names
<1>2. PICK e : e = SubSeq(p, Len(p) + 1, Len(p))
  OBVIOUS
<1>3. e = <<>>
  BY <1>1, <1>2 DEF Names
<1>4. q \o <<>> = q
  BY ConcatEmptySeq DEF Names
<1> QED BY <1>2, <1>3, <1>4 DEF Through, Bind

\* The places, name by name.
LEMMA Spelled ==
  /\ Len(Home) = 2 /\ Home[1] = "home" /\ Home[2] = "u"
  /\ Len(Cwd) = 3 /\ Cwd[1] = "home" /\ Cwd[2] = "u" /\ Cwd[3] = "src"
  /\ Len(Claude) = 3 /\ Claude[1] = "home" /\ Claude[2] = "u" /\ Claude[3] = ".claude"
  /\ Len(ClaudeJson) = 3 /\ ClaudeJson[1] = "home" /\ ClaudeJson[2] = "u"
  /\ ClaudeJson[3] = ".claude.json"
  /\ Len(Credentials) = 4 /\ Credentials[1] = "home" /\ Credentials[2] = "u"
  /\ Credentials[3] = ".claude" /\ Credentials[4] = ".credentials.json"
  /\ Len(Projects) = 4 /\ Projects[1] = "home" /\ Projects[2] = "u"
  /\ Projects[3] = ".claude" /\ Projects[4] = "projects"
  /\ Len(Cache) = 4 /\ Cache[1] = "home" /\ Cache[2] = "u" /\ Cache[3] = ".claude"
  /\ Cache[4] = "cache"
  /\ Len(Source) = 4 /\ Source[1] = "home" /\ Source[2] = "u" /\ Source[3] = "src"
  /\ Source[4] = "main.go"
  /\ Len(Settings["user"]) = 4 /\ Settings["user"][1] = "home"
  /\ Settings["user"][2] = "u" /\ Settings["user"][3] = ".claude"
  /\ Settings["user"][4] = "settings.json"
  /\ Len(Settings["project"]) = 5 /\ Settings["project"][1] = "home"
  /\ Settings["project"][2] = "u" /\ Settings["project"][3] = "src"
  /\ Settings["project"][4] = ".claude" /\ Settings["project"][5] = "settings.json"
<1>1. /\ Len(Home) = 2 /\ Home[1] = "home" /\ Home[2] = "u"
  BY DEF Home
<1>2. /\ Len(Cwd) = 3 /\ Cwd[1] = "home" /\ Cwd[2] = "u" /\ Cwd[3] = "src"
  BY DEF Cwd
<1>3. /\ Len(Claude) = 3 /\ Claude[1] = "home" /\ Claude[2] = "u" /\ Claude[3] = ".claude"
  BY DEF Claude
<1>4. /\ Len(ClaudeJson) = 3 /\ ClaudeJson[1] = "home" /\ ClaudeJson[2] = "u"
      /\ ClaudeJson[3] = ".claude.json"
  BY DEF ClaudeJson
<1>5. /\ Len(Credentials) = 4 /\ Credentials[1] = "home" /\ Credentials[2] = "u"
      /\ Credentials[3] = ".claude" /\ Credentials[4] = ".credentials.json"
  BY DEF Credentials
<1>6. /\ Len(Projects) = 4 /\ Projects[1] = "home" /\ Projects[2] = "u"
      /\ Projects[3] = ".claude" /\ Projects[4] = "projects"
  BY DEF Projects
<1>7. /\ Len(Cache) = 4 /\ Cache[1] = "home" /\ Cache[2] = "u" /\ Cache[3] = ".claude"
      /\ Cache[4] = "cache"
  BY DEF Cache
<1>8. /\ Len(Source) = 4 /\ Source[1] = "home" /\ Source[2] = "u" /\ Source[3] = "src"
      /\ Source[4] = "main.go"
  BY DEF Source
<1>9. /\ Len(Settings["user"]) = 4 /\ Settings["user"][1] = "home"
      /\ Settings["user"][2] = "u" /\ Settings["user"][3] = ".claude"
      /\ Settings["user"][4] = "settings.json"
  BY DEF Settings
<1>10. /\ Len(Settings["project"]) = 5 /\ Settings["project"][1] = "home"
      /\ Settings["project"][2] = "u" /\ Settings["project"][3] = "src"
      /\ Settings["project"][4] = ".claude" /\ Settings["project"][5] = "settings.json"
  BY DEF Settings
<1> QED BY <1>1, <1>2, <1>3, <1>4, <1>5, <1>6, <1>7, <1>8, <1>9, <1>10

\* One is not above the other if it is longer, or has another name somewhere.
LEMMA Differs ==
  ASSUME NEW s \in Names, NEW t \in Names,
         \/ Len(s) > Len(t)
         \/ \E i \in {1, 3, 4, 5} : i <= Len(s) /\ s[i] # t[i]
  PROVE  ~pathContains(s, t)
<1>1. Len(s) \in Nat /\ Len(t) \in Nat
  BY DEF Names
<1> QED BY <1>1, PrefixIff

\* Which of the places are above which.
LEMMA AboveProjects ==
  /\ pathContains(Projects, Projects)
  /\ ~pathContains(Cwd, Projects) /\ ~pathContains(ClaudeJson, Projects)
  /\ ~pathContains(Cache, Projects) /\ ~pathContains(Settings["user"], Projects)
  /\ ~pathContains(Settings["project"], Projects)
<1>1. pathContains(Projects, Projects)
  BY Places, PrefixSelf
<1>2. ~pathContains(Cwd, Projects)
  <2>1. Cwd \in Names /\ Projects \in Names
    BY Places
  <2>2. 3 \in {1, 3, 4, 5} /\ 3 <= Len(Cwd) /\ Cwd[3] # Projects[3]
    BY Spelled
  <2> QED BY ONLY <2>1, <2>2, Differs
<1>3. ~pathContains(ClaudeJson, Projects)
  <2>1. ClaudeJson \in Names /\ Projects \in Names
    BY Places
  <2>2. 3 \in {1, 3, 4, 5} /\ 3 <= Len(ClaudeJson) /\ ClaudeJson[3] # Projects[3]
    BY Spelled
  <2> QED BY ONLY <2>1, <2>2, Differs
<1>4. ~pathContains(Cache, Projects)
  <2>1. Cache \in Names /\ Projects \in Names
    BY Places
  <2>2. 4 \in {1, 3, 4, 5} /\ 4 <= Len(Cache) /\ Cache[4] # Projects[4]
    BY Spelled
  <2> QED BY ONLY <2>1, <2>2, Differs
<1>5. ~pathContains(Settings["user"], Projects)
  <2>1. Settings["user"] \in Names /\ Projects \in Names
    BY Places
  <2>2. 4 \in {1, 3, 4, 5} /\ 4 <= Len(Settings["user"]) /\ Settings["user"][4] # Projects[4]
    BY Spelled
  <2> QED BY ONLY <2>1, <2>2, Differs
<1>6. ~pathContains(Settings["project"], Projects)
  <2>1. Settings["project"] \in Names /\ Projects \in Names
    BY Places
  <2>2. 3 \in {1, 3, 4, 5} /\ 3 <= Len(Settings["project"]) /\ Settings["project"][3] # Projects[3]
    BY Spelled
  <2> QED BY ONLY <2>1, <2>2, Differs
<1> QED BY <1>1, <1>2, <1>3, <1>4, <1>5, <1>6

LEMMA AboveCache ==
  /\ pathContains(Cache, Cache)
  /\ ~pathContains(Settings["user"], Cache) /\ ~pathContains(Settings["project"], Cache)
  /\ Cache # Cwd /\ Cache # Claude /\ Cache # ClaudeJson /\ Cache # Projects
  /\ Cache # Settings["user"]
<1>1. pathContains(Cache, Cache)
  BY Places, PrefixSelf
<1>2. ~pathContains(Settings["user"], Cache)
  <2>1. Settings["user"] \in Names /\ Cache \in Names
    BY Places
  <2>2. 4 \in {1, 3, 4, 5} /\ 4 <= Len(Settings["user"]) /\ Settings["user"][4] # Cache[4]
    BY Spelled
  <2> QED BY ONLY <2>1, <2>2, Differs
<1>3. ~pathContains(Settings["project"], Cache)
  <2>1. Settings["project"] \in Names /\ Cache \in Names
    BY Places
  <2>2. 3 \in {1, 3, 4, 5} /\ 3 <= Len(Settings["project"]) /\ Settings["project"][3] # Cache[3]
    BY Spelled
  <2> QED BY ONLY <2>1, <2>2, Differs
<1>4. Cache # Cwd /\ Cache # Claude /\ Cache # ClaudeJson
  BY DEF Cache, Cwd, Claude, ClaudeJson
<1>5. Cache # Projects /\ Cache # Settings["user"]
  BY DEF Cache, Projects, Settings
<1> QED BY <1>1, <1>2, <1>3, <1>4, <1>5

LEMMA AboveUser ==
  /\ pathContains(Claude, Settings["user"])
  /\ pathContains(Settings["user"], Settings["user"])
  /\ ~pathContains(Cwd, Settings["user"]) /\ ~pathContains(ClaudeJson, Settings["user"])
  /\ ~pathContains(Cache, Settings["user"]) /\ ~pathContains(Projects, Settings["user"])
  /\ ~pathContains(Settings["project"], Settings["user"])
  /\ Cwd # Settings["user"] /\ Cwd # Claude
<1>1. pathContains(Claude, Settings["user"])
  <2>1. Claude \in Names /\ Settings["user"] \in Names
    BY Places
  <2>2. /\ Len(Claude) = 3 /\ Len(Settings["user"]) = 4 /\ Claude[1] = Settings["user"][1]
        /\ Claude[2] = Settings["user"][2] /\ Claude[3] = Settings["user"][3]
    BY Spelled
  <2>3. Len(Claude) <= Len(Settings["user"])
    BY ONLY <2>2
  <2>4. \A i \in 1 .. Len(Claude) : Claude[i] = Settings["user"][i]
    BY ONLY <2>2
  <2> QED BY ONLY <2>1, <2>3, <2>4, PrefixIff
<1>2. pathContains(Settings["user"], Settings["user"])
  BY Places, PrefixSelf
<1>3. ~pathContains(Cwd, Settings["user"])
  <2>1. Cwd \in Names /\ Settings["user"] \in Names
    BY Places
  <2>2. 3 \in {1, 3, 4, 5} /\ 3 <= Len(Cwd) /\ Cwd[3] # Settings["user"][3]
    BY Spelled
  <2> QED BY ONLY <2>1, <2>2, Differs
<1>4. ~pathContains(ClaudeJson, Settings["user"])
  <2>1. ClaudeJson \in Names /\ Settings["user"] \in Names
    BY Places
  <2>2. 3 \in {1, 3, 4, 5} /\ 3 <= Len(ClaudeJson) /\ ClaudeJson[3] # Settings["user"][3]
    BY Spelled
  <2> QED BY ONLY <2>1, <2>2, Differs
<1>5. ~pathContains(Cache, Settings["user"])
  <2>1. Cache \in Names /\ Settings["user"] \in Names
    BY Places
  <2>2. 4 \in {1, 3, 4, 5} /\ 4 <= Len(Cache) /\ Cache[4] # Settings["user"][4]
    BY Spelled
  <2> QED BY ONLY <2>1, <2>2, Differs
<1>6. ~pathContains(Projects, Settings["user"])
  <2>1. Projects \in Names /\ Settings["user"] \in Names
    BY Places
  <2>2. 4 \in {1, 3, 4, 5} /\ 4 <= Len(Projects) /\ Projects[4] # Settings["user"][4]
    BY Spelled
  <2> QED BY ONLY <2>1, <2>2, Differs
<1>7. ~pathContains(Settings["project"], Settings["user"])
  <2>1. Settings["project"] \in Names /\ Settings["user"] \in Names
    BY Places
  <2>2. Len(Settings["project"]) > Len(Settings["user"])
    BY Spelled
  <2> QED BY ONLY <2>1, <2>2, Differs
<1>8. Cwd # Settings["user"] /\ Cwd # Claude
  BY DEF Cwd, Settings, Claude
<1> QED BY <1>1, <1>2, <1>3, <1>4, <1>5, <1>6, <1>7, <1>8

LEMMA AboveProject ==
  /\ pathContains(Settings["project"], Settings["project"])
  /\ ~pathContains(ClaudeJson, Settings["project"])
  /\ ~pathContains(Cache, Settings["project"]) /\ ~pathContains(Projects, Settings["project"])
  /\ ~pathContains(Settings["user"], Settings["project"])
  /\ Cwd # Settings["project"]
<1>1. pathContains(Settings["project"], Settings["project"])
  BY Places, PrefixSelf
<1>2. ~pathContains(ClaudeJson, Settings["project"])
  <2>1. ClaudeJson \in Names /\ Settings["project"] \in Names
    BY Places
  <2>2. 3 \in {1, 3, 4, 5} /\ 3 <= Len(ClaudeJson) /\ ClaudeJson[3] # Settings["project"][3]
    BY Spelled
  <2> QED BY ONLY <2>1, <2>2, Differs
<1>3. ~pathContains(Cache, Settings["project"])
  <2>1. Cache \in Names /\ Settings["project"] \in Names
    BY Places
  <2>2. 3 \in {1, 3, 4, 5} /\ 3 <= Len(Cache) /\ Cache[3] # Settings["project"][3]
    BY Spelled
  <2> QED BY ONLY <2>1, <2>2, Differs
<1>4. ~pathContains(Projects, Settings["project"])
  <2>1. Projects \in Names /\ Settings["project"] \in Names
    BY Places
  <2>2. 3 \in {1, 3, 4, 5} /\ 3 <= Len(Projects) /\ Projects[3] # Settings["project"][3]
    BY Spelled
  <2> QED BY ONLY <2>1, <2>2, Differs
<1>5. ~pathContains(Settings["user"], Settings["project"])
  <2>1. Settings["user"] \in Names /\ Settings["project"] \in Names
    BY Places
  <2>2. 3 \in {1, 3, 4, 5} /\ 3 <= Len(Settings["user"]) /\ Settings["user"][3] # Settings["project"][3]
    BY Spelled
  <2> QED BY ONLY <2>1, <2>2, Differs
<1>6. Cwd # Settings["project"]
  BY DEF Cwd, Settings
<1> QED BY <1>1, <1>2, <1>3, <1>4, <1>5, <1>6

\* The binds of a session are mounted in five parts.
LEMMA BindsAre ==
  ASSUME PlanTypeOK, NEW s \in Sessions
  PROVE  /\ Binds(s) \in Bindings
         /\ Range(Binds(s)) = Range(<<CwdBind>>) \cup Range(Asked) \cup Range(ClaudeExtra(s))
                              \cup Range(<<Tmpfs(Cache)>>) \cup Range(SettingsOverlays(s))
         /\ Binds(s) = (<<CwdBind>> \o Asked)
                       \o ((ClaudeExtra(s) \o <<Tmpfs(Cache)>>) \o SettingsOverlays(s))
         /\ Binds(s) = ((<<CwdBind>> \o Asked) \o (ClaudeExtra(s) \o <<Tmpfs(Cache)>>))
                       \o SettingsOverlays(s)
         /\ Binds(s) = (<<CwdBind>> \o ((Asked \o ClaudeExtra(s)) \o <<Tmpfs(Cache)>>))
                       \o SettingsOverlays(s)
         /\ Binds(s) = (((<<CwdBind>> \o Asked) \o ClaudeExtra(s)) \o <<>>)
                       \o (<<Tmpfs(Cache)>> \o SettingsOverlays(s))
         /\ Binds(s) = ((<<CwdBind>> \o Asked) \o <<>>)
                       \o ((ClaudeExtra(s) \o <<Tmpfs(Cache)>>) \o SettingsOverlays(s))
<1>1. /\ <<CwdBind>> \in Bindings /\ Asked \in Bindings /\ ClaudeExtra(s) \in Bindings
      /\ <<Tmpfs(Cache)>> \in Bindings /\ SettingsOverlays(s) \in Bindings
  BY FrontIs, AskedIs, ExtraIs, ScratchIs, OverlaysAre
<1>2. Binds(s) = (((<<CwdBind>> \o Asked) \o ClaudeExtra(s)) \o <<Tmpfs(Cache)>>)
                 \o SettingsOverlays(s)
  BY DEF Binds
<1>3. Rejoined(<<CwdBind>>, Asked, ClaudeExtra(s), <<Tmpfs(Cache)>>, SettingsOverlays(s))
  BY <1>1, Joined
<1> QED BY <1>2, <1>3 DEF Rejoined

\* The binds of two lists.
LEMMA RangeOfJoin ==
  ASSUME NEW S \in Bindings, NEW T \in Bindings
  PROVE  S \o T \in Bindings /\ Range(S \o T) = Range(S) \cup Range(T)
<1>1. S \in Seq(Binding) /\ T \in Seq(Binding)
  BY DEF Bindings
<1>2. Range(S \o T) = Range(S) \cup Range(T)
  BY ONLY <1>1, RangeConcatenation
<1>3. S \o T \in Seq(Binding)
  BY ONLY <1>1, ConcatIs
<1> QED BY <1>2, <1>3 DEF Bindings

\* The empty list has none.
LEMMA NoBinds == <<>> \in Bindings /\ \A b \in Range(<<>>) : FALSE
BY DEF Bindings, Range

\* The fields of binds and of scratch.
LEMMA BindFields ==
  ASSUME NEW q, NEW d
  PROVE  Bind(q, d).path = q /\ Bind(q, d).dest = d /\ Bind(q, d).tmpfs = FALSE
BY DEF Bind

\* Of what is asked for, only what the user exposes is above a path.
LEMMA AskedAbove ==
  ASSUME PlanTypeOK, NEW p, ~Exposes(p), NEW b \in Range(Asked)
  PROVE  ~pathContains(b.dest, p) /\ ~pathContains(b.path, p)
<1>1. PICK i \in DOMAIN AskedFor(setup) : b = Bind(AskedFor(setup)[i], AskedFor(setup)[i])
  BY AskedIs
<1>2. ~pathContains(AskedFor(setup)[i], p)
  BY DEF Exposes
<1> QED BY <1>1, <1>2, BindFields

LEMMA TmpfsFields ==
  ASSUME NEW d
  PROVE  Tmpfs(d).dest = d /\ Tmpfs(d).tmpfs = TRUE
BY DEF Tmpfs

LEMMA CwdIs == CwdBind.dest = Cwd /\ CwdBind.tmpfs = FALSE
BY DEF Bind, CwdBind

\* The binds of a session in five lists, and how three are made of these.
Parts(s, F, A, C, K, O) ==
  /\ F = <<CwdBind>> /\ A = Asked /\ C = ClaudeExtra(s)
  /\ K = <<Tmpfs(Cache)>> /\ O = SettingsOverlays(s)
  /\ F \in Bindings /\ A \in Bindings /\ C \in Bindings /\ K \in Bindings /\ O \in Bindings
  /\ Binds(s) = (F \o A) \o ((C \o K) \o O)
  /\ Binds(s) = ((F \o A) \o (C \o K)) \o O
  /\ Binds(s) = (F \o ((A \o C) \o K)) \o O
  /\ Binds(s) = (((F \o A) \o C) \o <<>>) \o (K \o O)
  /\ Binds(s) = ((F \o A) \o <<>>) \o ((C \o K) \o O)

\* Any session has these.
LEMMA PartsExist ==
  ASSUME PlanTypeOK, NEW s \in Sessions
  PROVE  \E F, A, C, K, O : Parts(s, F, A, C, K, O)
<1>1. /\ <<CwdBind>> \in Bindings /\ Asked \in Bindings /\ ClaudeExtra(s) \in Bindings
      /\ <<Tmpfs(Cache)>> \in Bindings /\ SettingsOverlays(s) \in Bindings
  BY FrontIs, AskedIs, ExtraIs, ScratchIs, OverlaysAre
<1>2. Parts(s, <<CwdBind>>, Asked, ClaudeExtra(s), <<Tmpfs(Cache)>>, SettingsOverlays(s))
  BY <1>1, BindsAre DEF Parts
<1> QED BY <1>2

\* What their destinations are.
LEMMA Destinations ==
  ASSUME NEW s \in Sessions
  PROVE  /\ \A b \in Range(<<CwdBind>>) : b.dest = Cwd
         /\ ~session[s].merge => \A b \in Range(ClaudeExtra(s)) :
              b.dest \in {Settings["user"], Projects, ClaudeJson}
         /\ session[s].merge => \A b \in Range(ClaudeExtra(s)) :
              b.dest \in {ClaudeJson, Claude, Projects}
         /\ \A b \in Range(<<Tmpfs(Cache)>>) : b.dest = Cache
         /\ \A b \in Range(SettingsOverlays(s)) :
              b.dest \in {Settings["user"], Settings["project"]}
<1>1. \A b \in Range(<<CwdBind>>) : b.dest = Cwd
  BY FrontIs, CwdIs
<1>2. ASSUME ~session[s].merge, NEW b \in Range(ClaudeExtra(s))
      PROVE  b.dest \in {Settings["user"], Projects, ClaudeJson}
  <2>1. b \in {Bind(Settings["user"], Settings["user"]), Bind(Projects, Projects),
               Bind(ClaudeJson, ClaudeJson)}
    BY <1>2, ExtraIs
  <2> QED BY <2>1 DEF Bind
<1>3. ASSUME session[s].merge, NEW b \in Range(ClaudeExtra(s))
      PROVE  b.dest \in {ClaudeJson, Claude, Projects}
  <2>1. b \in {Bind(ClaudeJson, ClaudeJson), Bind(MergedDir(s), Claude),
               Bind(Projects, Projects)}
    BY <1>3, ExtraIs
  <2> QED BY <2>1 DEF Bind
<1>4. \A b \in Range(<<Tmpfs(Cache)>>) : b.dest = Cache
  BY ScratchIs, TmpfsFields
<1>5. ASSUME NEW b \in Range(SettingsOverlays(s))
      PROVE  b.dest \in {Settings["user"], Settings["project"]}
  <2>1. PICK f \in Files : b = Bind(SanitizedCopy[f], Settings[f])
    BY OverlaysAre
  <2> QED BY <2>1 DEF Files, Bind
<1> QED BY <1>1, <1>2, <1>3, <1>4, <1>5

\* The scratch of the cache is on top unless the user exposes it or what is above it.
LEMMA CacheSeen ==
  ASSUME PlanTypeOK, NEW s \in Sessions, ~Exposes(Cache)
  PROVE  View(s, Cache) = Scratch
<1>1. PICK F, A, C, K, O : Parts(s, F, A, C, K, O)
  BY PartsExist
<1>2. /\ F = <<CwdBind>> /\ A = Asked /\ C = ClaudeExtra(s)
      /\ K = <<Tmpfs(Cache)>> /\ O = SettingsOverlays(s)
      /\ F \in Bindings /\ A \in Bindings /\ C \in Bindings /\ K \in Bindings /\ O \in Bindings
  BY <1>1 DEF Parts
<1>3. PICK S : S = (F \o A) \o C
  OBVIOUS
<1>4. PICK V : V = K \o O
  OBVIOUS
<1>5. S \in Bindings /\ Range(S) = Range(F) \cup Range(A) \cup Range(C)
  BY <1>2, <1>3, RangeOfJoin
<1>6. V \in Bindings /\ Range(V) = Range(K) \cup Range(O)
  BY <1>2, <1>4, RangeOfJoin
<1>7. \A b \in Range(S) : b.dest # Cache
  <2>1. \A b \in Range(F) : b.dest # Cache
    BY <1>2, Destinations, AboveCache
  <2>2. \A b \in Range(A) : b.dest # Cache
    BY <1>2, AskedAbove, AboveCache
  <2>3. \A b \in Range(C) : b.dest # Cache
    BY <1>2, Destinations, AboveCache
  <2> QED BY <1>5, <2>1, <2>2, <2>3
<1>8. \A b \in Range(O) : ~pathContains(b.dest, Cache)
  BY <1>2, Destinations, AboveCache
<1>9. Tmpfs(Cache) \in Range(K) /\ \A b \in Range(K) : b = Tmpfs(Cache)
  BY <1>2, ScratchIs, Single, BindIs, Places
<1>10. Split(Binds(s), S, <<>>, V, Cache, Cache)
  <2>1. Binds(s) = (S \o <<>>) \o V
    BY <1>1, <1>3, <1>4 DEF Parts
  <2> QED BY <1>5, <1>6, <1>7, <1>8, <1>9, <2>1, NoBinds, AboveCache, TmpfsFields DEF Split
<1>11. PICK b \in Range(V) : b.dest = Cache /\ View(s, Cache) = Through(b, Cache)
  BY <1>10, Uppermost DEF View, Mounted
<1>12. b = Tmpfs(Cache)
  BY <1>6, <1>8, <1>9, <1>11, AboveCache
<1> QED BY <1>11, <1>12, TmpfsFields DEF Through

\* So is the live state, with and without a merged tree.
LEMMA ProjectsSeen ==
  ASSUME PlanTypeOK, NEW s \in Sessions, ~Exposes(Projects)
  PROVE  View(s, Projects) = Projects
<1>1. PICK F, A, C, K, O : Parts(s, F, A, C, K, O)
  BY PartsExist
<1>2. /\ F = <<CwdBind>> /\ A = Asked /\ C = ClaudeExtra(s)
      /\ K = <<Tmpfs(Cache)>> /\ O = SettingsOverlays(s)
      /\ F \in Bindings /\ A \in Bindings /\ C \in Bindings /\ K \in Bindings /\ O \in Bindings
  BY <1>1 DEF Parts
<1>3. PICK FA : FA = F \o A
  OBVIOUS
<1>4. FA \in Bindings /\ Range(FA) = Range(F) \cup Range(A)
  BY <1>2, <1>3, RangeOfJoin
<1>5. PICK P : P = Bind(Projects, Projects)
  OBVIOUS
<1>6. P \in Binding /\ P.dest = Projects
  BY <1>5, BindIs, BindFields, Places
<1>7. \A b \in Range(FA) : b.dest # Projects
  <2>1. \A b \in Range(F) : b.dest # Projects
    BY <1>2, Destinations, AboveProjects
  <2>2. \A b \in Range(A) : b.dest # Projects
    BY <1>2, AskedAbove, AboveProjects
  <2> QED BY <1>4, <2>1, <2>2
<1>8. \A b \in Range(K) \cup Range(O) : ~pathContains(b.dest, Projects)
  BY <1>2, Destinations, AboveProjects
\* In S there is no bind of the live state, in L no other one above it.
<1>9. ASSUME NEW S \in Bindings, NEW L \in Bindings, Binds(s) = (S \o <<>>) \o ((L \o K) \o O),
             \A b \in Range(S) : b.dest # Projects, P \in Range(L),
             \A b \in Range(L) : pathContains(b.dest, Projects) => b = P
      PROVE  View(s, Projects) = Projects
  <2>1. PICK LK : LK = L \o K
    OBVIOUS
  <2>2. PICK V : V = LK \o O
    OBVIOUS
  <2>3. LK \in Bindings /\ Range(LK) = Range(L) \cup Range(K)
    BY <1>2, <2>1, RangeOfJoin
  <2>4. V \in Bindings /\ Range(V) = Range(L) \cup Range(K) \cup Range(O)
    BY <1>2, <2>2, <2>3, RangeOfJoin
  <2>5. \A b \in Range(V) : pathContains(b.dest, Projects) => b = P
    BY <1>8, <1>9, <2>4
  <2>6. P \in Range(V)
    BY <1>9, <2>4
  <2>7. Split(Binds(s), S, <<>>, V, Projects, Projects)
    BY <1>6, <1>9, <2>1, <2>2, <2>4, <2>5, <2>6, NoBinds, AboveProjects DEF Split
  <2>8. PICK b \in Range(V) :
          b.dest = Projects /\ View(s, Projects) = Through(b, Projects)
    BY <2>7, Uppermost DEF View, Mounted
  <2>9. b = P
    BY <2>5, <2>8, AboveProjects
  <2> QED BY <1>5, <2>8, <2>9, ThroughSelf, Places
<1>10. CASE ~session[s].merge
  <2>1. Binds(s) = (FA \o <<>>) \o ((C \o K) \o O)
    BY <1>1, <1>3 DEF Parts
  <2>2. ASSUME NEW b \in Range(C), pathContains(b.dest, Projects) PROVE b = P
    <3>1. b \in {Bind(Settings["user"], Settings["user"]), P, Bind(ClaudeJson, ClaudeJson)}
      BY <1>2, <1>5, <1>10, ExtraIs
    <3> QED BY <2>2, <3>1, AboveProjects DEF Bind
  <2>3. P \in Range(C)
    BY <1>2, <1>5, ExtraIs
  <2> QED BY <1>2, <1>4, <1>7, <1>9, <2>1, <2>2, <2>3
<1>11. CASE session[s].merge
  <2>1. PICK J : J = Bind(ClaudeJson, ClaudeJson)
    OBVIOUS
  <2>2. PICK m : m = Bind(MergedDir(s), Claude)
    OBVIOUS
  <2>3. J \in Binding /\ m \in Binding /\ J.dest # Projects /\ m.dest # Projects
    <3>1. ClaudeJson # Projects
      BY AboveProjects
    <3>2. Claude # Projects
      BY DEF Claude, Projects
    <3>3. J \in Binding /\ m \in Binding
      BY <2>1, <2>2, BindIs, Places
    <3>4. J.dest = ClaudeJson /\ m.dest = Claude
      BY <2>1, <2>2 DEF Bind
    <3> QED BY <3>1, <3>2, <3>3, <3>4
  <2>4. PICK X : X = <<J>> \o <<m>>
    OBVIOUS
  <2>5. X \in Seq(Binding) /\ X \in Bindings /\ Range(X) = {J, m}
    BY <2>3, <2>4, Pair DEF Bindings
  <2>6. PICK L : L = <<P>>
    OBVIOUS
  <2>7. L \in Seq(Binding) /\ L \in Bindings /\ Range(L) = {P}
    BY <1>6, <2>6, Single DEF Bindings
  <2>8. C = X \o L
    BY <1>2, <1>5, <1>11, <2>1, <2>2, <2>4, <2>6 DEF ClaudeExtra, BesideClaude, LiveState
  <2>9. PICK S : S = FA \o X
    OBVIOUS
  <2>10. S \in Bindings /\ Range(S) = Range(FA) \cup {J, m}
    BY <1>4, <2>5, <2>9, RangeOfJoin
  <2>11. FA \o C = S \o L
    <3>1. FA \in Seq(Binding) /\ X \in Seq(Binding) /\ L \in Seq(Binding)
      BY <1>4, <2>5, <2>7 DEF Bindings
    <3>2. (FA \o X) \o L = FA \o (X \o L)
      BY ONLY <3>1, Associates
    <3> QED BY <2>8, <2>9, <3>2
  <2>12. Binds(s) = (S \o <<>>) \o ((L \o K) \o O)
    <3>1. Binds(s) = (((F \o A) \o C) \o K) \o O
      BY <1>2 DEF Binds
    <3>2. Binds(s) = ((S \o L) \o K) \o O
      BY <1>3, <2>11, <3>1
    <3>3. Rejoined(S, <<>>, L, K, O)
      BY <1>2, <2>7, <2>10, Joined, NoBinds
    <3>4. S \o <<>> = S
      BY <2>10, ConcatEmptySeq DEF Bindings
    <3> QED BY <3>2, <3>3, <3>4 DEF Rejoined
  <2>13. \A b \in Range(S) : b.dest # Projects
    BY <1>7, <2>3, <2>10
  <2> QED BY <1>9, <2>7, <2>10, <2>12, <2>13
<1> QED BY <1>10, <1>11

\* What a bind leads to goes on from its path.
LEMMA ThroughBelow ==
  ASSUME NEW b \in Binding, ~b.tmpfs, NEW p \in Names
  PROVE  Through(b, p) \in Names /\ pathContains(b.path, Through(b, p))
<1>1. b.path \in Names /\ b.dest \in Names
  BY DEF Binding
<1>2. PICK e : e = SubSeq(p, Len(b.dest) + 1, Len(p))
  OBVIOUS
<1>3. e \in Names
  <2>1. Len(b.dest) \in Nat /\ Len(p) \in Nat
    BY <1>1 DEF Names
  <2>2. \A i \in Len(b.dest) + 1 .. Len(p) : p[i] \in Name
    BY <2>1 DEF Names
  <2>3. SubSeq(p, Len(b.dest) + 1, Len(p)) \in Seq(Name)
    BY <2>1, <2>2, SubSeqProperties DEF Names
  <2> QED BY <1>2, <2>3 DEF Names
<1>4. Through(b, p) = b.path \o e
  BY <1>2 DEF Through
<1> QED BY <1>1, <1>3, <1>4, PrefixConcat

\* In an ordinary setup, what is asked for beside one of the replaced places is
\* not above it.
LEMMA AskedApart ==
  ASSUME PlanTypeOK, Ordinary(setup), NEW d \in Replaced,
         NEW a \in Range(Asked), a.dest = d,
         NEW b \in Range(Asked), pathContains(b.dest, d)
  PROVE  b.dest = d
<1>1. PICK i \in DOMAIN AskedFor(setup) : a = Bind(AskedFor(setup)[i], AskedFor(setup)[i])
  BY AskedIs
<1>2. PICK j \in DOMAIN AskedFor(setup) : b = Bind(AskedFor(setup)[j], AskedFor(setup)[j])
  BY AskedIs
<1>3. AskedFor(setup)[i] = d /\ AskedFor(setup)[j] = b.dest
  <2>1. a.dest = AskedFor(setup)[i]
    BY ONLY <1>1, BindFields
  <2>2. b.dest = AskedFor(setup)[j]
    BY ONLY <1>2, BindFields
  <2> QED BY ONLY a.dest = d, <2>1, <2>2
<1> QED BY <1>3 DEF Ordinary

\* What can be above the settings of a source is a bind of those settings.
LEMMA ReplacedApart ==
  ASSUME NEW f \in Files
  PROVE  /\ pathContains(Settings[f], Settings[f]) /\ Cwd # Settings[f]
         /\ Settings[f] \in Replaced /\ Settings[f] \in Names /\ SanitizedCopy[f] \in Names
         /\ \A q \in {Settings["user"], Settings["project"], Projects, ClaudeJson, Cache} :
              pathContains(q, Settings[f]) => q = Settings[f]
<1>1. CASE f = "user"
  BY <1>1, AboveUser, Places DEF Replaced
<1>2. CASE f = "project"
  BY <1>2, AboveProject, Places DEF Replaced
<1> QED BY <1>1, <1>2 DEF Files

\* An overlay is what is seen of the settings it replaces.
LEMMA OverlaySeen ==
  ASSUME PlanTypeOK, Ordinary(setup), NEW s \in Sessions, ~session[s].merge,
         NEW f \in Files, f \in session[s].overlay
  PROVE  View(s, Settings[f]) = SanitizedCopy[f]
<1>1. PICK F, A, C, K, O : Parts(s, F, A, C, K, O)
  BY PartsExist
<1>2. /\ F = <<CwdBind>> /\ A = Asked /\ C = ClaudeExtra(s)
      /\ K = <<Tmpfs(Cache)>> /\ O = SettingsOverlays(s)
      /\ F \in Bindings /\ A \in Bindings /\ C \in Bindings /\ K \in Bindings /\ O \in Bindings
  BY <1>1 DEF Parts
<1>3. PICK p : p = Settings[f]
  OBVIOUS
<1>4. PICK CK : CK = C \o K
  OBVIOUS
<1>5. CK \in Bindings /\ Range(CK) = Range(C) \cup Range(K)
  BY <1>2, <1>4, RangeOfJoin
<1>6. \A b \in Range(F) : b.dest # p
  BY <1>2, <1>3, Destinations, ReplacedApart
<1>7. \A b \in Range(C) : pathContains(b.dest, p) => b.dest = p
  <2>1. \A b \in Range(C) : b.dest \in {Settings["user"], Projects, ClaudeJson}
    BY <1>2, Destinations
  <2> QED BY <1>3, <2>1, ReplacedApart
<1>8. \A b \in Range(K) : pathContains(b.dest, p) => b.dest = p
  BY <1>2, <1>3, Destinations, ReplacedApart
<1>9. \A b \in Range(O) : pathContains(b.dest, p) => b.dest = p
  <2>1. \A b \in Range(O) : b.dest \in {Settings["user"], Settings["project"]}
    BY <1>2, Destinations
  <2> QED BY <1>3, <2>1, ReplacedApart
<1>10. Bind(SanitizedCopy[f], p) \in Range(O)
  BY <1>2, <1>3, OverlaysAre
<1>11. \E b \in Range(O) : b.dest = p
  BY <1>10, BindFields
<1>12. ASSUME NEW S, NEW U, Split(Binds(s), S, U, O, p, p)
       PROVE  View(s, Settings[f]) = SanitizedCopy[f]
  <2>1. PICK b \in Range(O) : b.dest = p /\ View(s, p) = Through(b, p)
    BY <1>12, Uppermost DEF View, Mounted
  <2>2. PICK g \in Files : b = Bind(SanitizedCopy[g], Settings[g])
    BY <1>2, OverlaysAre
  <2>3. Settings[g] = Settings[f]
    BY <1>3, <2>1, <2>2 DEF Bind
  <2>4. g = f
    BY <2>3 DEF Files, Settings
  <2> QED BY <1>3, <2>1, <2>2, <2>4, ReplacedApart, ThroughSelf
<1>13. CASE \E a \in Range(A) : a.dest = p
  <2>1. PICK AC : AC = A \o C
    OBVIOUS
  <2>2. PICK U : U = AC \o K
    OBVIOUS
  <2>3. AC \in Bindings /\ Range(AC) = Range(A) \cup Range(C)
    BY <1>2, <2>1, RangeOfJoin
  <2>4. U \in Bindings /\ Range(U) = Range(A) \cup Range(C) \cup Range(K)
    BY <1>2, <2>2, <2>3, RangeOfJoin
  <2>5. \A b \in Range(A) : pathContains(b.dest, p) => b.dest = p
    BY <1>2, <1>3, <1>13, AskedApart, ReplacedApart
  <2>6. Binds(s) = (F \o U) \o O
    BY <1>1, <2>1, <2>2 DEF Parts
  <2>7. Split(Binds(s), F, U, O, p, p)
    BY <1>2, <1>3, <1>6, <1>7, <1>8, <1>9, <1>11, <2>4, <2>5, <2>6, ReplacedApart DEF Split
  <2> QED BY <1>12, <2>7
<1>14. CASE \A a \in Range(A) : a.dest # p
  <2>1. PICK S : S = F \o A
    OBVIOUS
  <2>2. S \in Bindings /\ Range(S) = Range(F) \cup Range(A)
    BY <1>2, <2>1, RangeOfJoin
  <2>3. Binds(s) = (S \o CK) \o O
    BY <1>1, <1>4, <2>1 DEF Parts
  <2>4. Split(Binds(s), S, CK, O, p, p)
    BY <1>2, <1>3, <1>5, <1>6, <1>7, <1>8, <1>9, <1>11, <1>14, <2>2, <2>3, ReplacedApart DEF Split
  <2> QED BY <1>12, <2>4
<1> QED BY <1>13, <1>14

\* With a merged tree, its settings are what is seen.
LEMMA MergedSeen ==
  ASSUME PlanTypeOK, Ordinary(setup), NEW s \in Sessions, session[s].merge,
         session[s].overlay = {}
  PROVE  View(s, Settings["user"]) # Settings["user"]
<1>1. PICK F, A, C, K, O : Parts(s, F, A, C, K, O)
  BY PartsExist
<1>2. /\ F = <<CwdBind>> /\ A = Asked /\ C = ClaudeExtra(s)
      /\ K = <<Tmpfs(Cache)>> /\ O = SettingsOverlays(s)
      /\ F \in Bindings /\ A \in Bindings /\ C \in Bindings /\ K \in Bindings /\ O \in Bindings
  BY <1>1 DEF Parts
<1>3. PICK p : p = Settings["user"]
  OBVIOUS
<1>4. PICK CK : CK = C \o K
  OBVIOUS
<1>5. PICK V : V = CK \o O
  OBVIOUS
<1>6. CK \in Bindings /\ Range(CK) = Range(C) \cup Range(K)
  BY <1>2, <1>4, RangeOfJoin
<1>7. V \in Bindings /\ Range(V) = Range(C) \cup Range(K) \cup Range(O)
  BY <1>2, <1>5, <1>6, RangeOfJoin
<1>8. \A b \in Range(O) : FALSE
  BY <1>2, OverlaysAre
<1>9. Claude # ClaudeJson /\ Claude # Projects /\ Claude # Cache /\ Claude # Cwd
  BY DEF Claude, ClaudeJson, Projects, Cache, Cwd
<1>10. PICK m : m = Bind(MergedDir(s), Claude)
  OBVIOUS
<1>11. m \in Binding /\ m.path = MergedDir(s) /\ m.dest = Claude /\ ~m.tmpfs
  <2>1. m \in Binding
    BY <1>10, BindIs, Places
  <2> QED BY <1>10, <2>1 DEF Bind
<1>12. \A b \in Range(C) : b.dest \in {ClaudeJson, Claude, Projects}
  BY <1>2, Destinations
<1>13. \A b \in Range(K) : b.dest = Cache
  BY <1>2, Destinations
<1>14. m \in Range(V)
  BY <1>2, <1>7, <1>10, ExtraIs
<1>15. \A b \in Range(V) : b.dest = Claude => b = m
  <2>1. ASSUME NEW b \in Range(C), b.dest = Claude PROVE b = m
    <3>1. b \in {Bind(ClaudeJson, ClaudeJson), m, Bind(Projects, Projects)}
      BY <1>2, <1>10, ExtraIs
    <3> QED BY <1>9, <2>1, <3>1 DEF Bind
  <2> QED BY <1>7, <1>8, <1>9, <1>13, <2>1
<1>16. \A b \in Range(V) : pathContains(b.dest, p) => b.dest = Claude
  BY <1>3, <1>7, <1>8, <1>12, <1>13, AboveUser
<1>17. \A b \in Range(F) : b.dest # Claude
  BY <1>2, <1>9, Destinations
<1>18. ASSUME NEW S, NEW U, Split(Binds(s), S, U, V, Claude, p)
       PROVE  View(s, p) # p
  <2>1. PICK b \in Range(V) : b.dest = Claude /\ View(s, p) = Through(b, p)
    BY <1>18, Uppermost DEF View, Mounted
  <2>2. View(s, p) = Through(m, p)
    BY <1>15, <2>1
  <2>3. pathContains(MergedDir(s), Through(m, p))
    BY <1>3, <1>11, ThroughBelow, Places
  <2>4. ~pathContains(MergedDir(s), p)
    <3>1. MergedDir(s) \in Names /\ p \in Names
      BY <1>3, Places
    <3>2. Len(MergedDir(s)) = 3 /\ MergedDir(s)[1] = "tmp" /\ p[1] = "home"
      BY <1>3 DEF MergedDir, Settings
    <3>3. \E i \in {1, 3, 4, 5} : i <= Len(MergedDir(s)) /\ MergedDir(s)[i] # p[i]
      BY ONLY <3>2
    <3> QED BY ONLY <3>1, <3>3, Differs
  <2> QED BY <2>2, <2>3, <2>4
<1>19. CASE \E a \in Range(A) : a.dest = Claude
  <2>1. ASSUME NEW b \in Range(A), pathContains(b.dest, p) PROVE b.dest = Claude
    <3>1. b.dest \in Names /\ Claude \in Names /\ p \in Names /\ pathContains(Claude, p)
      <4>1. b \in Binding
        BY <1>2 DEF Bindings, Range
      <4> QED BY <1>3, <4>1, AboveUser, Places DEF Binding
    <3>2. CASE pathContains(b.dest, Claude)
      BY <1>2, <1>19, <3>2, AskedApart DEF Replaced
    <3>3. CASE pathContains(Claude, b.dest)
      <4>1. Len(Claude) = 3 /\ Len(p) = 4 /\ Len(b.dest) \in Nat
        BY <1>3, <3>1, Spelled DEF Names
      <4>2. Len(Claude) <= Len(b.dest) /\ Len(b.dest) <= Len(p)
        BY <2>1, <3>1, <3>3, PrefixIff
      <4>3. CASE Len(b.dest) <= Len(Claude)
        BY <3>1, <3>3, <4>3, PrefixEqual
      <4>4. CASE Len(p) <= Len(b.dest)
        <5>1. b.dest = p
          BY <2>1, <3>1, <4>4, PrefixEqual
        <5>2. PICK a \in Range(A) : a.dest = Claude
          BY <1>19
        <5>3. a.dest = p
          BY <1>2, <1>3, <3>1, <5>1, <5>2, AskedApart DEF Replaced
        <5> QED BY <5>1, <5>2, <5>3
      <4> QED BY <4>1, <4>2, <4>3, <4>4
    <3> QED BY <2>1, <3>1, <3>2, <3>3, PrefixBoth
  <2>2. Binds(s) = (F \o A) \o V
    BY <1>1, <1>4, <1>5 DEF Parts
  <2>3. Split(Binds(s), F, A, V, Claude, p)
    BY <1>2, <1>3, <1>7, <1>11, <1>14, <1>16, <1>17, <2>1, <2>2, AboveUser DEF Split
  <2> QED BY <1>3, <1>18, <2>3
<1>20. CASE \A a \in Range(A) : a.dest # Claude
  <2>1. PICK S : S = F \o A
    OBVIOUS
  <2>2. S \in Bindings /\ Range(S) = Range(F) \cup Range(A)
    BY <1>2, <2>1, RangeOfJoin
  <2>3. Binds(s) = (S \o <<>>) \o V
    BY <1>1, <1>4, <1>5, <2>1 DEF Parts
  <2>4. Split(Binds(s), S, <<>>, V, Claude, p)
    BY <1>3, <1>7, <1>11, <1>14, <1>16, <1>17, <1>20, <2>2, <2>3, NoBinds, AboveUser DEF Split
  <2> QED BY <1>3, <1>18, <2>4
<1> QED BY <1>19, <1>20

-----------------------------------------------------------------------------
(* Where the mounts lead *)

\* The binds that a session's mounts are made from.
LEMMA Origins ==
  ASSUME PlanTypeOK, NEW s \in Sessions, NEW m \in Range(RootMounts) \cup Range(Binds(s))
  PROVE  \/ m.tmpfs /\ m.dest \in {<<"dev">>, Cache}
         \/ m \in {Bind(<<"usr">>, <<"usr">>), Bind(<<"srv">>, <<"srv">>)}
         \/ m \in {Bind(InCache("home"), Home), Bind(InCache("tmp"), <<"tmp">>),
                   Bind(InCache("run"), <<"run">>)}
         \/ m = CwdBind
         \/ m \in Range(Asked)
         \/ m \in {Bind(Settings["user"], Settings["user"]), Bind(Projects, Projects),
                   Bind(ClaudeJson, ClaudeJson)}
         \/ m = Bind(MergedDir(s), Claude)
         \/ \E f \in Files : m = Bind(SanitizedCopy[f], Settings[f])
<1>1. CASE m \in Range(RootMounts)
  <2>1. PICK i \in 1 .. 6 : m = RootMounts[i]
    <3>1. DOMAIN RootMounts = 1 .. 6
      BY RootMountsAre DEF Bindings
    <3> QED BY <1>1, <3>1 DEF Range
  <2>2. CASE i \in {1, 2}
    BY <2>1, <2>2, RootMountsAre
  <2>3. CASE i = 3
    <3>1. m = Tmpfs(<<"dev">>)
      BY <2>1, <2>3, RootMountsAre
    <3> QED BY <3>1, TmpfsFields
  <2>4. CASE i \in {4, 5, 6}
    BY <2>1, <2>4, RootMountsAre
  <2> QED BY <2>1, <2>2, <2>3, <2>4
<1>2. CASE m \in Range(<<CwdBind>>)
  BY <1>2, FrontIs
<1>3. CASE m \in Range(ClaudeExtra(s))
  BY <1>3, ExtraIs
<1>4. CASE m \in Range(<<Tmpfs(Cache)>>)
  BY <1>4, ScratchIs, TmpfsFields
<1>5. CASE m \in Range(SettingsOverlays(s))
  BY <1>5, OverlaysAre
<1>6. m \in Range(RootMounts) \/ m \in Range(<<CwdBind>>) \/ m \in Range(Asked)
      \/ m \in Range(ClaudeExtra(s)) \/ m \in Range(<<Tmpfs(Cache)>>)
      \/ m \in Range(SettingsOverlays(s))
  BY BindsAre
<1> QED BY <1>1, <1>2, <1>3, <1>4, <1>5, <1>6

\* The names of places in the cache directory.
LEMMA SpelledInCache ==
  ASSUME NEW x \in Literals
  PROVE  /\ Len(InCache(x)) = 5 /\ InCache(x)[1] = "home" /\ InCache(x)[2] = "u"
         /\ InCache(x)[3] = ".cache" /\ InCache(x)[5] = x
BY DEF InCache

LEMMA SpelledCopy ==
  ASSUME NEW f \in Files
  PROVE  /\ Len(SanitizedCopy[f]) = 6 /\ SanitizedCopy[f][1] = "home"
         /\ SanitizedCopy[f][2] = "u" /\ SanitizedCopy[f][3] = ".cache"
         /\ SanitizedCopy[f] \in Names
<1>1. CASE f = "user"
  BY <1>1, Places DEF SanitizedCopy
<1>2. CASE f = "project"
  BY <1>2, Places DEF SanitizedCopy
<1> QED BY <1>1, <1>2 DEF Files

\* What begins with the names of the home is in it.
LEMMA AboveHome ==
  ASSUME NEW q \in Names, Len(q) >= 2, q[1] = "home", q[2] = "u"
  PROVE  pathContains(Home, q)
<1>1. Home \in Names /\ Len(Home) = 2 /\ Home[1] = "home" /\ Home[2] = "u" /\ Len(q) \in Nat
  BY Places, Spelled DEF Names
<1>2. \A i \in 1 .. Len(Home) : Home[i] = q[i]
  BY <1>1
<1>3. Len(Home) <= Len(q)
  BY <1>1
<1> QED BY ONLY <1>1, <1>2, <1>3, PrefixIff

\* Each mount shows scratch, a directory of the root, a place in the home or among
\* the temporary files, or what is asked for.
LEMMA PathsFrom ==
  ASSUME PlanTypeOK, NEW s \in Sessions, NEW m \in Range(RootMounts) \cup Range(Binds(s)),
         ~m.tmpfs
  PROVE  \/ m \in {Bind(<<"usr">>, <<"usr">>), Bind(<<"srv">>, <<"srv">>)}
         \/ pathContains(Home, m.path)
         \/ pathContains(<<"tmp">>, m.path)
         \/ \E i \in DOMAIN AskedFor(setup) : m.path = AskedFor(setup)[i]
<1>1. CASE m \in {Bind(InCache("home"), Home), Bind(InCache("tmp"), <<"tmp">>),
                  Bind(InCache("run"), <<"run">>)}
  <2>1. PICK x \in {"home", "tmp", "run"} : m.path = InCache(x)
    BY <1>1 DEF Bind
  <2>2. InCache(x) \in Names /\ x \in Literals
    BY Places DEF Literals
  <2> QED BY <2>1, <2>2, SpelledInCache, AboveHome
<1>2. CASE m = CwdBind
  <2>1. m.path = InCache("cwd") \/ m.path = Cwd
    BY <1>2 DEF CwdBind, Bind
  <2>2. InCache("cwd") \in Names /\ "cwd" \in Literals /\ Cwd \in Names
    BY Places DEF Literals
  <2>3. pathContains(Home, InCache("cwd"))
    BY <2>2, SpelledInCache, AboveHome
  <2>4. pathContains(Home, Cwd)
    BY <2>2, Spelled, AboveHome
  <2> QED BY <2>1, <2>3, <2>4
<1>3. CASE m \in Range(Asked)
  <2>1. PICK i \in DOMAIN AskedFor(setup) : m = Bind(AskedFor(setup)[i], AskedFor(setup)[i])
    BY <1>3, AskedIs
  <2> QED BY <2>1 DEF Bind
<1>4. CASE m \in {Bind(Settings["user"], Settings["user"]), Bind(Projects, Projects),
                  Bind(ClaudeJson, ClaudeJson)}
  <2>1. m.path \in {Settings["user"], Projects, ClaudeJson}
    BY <1>4 DEF Bind
  <2>2. pathContains(Home, Settings["user"])
    <3>1. Settings["user"] \in Names
      BY Places
    <3>2. Len(Settings["user"]) >= 2 /\ Settings["user"][1] = "home" /\ Settings["user"][2] = "u"
      BY Spelled
    <3> QED BY ONLY <3>1, <3>2, AboveHome
  <2>3. pathContains(Home, Projects)
    BY Places, Spelled, AboveHome
  <2>4. pathContains(Home, ClaudeJson)
    BY Places, Spelled, AboveHome
  <2> QED BY <2>1, <2>2, <2>3, <2>4
<1>5. CASE m = Bind(MergedDir(s), Claude)
  <2>1. m.path = MergedDir(s) /\ MergedDir(s) \in Names /\ <<"tmp">> \in Names
    BY <1>5, BindFields, Places DEF Literals
  <2>2. /\ Len(MergedDir(s)) = 3 /\ MergedDir(s)[1] = "tmp"
        /\ Len(<<"tmp">>) = 1 /\ <<"tmp">>[1] = "tmp"
    BY DEF MergedDir
  <2>3. PICK t : t = <<"tmp">>
    OBVIOUS
  <2>4. Len(t) <= Len(MergedDir(s)) /\ \A i \in 1 .. Len(t) : t[i] = MergedDir(s)[i]
    BY <2>2, <2>3
  <2>5. pathContains(t, MergedDir(s))
    BY <2>1, <2>3, <2>4, PrefixIff
  <2> QED BY <2>1, <2>3, <2>5
<1>6. CASE \E f \in Files : m = Bind(SanitizedCopy[f], Settings[f])
  <2>1. PICK f \in Files : m = Bind(SanitizedCopy[f], Settings[f])
    BY <1>6
  <2>2. m.path = SanitizedCopy[f]
    BY <2>1, BindFields
  <2>3. /\ SanitizedCopy[f] \in Names /\ Len(SanitizedCopy[f]) >= 2
        /\ SanitizedCopy[f][1] = "home" /\ SanitizedCopy[f][2] = "u"
    BY SpelledCopy
  <2>4. pathContains(Home, SanitizedCopy[f])
    BY ONLY <2>3, AboveHome
  <2> QED BY <2>2, <2>4
<1> QED BY <1>1, <1>2, <1>3, <1>4, <1>5, <1>6, Origins

\* The two files that are hidden.
Hidden == {Credentials, Source}

\* Their names.
LEMMA SpelledHidden ==
  ASSUME NEW p \in Hidden
  PROVE  /\ p \in Names /\ Len(p) = 4 /\ p[1] = "home" /\ p[2] = "u"
         /\ p[3] = IF p = Credentials THEN ".claude" ELSE "src"
         /\ p[4] = IF p = Credentials THEN ".credentials.json" ELSE "main.go"
<1>1. CASE p = Credentials
  BY <1>1, Places, Spelled
<1>2. CASE p = Source
  <2>1. Credentials[3] # Source[3]
    BY Spelled
  <2> QED BY <1>2, <2>1, Places, Spelled
<1> QED BY <1>1, <1>2 DEF Hidden

\* What is not above either of them.
LEMMA NotAboveHidden ==
  ASSUME NEW p \in Hidden, NEW q \in Names,
         \/ Len(q) > 4
         \/ q[1] # "home" /\ Len(q) >= 1
         \/ q[3] \notin {".claude", "src"} /\ Len(q) >= 3
         \/ q[3] = "src" /\ p = Credentials /\ Len(q) >= 3
         \/ q[4] \notin {".credentials.json", "main.go"} /\ Len(q) >= 4
  PROVE  ~pathContains(q, p)
<1>1. p \in Names /\ Len(p) = 4 /\ Len(q) \in Nat
  BY SpelledHidden DEF Names
<1>2. Len(q) > Len(p) \/ \E i \in {1, 3, 4, 5} : i <= Len(q) /\ q[i] # p[i]
  BY <1>1, SpelledHidden
<1> QED BY <1>1, <1>2, Differs

\* No mount leads to a directory above one that the user does not expose.
LEMMA NoneAboveHidden ==
  ASSUME PlanTypeOK, NEW s \in Sessions, NEW m \in Range(RootMounts) \cup Range(Binds(s)),
         ~m.tmpfs, NEW p \in Hidden, ~Exposes(p), p = Source => OnlyMode
  PROVE  ~pathContains(m.path, p)
<1>1. CASE m \in {Bind(<<"usr">>, <<"usr">>), Bind(<<"srv">>, <<"srv">>)}
  <2>1. PICK x \in {"usr", "srv"} : m.path = <<x>>
    BY <1>1 DEF Bind
  <2>2. <<x>> \in Names
    BY Places DEF Literals
  <2>3. PICK q : q = <<x>>
    OBVIOUS
  <2>4. q \in Names /\ q[1] # "home" /\ Len(q) >= 1
    BY <2>2, <2>3
  <2>5. ~pathContains(q, p)
    BY <2>4, NotAboveHidden
  <2> QED BY <2>1, <2>3, <2>5
<1>2. CASE m \in {Bind(InCache("home"), Home), Bind(InCache("tmp"), <<"tmp">>),
                  Bind(InCache("run"), <<"run">>)}
  <2>1. PICK x \in {"home", "tmp", "run"} : m.path = InCache(x)
    BY <1>2 DEF Bind
  <2>2. InCache(x) \in Names /\ Len(InCache(x)) > 4
    BY Places, SpelledInCache DEF Literals
  <2>3. ~pathContains(InCache(x), p)
    BY <2>2, NotAboveHidden
  <2> QED BY <2>1, <2>3
<1>3. CASE m = CwdBind
  <2>1. m.path = InCache("cwd") \/ (m.path = Cwd /\ ~OnlyMode)
    <3>1. CASE OnlyMode
      BY <1>3, <3>1 DEF CwdBind, Bind
    <3>2. CASE ~OnlyMode
      BY <1>3, <3>2 DEF CwdBind, Bind
    <3> QED BY <3>1, <3>2
  <2>2. InCache("cwd") \in Names /\ Len(InCache("cwd")) > 4
    BY Places, SpelledInCache DEF Literals
  <2>3. Cwd \in Names /\ Cwd[3] = "src" /\ Len(Cwd) >= 3
    BY Places, Spelled
  <2>4. ~OnlyMode => p = Credentials
    BY DEF Hidden
  <2> QED BY <2>1, <2>2, <2>3, <2>4, NotAboveHidden
<1>4. CASE m \in Range(Asked)
  BY <1>4, AskedAbove
<1>5. CASE m \in {Bind(Settings["user"], Settings["user"]), Bind(Projects, Projects),
                  Bind(ClaudeJson, ClaudeJson)}
  <2>1. m.path \in {Settings["user"], Projects, ClaudeJson}
    BY <1>5 DEF Bind
  <2>2. ~pathContains(Settings["user"], p)
    <3>1. Settings["user"] \in Names
      BY Places
    <3>2. Len(Settings["user"]) >= 4 /\ Settings["user"][4] \notin {".credentials.json", "main.go"}
      BY Spelled
    <3> QED BY <3>1, <3>2, NotAboveHidden
  <2>3. ~pathContains(Projects, p)
    BY Places, Spelled, NotAboveHidden
  <2>4. ~pathContains(ClaudeJson, p)
    BY Places, Spelled, NotAboveHidden
  <2> QED BY <2>1, <2>2, <2>3, <2>4
<1>6. CASE m = Bind(MergedDir(s), Claude)
  <2>1. m.path = MergedDir(s) /\ MergedDir(s) \in Names
    BY <1>6, BindFields, Places
  <2>2. Len(MergedDir(s)) >= 1 /\ MergedDir(s)[1] # "home"
    BY DEF MergedDir
  <2> QED BY <2>1, <2>2, NotAboveHidden
<1>7. CASE \E f \in Files : m = Bind(SanitizedCopy[f], Settings[f])
  <2>1. PICK f \in Files : m = Bind(SanitizedCopy[f], Settings[f])
    BY <1>7
  <2>2. m.path = SanitizedCopy[f]
    BY <2>1, BindFields
  <2>3. SanitizedCopy[f] \in Names /\ Len(SanitizedCopy[f]) > 4
    <3>1. SanitizedCopy[f] \in Names /\ Len(SanitizedCopy[f]) = 6
      BY SpelledCopy
    <3> QED BY ONLY <3>1
  <2> QED BY <2>2, <2>3, NotAboveHidden
<1> QED BY <1>1, <1>2, <1>3, <1>4, <1>5, <1>6, <1>7, Origins

\* What is mounted at the home.
LEMMA HomeFrom ==
  ASSUME PlanTypeOK, NEW s \in Sessions, NEW m \in Range(RootMounts) \cup Range(Binds(s)),
         m.dest = Home
  PROVE  ~m.tmpfs /\ m.path \in {Home, InCache("home")}
<1>1. /\ Home # Cache /\ Home # Cwd /\ Home # Claude /\ Home # ClaudeJson /\ Home # Projects
      /\ Home # <<"dev">> /\ Home # <<"usr">> /\ Home # <<"srv">> /\ Home # <<"tmp">>
      /\ Home # <<"run">> /\ Home # Settings["user"] /\ Home # Settings["project"]
  <2>1. Len(Home) = 2
    BY Spelled
  <2>2. /\ Len(<<"dev">>) = 1 /\ Len(<<"usr">>) = 1 /\ Len(<<"srv">>) = 1
        /\ Len(<<"tmp">>) = 1 /\ Len(<<"run">>) = 1
    OBVIOUS
  <2>3. Len(Settings["user"]) = 4 /\ Len(Settings["project"]) = 5
    BY Spelled
  <2>4. Home # Settings["user"] /\ Home # Settings["project"]
    BY ONLY <2>1, <2>3
  <2>5. Home # Cache /\ Home # Cwd /\ Home # Claude /\ Home # ClaudeJson /\ Home # Projects
    BY Spelled
  <2> QED BY <2>1, <2>2, <2>4, <2>5
<1>2. CASE m \in {Bind(InCache("home"), Home), Bind(InCache("tmp"), <<"tmp">>),
                  Bind(InCache("run"), <<"run">>)}
  BY <1>1, <1>2 DEF Bind
<1>3. CASE m \in Range(Asked)
  <2>1. PICK i \in DOMAIN AskedFor(setup) : m = Bind(AskedFor(setup)[i], AskedFor(setup)[i])
    BY <1>3, AskedIs
  <2> QED BY <2>1 DEF Bind
<1>4. CASE \E f \in Files : m = Bind(SanitizedCopy[f], Settings[f])
  <2>1. m.dest \in {Settings["user"], Settings["project"]}
    BY <1>4 DEF Files, Bind
  <2> QED BY <1>1, <2>1
<1>5. CASE m \in {Bind(Settings["user"], Settings["user"]), Bind(Projects, Projects),
                   Bind(ClaudeJson, ClaudeJson)}
  BY <1>1, <1>5 DEF Bind
<1>6. CASE m = Bind(MergedDir(s), Claude)
  BY <1>1, <1>6 DEF Bind
<1>7. CASE m \in {Bind(<<"usr">>, <<"usr">>), Bind(<<"srv">>, <<"srv">>)}
  BY <1>1, <1>7 DEF Bind
<1> QED BY <1>1, <1>2, <1>3, <1>4, <1>5, <1>6, <1>7, CwdIs, Origins

-----------------------------------------------------------------------------
(* The containment check *)

Volumes == SUBSET [at: Names, root: Names]

\* A path that no volume is above is where it is said to be.
LEMMA RootOfNone ==
  ASSUME NEW V, NEW p, \A v \in V : ~pathContains(v.at, p)
  PROVE  RootInFS(V, p) = p
<1>1. {v \in V : pathContains(v.at, p)} = {}
  OBVIOUS
<1> QED BY <1>1 DEF RootInFS

\* Of the volumes above the others, the lowest decides.
LEMMA RootOfSome ==
  ASSUME NEW V \in Volumes, NEW p \in Names, NEW v \in V, pathContains(v.at, p)
  PROVE  \E w \in V :
           /\ pathContains(w.at, p)
           /\ \A o \in V : pathContains(o.at, p) => Len(o.at) <= Len(w.at)
           /\ RootInFS(V, p) = w.root \o SubSeq(p, Len(w.at) + 1, Len(p))
<1> DEFINE over == {u \in V : pathContains(u.at, p)}
<1> DEFINE low == CHOOSE w \in over : \A o \in over : Len(o.at) <= Len(w.at)
<1>1. \A u \in V : u.at \in Names /\ Len(u.at) \in Nat /\ Len(p) \in Nat
  BY DEF Volumes, Names
<1>2. \A u \in over : Len(u.at) <= Len(p)
  BY <1>1, PrefixIff
<1>3. v \in over
  OBVIOUS
<1>4. \E w \in over : \A o \in over : Len(o.at) <= Len(w.at)
  <2> DEFINE T == {n \in Nat : \E u \in over : n = Len(p) - Len(u.at)}
  <2>1. \A u \in over : Len(p) - Len(u.at) \in T
    BY <1>1, <1>2
  <2>2. T # {} /\ T \in SUBSET Nat
    BY <1>3, <2>1
  <2>3. PICK n \in T : \A m \in T : n <= m
    <3> HIDE DEF T
    <3> QED BY <2>2, LeastExists
  <2>4. PICK w \in over : n = Len(p) - Len(w.at)
    BY <2>3
  <2>5. ASSUME NEW o \in over PROVE Len(o.at) <= Len(w.at)
    <3>1. n <= Len(p) - Len(o.at)
      BY <2>1, <2>3
    <3>2. Len(w.at) \in Nat /\ Len(o.at) \in Nat /\ Len(p) \in Nat
      BY <1>1
    <3> QED BY ONLY <2>4, <3>1, <3>2
  <2> QED BY <2>5
<1>5. low \in over /\ \A o \in over : Len(o.at) <= Len(low.at)
  <2> HIDE DEF over
  <2> QED BY <1>4
<1>6. RootInFS(V, p) = low.root \o SubSeq(p, Len(low.at) + 1, Len(p))
  BY <1>3 DEF RootInFS
<1> QED BY <1>5, <1>6

\* The mount that is live at a point.
Live(M, d) ==
  CHOOSE i \in {j \in DOMAIN M : M[j].dest = d} :
    \A j \in {k \in DOMAIN M : M[k].dest = d} : j <= i

\* It is on that point.
LEMMA LiveIs ==
  ASSUME NEW M \in Bindings, NEW d, \E i \in DOMAIN M : M[i].dest = d
  PROVE  Live(M, d) \in DOMAIN M /\ M[Live(M, d)].dest = d
<1> DEFINE at == {j \in DOMAIN M : M[j].dest = d}
<1> DEFINE T == {n \in Nat : n <= Len(M) /\ Len(M) - n \in at}
<1>1. Len(M) \in Nat /\ DOMAIN M = 1 .. Len(M)
  BY DEF Bindings
<1>2. PICK i \in DOMAIN M : M[i].dest = d
  OBVIOUS
<1>3. Len(M) - i \in T /\ T \in SUBSET Nat
  BY <1>1, <1>2
<1>4. PICK n \in T : \A m \in T : n <= m
  <2> HIDE DEF T
  <2> QED BY <1>3, LeastExists
<1>5. PICK l : l = Len(M) - n
  OBVIOUS
<1>6. l \in at
  BY <1>4, <1>5
<1>7. ASSUME NEW j \in at PROVE j <= l
  <2>1. Len(M) - j \in T
    BY <1>1
  <2>2. n <= Len(M) - j /\ j \in Nat /\ n \in Nat
    BY <1>1, <1>4, <2>1
  <2> QED BY ONLY <1>1, <1>5, <2>2
<1>8. Live(M, d) \in at
  <2>1. \E k \in at : \A j \in at : j <= k
    BY <1>6, <1>7
  <2>2. Live(M, d) = CHOOSE k \in at : \A j \in at : j <= k
    BY DEF Live
  <2> HIDE DEF at
  <2> QED BY <2>1, <2>2
<1> QED BY <1>8

\* A mount that has the root of a protected point below its own, or that brings
\* along such a one, is a leak.
LEMMA Leaking ==
  ASSUME NEW V, NEW M \in Bindings, NEW P, NEW d \in P, NEW i \in DOMAIN M, ~M[i].tmpfs,
         \A q \in P : \E j \in DOMAIN M : M[j].dest = q,
         ~M[Live(M, d)].tmpfs, NEW root,
         \/ root \in RootsBelow(V, M[i])
         \/ M[i].dest \notin P /\ root = RootInFS(V, M[i].path),
         pathContains(root, RootInFS(V, M[Live(M, d)].path))
  PROVE  ContainmentLeak(V, M, P)
<1> DEFINE own(k) == IF M[k].tmpfs \/ \E q \in P : k = Live(M, q) THEN {}
                     ELSE {RootInFS(V, M[k].path)}
<1>1. root \in own(i) \cup RootsBelow(V, M[i])
  <2>1. CASE M[i].dest \notin P /\ root = RootInFS(V, M[i].path)
    <3>1. \A q \in P : M[Live(M, q)].dest = q
      BY LiveIs
    <3>2. \A q \in P : i # Live(M, q)
      BY <2>1, <3>1
    <3> QED BY <2>1, <3>2
  <2> QED BY <2>1
<1>2. \E k \in DOMAIN M, q \in P :
        /\ ~M[Live(M, q)].tmpfs
        /\ \E r \in own(k) \cup RootsBelow(V, M[k]) :
             pathContains(r, RootInFS(V, M[Live(M, q)].path))
  BY <1>1
<1> HIDE DEF own
<1>3. \E k \in DOMAIN M, q \in P :
        /\ ~M[Live(M, q)].tmpfs
        /\ \E r \in (IF M[k].tmpfs \/ \E x \in P : k = Live(M, x) THEN {}
                     ELSE {RootInFS(V, M[k].path)}) \cup RootsBelow(V, M[k]) :
             pathContains(r, RootInFS(V, M[Live(M, q)].path))
  BY <1>2 DEF own
<1> QED BY <1>3 DEF ContainmentLeak, Live

\* The volumes of a setup have paths.
LEMMA VolumesAre == ASSUME PlanTypeOK PROVE setup.volumes \in Volumes
<1>1. \A q \in Path : q \in Names
  BY DEF Path, Names, Name
<1> QED BY <1>1, SetupsAssumption DEF PlanTypeOK, Volumes

\* What is left of a path.
LEMMA RestIs ==
  ASSUME NEW p \in Names, NEW n \in Nat
  PROVE  SubSeq(p, n + 1, Len(p)) \in Names /\ SubSeq(p, Len(p) + 1, Len(p)) = <<>>
<1>1. Len(p) \in Nat /\ n + 1 \in Nat /\ \A i \in n + 1 .. Len(p) : p[i] \in Name
  BY DEF Names
<1>2. SubSeq(p, n + 1, Len(p)) \in Seq(Name)
  BY <1>1, SubSeqProperties DEF Names
<1>3. SubSeq(p, Len(p) + 1, Len(p)) = <<>>
  BY <1>1 DEF Names
<1> QED BY <1>2, <1>3 DEF Names

\* What Ordinary says of a volume that shows a hidden file.
LEMMA OrdinaryVolume ==
  ASSUME PlanTypeOK, Ordinary(setup), NEW w \in setup.volumes, NEW p \in Hidden,
         pathContains(w.root, p)
  PROVE  /\ w.at \in Names /\ w.root \in Names /\ pathContains(w.root, Home)
         /\ ~pathContains(Home, w.at) /\ ~pathContains(w.at, Home)
         /\ ~pathContains(<<"tmp">>, w.at) /\ ~pathContains(w.at, <<"tmp">>)
         /\ \A i \in DOMAIN AskedFor(setup) : ~pathContains(w.at, AskedFor(setup)[i])
         /\ Len(w.at) >= 1
<1>1. w.at \in Names /\ w.root \in Names
  BY VolumesAre DEF Volumes
<1>2. /\ pathContains(w.root, Home)
      /\ \A q \in {Home, <<"tmp">>} : ~pathContains(q, w.at) /\ ~pathContains(w.at, q)
      /\ \A i \in DOMAIN AskedFor(setup) : ~pathContains(w.at, AskedFor(setup)[i])
  BY DEF Ordinary, Hidden
<1>3. Len(w.at) >= 1
  <2>1. SUFFICES ASSUME Len(w.at) = 0 PROVE FALSE
    BY <1>1 DEF Names
  <2>2. Len(w.at) <= Len(Home) /\ \A i \in 1 .. Len(w.at) : w.at[i] = Home[i]
    BY <2>1, Spelled
  <2>3. pathContains(w.at, Home)
    BY <1>1, <2>2, PrefixIff, Places
  <2> QED BY <1>2, <2>3
<1> QED BY <1>1, <1>2, <1>3

\* The home itself is shown by no volume, wherever it is mounted from.
LEMMA HomeRoot ==
  ASSUME PlanTypeOK, Ordinary(setup), NEW q \in {Home, InCache("home")}
  PROVE  RootInFS(setup.volumes, q) = q /\ pathContains(Home, q)
<1>1. InCache("home") \in Names /\ Home \in Names
  BY Places DEF Literals
<1>2. pathContains(Home, q)
  <2>1. pathContains(Home, InCache("home"))
    <3>1. Len(InCache("home")) >= 2 /\ InCache("home")[1] = "home" /\ InCache("home")[2] = "u"
      BY SpelledInCache DEF Literals
    <3> QED BY <1>1, <3>1, AboveHome
  <2>2. pathContains(Home, Home)
    BY <1>1, PrefixSelf
  <2> QED BY <2>1, <2>2
<1>3. ASSUME NEW v \in setup.volumes PROVE ~pathContains(v.at, q)
  <2>1. v.at \in Names /\ ~pathContains(v.at, InCache("home"))
    BY VolumesAre DEF Volumes, Ordinary
  <2>2. pathContains(v.at, q) => pathContains(v.at, InCache("home"))
    <3>1. pathContains(Home, InCache("home"))
      <4>1. Len(InCache("home")) >= 2 /\ InCache("home")[1] = "home" /\ InCache("home")[2] = "u"
        BY SpelledInCache DEF Literals
      <4> QED BY <1>1, <4>1, AboveHome
    <3> QED BY <1>1, <2>1, <3>1, PrefixTrans
  <2> QED BY <2>1, <2>2
<1> QED BY <1>2, <1>3, RootOfNone

\* A volume that shows a hidden file is brought along by no mount that claude gets
\* to see, or the containment check refuses.
LEMMA LeakyVolume ==
  ASSUME PlanTypeOK, Ordinary(setup), NEW s \in Sessions, NEW p \in Hidden,
         NEW w \in setup.volumes, pathContains(w.root, p),
         NEW i \in DOMAIN Mounted(s), ~Mounted(s)[i].tmpfs,
         \/ w.root \in RootsBelow(setup.volumes, Mounted(s)[i])
         \/ /\ Mounted(s)[i].dest \notin {Home, <<"tmp">>, <<"run">>}
            /\ w.root = RootInFS(setup.volumes, Mounted(s)[i].path)
  PROVE  Leaks(s)
<1> DEFINE P == {Home, <<"tmp">>, <<"run">>}
<1>1. PICK M : M = Mounted(s)
  OBVIOUS
<1>2. /\ M \in Bindings /\ DOMAIN M = 1 .. 6 + Len(Dedup(Binds(s)))
      /\ \A j \in 1 .. 6 : M[j] = RootMounts[j]
  BY <1>1, BindsAre, MountsAre DEF Mounted
<1>3. Len(Dedup(Binds(s))) \in Nat
  BY BindsAre, MountsAre DEF Bindings
<1>4. 4 \in DOMAIN M /\ 5 \in DOMAIN M /\ 6 \in DOMAIN M
  BY <1>2, <1>3
<1>5. M[4].dest = Home /\ M[5].dest = <<"tmp">> /\ M[6].dest = <<"run">>
  BY <1>2, RootMountsAre DEF Bind
<1>6. \A q \in P : \E j \in DOMAIN M : M[j].dest = q
  BY <1>4, <1>5
<1>7. PICK l : l = M[Live(M, Home)]
  OBVIOUS
<1>8. l \in Range(RootMounts) \cup Range(Binds(s)) /\ l.dest = Home
  <2>1. Live(M, Home) \in DOMAIN M /\ l.dest = Home
    BY <1>2, <1>4, <1>5, <1>7, LiveIs
  <2>2. Binds(s) \in Bindings
    BY BindsAre
  <2> QED BY <1>1, <1>7, <2>1, <2>2, MountedFrom DEF Mounted
<1>9. ~l.tmpfs /\ l.path \in {Home, InCache("home")}
  BY <1>8, HomeFrom
<1>10. pathContains(w.root, RootInFS(setup.volumes, l.path))
  <2>1. RootInFS(setup.volumes, l.path) = l.path /\ pathContains(Home, l.path)
    BY <1>9, HomeRoot
  <2>2. w.root \in Names /\ pathContains(w.root, Home)
    BY OrdinaryVolume
  <2>3. Home \in Names /\ l.path \in Names
    BY <1>9, Places DEF Literals
  <2> QED BY <2>1, <2>2, <2>3, PrefixTrans
<1>11. i \in DOMAIN M /\ ~M[i].tmpfs
       /\ (\/ w.root \in RootsBelow(setup.volumes, M[i])
           \/ M[i].dest \notin P /\ w.root = RootInFS(setup.volumes, M[i].path))
  BY <1>1
<1>12. ~M[Live(M, Home)].tmpfs
       /\ pathContains(w.root, RootInFS(setup.volumes, M[Live(M, Home)].path))
  BY <1>7, <1>9, <1>10
<1>13. Home \in P
  OBVIOUS
<1> HIDE DEF P
<1>14. ContainmentLeak(setup.volumes, M, P)
  BY <1>2, <1>6, <1>11, <1>12, <1>13, Leaking
<1> QED BY <1>1, <1>14 DEF Leaks, P

\* A directory of the root on which a volume is mounted has the volume's root.
LEMMA RootOfVolume ==
  ASSUME PlanTypeOK, Ordinary(setup), NEW w \in setup.volumes, w.at \in Names, Len(w.at) = 1,
         ~pathContains(w.at, Home)
  PROVE  RootInFS(setup.volumes, w.at) = w.root
<1>1. pathContains(w.at, w.at)
  BY PrefixSelf
<1>2. PICK u \in setup.volumes :
        /\ pathContains(u.at, w.at)
        /\ \A o \in setup.volumes : pathContains(o.at, w.at) => Len(o.at) <= Len(u.at)
        /\ RootInFS(setup.volumes, w.at) = u.root \o SubSeq(w.at, Len(u.at) + 1, Len(w.at))
  BY <1>1, VolumesAre, RootOfSome
<1>3. u.at \in Names /\ u.root \in Names
  BY VolumesAre DEF Volumes
<1>4. Len(w.at) <= Len(u.at)
  BY <1>1, <1>2
<1>5. u.at = w.at
  BY <1>2, <1>3, <1>4, PrefixEqual
<1>6. u = w
  BY <1>5 DEF Ordinary
<1>7. SubSeq(w.at, Len(w.at) + 1, Len(w.at)) = <<>>
  BY RestIs
<1>8. u.root \o <<>> = u.root
  BY <1>3, ConcatEmptySeq DEF Names
<1> QED BY <1>2, <1>5, <1>6, <1>7, <1>8

\* In an ordinary setup claude reaches no hidden file under any name: a mount that shows
\* one leads above it, or brings along or leads into a volume that the check refuses.
LEMMA HiddenKept ==
  ASSUME PlanTypeOK, Ordinary(setup), NEW s \in Sessions, ~Leaks(s),
         NEW p \in Hidden, ~Exposes(p), p = Source => OnlyMode
  PROVE  ~Reaches(s, p)
<1> SUFFICES ASSUME NEW alias \in Aliases(p), View(s, alias) # Nothing,
                    RootInFS(setup.volumes, View(s, alias)) = p
             PROVE  FALSE
  BY DEF Reaches
<1>1. setup.volumes \in Volumes
  BY VolumesAre
<1>2. p \in Names /\ Len(p) = 4
  BY SpelledHidden
<1>3. alias \in Names
  <2>1. ASSUME NEW v \in setup.volumes
        PROVE  v.at \o SubSeq(p, Len(v.root) + 1, Len(p)) \in Names
    <3>1. v.at \in Names /\ v.root \in Names /\ Len(v.root) \in Nat
      BY <1>1 DEF Volumes, Names
    <3>2. SubSeq(p, Len(v.root) + 1, Len(p)) \in Names
      BY <1>2, <3>1, RestIs
    <3> QED BY <3>1, <3>2, PrefixConcat
  <2> QED BY <1>2, <2>1 DEF Aliases
<1>4. PICK M : M = Mounted(s)
  OBVIOUS
<1>5. M \in Bindings /\ \A i \in DOMAIN M : M[i] \in Range(RootMounts) \cup Range(Binds(s))
  <2>1. Binds(s) \in Bindings
    BY BindsAre
  <2> QED BY <1>4, <2>1, MountsAre, MountedFrom DEF Mounted
<1>6. PICK i \in DOMAIN M : Top(M, alias, i) /\ View(s, alias) = Through(M[i], alias)
  BY <1>4, <1>5, TopExists DEF View
<1>7. PICK m : m = M[i]
  OBVIOUS
<1>8. m \in Binding /\ m \in Range(RootMounts) \cup Range(Binds(s))
  BY <1>5, <1>7 DEF Bindings
<1>9. PICK from : from = View(s, alias)
  OBVIOUS
\* A volume above what is shown is one that shows p.
<1>10. ASSUME from \in Names, NEW w \in setup.volumes,
              RootInFS(setup.volumes, from) = w.root \o SubSeq(from, Len(w.at) + 1, Len(from))
       PROVE  pathContains(w.root, p)
  <2>1. w.root \in Names /\ Len(w.at) \in Nat
    BY <1>1 DEF Volumes, Names
  <2>2. SubSeq(from, Len(w.at) + 1, Len(from)) \in Names
    BY <1>10, <2>1, RestIs
  <2> QED BY <1>9, <1>10, <2>1, <2>2, PrefixConcat
<1>11. CASE m.tmpfs
  <2>1. from = <<"tmpfs">>
    BY <1>6, <1>7, <1>9, <1>11 DEF Through, Scratch
  <2>2. from \in Names /\ Len(from) = 1
    BY <2>1, Places DEF Literals
  <2>3. CASE \A v \in setup.volumes : ~pathContains(v.at, from)
    <3>1. from = p
      BY <1>9, <2>3, RootOfNone
    <3> QED BY <1>2, <2>2, <3>1
  <2>4. CASE \E v \in setup.volumes : pathContains(v.at, from)
    <3>1. PICK w \in setup.volumes :
            /\ pathContains(w.at, from)
            /\ RootInFS(setup.volumes, from)
                 = w.root \o SubSeq(from, Len(w.at) + 1, Len(from))
      BY <1>1, <2>2, <2>4, RootOfSome
    <3>2. pathContains(w.root, p)
      BY <1>10, <2>2, <3>1
    <3>3. w.at \in Names /\ w.root \in Names /\ Len(w.at) >= 1 /\ pathContains(w.root, Home)
      BY <3>2, OrdinaryVolume
    <3>4. w.at = from
      BY <2>2, <3>1, <3>3, PrefixEqual
    <3>5. SubSeq(from, Len(w.at) + 1, Len(from)) = <<>>
      BY <2>2, <3>4, RestIs
    <3>6. w.root = p
      <4>1. w.root \o <<>> = w.root
        BY <3>3, ConcatEmptySeq DEF Names
      <4> QED BY <1>9, <3>1, <3>5, <4>1
    <3>7. Len(w.root) <= Len(Home)
      BY <3>3, PrefixIff, Places
    <3> QED BY <1>2, <3>6, <3>7, Spelled
  <2> QED BY <2>3, <2>4
<1>12. CASE ~m.tmpfs
  <2>1. from \in Names /\ m.path \in Names /\ pathContains(m.path, from)
    BY <1>3, <1>6, <1>7, <1>8, <1>9, <1>12, ThroughBelow DEF Binding
  <2>2. CASE \A v \in setup.volumes : ~pathContains(v.at, from)
    <3>1. from = p
      BY <1>9, <2>2, RootOfNone
    <3> QED BY <1>8, <1>12, <2>1, <3>1, NoneAboveHidden
  <2>3. CASE \E v \in setup.volumes : pathContains(v.at, from)
    <3>1. PICK w \in setup.volumes :
            /\ pathContains(w.at, from)
            /\ RootInFS(setup.volumes, from)
                 = w.root \o SubSeq(from, Len(w.at) + 1, Len(from))
      BY <1>1, <2>1, <2>3, RootOfSome
    <3>2. pathContains(w.root, p)
      BY <1>10, <2>1, <3>1
    <3>3. /\ w.at \in Names /\ Len(w.at) >= 1
          /\ ~pathContains(Home, w.at) /\ ~pathContains(w.at, Home)
          /\ ~pathContains(<<"tmp">>, w.at) /\ ~pathContains(w.at, <<"tmp">>)
          /\ \A k \in DOMAIN AskedFor(setup) : ~pathContains(w.at, AskedFor(setup)[k])
      BY <3>2, OrdinaryVolume
    <3>4. CASE pathContains(m.path, w.at) /\ m.path # w.at
      <4>1. w.root \in RootsBelow(setup.volumes, M[i])
        BY <1>7, <1>12, <3>4 DEF RootsBelow
      <4> QED BY <1>4, <1>7, <1>12, <3>2, <4>1, LeakyVolume
    <3>5. CASE pathContains(w.at, m.path)
      <4>1. Home \in Names /\ <<"tmp">> \in Names
        BY Places DEF Literals
      <4>2. CASE pathContains(Home, m.path)
        BY <2>1, <3>3, <3>5, <4>1, <4>2, PrefixBoth
      <4>3. CASE pathContains(<<"tmp">>, m.path)
        BY <2>1, <3>3, <3>5, <4>1, <4>3, PrefixBoth
      <4>4. CASE \E k \in DOMAIN AskedFor(setup) : m.path = AskedFor(setup)[k]
        BY <3>3, <3>5, <4>4
      <4>5. CASE m \in {Bind(<<"usr">>, <<"usr">>), Bind(<<"srv">>, <<"srv">>)}
        <5>1. PICK x \in {"usr", "srv"} : m.path = <<x>> /\ m.dest = <<x>>
          BY <4>5 DEF Bind
        <5>2. Len(m.path) = 1
          BY <5>1
        <5>3. w.at = m.path
          BY <2>1, <3>3, <3>5, <5>2, PrefixEqual
        <5>4. RootInFS(setup.volumes, m.path) = w.root
          BY <3>3, <5>2, <5>3, RootOfVolume
        <5>5. m.dest \notin {Home, <<"tmp">>, <<"run">>}
          <6>1. Len(<<x>>) = 1 /\ Len(Home) = 2
            BY Spelled
          <6> QED BY <5>1, <6>1
        <5> QED BY <1>4, <1>7, <1>12, <3>2, <5>4, <5>5, LeakyVolume
      <4> QED BY <1>8, <1>12, <4>2, <4>3, <4>4, <4>5, PathsFrom
    <3>6. pathContains(m.path, w.at) \/ pathContains(w.at, m.path)
      BY <2>1, <3>1, <3>3, PrefixBoth
    <3>7. m.path = w.at => pathContains(w.at, m.path)
      BY <2>1, PrefixSelf
    <3> QED BY <3>4, <3>5, <3>6, <3>7
  <2> QED BY <2>2, <2>3
<1> QED BY <1>11, <1>12

-----------------------------------------------------------------------------
(* The invariant *)

\* Files that are missing or malformed have no AWS keys.
LEMMA KeyFacts ==
  /\ Missing \in Content /\ Malformed \in Content
  /\ ~HasAWS(Missing) /\ ~HasAWS(Malformed)
  /\ \A c \in Contents : c \in Content
<1>1. Missing \in Content /\ Malformed \in Content
  BY DEF Content
<1>2. ~HasAWS(Missing) /\ ~HasAWS(Malformed)
  BY DEF HasAWS, Object, IsObject
<1>3. \A c \in Contents : c \in Content
  BY DEF Content
<1> QED BY <1>1, <1>2, <1>3

\* What is written into a copy has none.
LEMMA SanitizedIs ==
  ASSUME NEW c \in Content PROVE Sanitized(c) \in Content /\ ~HasAWS(Sanitized(c))
<1>1. ~HasAWS(Sanitized(c))
  BY DEF HasAWS, Object, Sanitized
<1>2. Sanitized(c) \in Content
  <2>1. CASE c \in SUBSET UNION Contents
    BY <2>1 DEF Content, Sanitized
  <2>2. CASE c = Missing
    <3>1. Sanitized(c) = Missing
      BY <2>2 DEF Sanitized, Missing, Scrub, AwsEnv
    <3> QED BY <3>1 DEF Content
  <2>3. CASE c = Malformed
    <3>1. Sanitized(c) = Malformed
      BY <2>3 DEF Sanitized, Malformed, Scrub, AwsEnv
    <3> QED BY <3>1 DEF Content
  <2> QED BY <2>1, <2>2, <2>3 DEF Content
<1> QED BY <1>1, <1>2

\* Nor has a merger.
LEMMA MergedIs ==
  ASSUME NEW c \in Content, NEW d \in Content
  PROVE  Merged(c, d) \in Content /\ ~HasAWS(Merged(c, d))
<1>1. CASE c = Missing /\ d = Missing
  BY <1>1, KeyFacts DEF Merged
<1>2. CASE ~(c = Missing /\ d = Missing)
  <2>1. Merged(c, d) = (Object(c) \cup Object(d)) \ Scrub
    BY <1>2 DEF Merged
  <2>2. Object(c) \in SUBSET UNION Contents /\ Object(d) \in SUBSET (UNION Contents)
    BY DEF Content, Object, IsObject
  <2>3. Merged(c, d) \in Content
    BY <2>1, <2>2 DEF Content
  <2>4. ~HasAWS(Merged(c, d))
    BY <2>1 DEF HasAWS, Object
  <2> QED BY <2>3, <2>4
<1> QED BY <1>1, <1>2

\* The mounts of a session are decided by what it listed and overlays.
LEMMA SameLeaks ==
  ASSUME NEW s \in Sessions, setup' = setup, session'[s].merge = session[s].merge,
         session'[s].listed = session[s].listed, session'[s].overlay = session[s].overlay
  PROVE  Leaks(s)' <=> Leaks(s)
<1>1. ClaudeExtra(s)' = ClaudeExtra(s)
  BY DEF ClaudeExtra, Listed, BesideClaude, LiveState, Bind, MergedDir, Settings, Claude,
         ClaudeJson, Projects
<1>2. SettingsOverlays(s)' = SettingsOverlays(s)
  BY DEF SettingsOverlays, Bind, SanitizedCopy, Settings
<1>3. Binds(s)' = Binds(s)
  BY <1>1, <1>2 DEF Binds, CwdBind, OnlyMode, Asked, AskedFor, Bind, Tmpfs, InCache, Cwd, Cache
<1>4. Mounted(s)' = Mounted(s)
  BY <1>3 DEF Mounted, RootMounts, Dedup, Place, Bind, Tmpfs, InCache, Home
<1> QED BY <1>4 DEF Leaks, ContainmentLeak, RootInFS, RootsBelow, pathContains, IsPrefix, Home

\* A session is not disturbed by what leaves its own record and tree alone.
LEMMA OtherCourse ==
  ASSUME NEW t \in Sessions, Course(t), setup' = setup, session'[t] = session[t],
         tree'[t] = tree[t]
  PROVE  Course(t)'
<1>1. Leaks(t)' <=> Leaks(t)
  BY SameLeaks
<1> QED BY <1>1 DEF Course, Handled, Unmerged, HasAWS, UsesBedrock, Object, IsObject

State == [at: SessionAt, env: SUBSET (HostEnv \cup EnvKeys), listed: BOOLEAN,
          merge: BOOLEAN, read: [Files -> Content], overlay: SUBSET Files]
Tree == [settings: Content, present: BOOLEAN, stub: BOOLEAN]

\* A step of one session that leaves the settings' files and the others' trees alone.
LEMMA OneSession ==
  ASSUME PlanInv, NEW s \in Sessions, UNCHANGED <<setup, edits>>,
         file' \in [Files -> Content], copy' \in [Files -> Content],
         \A f \in Files : ~HasAWS(copy[f])',
         NEW r \in State, session' = [session EXCEPT ![s] = r],
         NEW w \in Tree, tree' = [tree EXCEPT ![s] = w], ~HasAWS(w.settings),
         Course(s)'
  PROVE  PlanInv'
<1>1. session \in [Sessions -> State] /\ tree \in [Sessions -> Tree]
  BY DEF PlanInv, PlanTypeOK, State, Tree
<1>2. session' \in [Sessions -> State] /\ tree' \in [Sessions -> Tree]
  BY <1>1
<1>3. PlanTypeOK'
  BY <1>2 DEF PlanInv, PlanTypeOK, State, Tree
<1>4. \A t \in Sessions : tree'[t] = IF t = s THEN w ELSE tree[t]
  BY <1>1
<1>5. Scrubbed'
  BY <1>4 DEF PlanInv, Scrubbed, HasAWS, Object, IsObject
<1>6. ASSUME NEW t \in Sessions, t # s PROVE Course(t)'
  <2>1. session'[t] = session[t] /\ tree'[t] = tree[t] /\ setup' = setup
    BY <1>1, <1>6
  <2> QED BY <2>1, OtherCourse DEF PlanInv
<1> QED BY <1>3, <1>5, <1>6 DEF PlanInv

\* What a session's record holds.
LEMMA StateIs ==
  ASSUME PlanTypeOK, NEW s \in Sessions
  PROVE  /\ session \in [Sessions -> State] /\ session[s] \in State
         /\ tree \in [Sessions -> Tree] /\ tree[s] \in Tree
         /\ file \in [Files -> Content] /\ copy \in [Files -> Content]
BY DEF PlanTypeOK, State, Tree

\* A tree that was removed.
LEMMA NoTreeIs == NoTree \in Tree /\ ~HasAWS(NoTree.settings)
<1>1. NoTree \in Tree /\ NoTree.settings = Missing
  BY KeyFacts DEF NoTree, Tree
<1> QED BY <1>1, KeyFacts

\* A tree, or the copies, that a step leaves alone.
LEMMA SameTree ==
  ASSUME PlanInv, NEW s \in Sessions
  PROVE  tree = [tree EXCEPT ![s] = tree[s]] /\ ~HasAWS(tree[s].settings)
BY DEF PlanInv, PlanTypeOK, Scrubbed

LEMMA SameCopy ==
  ASSUME PlanInv, copy' = copy
  PROVE  copy' \in [Files -> Content] /\ \A f \in Files : ~HasAWS(copy[f])'
BY DEF PlanInv, PlanTypeOK, Scrubbed, HasAWS, Object, IsObject

\* Each action keeps the invariant.
LEMMA LoadSettingsKeeps ==
  ASSUME PlanInv, NEW s \in Sessions, LoadSettings(s) PROVE PlanInv'
<1>1. session[s] \in State /\ session \in [Sessions -> State]
  BY StateIs DEF PlanInv
<1>2. PICK r : r = [session[s] EXCEPT !.at = "loaded",
                       !.env = Environment(HostEnv, file["user"], file["project"])]
  OBVIOUS
<1>3. session' = [session EXCEPT ![s] = r]
  BY <1>1, <1>2 DEF LoadSettings
<1>4. Environment(HostEnv, file["user"], file["project"]) \in SUBSET (HostEnv \cup EnvKeys)
  BY DEF Environment
<1>5. r \in State /\ r.at = "loaded" /\ r.merge = session[s].merge
      /\ r.overlay = session[s].overlay
  BY <1>1, <1>2, <1>4 DEF State, SessionAt
<1>6. session'[s] = r
  BY <1>1, <1>3
<1>7. session[s].at = "start" /\ Course(s)
  BY DEF LoadSettings, At, PlanInv
<1>8. Course(s)'
  BY <1>5, <1>6, <1>7 DEF Course, Handled, Unmerged
<1>9. UNCHANGED <<setup, edits>> /\ file' = file /\ copy' = copy /\ tree' = tree
  BY DEF LoadSettings
<1>10. file' \in [Files -> Content] /\ tree[s] \in Tree
  BY <1>9, StateIs DEF PlanInv
<1> QED BY <1>3, <1>5, <1>8, <1>9, <1>10, OneSession, SameTree, SameCopy

LEMMA ListClaudeKeeps ==
  ASSUME PlanInv, NEW s \in Sessions, ListClaude(s) PROVE PlanInv'
<1>1. session[s] \in State /\ session \in [Sessions -> State]
  BY StateIs DEF PlanInv
<1>2. PICK r : r = [session[s] EXCEPT !.at = "listed", !.listed = (file["user"] # Missing)]
  OBVIOUS
<1>3. session' = [session EXCEPT ![s] = r]
  BY <1>1, <1>2 DEF ListClaude
<1>5. r \in State /\ r.at = "listed" /\ r.merge = session[s].merge
      /\ r.overlay = session[s].overlay
  BY <1>1, <1>2 DEF State, SessionAt
<1>6. session'[s] = r
  BY <1>1, <1>3
<1>7. session[s].at = "loaded" /\ Course(s)
  BY DEF ListClaude, At, PlanInv
<1>8. Course(s)'
  BY <1>5, <1>6, <1>7 DEF Course, Handled, Unmerged
<1>9. UNCHANGED <<setup, edits>> /\ file' = file /\ copy' = copy /\ tree' = tree
  BY DEF ListClaude
<1>10. file' \in [Files -> Content] /\ tree[s] \in Tree
  BY <1>9, StateIs DEF PlanInv
<1> QED BY <1>3, <1>5, <1>8, <1>9, <1>10, OneSession, SameTree, SameCopy

LEMMA DecideMergeKeeps ==
  ASSUME PlanInv, NEW s \in Sessions, DecideMerge(s) PROVE PlanInv'
<1>1. session[s] \in State /\ session \in [Sessions -> State]
  BY StateIs DEF PlanInv
<1>2. PICK r : r = [session[s] EXCEPT
                      !.at = IF HasAWS(file["project"]) THEN "merge" ELSE "stub",
                      !.merge = HasAWS(file["project"])]
  OBVIOUS
<1>3. session' = [session EXCEPT ![s] = r]
  BY <1>1, <1>2 DEF DecideMerge
<1>4. HasAWS(file["project"]) \in BOOLEAN
  BY DEF HasAWS
<1>5. /\ r \in State /\ r.overlay = session[s].overlay
      /\ r.merge => r.at = "merge"
      /\ ~r.merge => r.at = "stub"
  <2>1. CASE HasAWS(file["project"])
    BY <1>1, <1>2, <1>4, <2>1 DEF State, SessionAt
  <2>2. CASE ~HasAWS(file["project"])
    BY <1>1, <1>2, <1>4, <2>2 DEF State, SessionAt
  <2> QED BY <2>1, <2>2
<1>6. session'[s] = r
  BY <1>1, <1>3
<1>7. session[s].at = "listed" /\ Course(s)
  BY DEF DecideMerge, At, PlanInv
<1>8. Course(s)'
  BY <1>5, <1>6, <1>7 DEF Course, Handled, Unmerged
<1>9. UNCHANGED <<setup, edits>> /\ file' = file /\ copy' = copy /\ tree' = tree
  BY DEF DecideMerge
<1>10. file' \in [Files -> Content] /\ tree[s] \in Tree
  BY <1>9, StateIs DEF PlanInv
<1> QED BY <1>3, <1>5, <1>8, <1>9, <1>10, OneSession, SameTree, SameCopy

LEMMA RemoveTreeKeeps ==
  ASSUME PlanInv, NEW s \in Sessions, RemoveTree(s) PROVE PlanInv'
<1>1. session[s] \in State /\ session \in [Sessions -> State]
  BY StateIs DEF PlanInv
<1>2. PICK r : r = [session[s] EXCEPT !.at = "merging"]
  OBVIOUS
<1>3. session' = [session EXCEPT ![s] = r]
  BY <1>1, <1>2 DEF RemoveTree, Goto
<1>5. r \in State /\ r.at = "merging" /\ r.merge = session[s].merge
      /\ r.overlay = session[s].overlay
  BY <1>1, <1>2 DEF State, SessionAt
<1>6. session'[s] = r
  BY <1>1, <1>3
<1>7. session[s].at = "merge" /\ Course(s)
  BY DEF RemoveTree, At, PlanInv
<1>8. Course(s)'
  BY <1>5, <1>6, <1>7 DEF Course, Handled, Unmerged
<1>9. /\ UNCHANGED <<setup, edits>> /\ file' = file /\ copy' = copy
      /\ tree' = [tree EXCEPT ![s] = NoTree]
  BY DEF RemoveTree, TreeOf
<1>10. file' \in [Files -> Content]
  BY <1>9, StateIs DEF PlanInv
<1> QED BY <1>3, <1>5, <1>8, <1>9, <1>10, OneSession, NoTreeIs, SameCopy

LEMMA MergeTreeKeeps ==
  ASSUME PlanInv, NEW s \in Sessions, MergeTree(s) PROVE PlanInv'
<1>1. session[s] \in State /\ session \in [Sessions -> State] /\ file \in [Files -> Content]
      /\ tree \in [Sessions -> Tree]
  BY StateIs DEF PlanInv
<1>2. session[s].at = "merging" /\ Course(s)
  BY DEF MergeTree, At, PlanInv
<1>3. UNCHANGED <<setup, edits>> /\ file' = file /\ copy' = copy
  BY DEF MergeTree
<1>4. file' \in [Files -> Content]
  BY <1>1, <1>3
<1>5. CASE MergeFails(file["user"], file["project"])
  <2>1. PICK r : r = [session[s] EXCEPT !.at = "failed"]
    OBVIOUS
  <2>2. session' = [session EXCEPT ![s] = r] /\ tree' = [tree EXCEPT ![s] = NoTree]
    BY <1>1, <1>5, <2>1 DEF MergeTree
  <2>3. r \in State /\ r.at = "failed" /\ r.merge = session[s].merge
        /\ r.overlay = session[s].overlay
    BY <1>1, <2>1 DEF State, SessionAt
  <2>4. session'[s] = r
    BY <1>1, <2>2
  <2>5. Course(s)'
    BY <1>2, <2>3, <2>4 DEF Course, Handled, Unmerged
  <2> QED BY <1>3, <1>4, <2>2, <2>3, <2>5, OneSession, NoTreeIs, SameCopy
<1>6. CASE ~MergeFails(file["user"], file["project"])
  <2>1. PICK r : r = [session[s] EXCEPT !.at = "stub", !.read = file]
    OBVIOUS
  <2>2. PICK c : c = Merged(file["user"], file["project"])
    OBVIOUS
  <2>3. c \in Content /\ ~HasAWS(c)
    BY <1>1, <2>2, MergedIs DEF Files
  <2>4. PICK w : w = [settings |-> c, present |-> TRUE, stub |-> FALSE]
    OBVIOUS
  <2>5. w \in Tree /\ w.present /\ ~HasAWS(w.settings)
    BY <2>3, <2>4 DEF Tree
  <2>6. session' = [session EXCEPT ![s] = r] /\ tree' = [tree EXCEPT ![s] = w]
    BY <1>1, <1>6, <2>1, <2>2, <2>4 DEF MergeTree, TreeOf
  <2>7. r \in State /\ r.at = "stub" /\ r.merge = session[s].merge
        /\ r.overlay = session[s].overlay
    BY <1>1, <2>1 DEF State, SessionAt
  <2>8. session'[s] = r /\ tree'[s] = w
    BY <1>1, <2>6
  <2>9. Course(s)'
    BY <1>2, <2>5, <2>7, <2>8 DEF Course, Handled, Unmerged
  <2> QED BY <1>3, <1>4, <2>5, <2>6, <2>7, <2>9, OneSession, SameCopy
<1> QED BY <1>5, <1>6

LEMMA WriteStubKeeps ==
  ASSUME PlanInv, NEW s \in Sessions, WriteStub(s) PROVE PlanInv'
<1>1. session[s] \in State /\ session \in [Sessions -> State] /\ file \in [Files -> Content]
      /\ tree \in [Sessions -> Tree] /\ tree[s] \in Tree
  BY StateIs DEF PlanInv
<1>2. session[s].at = "stub" /\ Course(s)
  BY DEF WriteStub, At, PlanInv
<1>3. UNCHANGED <<setup, edits>> /\ file' = file /\ copy' = copy
  BY DEF WriteStub
<1>4. file' \in [Files -> Content]
  BY <1>1, <1>3
<1>5. PICK r : r = [session[s] EXCEPT !.at = IF session[s].merge THEN "planned" ELSE "user"]
  OBVIOUS
<1>6. session' = [session EXCEPT ![s] = r]
  BY <1>1, <1>5 DEF WriteStub, Goto
<1>7. /\ r \in State /\ r.merge = session[s].merge /\ r.overlay = session[s].overlay
      /\ r.env = session[s].env /\ r.at = IF r.merge THEN "planned" ELSE "user"
  <2>1. CASE session[s].merge
    BY <1>1, <1>5, <2>1 DEF State, SessionAt
  <2>2. CASE ~session[s].merge
    BY <1>1, <1>5, <2>2 DEF State, SessionAt
  <2> QED BY <2>1, <2>2
<1>8. PICK w : w = IF session[s].merge /\ ~UsesBedrock(session[s].env)
                   THEN [tree[s] EXCEPT !.stub = TRUE] ELSE tree[s]
  OBVIOUS
<1>9. /\ w \in Tree /\ w.settings = tree[s].settings /\ w.present = tree[s].present
      /\ session[s].merge => w.stub \/ UsesBedrock(session[s].env)
  BY <1>1, <1>8 DEF Tree
<1>10. tree' = [tree EXCEPT ![s] = w]
  BY <1>1, <1>8, SameTree DEF WriteStub, TreeOf
<1>11. session'[s] = r /\ tree'[s] = w
  BY <1>1, <1>6, <1>10
<1>12. Course(s)'
  <2>1. CASE session[s].merge
    BY <1>2, <1>7, <1>9, <1>11, <2>1 DEF Course, Handled, Unmerged, UsesBedrock
  <2>2. CASE ~session[s].merge
    BY <1>2, <1>7, <1>9, <1>11, <2>2 DEF Course, Handled, Unmerged
  <2> QED BY <2>1, <2>2
<1>13. ~HasAWS(w.settings)
  BY <1>9, SameTree
<1> QED BY <1>3, <1>4, <1>6, <1>7, <1>9, <1>10, <1>12, <1>13, OneSession, SameCopy

LEMMA SanitizeKeeps ==
  ASSUME PlanInv, NEW s \in Sessions, NEW f \in Files, Sanitize(s, f) PROVE PlanInv'
<1>1. session[s] \in State /\ session \in [Sessions -> State] /\ file \in [Files -> Content]
      /\ copy \in [Files -> Content] /\ tree[s] \in Tree
  BY StateIs DEF PlanInv
<1>2. session[s].at = f /\ Course(s)
  BY DEF Sanitize, At, PlanInv
<1>3. UNCHANGED <<setup, edits>> /\ file' = file /\ tree' = tree
  BY DEF Sanitize
<1>4. file' \in [Files -> Content]
  BY <1>1, <1>3
<1>5. copy' \in [Files -> Content] /\ \A g \in Files : ~HasAWS(copy[g])'
  <2>1. CASE NeedsCopy(file[f])
    <3>1. copy' = [copy EXCEPT ![f] = Malformed]
      BY <2>1 DEF Sanitize
    <3>2. \A g \in Files : copy'[g] = IF g = f THEN Malformed ELSE copy[g]
      BY <1>1, <3>1
    <3>3. \A g \in Files : ~HasAWS(copy'[g])
      BY <3>2, KeyFacts DEF PlanInv, Scrubbed
    <3> QED BY <1>1, <3>1, <3>3, KeyFacts DEF HasAWS, Object, IsObject
  <2>2. CASE ~NeedsCopy(file[f])
    <3>1. copy' = copy
      BY <2>2 DEF Sanitize
    <3> QED BY <3>1, SameCopy
  <2> QED BY <2>1, <2>2
<1>6. PICK e : e = [session[s].read EXCEPT ![f] = file[f]]
  OBVIOUS
<1>7. /\ e \in [Files -> Content] /\ e[f] = file[f]
      /\ \A g \in Files : g # f => e[g] = session[s].read[g]
  BY <1>1, <1>6 DEF State
<1>8. PICK r : r = [session[s] EXCEPT !.read = e,
                      !.at = IF NeedsCopy(file[f]) THEN Writing(f) ELSE After(f)]
  OBVIOUS
<1>9. session' = [session EXCEPT ![s] = r]
  BY <1>1, <1>6, <1>8 DEF Sanitize, State
<1>10. /\ r \in State /\ r.merge = session[s].merge /\ r.overlay = session[s].overlay
       /\ r.read = e
       /\ NeedsCopy(file[f]) => r.at = Writing(f)
       /\ ~NeedsCopy(file[f]) => r.at = After(f)
  <2>1. Writing(f) \in SessionAt /\ After(f) \in SessionAt
    BY DEF Writing, After, SessionAt
  <2>2. CASE NeedsCopy(file[f])
    BY <1>1, <1>7, <1>8, <2>1, <2>2 DEF State
  <2>3. CASE ~NeedsCopy(file[f])
    BY <1>1, <1>7, <1>8, <2>1, <2>3 DEF State
  <2> QED BY <2>2, <2>3
<1>11. session'[s] = r /\ tree'[s] = tree[s]
  BY <1>1, <1>3, <1>9
<1>12. ~session[s].merge /\ f \in Unmerged
  BY <1>2 DEF Course, Files, Unmerged
<1>13. Course(s)'
  <2>1. CASE f = "user"
    <3>1. CASE NeedsCopy(file[f])
      <4>1. r.at = "user write"
        BY <1>10, <2>1, <3>1 DEF Writing
      <4> QED BY <1>10, <1>11, <1>12, <4>1 DEF Course, Handled, Unmerged
    <3>2. CASE ~NeedsCopy(file[f])
      <4>1. r.at = "project"
        BY <1>10, <2>1, <3>2 DEF After
      <4>2. ~HasAWS(r.read["user"])
        BY <1>7, <1>10, <2>1, <3>2 DEF NeedsCopy
      <4> QED BY <1>10, <1>11, <1>12, <4>1, <4>2
              DEF Course, Handled, Unmerged, HasAWS, Object, IsObject
    <3> QED BY <3>1, <3>2
  <2>2. CASE f = "project"
    <3>1. HasAWS(session[s].read["user"]) => "user" \in session[s].overlay
      BY <1>2, <1>12, <2>2 DEF Course, Handled
    <3>2. r.read["user"] = session[s].read["user"]
      BY <1>7, <1>10, <2>2 DEF Files
    <3>3. CASE NeedsCopy(file[f])
      <4>1. r.at = "project write"
        BY <1>10, <2>2, <3>3 DEF Writing
      <4> QED BY <1>10, <1>11, <1>12, <3>1, <3>2, <4>1
              DEF Course, Handled, Unmerged, HasAWS, Object, IsObject
    <3>4. CASE ~NeedsCopy(file[f])
      <4>1. r.at = "planned"
        BY <1>10, <2>2, <3>4 DEF After
      <4>2. ~HasAWS(r.read["project"])
        BY <1>7, <1>10, <2>2, <3>4 DEF NeedsCopy
      <4> QED BY <1>10, <1>11, <1>12, <3>1, <3>2, <4>1, <4>2
              DEF Course, Handled, Unmerged, Files, HasAWS, Object, IsObject
    <3> QED BY <3>3, <3>4
  <2> QED BY <2>1, <2>2 DEF Files
<1> QED BY <1>1, <1>3, <1>4, <1>5, <1>9, <1>10, <1>13, OneSession, SameTree

LEMMA WriteCopyKeeps ==
  ASSUME PlanInv, NEW s \in Sessions, NEW f \in Files, WriteCopy(s, f) PROVE PlanInv'
<1>1. session[s] \in State /\ session \in [Sessions -> State] /\ file \in [Files -> Content]
      /\ copy \in [Files -> Content] /\ tree[s] \in Tree
  BY StateIs DEF PlanInv
<1>2. session[s].at = Writing(f) /\ Course(s)
  BY DEF WriteCopy, At, PlanInv
<1>3. UNCHANGED <<setup, edits>> /\ file' = file /\ tree' = tree
  BY DEF WriteCopy
<1>4. file' \in [Files -> Content]
  BY <1>1, <1>3
<1>5. PICK c : c = Sanitized(session[s].read[f])
  OBVIOUS
<1>6. c \in Content /\ ~HasAWS(c)
  <2>1. session[s].read[f] \in Content
    BY <1>1 DEF State
  <2> QED BY <1>5, <2>1, SanitizedIs
<1>7. copy' = [copy EXCEPT ![f] = c]
  BY <1>5 DEF WriteCopy
<1>8. copy' \in [Files -> Content] /\ \A g \in Files : ~HasAWS(copy[g])'
  <2>1. \A g \in Files : copy'[g] = IF g = f THEN c ELSE copy[g]
    BY <1>1, <1>7
  <2>2. \A g \in Files : ~HasAWS(copy'[g])
    BY <1>6, <2>1 DEF PlanInv, Scrubbed
  <2> QED BY <1>1, <1>6, <1>7, <2>2 DEF HasAWS, Object, IsObject
<1>9. PICK r : r = [session[s] EXCEPT !.at = After(f), !.overlay = session[s].overlay \cup {f}]
  OBVIOUS
<1>10. session' = [session EXCEPT ![s] = r]
  BY <1>1, <1>9 DEF WriteCopy, State
<1>11. /\ r \in State /\ r.merge = session[s].merge /\ r.read = session[s].read
       /\ r.at = After(f) /\ r.overlay = session[s].overlay \cup {f}
  <2>1. After(f) \in SessionAt
    BY DEF After, SessionAt
  <2> QED BY <1>1, <1>9, <2>1 DEF State
<1>12. session'[s] = r /\ tree'[s] = tree[s]
  BY <1>1, <1>3, <1>10
<1>13. ~session[s].merge
  BY <1>2 DEF Course, Files, Unmerged, Writing
<1>14. Course(s)'
  <2>1. CASE f = "user"
    <3>1. r.at = "project" /\ "user" \in r.overlay
      BY <1>11, <2>1 DEF After
    <3> QED BY <1>11, <1>12, <1>13, <3>1 DEF Course, Handled, Unmerged
  <2>2. CASE f = "project"
    <3>1. r.at = "planned" /\ "project" \in r.overlay
      BY <1>11, <2>2 DEF After
    <3>2. HasAWS(session[s].read["user"]) => "user" \in session[s].overlay
      BY <1>2, <1>13, <2>2 DEF Course, Handled, Writing
    <3> QED BY <1>11, <1>12, <1>13, <3>1, <3>2
            DEF Course, Handled, Unmerged, Files, HasAWS, Object, IsObject
  <2> QED BY <2>1, <2>2 DEF Files
<1> QED BY <1>1, <1>3, <1>4, <1>8, <1>10, <1>11, <1>14, OneSession, SameTree

LEMMA MountKeeps ==
  ASSUME PlanInv, NEW s \in Sessions, Mount(s) PROVE PlanInv'
<1>1. session[s] \in State /\ session \in [Sessions -> State] /\ file \in [Files -> Content]
      /\ tree[s] \in Tree /\ tree \in [Sessions -> Tree]
  BY StateIs DEF PlanInv
<1>2. session[s].at = "planned" /\ Course(s)
  BY DEF Mount, At, PlanInv
<1>3. UNCHANGED <<setup, edits>> /\ copy' = copy
  BY DEF Mount
<1>4. file' \in [Files -> Content]
  <2>1. file' = [f \in Files |-> IF f \in Placed(s) THEN Malformed ELSE file[f]]
    BY DEF Mount
  <2> QED BY <1>1, <2>1, KeyFacts
<1>5. CASE Vanished(s) \/ Leaks(s)
  <2>1. PICK r : r = [session[s] EXCEPT !.at = "failed"]
    OBVIOUS
  <2>2. session' = [session EXCEPT ![s] = r] /\ tree' = [tree EXCEPT ![s] = NoTree]
    BY <1>1, <1>5, <2>1 DEF Mount, Goto
  <2>3. r \in State /\ r.at = "failed" /\ r.merge = session[s].merge
        /\ r.overlay = session[s].overlay
    BY <1>1, <2>1 DEF State, SessionAt
  <2>4. session'[s] = r
    BY <1>1, <2>2
  <2>5. Course(s)'
    BY <1>2, <2>3, <2>4 DEF Course, Handled, Unmerged
  <2> QED BY <1>3, <1>4, <2>2, <2>3, <2>5, OneSession, NoTreeIs, SameCopy
<1>6. CASE ~(Vanished(s) \/ Leaks(s))
  <2>1. PICK r : r = [session[s] EXCEPT !.at = "running"]
    OBVIOUS
  <2>2. session' = [session EXCEPT ![s] = r] /\ tree' = tree
    BY <1>1, <1>6, <2>1 DEF Mount, Goto
  <2>3. r \in State /\ r.at = "running" /\ r.merge = session[s].merge
        /\ r.overlay = session[s].overlay /\ r.listed = session[s].listed
        /\ r.read = session[s].read /\ r.env = session[s].env
    BY <1>1, <2>1 DEF State, SessionAt
  <2>4. session'[s] = r /\ tree'[s] = tree[s]
    BY <1>1, <2>2
  <2>5. ~Leaks(s)'
    BY <1>3, <1>6, <2>3, <2>4, SameLeaks
  <2>6. Course(s)'
    <3>1. CASE session[s].merge
      BY <1>2, <2>3, <2>4, <2>5, <3>1 DEF Course, Handled, Unmerged, UsesBedrock
    <3>2. CASE ~session[s].merge
      <4>1. \A f \in Files : HasAWS(session[s].read[f]) => f \in session[s].overlay
        BY <1>2, <3>2 DEF Course, Handled
      <4>2. \A f \in Files : HasAWS(r.read[f]) => f \in r.overlay
        BY <2>3, <4>1
      <4> QED BY <2>3, <2>4, <2>5, <3>2, <4>2
              DEF Course, Handled, Unmerged, HasAWS, Object, IsObject
    <3> QED BY <3>1, <3>2
  <2> QED BY <1>1, <1>3, <1>4, <2>2, <2>3, <2>6, OneSession, SameTree, SameCopy
<1> QED BY <1>5, <1>6

LEMMA ExitKeeps ==
  ASSUME PlanInv, NEW s \in Sessions, Exit(s) PROVE PlanInv'
<1>1. session[s] \in State /\ session \in [Sessions -> State]
  BY StateIs DEF PlanInv
<1>2. PICK r : r = [session[s] EXCEPT !.at = "ended"]
  OBVIOUS
<1>3. session' = [session EXCEPT ![s] = r]
  BY <1>1, <1>2 DEF Exit, Goto
<1>4. r \in State /\ r.at = "ended" /\ r.merge = session[s].merge
      /\ r.overlay = session[s].overlay
  BY <1>1, <1>2 DEF State, SessionAt
<1>5. session'[s] = r
  BY <1>1, <1>3
<1>6. Course(s)
  BY DEF PlanInv
<1>7. Course(s)'
  BY <1>4, <1>5, <1>6 DEF Course, Handled, Unmerged
<1>8. /\ UNCHANGED <<setup, edits>> /\ file' = file /\ copy' = copy
      /\ tree' = [tree EXCEPT ![s] = NoTree]
  BY DEF Exit
<1>9. file' \in [Files -> Content]
  BY <1>8, StateIs DEF PlanInv
<1> QED BY <1>3, <1>4, <1>7, <1>8, <1>9, OneSession, NoTreeIs, SameCopy

LEMMA EditKeeps ==
  ASSUME PlanInv, NEW f \in Files, Edit(f) PROVE PlanInv'
<1>1. UNCHANGED <<setup, copy, tree, session>>
  BY DEF Edit
<1>2. file' \in [Files -> Content]
  <2>1. PICK content \in Contents : file' = [file EXCEPT ![f] = content]
    BY DEF Edit
  <2> QED BY <2>1, KeyFacts DEF PlanInv, PlanTypeOK
<1>3. edits' \in 0 .. MaxEdits
  BY MaxEditsAssumption DEF Edit, PlanInv, PlanTypeOK
<1>4. PlanTypeOK'
  BY <1>1, <1>2, <1>3 DEF PlanInv, PlanTypeOK
<1>5. Scrubbed'
  BY <1>1 DEF PlanInv, Scrubbed, HasAWS, Object, IsObject
<1>6. \A s \in Sessions : Course(s)'
  BY <1>1, OtherCourse DEF PlanInv
<1> QED BY <1>4, <1>5, <1>6 DEF PlanInv

\* It holds at first, and every step keeps it.
LEMMA PlanInitially == PlanInit => PlanInv
<1> SUFFICES ASSUME PlanInit PROVE PlanInv
  OBVIOUS
<1>1. PlanTypeOK
  <2>1. file \in [Files -> Content] /\ copy \in [Files -> Content]
    BY KeyFacts DEF PlanInit
  <2>2. tree \in [Sessions -> Tree]
    BY NoTreeIs DEF PlanInit
  <2>3. session \in [Sessions -> State]
    BY KeyFacts DEF PlanInit, State, SessionAt
  <2>4. edits \in 0 .. MaxEdits /\ setup \in Setups
    BY MaxEditsAssumption DEF PlanInit
  <2> QED BY <2>1, <2>2, <2>3, <2>4 DEF PlanTypeOK, State, Tree
<1>2. Scrubbed
  BY KeyFacts DEF PlanInit, Scrubbed, NoTree
<1>3. ASSUME NEW s \in Sessions PROVE Course(s)
  BY DEF PlanInit, Course, Handled, Unmerged
<1> QED BY <1>1, <1>2, <1>3 DEF PlanInv

LEMMA PlanStep == PlanInv /\ [PlanNext]_planVars => PlanInv'
<1> SUFFICES ASSUME PlanInv, [PlanNext]_planVars PROVE PlanInv'
  OBVIOUS
<1>1. CASE UNCHANGED planVars
  <2>1. \A s \in Sessions : Course(s)'
    BY <1>1, OtherCourse DEF planVars, PlanInv
  <2> QED BY <1>1, <2>1
          DEF planVars, PlanInv, PlanTypeOK, Scrubbed, HasAWS, Object, IsObject
<1>2. ASSUME NEW s \in Sessions, Step(s) PROVE PlanInv'
  BY <1>2, LoadSettingsKeeps, ListClaudeKeeps, DecideMergeKeeps, RemoveTreeKeeps,
     MergeTreeKeeps, WriteStubKeeps, SanitizeKeeps, WriteCopyKeeps, MountKeeps, ExitKeeps
  DEF Step
<1>3. ASSUME NEW f \in Files, Edit(f) PROVE PlanInv'
  BY <1>3, EditKeeps
<1> QED BY <1>1, <1>2, <1>3 DEF PlanNext

\* The invariant holds in every reachable state, with any number of sessions.
THEOREM PlanInvariant == PlanSpec => []PlanInv
<1>1. PlanInit => PlanInv
  BY PlanInitially
<1>2. PlanInv /\ [PlanNext]_planVars => PlanInv'
  BY PlanStep
<1> QED BY <1>1, <1>2, PTL DEF PlanSpec

\* What sessions, trees, copies and settings hold stays what the code puts there.
THEOREM PlanTypeCorrect == PlanSpec => []PlanTypeOK
<1>1. PlanInv => PlanTypeOK
  BY DEF PlanInv
<1> QED BY <1>1, PlanInvariant, PTL

\* claude's live state is the host's, its scratch the session's, and a merged tree is
\* whole while its session runs, whatever other sessions and the user do meanwhile.
THEOREM ClaudeKept == PlanSpec => []ClaudeHomeKept
<1>1. ASSUME PlanInv PROVE ClaudeHomeKept
  <2> SUFFICES ASSUME NEW s \in Sessions, Running(s)
               PROVE  /\ ~Exposes(Projects) => View(s, Projects) = Projects
                      /\ ~Exposes(Cache) => View(s, Cache) = Scratch
                      /\ session[s].merge =>
                           /\ tree[TreeOf(s)].present
                           /\ tree[TreeOf(s)].stub \/ UsesBedrock(session[s].env)
    BY DEF ClaudeHomeKept
  <2>1. PlanTypeOK /\ Course(s) /\ session[s].at = "running"
    BY <1>1 DEF PlanInv, Running, At
  <2>2. ~Exposes(Projects) => View(s, Projects) = Projects
    BY <2>1, ProjectsSeen
  <2>3. ~Exposes(Cache) => View(s, Cache) = Scratch
    BY <2>1, CacheSeen
  <2>4. session[s].merge => tree[s].present /\ (tree[s].stub \/ UsesBedrock(session[s].env))
    BY <2>1 DEF Course
  <2> QED BY <2>2, <2>3, <2>4 DEF TreeOf
<1>2. PlanInv => ClaudeHomeKept
  BY <1>1
<1> QED BY <1>2, PlanInvariant, PTL

\* What is seen of settings that had an AWS key when the session read them has none.
LEMMA SettingsKept ==
  ASSUME PlanInv, Ordinary(setup), NEW s \in Sessions, Running(s), NEW f \in Sources(s),
         HasAWS(session[s].read[f])
  PROVE  ~HasAWS(SettingsSeen(s, f))
<1>1. PlanTypeOK /\ Course(s) /\ session[s].at = "running"
  BY DEF PlanInv, Running, At
<1>2. f \in Files
  BY DEF Sources, Files
<1>3. View(s, Settings[f]) # Settings[f]
  <2>1. CASE session[s].merge
    <3>1. f = "user" /\ session[s].overlay = {}
      BY <1>1, <2>1 DEF Sources, Course
    <3> QED BY <1>1, <2>1, <3>1, MergedSeen
  <2>2. CASE ~session[s].merge
    <3>1. f \in session[s].overlay
      BY <1>1, <1>2, <2>2 DEF Course, Handled
    <3>2. View(s, Settings[f]) = SanitizedCopy[f]
      BY <1>1, <1>2, <2>2, <3>1, OverlaySeen
    <3>3. SanitizedCopy[f][3] = ".cache" /\ Settings[f][3] # ".cache"
      BY <1>2, SpelledCopy, Spelled DEF Files
    <3> QED BY <3>2, <3>3
  <2> QED BY <2>1, <2>2
<1>4. ~HasAWS(copy[f]) /\ ~HasAWS(tree[s].settings) /\ ~HasAWS(Missing)
  BY <1>2, KeyFacts DEF PlanInv, Scrubbed
<1> QED BY <1>3, <1>4 DEF SettingsSeen, TreeOf

\* In ordinary setups, what runclaude keeps from claude is out of its reach: the AWS
\* settings and variables, the real credentials and, with --only, what is not listed.
THEOREM HiddenKeptHidden ==
  ASSUME \A st \in Setups : Ordinary(st)
  PROVE  PlanSpec => []HiddenStaysHidden
<1>1. ASSUME PlanInv PROVE HiddenStaysHidden
  <2>1. Ordinary(setup) /\ PlanTypeOK
    BY <1>1 DEF PlanInv, PlanTypeOK
  <2>2. ASSUME NEW s \in Sessions, Running(s)
        PROVE  /\ \A f \in Sources(s) :
                    HasAWS(session[s].read[f]) => ~HasAWS(SettingsSeen(s, f))
               /\ ContainerEnv(session[s].env) \cap AwsEnv \subseteq {"CLAUDE_CODE_USE_BEDROCK"}
               /\ ~Exposes(Credentials) => ~Reaches(s, Credentials)
               /\ OnlyMode /\ ~Exposes(Source) => ~Reaches(s, Source)
    <3>1. ~Leaks(s)
      BY <1>1, <2>2 DEF PlanInv, Course, Running, At
    <3>2. \A f \in Sources(s) : HasAWS(session[s].read[f]) => ~HasAWS(SettingsSeen(s, f))
      BY <1>1, <2>1, <2>2, SettingsKept
    <3>3. ContainerEnv(session[s].env) \cap AwsEnv \subseteq {"CLAUDE_CODE_USE_BEDROCK"}
      BY DEF ContainerEnv, AwsEnv
    <3>4. Credentials # Source
      BY Spelled
    <3>5. ~Exposes(Credentials) => ~Reaches(s, Credentials)
      BY <2>1, <3>1, <3>4, HiddenKept DEF Hidden
    <3>6. OnlyMode /\ ~Exposes(Source) => ~Reaches(s, Source)
      BY <2>1, <3>1, HiddenKept DEF Hidden
    <3> QED BY <3>2, <3>3, <3>5, <3>6
  <2> QED BY <2>2 DEF HiddenStaysHidden
<1>2. PlanInv => HiddenStaysHidden
  BY <1>1
<1> QED BY <1>2, PlanInvariant, PTL
=============================================================================
