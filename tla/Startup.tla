------------------------------- MODULE Startup -------------------------------
(***************************************************************************)
(* The chain of processes of one session (main.go, network.go): mainErr on *)
(* the host runs childMain in new user and mount namespaces, which runs    *)
(* initMain as pid 1 of new pid and network namespaces, which runs the     *)
(* command.  init binds the listeners of the proxy and of DNS inside its   *)
(* network namespace and ships them over a socketpair to a goroutine of    *)
(* mainErr, which serves them.  The wait statuses travel back up.          *)
(*                                                                         *)
(* A step is what another process can see: a fork, a message, an exit, a   *)
(* wait, the delivery of a signal.  What a process sets up between two     *)
(* such steps succeeds or fails as one.  A status is an exit code, or      *)
(* Died(s) for a process that signal s killed; a process whose set-up      *)
(* fails ends with exit code 1 (log.Fatal).  The command may leave another *)
(* process of the sandbox behind, whose parent is then init.               *)
(***************************************************************************)
EXTENDS Integers

CONSTANTS
  Codes,     \* exit codes of the command
  Capacity   \* capacity of runAsInit's channel of signals

ASSUME CodesAssumption == Codes \subseteq 0 .. 255
ASSUME CapacityAssumption == Capacity \in Nat \ {0}

None == -1
SIGINT == 2
SIGKILL == 9
Died(signal) == 256 + signal
UnhandledSignal == 2  \* pid 1 cannot die of a signal it raises: Go exits with 2
Status == {None} \cup 0 .. 255 \cup {Died(SIGINT), Died(SIGKILL)}

VARIABLES
  restrict,   \* enforceAllowlist(cfg)
  host,       \* mainErr
  recv,       \* its goroutine that receives and serves the listeners
  child,      \* childMain
  init,       \* initMain, pid 1 of the sandbox
  command,    \* the user's command
  orphan,     \* a process that the command left behind
  status,     \* per process of the chain: the status it ended with
  comm,       \* the socketpair: whether the listeners are in flight
  policy,     \* whether the nftables policy is installed
  sigs,       \* runAsInit's channel of signals: how many wait in it
  sigint,     \* whether the command was sent a SIGINT
  disturbed   \* history: a signal hit the host, childMain or init

upper == <<host, recv, child>>
sandbox == <<command, orphan, policy>>
signals == <<sigs, sigint>>
vars == <<restrict, upper, init, sandbox, status, comm, signals, disturbed>>

TypeOK ==
  /\ restrict \in BOOLEAN
  /\ host \in {"prepared", "running", "reaped", "ended"}
  /\ recv \in {"none", "waiting", "serving", "failed"}
  /\ child \in {"none", "mounting", "running", "ended"}
  /\ init \in {"none", "setup", "listening", "sent", "confined", "started",
              "running", "ended"}
  /\ command \in {"none", "running", "ended"}
  /\ orphan \in {"none", "running", "zombie"}
  /\ status \in [{"host", "child", "init", "command"} -> Status]
  /\ comm \in {"empty", "fds"}
  /\ sigs \in 0 .. Capacity
  /\ policy \in BOOLEAN /\ sigint \in BOOLEAN /\ disturbed \in BOOLEAN

\* mainErr before cmd.Run.  With an allowlist to enforce it has made the
\* socketpair and started the goroutine.
Init ==
  /\ restrict \in BOOLEAN
  /\ host = "prepared"
  /\ recv = IF restrict THEN "waiting" ELSE "none"
  /\ child = "none" /\ init = "none" /\ command = "none" /\ orphan = "none"
  /\ status = [p \in {"host", "child", "init", "command"} |-> None]
  /\ comm = "empty"
  /\ sigs = 0
  /\ policy = FALSE /\ sigint = FALSE /\ disturbed = FALSE

End(p, s) == status' = [status EXCEPT ![p] = s]

\* The end of pid 1 kills what is left in its pid namespace.
EndInit(s) ==
  /\ init' = "ended"
  /\ orphan' = "none"
  /\ IF command = "running"
     THEN command' = "ended" /\ status' = [status EXCEPT !["init"] = s,
                                             !["command"] = Died(SIGKILL)]
     ELSE UNCHANGED command /\ End("init", s)

(* Faulty variants of definitions below, for the mutants of PROJECT.json. *)

\* setupNetwork goes on when Sendmsg has failed.
SendUnchecked ==
  /\ init = "listening"
  /\ init' = "sent"
  /\ UNCHANGED <<restrict, upper, sandbox, status, comm, signals, disturbed>>

\* init takes any child that ends for the command.
ReapsOrphanAsCommand ==
  /\ init = "running" /\ orphan = "zombie"
  /\ EndInit(0)
  /\ UNCHANGED <<restrict, upper, policy, comm, signals, disturbed>>

\* init waits until it has no child left.
InitWaitsForAll ==
  /\ init = "running" /\ command = "ended" /\ orphan = "none"
  /\ EndInit(IF status["command"] <= 255 THEN status["command"]
             ELSE 128 + (status["command"] - 256))
  /\ UNCHANGED <<restrict, upper, policy, comm, signals, disturbed>>

\* init exits with the wait status and not with the exit code in it.
InitExitsRaw ==
  /\ init = "running" /\ command = "ended"
  /\ EndInit(IF status["command"] <= 255 THEN 256 * status["command"]
             ELSE status["command"] - 256)
  /\ UNCHANGED <<restrict, upper, policy, comm, signals, disturbed>>

\* childMain returns nil whatever cmd.Run returned.
ChildReapsQuietly ==
  /\ child = "running" /\ init = "ended"
  /\ child' = "ended"
  /\ End("child", 0)
  /\ UNCHANGED <<restrict, host, recv, init, sandbox, comm, signals, disturbed>>

-----------------------------------------------------------------------------
(* mainErr *)

\* cmd.Run forks, or returns an error for want of namespaces.
RunChild ==
  /\ host = "prepared"
  /\ \/ host' = "running" /\ child' = "mounting" /\ UNCHANGED status
     \/ host' = "reaped" /\ UNCHANGED child /\ End("child", 1)
  /\ UNCHANGED <<restrict, recv, init, sandbox, comm, signals, disturbed>>

\* The goroutine gets the three descriptors and makes listeners of them, or the
\* end of file once the host, childMain and init have closed their copies of the
\* other end.
Receive ==
  /\ recv = "waiting"
  /\ \/ comm = "fds" /\ recv' \in {"serving", "failed"}
     \/ comm = "empty" /\ host = "reaped" /\ init \in {"none", "ended"} /\ recv' = "failed"
  /\ comm' = "empty"
  /\ UNCHANGED <<restrict, host, child, init, sandbox, status, signals, disturbed>>

\* cmd.Run returns, and the host's copy of the other end is closed.
HostReaps ==
  /\ host = "running" /\ child = "ended"
  /\ host' = "reaped"
  /\ UNCHANGED <<restrict, recv, child, init, sandbox, status, comm, signals, disturbed>>

\* The usage report is printed; main ends with log.Fatal for any error.
HostExits ==
  /\ host = "reaped"
  /\ host' = "ended" /\ recv' = "none"
  /\ End("host", IF status["child"] = 0 THEN 0 ELSE 1)
  /\ UNCHANGED <<restrict, child, init, sandbox, comm, signals, disturbed>>

-----------------------------------------------------------------------------
(* childMain *)

\* Mounts, the containment check, and cmd.Run.
RunInit ==
  /\ child = "mounting"
  /\ child' = "running" /\ init' = "setup"
  /\ UNCHANGED <<restrict, host, recv, sandbox, status, comm, signals, disturbed>>

ChildFails ==
  /\ child = "mounting"
  /\ child' = "ended" /\ End("child", 1)
  /\ UNCHANGED <<restrict, host, recv, init, sandbox, comm, signals, disturbed>>

\* ExitCode() is -1 if a signal killed init; os.Exit(-1) is 255.
ChildReaps ==
  /\ child = "running" /\ init = "ended"
  /\ child' = "ended"
  /\ End("child", IF status["init"] <= 255 THEN status["init"] ELSE 255)
  /\ UNCHANGED <<restrict, host, recv, init, sandbox, comm, signals, disturbed>>

-----------------------------------------------------------------------------
(* initMain, setupNetwork, runAsInit *)

\* proc, pivot_root, and with an allowlist the three listeners.
Listen ==
  /\ init = "setup"
  /\ init' = IF restrict THEN "listening" ELSE "confined"
  /\ UNCHANGED <<restrict, upper, sandbox, status, comm, signals, disturbed>>

sendFds ==
  /\ init = "listening"
  /\ init' = "sent" /\ comm' = "fds"
  /\ UNCHANGED <<restrict, upper, sandbox, status, signals, disturbed>>

InstallPolicy ==
  /\ init = "sent"
  /\ init' = "confined" /\ policy' = TRUE
  /\ UNCHANGED <<restrict, upper, command, orphan, status, comm, signals, disturbed>>

InitFails ==
  /\ init \in {"setup", "listening", "sent", "confined"}
  /\ EndInit(1)
  /\ UNCHANGED <<restrict, upper, policy, comm, signals, disturbed>>

\* cmd.Start.
StartCommand ==
  /\ init = "confined"
  /\ init' = "started" /\ command' = "running"
  /\ UNCHANGED <<restrict, upper, orphan, policy, status, comm, signals, disturbed>>

\* signal.Notify: until then a signal ends init (KillInit).
HandleSignals ==
  /\ init = "started"
  /\ init' = "running"
  /\ UNCHANGED <<restrict, upper, sandbox, status, comm, signals, disturbed>>

\* wait4 returns a child that is not the command.
ReapOrphan ==
  /\ init = "running" /\ orphan = "zombie"
  /\ orphan' = "none"
  /\ UNCHANGED <<restrict, upper, init, command, policy, status, comm, signals, disturbed>>

\* wait4 returns the command.
ReapCommand ==
  /\ init = "running" /\ command = "ended"
  /\ EndInit(IF status["command"] <= 255 THEN status["command"]
             ELSE 128 + (status["command"] - 256))
  /\ UNCHANGED <<restrict, upper, policy, comm, signals, disturbed>>

\* The goroutine that forwards signals.
ForwardSignal ==
  /\ init = "running" /\ sigs > 0
  /\ sigs' = sigs - 1
  /\ sigint' = (sigint \/ command = "running")
  /\ UNCHANGED <<restrict, upper, init, sandbox, status, comm, disturbed>>

-----------------------------------------------------------------------------
(* The command, the user and the system *)

CommandEnds ==
  /\ command = "running"
  /\ command' = "ended"
  /\ \/ \E c \in Codes : End("command", c)
     \/ sigint /\ End("command", Died(SIGINT))
     \/ End("command", Died(SIGKILL))
  /\ UNCHANGED <<restrict, upper, init, orphan, policy, comm, signals, disturbed>>

LeavesOrphan ==
  /\ command = "running" /\ orphan = "none"
  /\ orphan' = "running"
  /\ UNCHANGED <<restrict, upper, init, command, policy, status, comm, signals, disturbed>>

OrphanEnds ==
  /\ orphan = "running"
  /\ orphan' = "zombie"
  /\ UNCHANGED <<restrict, upper, init, command, policy, status, comm, signals, disturbed>>

\* signal.Notify puts a signal into the channel, or drops it if that is full.
Notify == sigs' = IF sigs < Capacity THEN sigs + 1 ELSE sigs

\* Somebody sends SIGINT to pid 1 of the sandbox.
SignalInit ==
  /\ init = "running"
  /\ Notify
  /\ UNCHANGED <<restrict, upper, init, sandbox, status, comm, sigint, disturbed>>

\* ^C at a terminal whose foreground process group is the whole chain: the host
\* and childMain have no handler and die, so does init before it has one and takes
\* the command with it; afterwards the command decides.
Interrupt ==
  LET interrupted == [status EXCEPT !["host"] = Died(SIGINT), !["child"] = Died(SIGINT)]
  IN /\ host = "running" /\ child = "running" /\ command = "running"
     /\ host' = "ended" /\ recv' = "none" /\ child' = "ended"
     /\ \/ /\ init = "running"
           /\ Notify
           /\ sigint' = TRUE
           /\ status' = interrupted
           /\ UNCHANGED <<init, command, orphan>>
        \/ /\ init = "started"
           /\ init' = "ended" /\ command' = "ended" /\ orphan' = "none"
           /\ status' = [interrupted EXCEPT !["init"] = UnhandledSignal,
                                            !["command"] = Died(SIGKILL)]
           /\ UNCHANGED signals
     /\ disturbed' = TRUE
     /\ UNCHANGED <<restrict, policy, comm>>

\* Somebody kills childMain, or init, or sends init a signal that it does not handle
\* yet.
KillChild ==
  /\ child \in {"mounting", "running"}
  /\ child' = "ended" /\ End("child", Died(SIGKILL))
  /\ disturbed' = TRUE
  /\ UNCHANGED <<restrict, host, recv, init, sandbox, comm, signals>>

KillInit ==
  /\ init \notin {"none", "ended"}
  /\ \/ EndInit(Died(SIGKILL))
     \/ init # "running" /\ EndInit(UnhandledSignal)
  /\ disturbed' = TRUE
  /\ UNCHANGED <<restrict, upper, policy, comm, signals>>

Progress ==
  \/ RunChild \/ Receive \/ HostReaps \/ HostExits
  \/ RunInit \/ ChildFails \/ ChildReaps
  \/ Listen \/ sendFds \/ InstallPolicy \/ InitFails \/ StartCommand
  \/ HandleSignals \/ ReapOrphan \/ ReapCommand \/ ForwardSignal

Next ==
  \/ Progress
  \/ CommandEnds \/ LeavesOrphan \/ OrphanEnds
  \/ SignalInit \/ Interrupt \/ KillChild \/ KillInit

Spec == Init /\ [][Next]_vars

\* Every process of the chain goes on with what it can do, each on its own; the
\* command, its orphan and the user do as they please.
FairSpec ==
  /\ Spec
  /\ WF_vars(RunChild) /\ WF_vars(Receive) /\ WF_vars(HostReaps) /\ WF_vars(HostExits)
  /\ WF_vars(RunInit \/ ChildFails \/ ChildReaps)
  /\ WF_vars(Listen \/ sendFds \/ InstallPolicy \/ InitFails \/ StartCommand \/ HandleSignals)
  /\ WF_vars(ReapCommand) /\ WF_vars(ReapOrphan) /\ WF_vars(ForwardSignal)

-----------------------------------------------------------------------------
(* Properties *)

\* A restricted command never runs before its way out is settled: the policy
\* stands, and the listeners it is pointed at are served, or on their way to a
\* goroutine that waits for them, or that goroutine has failed and said so, or
\* the host is gone (initMain, setupNetwork, recvFds).
CommandConfined ==
  command = "running" /\ restrict =>
    /\ policy
    /\ \/ recv \in {"serving", "failed"}
       \/ recv = "waiting" /\ comm = "fds"
       \/ host # "running"

\* What the caller of runclaude learns is true: it ends with 0 exactly if the
\* command was run to its end and ended with 0, whatever failed on the way up or
\* down the chain (runAsInit, childMain, mainErr, main).
HostStatusTrue ==
  host = "ended" /\ ~disturbed =>
    (status["host"] = 0 <=> command = "ended" /\ status["command"] = 0)

\* init does not end while the command runs, whatever else it reaps (its end
\* would kill the command), unless it is killed itself.
CommandNotCutShort ==
  [][command = "running" /\ init # "ended" /\ init' = "ended" => disturbed']_vars

\* When the command has ended the session ends, also if the command left
\* another process behind: no one waits for ever.
SessionEnds == command = "ended" ~> host = "ended"
=============================================================================
