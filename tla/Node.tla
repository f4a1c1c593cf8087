-------------------------------- MODULE Node --------------------------------
(***************************************************************************)
(* A node with CRI-O: the instances of nvidia-toolkit (NvidiaToolkit), the *)
(* toolkit directory that their install commands fill (Installation, which *)
(* ToolkitInstall implements) and the hook that their crio commands write  *)
(* and remove (CrioHook).  The hook names an executable of the toolkit     *)
(* directory and applies to every container, so a hook without a toolkit   *)
(* keeps every container of the node from starting.                        *)
(*                                                                         *)
(* The commands of NvidiaToolkit, child and runtime, are here what the     *)
(* real commands make of them.                                             *)
(***************************************************************************)
CONSTANTS
  Proc, None, Empty, Mixed,  \* as in NvidiaToolkit
  Modes                      \* with or without --no-daemon

ASSUME ValueAssumption ==
  /\ None \notin Proc \cup (Proc \X {"setup"})
  /\ Empty \notin Proc \cup {None}
  /\ Mixed \notin Proc \cup {None, Empty}
ASSUME ModeAssumption == Modes \subseteq {"daemon", "no-daemon"}

VARIABLES
  pidFile, pidText, flock, inode, status, mode, main, err, handler, sigs,
  waitingForSignal, signalReceived,               \* as in NvidiaToolkit
  command,                                        \* what each instance runs
  toolkit, owner, work,                           \* as in Installation
  hookFile, hookText, author, hooking, opened     \* as in CrioHook

daemonVars  == << pidFile, pidText, flock, inode, status, mode, main, err, handler,
                  sigs, waitingForSignal, signalReceived >>
installVars == << toolkit, owner, work >>
hookVars    == << hookFile, hookText, author, hooking, opened >>
vars == << daemonVars, command, installVars, hookVars >>

\* An instance installs, sets up and cleans up at most once.
Inst == INSTANCE Installation WITH Install <- Proc, Delete <- {}

Hook == INSTANCE CrioHook WITH Setup <- Proc \X {"setup"},
                               Cleanup <- Proc \X {"cleanup"}

\* Faulty variant: a command counts as successful when it has ended.
SucceededWhenEnded(p) ==
  CASE command[p] = "install" -> work[p] \in {"ok", "failed"}
    [] command[p] # "install" ->
         hooking[<< p, command[p] >>] \in {"ok", "stopped", "failed"}

\* Exit code 0 of the command.
Succeeded(p) ==
  CASE command[p] = "install" -> work[p] = "ok"
    [] command[p] # "install" -> hooking[<< p, command[p] >>] = "ok"

Failed(p) ==
  CASE command[p] = "install" -> work[p] = "failed"
    [] command[p] # "install" -> hooking[<< p, command[p] >>] \in {"stopped", "failed"}

ChildOf(p) ==
  IF command[p] \in {"setup", "cleanup"} /\ Succeeded(p) THEN "touched"
  ELSE command[p]

child == [p \in Proc |-> ChildOf(p)]

\* Whose hook CRI-O runs.
runtime == IF hookText = "hook" THEN author[1] ELSE None

\* The collector's part is left to NvidiaToolkit.
Daemon ==
  INSTANCE NvidiaToolkit WITH collected <- {}, child <- child, runtime <- runtime

Init ==
  /\ command = [p \in Proc |-> "none"]
  /\ Inst!Init
  /\ Hook!Init
  /\ Daemon!Init

-----------------------------------------------------------------------------
\* A step of the instance that has nothing to do with commands.
DaemonStep(p) ==
  /\ UNCHANGED << command, installVars, hookVars >>
  /\ \/ Daemon!Start(p) /\ mode'[p] \in Modes
     \/ Daemon!Refuse(p)
     \/ Daemon!Create(p) \/ Daemon!Flock(p) \/ Daemon!WritePid(p) \/ Daemon!Notify(p)
     \/ Daemon!WaitForSignal(p) \/ Daemon!SignalReceived(p)
     \/ Daemon!Shutdown(p) \/ Daemon!Exit(p)
     \/ Daemon!HandlerStep(p)
     \/ Daemon!Signal(p) \/ Daemon!Kill(p)

CommandStep(p) ==
  Daemon!InstallToolkit(p) \/ Daemon!SetupRuntime(p) \/ Daemon!CleanupRuntime(p)

StartCommand(p) ==
  /\ command[p] = "none"
  /\ \E name \in {"install", "setup", "cleanup"} :
       command' = [command EXCEPT ![p] = name]
  /\ UNCHANGED << installVars, hookVars >>
  /\ CommandStep(p)

\* Run returns once the command has ended, with an error if the command says so.
EndCommand(p) ==
  /\ command[p] # "none"
  /\ command' = [command EXCEPT ![p] = "none"]
  /\ \/ Succeeded(p) /\ err' = err
     \/ Failed(p) /\ err' = [err EXCEPT ![p] = "failed"]
  /\ UNCHANGED << installVars, hookVars >>
  /\ CommandStep(p)

\* The commands go on when their instance is gone.
InstallStep(p) ==
  /\ command[p] = "install"
  /\ Inst!Step(p)
  /\ UNCHANGED << daemonVars, command, hookVars >>

HookStep(p) ==
  /\ command[p] \in {"setup", "cleanup"}
  /\ Hook!Step(<< p, command[p] >>)
  /\ UNCHANGED << daemonVars, command, installVars >>

Next ==
  \E p \in Proc :
    \/ DaemonStep(p) \/ StartCommand(p) \/ EndCommand(p)
    \/ InstallStep(p) \/ HookStep(p)

Spec == Init /\ [][Next]_vars

-----------------------------------------------------------------------------
(* Properties                                                              *)

TypeOK ==
  /\ command \in [Proc -> {"none", "install", "setup", "cleanup"}]
  /\ Daemon!TypeOK /\ Inst!TypeOK /\ Hook!TypeOK

\* While an instance waits for its signal, CRI-O has that instance's own hook
\* and the hook's executable is there, as long as the lock does its work and
\* no command has outlived its instance (Run: installToolkit and setupRuntime
\* before waitForSignal).
WaitingMeansUsable ==
  ~Daemon!Disturbed =>
    \A p \in Proc :
      main[p] \in {"wait", "blocked"} =>
        hookText = "hook" /\ author = << p, "setup" >> /\ toolkit = "complete"

\* A hook without its executable has been left behind: the instance that
\* wrote it has ended, or is about to (Run; toolkit.go, Install, removes what
\* the hook of an instance that was killed still refers to).
RunningHookResolves ==
  ~Daemon!Disturbed /\ hookText = "hook" /\ toolkit # "complete" =>
    ~Daemon!Running(author[1])

\* CRI-O never finds a hook that it cannot read unless a setup is writing it,
\* or was stopped after it had opened the file, or another setup had opened it
\* too (createHook).
UnreadableHookExplained == Hook!HookExplained

\* The commands are what NvidiaToolkit takes them for: a setup that was not
\* disturbed and reports success has configured the runtime for its instance,
\* and a cleanup that reports success has taken the configuration away.
ImplementsDaemon == Daemon!Spec

-----------------------------------------------------------------------------
(* The inductive invariant behind these properties, on top of those of      *)
(* NvidiaToolkit and CrioHook.                                              *)

Live(p) == status[p] = "live"

\* p has not come to its first command.
Early(p) ==
  \/ status[p] = "new"
  \/ Live(p) /\ main[p] \in {"create", "flock", "writepid", "notify"}

\* main is about to start the command.
About(p, name) == Live(p) /\ main[p] = name /\ command[p] = "none"

\* main waits for its command, and starts each of them once, after those
\* before it have succeeded.  It goes nowhere else with an error.
Place(p) ==
  /\ Live(p) /\ command[p] # "none" => main[p] = command[p]
  /\ err[p] = "failed" => main[p] \in {"shutdown", "exit"}
  /\ Early(p) \/ About(p, "install") => work[p] = "new"
  /\ Early(p) \/ (Live(p) /\ main[p] = "install") \/ About(p, "setup")
       => hooking[<< p, "setup" >>] = "new"
  /\ \/ Early(p) \/ About(p, "cleanup")
     \/ Live(p) /\ main[p] \in {"install", "setup", "wait", "blocked"}
     => hooking[<< p, "cleanup" >>] = "new"
  /\ Live(p) /\ main[p] \in {"setup", "wait", "blocked", "cleanup"}
       => work[p] = "ok"
  /\ Live(p) /\ main[p] \in {"wait", "blocked", "cleanup"}
       => hooking[<< p, "setup" >>] = "ok"

PlaceInv == \A p \in Proc : Place(p)

\* The instance that holds the lock has the toolkit directory to itself.
ToolkitInv ==
  ~Daemon!Disturbed =>
    \A p \in Proc : Daemon!PastFlock(p) =>
      /\ work[p] \in {"filling", "ok"} => owner = p
      /\ work[p] = "ok" => toolkit = "complete"

\* And the hook.
HookInv ==
  ~Daemon!Disturbed =>
    \A p \in Proc : Daemon!PastFlock(p) =>
      LET setup == << p, "setup" >>
      IN  /\ hooking[setup] = "encode" =>
               opened[setup] = hookFile /\ hookText = "empty"
          /\ hooking[setup] = "ok" /\ hooking[<< p, "cleanup" >>] # "ok" =>
               hookText = "hook" /\ author = setup

IInv == TypeOK /\ PlaceInv /\ ToolkitInv /\ HookInv

=============================================================================
