---------------------------- MODULE NvidiaToolkit ----------------------------
(***************************************************************************)
(* The nvidia-toolkit daemon, src/cmd/nvidia-toolkit/run.go: its pid file  *)
(* lock, the commands it runs one after the other, the signal goroutine    *)
(* and the two buffered channels through which that goroutine and main     *)
(* agree on how to stop.                                                   *)
(*                                                                         *)
(* Proc is a set of executions of the program on one node.  An execution   *)
(* that ends is over; a restart is another member of Proc.  Everything     *)
(* that survives an execution is shared: the pid file, its lock and the    *)
(* container runtime's configuration.  An inode of the pid file is named   *)
(* by the execution that created it, which creates at most one.            *)
(***************************************************************************)
EXTENDS Naturals

CONSTANTS
  Proc,   \* the executions of nvidia-toolkit
  None,   \* no execution, no inode
  Empty,  \* the text of a file that was just created or truncated
  Mixed   \* the text left where one process number overwrote a longer one

ASSUME ValueAssumption ==
  /\ None \notin Proc
  /\ Empty \notin Proc \cup {None}
  /\ Mixed \notin Proc \cup {None, Empty}

VARIABLES
  pidFile,          \* the inode that /run/nvidia/toolkit.pid names, or None
  pidText,          \* what each inode holds, None when it was never created
  flock,            \* the holder of the exclusive lock on each inode
  inode,            \* the inode each execution has opened
  collected,        \* the executions whose descriptor the collector closed
  status,           \* "new", "live", or how the execution ended
  mode,             \* "daemon" or "no-daemon"
  main,             \* where the main goroutine is
  err,              \* the error Run returns
  handler,          \* where the signal goroutine is
  sigs,             \* signals buffered in channel sigs
  waitingForSignal, \* messages buffered in channel waitingForSignal
  signalReceived,   \* messages buffered in channel signalReceived
  child,            \* the command main has started, and what it has done
  runtime           \* whose setup made the configuration of the runtime

fileVars    == << pidFile, pidText, flock, inode, collected >>
channels    == << sigs, waitingForSignal, signalReceived >>
commandVars == << child, runtime >>
vars == << fileVars, status, mode, main, err, handler, channels, commandVars >>

\* An execution ends with exit code 0 or 1 or is killed.  It is refused when
\* it ends with 1 because of the lock of another, as the logged error tells.
Status == {"new", "live", "zero", "one", "refused", "killed"}

MainState ==
  {"create", "flock", "writepid", "notify", "install", "setup", "wait",
   "blocked", "cleanup", "shutdown", "exit", "over"}

HandlerState ==
  {"none", "receive", "select", "send", "done", "shutdown", "exit"}

ChildState == {"none", "install", "setup", "cleanup", "touched"}

TypeOK ==
  /\ pidFile \in Proc \cup {None}
  /\ pidText \in [Proc -> Proc \cup {None, Empty, Mixed}]
  /\ flock \in [Proc -> Proc \cup {None}]
  /\ inode \in [Proc -> Proc \cup {None}]
  /\ collected \in SUBSET Proc
  /\ status \in [Proc -> Status]
  /\ mode \in [Proc -> {"daemon", "no-daemon"}]
  /\ main \in [Proc -> MainState]
  /\ err \in [Proc -> {"nil", "failed"}]
  /\ handler \in [Proc -> HandlerState]
  /\ sigs \in [Proc -> 0..1]
  /\ waitingForSignal \in [Proc -> 0..1]
  /\ signalReceived \in [Proc -> 0..1]
  /\ child \in [Proc -> ChildState]
  /\ runtime \in Proc \cup {None}

Init ==
  /\ pidFile = None
  /\ pidText = [i \in Proc |-> None]
  /\ flock = [i \in Proc |-> None]
  /\ inode = [p \in Proc |-> None]
  /\ collected = {}
  /\ status = [p \in Proc |-> "new"]
  /\ mode = [p \in Proc |-> "daemon"]
  /\ main = [p \in Proc |-> "create"]
  /\ err = [p \in Proc |-> "nil"]
  /\ handler = [p \in Proc |-> "none"]
  /\ sigs = [p \in Proc |-> 0]
  /\ waitingForSignal = [p \in Proc |-> 0]
  /\ signalReceived = [p \in Proc |-> 0]
  /\ child = [p \in Proc |-> "none"]
  /\ runtime = None

Live(p) == status[p] = "live"

-----------------------------------------------------------------------------
(* Starting and ending a process.                                          *)

\* The lock goes with the last descriptor on the open file, which no command
\* inherits: Go opens files close-on-exec.
Unlock(p) == flock' = [i \in Proc |-> IF flock[i] = p THEN None ELSE flock[i]]

\* The process ends and its memory is gone: only its exit code and a command
\* it was running remain.
Terminate(p, how) ==
  /\ status' = [status EXCEPT ![p] = how]
  /\ Unlock(p)
  /\ inode' = [inode EXCEPT ![p] = None]
  /\ mode' = [mode EXCEPT ![p] = "daemon"]
  /\ main' = [main EXCEPT ![p] = "over"]
  /\ err' = [err EXCEPT ![p] = "nil"]
  /\ handler' = [handler EXCEPT ![p] = "none"]
  /\ sigs' = [sigs EXCEPT ![p] = 0]
  /\ waitingForSignal' = [waitingForSignal EXCEPT ![p] = 0]
  /\ signalReceived' = [signalReceived EXCEPT ![p] = 0]
  /\ UNCHANGED << pidFile, pidText, collected, commandVars >>

\* ParseArgs accepts the arguments and verifyFlags knows the runtime.
Start(p) ==
  /\ status[p] = "new"
  /\ status' = [status EXCEPT ![p] = "live"]
  /\ \E m \in {"daemon", "no-daemon"} : mode' = [mode EXCEPT ![p] = m]
  /\ UNCHANGED << fileVars, main, err, handler, channels, commandVars >>

\* --help and --version exit 0; bad arguments or an unknown runtime exit 1.
\* Neither comes near the pid file.
Refuse(p) ==
  /\ status[p] = "new"
  /\ \E how \in {"zero", "one"} : Terminate(p, how)

\* initialize fails: Run returns before shutdown is deferred, so the pid file
\* stays where it is.
AbortInitialize(p) == Terminate(p, "one")

Goto(p, next) == main' = [main EXCEPT ![p] = next]

-----------------------------------------------------------------------------
(* initialize                                                              *)

\* Faulty variant: the number is written as soon as the file is open.
CreateWritesPid(p) ==
  /\ Live(p) /\ main[p] = "create"
  /\ LET i == IF pidFile = None THEN p ELSE pidFile
     IN  /\ pidFile' = i
         /\ inode' = [inode EXCEPT ![p] = i]
         /\ pidText' = [pidText EXCEPT ![i] = p]
  /\ Goto(p, "flock")
  /\ UNCHANGED << flock, collected, status, mode, err, handler, channels,
                  commandVars >>

\* os.Create makes the file or truncates the one that is there, whoever owns
\* it: the lock is only asked for afterwards.
Create(p) ==
  /\ Live(p) /\ main[p] = "create"
  /\ \/ LET i == IF pidFile = None THEN p ELSE pidFile
        IN  /\ pidFile' = i
            /\ inode' = [inode EXCEPT ![p] = i]
            /\ pidText' = [pidText EXCEPT ![i] = Empty]
            /\ Goto(p, "flock")
            /\ UNCHANGED << flock, collected, status, mode, err, handler, channels,
                            commandVars >>
     \/ AbortInitialize(p)

\* Faulty variant: a lock by existence of the file, as with O_EXCL.
FlockIfFileIsNew(p) ==
  /\ Live(p) /\ main[p] = "flock"
  /\ IF inode[p] = p
     THEN /\ flock' = [flock EXCEPT ![inode[p]] = p]
          /\ Goto(p, "writepid")
          /\ UNCHANGED << pidFile, pidText, inode, collected, status, mode, err, handler,
                          channels, commandVars >>
     ELSE Terminate(p, "refused")

\* Faulty variant: the error of Flock is logged and dropped.
FlockIgnored(p) ==
  /\ Live(p) /\ main[p] = "flock"
  /\ flock' = IF flock[inode[p]] = None
              THEN [flock EXCEPT ![inode[p]] = p] ELSE flock
  /\ Goto(p, "writepid")
  /\ UNCHANGED << pidFile, pidText, inode, collected, status, mode, err, handler,
                  channels, commandVars >>

\* LOCK_EX|LOCK_NB on the inode opened by Create, which the path may have
\* stopped naming in between.  Any error ends the execution: EWOULDBLOCK, and
\* those that have nothing to do with another holder, such as ENOLCK.
Flock(p) ==
  /\ Live(p) /\ main[p] = "flock"
  /\ \/ /\ flock[inode[p]] = None
        /\ flock' = [flock EXCEPT ![inode[p]] = p]
        /\ Goto(p, "writepid")
        /\ UNCHANGED << pidFile, pidText, inode, collected, status, mode, err, handler,
                        channels, commandVars >>
     \/ flock[inode[p]] # None /\ Terminate(p, "refused")
     \/ AbortInitialize(p)

\* WriteString does not truncate: over the number of an execution that wrote
\* after this one opened the file, a shorter number leaves a remainder.
WritePid(p) ==
  /\ Live(p) /\ main[p] = "writepid"
  /\ \/ /\ \E text \in IF pidText[inode[p]] = Empty THEN {p} ELSE {p, Mixed} :
             pidText' = [pidText EXCEPT ![inode[p]] = text]
        /\ Goto(p, "notify")
        /\ UNCHANGED << pidFile, flock, inode, collected, status, mode, err, handler,
                        channels, commandVars >>
     \/ AbortInitialize(p)

\* signal.Notify and the start of the signal goroutine; Run defers shutdown.
Notify(p) ==
  /\ Live(p) /\ main[p] = "notify"
  /\ handler' = [handler EXCEPT ![p] = "receive"]
  /\ Goto(p, "install")
  /\ UNCHANGED << fileVars, status, mode, err, channels, commandVars >>

-----------------------------------------------------------------------------
(* installToolkit, setupRuntime, cleanupRuntime: main starts a command and  *)
(* waits for it.                                                           *)

\* Faulty variant: the exit code of the command is not looked at.
RunCommandIgnoresError(p, command, next) ==
  /\ \/ child[p] = "none" /\ child' = [child EXCEPT ![p] = command]
                          /\ UNCHANGED main
     \/ child[p] # "none" /\ child' = [child EXCEPT ![p] = "none"]
                          /\ Goto(p, next)
  /\ UNCHANGED << fileVars, status, mode, err, handler, channels, runtime >>

\* cmd.Run: the command is started, and when it has done its work main goes
\* on to next.  It may fail before or after that, as a setup does when the
\* runtime cannot be signalled; Run then returns its error through the
\* deferred shutdown.
RunCommand(p, command, next) ==
  /\ \/ /\ child[p] = "none"
        /\ child' = [child EXCEPT ![p] = command]
        /\ UNCHANGED << main, err >>
     \/ /\ child[p] \in {"install", "touched"}
        /\ child' = [child EXCEPT ![p] = "none"]
        /\ Goto(p, next)
        /\ UNCHANGED err
     \/ /\ child[p] # "none"
        /\ child' = [child EXCEPT ![p] = "none"]
        /\ Goto(p, "shutdown")
        /\ err' = [err EXCEPT ![p] = "failed"]
  /\ UNCHANGED << fileVars, status, mode, handler, channels, runtime >>

InstallToolkit(p) ==
  Live(p) /\ main[p] = "install" /\ RunCommand(p, "install", "setup")

\* Faulty variant: noDaemonFlag is not looked at.
SetupRuntimeAlwaysWaits(p) ==
  Live(p) /\ main[p] = "setup" /\ RunCommand(p, "setup", "wait")

SetupRuntime(p) ==
  /\ Live(p) /\ main[p] = "setup"
  /\ RunCommand(p, "setup",
                IF mode[p] = "daemon" THEN "wait" ELSE "shutdown")

CleanupRuntime(p) ==
  Live(p) /\ main[p] = "cleanup" /\ RunCommand(p, "cleanup", "shutdown")

-----------------------------------------------------------------------------
(* waitForSignal, the deferred shutdown, and the end of main.              *)

WaitForSignal(p) ==
  /\ Live(p) /\ main[p] = "wait"
  /\ waitingForSignal[p] = 0
  /\ waitingForSignal' = [waitingForSignal EXCEPT ![p] = 1]
  /\ Goto(p, "blocked")
  /\ UNCHANGED << fileVars, status, mode, err, handler, sigs, signalReceived,
                  commandVars >>

\* Faulty variant: the cleanup after the signal is forgotten.
SignalReceivedSkipsCleanup(p) ==
  /\ Live(p) /\ main[p] = "blocked"
  /\ signalReceived[p] = 1
  /\ signalReceived' = [signalReceived EXCEPT ![p] = 0]
  /\ Goto(p, "shutdown")
  /\ UNCHANGED << fileVars, status, mode, err, handler, sigs, waitingForSignal,
                  commandVars >>

SignalReceived(p) ==
  /\ Live(p) /\ main[p] = "blocked"
  /\ signalReceived[p] = 1
  /\ signalReceived' = [signalReceived EXCEPT ![p] = 0]
  /\ Goto(p, "cleanup")
  /\ UNCHANGED << fileVars, status, mode, err, handler, sigs, waitingForSignal,
                  commandVars >>

\* os.Remove on the path, whichever inode it names by now; an error is only
\* logged.
RemovePidFile == pidFile' \in {None, pidFile}

Shutdown(p) ==
  /\ Live(p) /\ main[p] = "shutdown"
  /\ RemovePidFile
  /\ Goto(p, "exit")
  /\ UNCHANGED << pidText, flock, inode, collected, status, mode, err, handler, channels,
                  commandVars >>

Exit(p) ==
  /\ Live(p) /\ main[p] = "exit"
  /\ Terminate(p, IF err[p] = "nil" THEN "zero" ELSE "one")

MainStep(p) ==
  \/ Create(p) \/ Flock(p) \/ WritePid(p) \/ Notify(p)
  \/ InstallToolkit(p) \/ SetupRuntime(p) \/ CleanupRuntime(p)
  \/ WaitForSignal(p) \/ SignalReceived(p) \/ Shutdown(p) \/ Exit(p)

-----------------------------------------------------------------------------
(* The signal goroutine.                                                   *)

Receive(p) ==
  /\ Live(p) /\ handler[p] = "receive"
  /\ sigs[p] = 1
  /\ sigs' = [sigs EXCEPT ![p] = 0]
  /\ handler' = [handler EXCEPT ![p] = "select"]
  /\ UNCHANGED << fileVars, status, mode, main, err, waitingForSignal,
                  signalReceived, commandVars >>

\* Faulty variant: whether main waits is not looked at.
SelectAlwaysEarly(p) ==
  /\ Live(p) /\ handler[p] = "select"
  /\ handler' = [handler EXCEPT ![p] = "shutdown"]
  /\ UNCHANGED << fileVars, status, mode, main, err, channels, commandVars >>

\* select with a default: whether main has announced that it waits decides
\* between telling main and leaving early.
Select(p) ==
  /\ Live(p) /\ handler[p] = "select"
  /\ IF waitingForSignal[p] = 1
     THEN /\ waitingForSignal' = [waitingForSignal EXCEPT ![p] = 0]
          /\ handler' = [handler EXCEPT ![p] = "send"]
     ELSE /\ handler' = [handler EXCEPT ![p] = "shutdown"]
          /\ UNCHANGED waitingForSignal
  /\ UNCHANGED << fileVars, status, mode, main, err, sigs, signalReceived,
                  commandVars >>

\* Faulty variant: the goroutine loops and waits for the next signal.
SendThenReceive(p) ==
  /\ Live(p) /\ handler[p] = "send"
  /\ signalReceived[p] = 0
  /\ signalReceived' = [signalReceived EXCEPT ![p] = 1]
  /\ handler' = [handler EXCEPT ![p] = "receive"]
  /\ UNCHANGED << fileVars, status, mode, main, err, sigs, waitingForSignal,
                  commandVars >>

\* Faulty variant: the send to main is forgotten.
SendNothing(p) ==
  /\ Live(p) /\ handler[p] = "send"
  /\ handler' = [handler EXCEPT ![p] = "done"]
  /\ UNCHANGED << fileVars, status, mode, main, err, channels, commandVars >>

Send(p) ==
  /\ Live(p) /\ handler[p] = "send"
  /\ signalReceived[p] = 0
  /\ signalReceived' = [signalReceived EXCEPT ![p] = 1]
  /\ handler' = [handler EXCEPT ![p] = "done"]
  /\ UNCHANGED << fileVars, status, mode, main, err, sigs, waitingForSignal,
                  commandVars >>

HandlerShutdown(p) ==
  /\ Live(p) /\ handler[p] = "shutdown"
  /\ RemovePidFile
  /\ handler' = [handler EXCEPT ![p] = "exit"]
  /\ UNCHANGED << pidText, flock, inode, collected, status, mode, main, err, channels,
                  commandVars >>

\* os.Exit(0): main stops wherever it is, and a command it was running goes
\* on without it.
HandlerExit(p) ==
  /\ Live(p) /\ handler[p] = "exit"
  /\ Terminate(p, "zero")

HandlerStep(p) ==
  \/ Receive(p) \/ Select(p) \/ Send(p)
  \/ HandlerShutdown(p) \/ HandlerExit(p)

-----------------------------------------------------------------------------
(* The commands (toolkit install; docker, containerd or crio setup and     *)
(* cleanup), reduced to whether one has changed the runtime's               *)
(* configuration yet.  runtime is None, too, while that is in pieces.      *)

\* Some file that was the pid file once has been removed.
Removed == \E i \in Proc : pidText[i] # None /\ pidFile # i

\* A command outlived its instance.
Orphaned == \E p \in Proc : ~Live(p) /\ child[p] # "none"

\* Commands of two instances can overlap, and can have overlapped.
Disturbed == Removed \/ collected # {} \/ Orphaned

\* A setup truncates or rewrites the configuration that is there before its
\* own is complete.
CommandBreaks(p) ==
  /\ child[p] = "setup"
  /\ runtime' = None
  /\ UNCHANGED << fileVars, status, mode, main, err, handler, channels, child >>

\* The command does its work.  It does so too when its instance is gone;
\* the end of such an orphan changes nothing and is left out.  A setup whose
\* file an overlapping command removed or replaced may leave nothing of its
\* own.
CommandTouches(p) ==
  /\ child[p] \in {"setup", "cleanup"}
  /\ runtime' \in IF child[p] = "cleanup" THEN {None}
                  ELSE {p} \cup IF Disturbed THEN {None, runtime} ELSE {}
  /\ child' = [child EXCEPT ![p] = "touched"]
  /\ UNCHANGED << fileVars, status, mode, main, err, handler, channels >>

-----------------------------------------------------------------------------
(* The operating system and the Go runtime.                                *)

\* One of the notified signals arrives.  A second one that finds the buffer
\* full is dropped, which changes nothing.
Signal(p) ==
  /\ Live(p) /\ handler[p] # "none" /\ sigs[p] = 0
  /\ sigs' = [sigs EXCEPT ![p] = 1]
  /\ UNCHANGED << fileVars, status, mode, main, err, handler,
                  waitingForSignal, signalReceived, commandVars >>

\* SIGKILL, a crash, or any signal before Notify.
Kill(p) ==
  /\ Live(p)
  /\ Terminate(p, "killed")

\* The *os.File of the pid file is a local of initialize and nothing refers to
\* it once the number is written: the garbage collector may run the finalizer
\* of the file, which closes the descriptor and so drops the lock.
CollectPidFile(p) ==
  /\ Live(p) /\ main[p] \notin {"create", "flock", "writepid"}
  /\ p \notin collected
  /\ collected' = collected \cup {p}
  /\ Unlock(p)
  /\ UNCHANGED << pidFile, pidText, inode, status, mode, main, err, handler,
                  channels, commandVars >>

Environment(p) == Signal(p) \/ Kill(p) \/ CollectPidFile(p)

-----------------------------------------------------------------------------
Next ==
  \E p \in Proc :
    \/ Start(p) \/ Refuse(p) \/ MainStep(p) \/ HandlerStep(p)
    \/ CommandBreaks(p) \/ CommandTouches(p) \/ Environment(p)

Spec == Init /\ [][Next]_vars

\* The scheduler runs both goroutines, and a command main waits for ends
\* (in RunCommand, a step of main).
Fairness ==
  \A p \in Proc :
    /\ WF_vars(MainStep(p))
    /\ WF_vars(HandlerStep(p))

FairSpec == Spec /\ Fairness

-----------------------------------------------------------------------------
(* Properties                                                              *)

\* p has got past the lock and has not ended: it installs, configures, waits
\* or cleans up.
Running(p) ==
  /\ Live(p)
  /\ main[p] \in {"writepid", "notify", "install", "setup", "wait", "blocked",
                  "cleanup"}
  /\ handler[p] # "exit"

\* Once main has been told of the signal, no signal can make the process
\* leave in the middle of the cleanup (Run, waitForSignal and the goroutine of
\* initialize): the goroutine that could is gone for good.
CleanupNotInterrupted ==
  \A p \in Proc : main[p] = "cleanup" => handler[p] = "done"

\* The two goroutines never wait for each other (waitForSignal and the
\* goroutine of initialize): neither finds the channel that it sends to full,
\* and while main is blocked the next signal, or the one that is being dealt
\* with, unblocks it or ends the process, however the two had got there.
NeverDeadlocked ==
  \A p \in Proc :
    /\ main[p] = "wait" => waitingForSignal[p] = 0
    /\ handler[p] = "send" => signalReceived[p] = 0
    /\ main[p] = "blocked" =>
         \/ handler[p] \in {"receive", "select"} /\ waitingForSignal[p] = 1
         \/ handler[p] \in {"send", "shutdown", "exit"}
         \/ signalReceived[p] = 1

\* A process that agreed to leave gracefully and exits 0 has undone its own
\* configuration of the runtime and leaves no command behind, whatever other
\* instances, stray commands and further signals did meanwhile (Run after
\* waitForSignal).
GracefulExitRestores ==
  [][\A p \in Proc :
       handler[p] = "done" /\ status'[p] = "zero"
         => runtime' # p /\ child'[p] = "none"]_vars

\* The pid file lock lets one instance in, through kills, failed starts and
\* stale pid files: two can only run at once after some instance removed the
\* file or the collector closed it (initialize).
ExclusiveUntilRemoved ==
  ~Removed /\ collected = {} =>
    \A p, q \in Proc : Running(p) /\ Running(q) => p = q

\* No other execution has been started.
Alone(p) == \A q \in Proc \ {p} : status[q] = "new"

\* The pid file of a running instance that holds its lock gives its number
\* and never that of another instance (initialize truncates before and writes
\* after locking).  Only another execution that has been started can have left
\* it empty, which a refused one does, or garbled.
PidFileNamesOnlyHolder ==
  \A p \in Proc :
    Running(p) /\ main[p] # "writepid" /\ p \notin collected =>
      \/ pidText[inode[p]] = p
      \/ pidText[inode[p]] \in {Empty, Mixed} /\ ~Alone(p)

\* An instance that is refused gives way to another live one: a pid file left
\* behind by a dead instance refuses nobody (initialize).
RefusedOnlyByLiveHolder ==
  [][\A p \in Proc :
       status[p] # "refused" /\ status'[p] = "refused"
         => \E q \in Proc \ {p} : Live(q) /\ flock[inode[p]] = q]_vars

\* While an instance waits for its signal the runtime is configured by its own
\* setup, as long as the lock does its work and no command has outlived its
\* instance (Run: setupRuntime before waitForSignal).
WaitingMeansConfigured ==
  ~Disturbed =>
    \A p \in Proc : main[p] \in {"wait", "blocked"} => runtime = p

\* A signal, at whatever moment, ends the process (goroutine of initialize,
\* waitForSignal): the two channels never leave both sides waiting.
SignalTerminates ==
  \A p \in Proc : Live(p) /\ sigs[p] = 1 ~> ~Live(p)

\* Without the daemon the process ends by itself (Run, --no-daemon).
NoDaemonTerminates ==
  \A p \in Proc : Live(p) /\ mode[p] = "no-daemon" ~> ~Live(p)

\* At most one instance is past the lock, as the warning of initialize has it.
SingleInstance ==
  \A p, q \in Proc : Running(p) /\ Running(q) => p = q

\* The same for instances whose descriptor is still open.
SingleLockHolder ==
  \A p, q \in Proc :
    Running(p) /\ Running(q) /\ p \notin collected /\ q \notin collected
      => p = q

-----------------------------------------------------------------------------
(* The inductive invariant behind these properties, in five parts.         *)

\* p has opened a pid file and tried its lock with success.
PastFlock(p) == Live(p) /\ main[p] \notin {"create", "flock"}

\* An execution that has not started or has ended has no state of its own.
\* Locks belong to live executions, to the inode they opened, and are kept
\* unless the collector intervenes.  No execution creates a file twice.
FileInv ==
  /\ \A p \in Proc : ~Live(p) =>
       main[p] = IF status[p] = "new" THEN "create" ELSE "over"
  /\ \A p \in Proc : Live(p) => main[p] # "over"
  /\ \A p \in Proc : Live(p) /\ main[p] # "create"
       => inode[p] # None /\ pidText[inode[p]] # None
  /\ \A i \in Proc : pidText[i] # None => main[i] # "create"
  /\ pidFile # None => pidText[pidFile] # None
  /\ \A i \in Proc : flock[i] # None =>
       PastFlock(flock[i]) /\ inode[flock[i]] = i
  /\ \A p \in Proc : PastFlock(p) /\ p \notin collected => flock[inode[p]] = p
  /\ \A p \in Proc : p \in collected =>
       main[p] \notin {"create", "flock", "writepid"}
  /\ \A p \in Proc :
       PastFlock(p) /\ main[p] # "writepid" /\ p \notin collected
         => pidText[inode[p]] \in {p, Empty, Mixed}

\* Nothing but another execution disturbs what one has written.
AloneInv ==
  \A p \in Proc : Live(p) /\ main[p] # "create" /\ Alone(p) =>
    pidText[inode[p]] = IF main[p] \in {"flock", "writepid"} THEN Empty ELSE p

\* Where main and the signal goroutine can be together, and what their
\* channels then hold.
HandshakeInv ==
  \A p \in Proc :
    /\ handler[p] # "none" <=>
         main[p] \notin {"create", "flock", "writepid", "notify", "over"}
    /\ waitingForSignal[p] = 1 =>
         /\ main[p] = "blocked" /\ signalReceived[p] = 0
         /\ handler[p] \in {"receive", "select", "shutdown", "exit"}
    /\ signalReceived[p] = 1 => main[p] = "blocked" /\ handler[p] = "done"
    /\ handler[p] = "send" => main[p] = "blocked"
    /\ handler[p] = "done" =>
         \/ main[p] = "blocked" /\ signalReceived[p] = 1
         \/ main[p] \in {"cleanup", "shutdown", "exit"}
    /\ main[p] = "cleanup" => handler[p] = "done"
    /\ main[p] = "blocked" /\ handler[p] \in {"receive", "select"} =>
         waitingForSignal[p] = 1
    /\ main[p] \in {"wait", "blocked"} => mode[p] = "daemon"
    /\ main[p] \in {"shutdown", "exit"} /\ err[p] = "nil" =>
         mode[p] = "no-daemon" \/ handler[p] = "done"
    /\ handler[p] \in {"send", "done"} => mode[p] = "daemon"

\* Which command can be under way, and what a finished one has left.
CommandInv ==
  \A p \in Proc :
    /\ Live(p) =>
         /\ child[p] = "install" => main[p] = "install"
         /\ child[p] = "setup" => main[p] = "setup"
         /\ child[p] = "cleanup" => main[p] = "cleanup"
         /\ child[p] = "touched" => main[p] \in {"setup", "cleanup"}
    /\ status[p] \in {"new", "one", "refused"} => child[p] = "none"
    /\ status[p] = "zero" => child[p] # "cleanup"
    /\ main[p] = "cleanup" /\ child[p] = "touched" => runtime # p
    /\ handler[p] = "done" /\ main[p] \in {"shutdown", "exit"} /\ err[p] = "nil"
         => runtime # p

\* The configuration that a waiting instance relies on, also just before main
\* learns that its setup is done.
ConfiguredInv ==
  ~Disturbed =>
    \A p \in Proc :
      \/ main[p] \in {"wait", "blocked"}
      \/ main[p] = "setup" /\ child[p] = "touched"
      => runtime = p

IInv ==
  /\ TypeOK /\ FileInv /\ AloneInv
  /\ HandshakeInv /\ CommandInv /\ ConfiguredInv

-----------------------------------------------------------------------------
(* The protocol implements ExitDecision.                                   *)

\* How far the end of p is decided, from what its goroutines have agreed on.
DecisionOf(p) ==
  IF Live(p)
  THEN IF handler[p] \in {"shutdown", "exit"} THEN "early"
       ELSE IF handler[p] \in {"send", "done"} THEN "graceful"
       ELSE IF waitingForSignal[p] = 1 THEN "ready"
       ELSE IF mode[p] = "daemon" THEN "open" ELSE "once"
  ELSE IF status[p] = "zero" THEN "done"
       ELSE IF status[p] \in {"one", "refused"} THEN "failed" ELSE status[p]

decision == [p \in Proc |-> DecisionOf(p)]

Abstract == INSTANCE ExitDecision WITH decision <- decision, runtime <- runtime

\* The two goroutines and their channels decide the end of the process once
\* and keep to it: a daemon that waits only leaves through its cleanup.
ImplementsExitDecision == Abstract!Spec

=============================================================================
