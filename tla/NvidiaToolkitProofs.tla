------------------------- MODULE NvidiaToolkitProofs -------------------------
(***************************************************************************)
(* Theorems about NvidiaToolkit, for any number of executions.             *)
(***************************************************************************)
EXTENDS NvidiaToolkit, TLAPS

-----------------------------------------------------------------------------
(* Types                                                                   *)

\* Ending a process keeps every variable in its type.
LEMMA TerminateType ==
  ASSUME TypeOK, NEW p \in Proc, NEW how \in Status, Terminate(p, how)
  PROVE  TypeOK'
BY DEF TypeOK, Terminate, Unlock, MainState, HandlerState, fileVars,
       commandVars

\* Every step keeps every variable in its type.
LEMMA NextType == TypeOK /\ [Next]_vars => TypeOK'
<1> SUFFICES ASSUME TypeOK, [Next]_vars
             PROVE  TypeOK'
  OBVIOUS
<1> USE ValueAssumption DEF fileVars, channels, commandVars, Goto,
        AbortInitialize
<1>1. ASSUME NEW p \in Proc, Start(p)
      PROVE  TypeOK'
  BY <1>1 DEF TypeOK, Start, Status
<1>2. ASSUME NEW p \in Proc, Refuse(p)
      PROVE  TypeOK'
  BY <1>2, TerminateType DEF Refuse, Status
<1>3. ASSUME NEW p \in Proc, MainStep(p)
      PROVE  TypeOK'
  <2>1. CASE Create(p)
    BY <2>1, TerminateType DEF TypeOK, Create, Status, MainState
  <2>2. CASE Flock(p)
    BY <2>2, TerminateType DEF TypeOK, Flock, Status, MainState
  <2>3. CASE WritePid(p)
    BY <2>3, TerminateType DEF TypeOK, WritePid, Status, MainState
  <2>4. CASE Notify(p)
    BY <2>4 DEF TypeOK, Notify, MainState, HandlerState
  <2>5. CASE InstallToolkit(p)
    BY <2>5 DEF TypeOK, InstallToolkit, RunCommand, MainState, ChildState
  <2>6. CASE SetupRuntime(p)
    BY <2>6 DEF TypeOK, SetupRuntime, RunCommand, MainState, ChildState
  <2>7. CASE CleanupRuntime(p)
    BY <2>7 DEF TypeOK, CleanupRuntime, RunCommand, MainState, ChildState
  <2>8. CASE WaitForSignal(p)
    BY <2>8 DEF TypeOK, WaitForSignal, MainState
  <2>9. CASE SignalReceived(p)
    BY <2>9 DEF TypeOK, SignalReceived, MainState
  <2>10. CASE Shutdown(p)
    BY <2>10 DEF TypeOK, Shutdown, RemovePidFile, MainState
  <2>11. CASE Exit(p)
    BY <2>11, TerminateType DEF Exit, Status
  <2> QED
    BY <1>3, <2>1, <2>2, <2>3, <2>4, <2>5, <2>6, <2>7, <2>8, <2>9, <2>10,
       <2>11 DEF MainStep
<1>4. ASSUME NEW p \in Proc, HandlerStep(p)
      PROVE  TypeOK'
  <2>1. CASE Receive(p)
    BY <2>1 DEF TypeOK, Receive, HandlerState
  <2>2. CASE Select(p)
    BY <2>2 DEF TypeOK, Select, HandlerState
  <2>3. CASE Send(p)
    BY <2>3 DEF TypeOK, Send, HandlerState
  <2>4. CASE HandlerShutdown(p)
    BY <2>4 DEF TypeOK, HandlerShutdown, RemovePidFile, HandlerState
  <2>5. CASE HandlerExit(p)
    BY <2>5, TerminateType DEF HandlerExit, Status
  <2> QED
    BY <1>4, <2>1, <2>2, <2>3, <2>4, <2>5 DEF HandlerStep
<1>5. ASSUME NEW p \in Proc, CommandBreaks(p) \/ CommandTouches(p)
      PROVE  TypeOK'
  BY <1>5 DEF TypeOK, CommandBreaks, CommandTouches, ChildState
<1>6. ASSUME NEW p \in Proc, Environment(p)
      PROVE  TypeOK'
  <2>1. CASE Signal(p)
    BY <2>1 DEF TypeOK, Signal
  <2>2. CASE Kill(p)
    BY <2>2, TerminateType DEF Kill, Status
  <2>3. CASE CollectPidFile(p)
    BY <2>3 DEF TypeOK, CollectPidFile, Unlock
  <2> QED
    BY <1>6, <2>1, <2>2, <2>3 DEF Environment
<1>7. CASE UNCHANGED vars
  BY <1>7 DEF TypeOK, vars
<1> QED
  BY <1>1, <1>2, <1>3, <1>4, <1>5, <1>6, <1>7 DEF Next

\* Every variable has its type in every reachable state.
THEOREM TypeCorrect == Spec => []TypeOK
<1>1. Init => TypeOK
  BY DEF Init, TypeOK, Status, MainState, HandlerState, ChildState
<1> QED
  BY <1>1, NextType, PTL DEF Spec

-----------------------------------------------------------------------------
(* Files, locks and lives                                                  *)

\* Ending a process keeps the facts about files and locks: its own lock is
\* gone, and the other executions keep theirs.
LEMMA TerminateFile ==
  ASSUME TypeOK, FileInv, NEW p \in Proc,
         NEW how \in {"zero", "one", "refused", "killed"}, Terminate(p, how)
  PROVE  FileInv'
BY ValueAssumption
   DEF FileInv, TypeOK, Terminate, Unlock, PastFlock, Live, Status, MainState

\* Steps that leave the files, the locks and the lives alone and move main
\* only inside the part after the pid is written, or not at all.
LEMMA LaterFile ==
  ASSUME TypeOK, FileInv, NEW p \in Proc, Live(p), NEW next \in MainState,
         next \notin {"create", "flock", "writepid", "over"},
         \/ main' = main
         \/ main[p] \notin {"create", "flock", "writepid"} /\ Goto(p, next),
         pidFile' \in {None, pidFile},
         UNCHANGED << pidText, flock, inode, collected, status >>
  PROVE  FileInv'
BY ValueAssumption DEF FileInv, TypeOK, PastFlock, Live, Goto, MainState

\* Every step keeps the facts about files and locks.
LEMMA NextFile == TypeOK /\ FileInv /\ [Next]_vars => FileInv'
<1> SUFFICES ASSUME TypeOK, FileInv, [Next]_vars
             PROVE  FileInv'
  OBVIOUS
<1> USE ValueAssumption DEF fileVars, channels, commandVars, AbortInitialize
<1>1. ASSUME NEW p \in Proc, Start(p)
      PROVE  FileInv'
  BY <1>1 DEF FileInv, TypeOK, Start, PastFlock, Live, Status, MainState
<1>2. ASSUME NEW p \in Proc, Refuse(p)
      PROVE  FileInv'
  BY <1>2, TerminateFile DEF Refuse
<1>3. ASSUME NEW p \in Proc, MainStep(p)
      PROVE  FileInv'
  <2>1. CASE Create(p)
    <3>1. CASE AbortInitialize(p)
      BY <3>1, TerminateFile
    <3>2. CASE ~AbortInitialize(p)
      <4> DEFINE i == IF pidFile = None THEN p ELSE pidFile
      <4>1. /\ i \in Proc /\ pidFile' = i
            /\ inode' = [inode EXCEPT ![p] = i]
            /\ pidText' = [pidText EXCEPT ![i] = Empty]
            /\ main' = [main EXCEPT ![p] = "flock"]
            /\ UNCHANGED << flock, collected, status >>
            /\ Live(p) /\ main[p] = "create"
        BY <2>1, <3>2 DEF TypeOK, Create, Goto
      <4>2. i = p \/ main[i] # "create"
        BY DEF FileInv, TypeOK
      <4>3. \A r \in Proc : flock[r] # p
        BY <4>1 DEF FileInv, TypeOK, PastFlock
      <4> HIDE DEF i
      <4> QED
        BY <4>1, <4>2, <4>3 DEF FileInv, TypeOK, PastFlock, Live, MainState
    <3> QED
      BY <3>1, <3>2
  <2>2. CASE Flock(p)
    <3>1. CASE AbortInitialize(p) \/ Terminate(p, "refused")
      BY <3>1, TerminateFile
    <3>2. CASE ~(AbortInitialize(p) \/ Terminate(p, "refused"))
      BY <2>2, <3>2
         DEF FileInv, TypeOK, Flock, PastFlock, Live, Goto, MainState
    <3> QED
      BY <3>1, <3>2
  <2>3. CASE WritePid(p)
    <3>1. CASE AbortInitialize(p)
      BY <3>1, TerminateFile
    <3>2. CASE ~AbortInitialize(p)
      BY <2>3, <3>2
         DEF FileInv, TypeOK, WritePid, PastFlock, Live, Goto, MainState
    <3> QED
      BY <3>1, <3>2
  <2>4. CASE Notify(p)
    BY <2>4, LaterFile DEF Notify, MainState
  <2>5. CASE InstallToolkit(p)
    BY <2>5, LaterFile DEF InstallToolkit, RunCommand, MainState
  <2>6. CASE SetupRuntime(p)
    BY <2>6, LaterFile DEF SetupRuntime, RunCommand, MainState
  <2>7. CASE CleanupRuntime(p)
    BY <2>7, LaterFile DEF CleanupRuntime, RunCommand, MainState
  <2>8. CASE WaitForSignal(p)
    BY <2>8, LaterFile DEF WaitForSignal, MainState
  <2>9. CASE SignalReceived(p)
    BY <2>9, LaterFile DEF SignalReceived, MainState
  <2>10. CASE Shutdown(p)
    BY <2>10, LaterFile DEF Shutdown, RemovePidFile, MainState
  <2>11. CASE Exit(p)
    BY <2>11, TerminateFile DEF Exit
  <2> QED
    BY <1>3, <2>1, <2>2, <2>3, <2>4, <2>5, <2>6, <2>7, <2>8, <2>9, <2>10,
       <2>11 DEF MainStep
<1>4. ASSUME NEW p \in Proc, HandlerStep(p)
      PROVE  FileInv'
  <2>1. CASE HandlerExit(p)
    BY <2>1, TerminateFile DEF HandlerExit
  <2>2. CASE ~HandlerExit(p)
    BY <1>4, <2>2, LaterFile
       DEF HandlerStep, Receive, Select, Send, HandlerShutdown,
           RemovePidFile, MainState
  <2> QED
    BY <2>1, <2>2
<1>5. ASSUME NEW p \in Proc, CommandBreaks(p) \/ CommandTouches(p)
      PROVE  FileInv'
  BY <1>5 DEF FileInv, CommandBreaks, CommandTouches, PastFlock, Live
<1>6. ASSUME NEW p \in Proc, Environment(p)
      PROVE  FileInv'
  <2>1. CASE Signal(p)
    BY <2>1, LaterFile DEF Signal, MainState
  <2>2. CASE Kill(p)
    BY <2>2, TerminateFile DEF Kill
  <2>3. CASE CollectPidFile(p)
    BY <2>3 DEF FileInv, TypeOK, CollectPidFile, Unlock, PastFlock, Live
  <2> QED
    BY <1>6, <2>1, <2>2, <2>3 DEF Environment
<1>7. CASE UNCHANGED vars
  BY <1>7 DEF FileInv, PastFlock, Live, vars
<1> QED
  BY <1>1, <1>2, <1>3, <1>4, <1>5, <1>6, <1>7 DEF Next

-----------------------------------------------------------------------------
(* The number of an execution nobody else disturbs                         *)

\* Every step keeps the number of the only execution in its file: the steps
\* are its own.
LEMMA NextAlone == TypeOK /\ FileInv /\ AloneInv /\ [Next]_vars => AloneInv'
<1> SUFFICES ASSUME TypeOK, FileInv, AloneInv, [Next]_vars,
                    NEW p \in Proc, Live(p)', main'[p] # "create", Alone(p)'
             PROVE  pidText'[inode'[p]] =
                      IF main'[p] \in {"flock", "writepid"} THEN Empty ELSE p
  BY DEF AloneInv
<1> USE DEF TypeOK, Live, fileVars, channels, commandVars, Goto, AbortInitialize,
            Terminate
<1>1. ASSUME UNCHANGED << status, pidText, inode >>,
             main'[p] = main[p] \/ main[p] \notin {"create", "flock", "writepid"},
             main'[p] \notin {"flock", "writepid"} \/ main'[p] = main[p]
      PROVE  pidText'[inode'[p]] =
               IF main'[p] \in {"flock", "writepid"} THEN Empty ELSE p
  BY <1>1 DEF AloneInv, Alone
<1>2. ASSUME NEW q \in Proc, q # p,
             Start(q) \/ Refuse(q) \/ MainStep(q) \/ HandlerStep(q)
             \/ Environment(q)
      PROVE  FALSE
  <2>1. status'[q] = "new"
    BY <1>2 DEF Alone
  <2>2. status[q] # "new"
    BY <1>2, <2>1
       DEF Start, Refuse, MainStep, HandlerStep, Environment, Create, Flock, WritePid,
           Notify, InstallToolkit, SetupRuntime, CleanupRuntime, WaitForSignal,
           SignalReceived, Shutdown, Exit, Receive, Select, Send, HandlerShutdown,
           HandlerExit, Signal, Kill, CollectPidFile
  <2>3. status'[q] \in {status[q], "live", "zero", "one", "refused", "killed"}
    BY <1>2
       DEF Start, Refuse, MainStep, HandlerStep, Environment, Create, Flock, WritePid,
           Notify, InstallToolkit, SetupRuntime, CleanupRuntime, RunCommand,
           WaitForSignal, SignalReceived, Shutdown, Exit, Receive, Select, Send,
           HandlerShutdown, HandlerExit, Signal, Kill, CollectPidFile
  <2> QED
    BY <2>1, <2>2, <2>3
<1>3. CASE Start(p) \/ Refuse(p)
  BY <1>3 DEF Start, Refuse, FileInv
<1>4. CASE MainStep(p)
  <2>1. CASE Create(p)
    BY <2>1 DEF Create
  <2>2. CASE Flock(p) \/ WritePid(p)
    BY <2>2 DEF Flock, WritePid, AloneInv, Alone, FileInv
  <2>3. CASE ~(Create(p) \/ Flock(p) \/ WritePid(p))
    BY <1>1, <1>4, <2>3
       DEF MainStep, Notify, InstallToolkit, SetupRuntime, CleanupRuntime, RunCommand,
           WaitForSignal, SignalReceived, Shutdown, Exit
  <2> QED
    BY <2>1, <2>2, <2>3
<1>5. CASE HandlerStep(p)
  BY <1>1, <1>5 DEF HandlerStep, Receive, Select, Send, HandlerShutdown, HandlerExit
<1>6. CASE Environment(p)
  BY <1>1, <1>6 DEF Environment, Signal, Kill, CollectPidFile
<1>7. ASSUME NEW q \in Proc, CommandBreaks(q) \/ CommandTouches(q)
      PROVE  UNCHANGED << status, pidText, inode, main >>
  BY <1>7 DEF CommandBreaks, CommandTouches
<1>8. CASE UNCHANGED vars
  BY <1>1, <1>8 DEF vars
<1> QED
  BY <1>1, <1>2, <1>3, <1>4, <1>5, <1>6, <1>7, <1>8 DEF Next

-----------------------------------------------------------------------------
(* The handshake between main and the signal goroutine                     *)

\* An execution that ends leaves no goroutine and no message behind.
LEMMA TerminateHandshake ==
  ASSUME TypeOK, HandshakeInv, NEW p \in Proc, NEW how, Terminate(p, how)
  PROVE  HandshakeInv'
BY DEF HandshakeInv, TypeOK, Terminate

\* Every step keeps the two goroutines and their channels in agreement.
LEMMA NextHandshake ==
  TypeOK /\ FileInv /\ HandshakeInv /\ [Next]_vars => HandshakeInv'
<1> SUFFICES ASSUME TypeOK, FileInv, HandshakeInv, [Next]_vars
             PROVE  HandshakeInv'
  OBVIOUS
<1> USE DEF fileVars, channels, commandVars, AbortInitialize, Goto
<1>1. ASSUME NEW p \in Proc, Start(p)
      PROVE  HandshakeInv'
  BY <1>1 DEF HandshakeInv, FileInv, TypeOK, Start, Live
<1>2. ASSUME NEW p \in Proc, Refuse(p)
      PROVE  HandshakeInv'
  BY <1>2, TerminateHandshake DEF Refuse
<1>3. ASSUME NEW p \in Proc, MainStep(p)
      PROVE  HandshakeInv'
  <2> USE DEF HandshakeInv, TypeOK
  <2>1. CASE Create(p)
    BY <2>1, TerminateHandshake DEF Create
  <2>2. CASE Flock(p)
    BY <2>2, TerminateHandshake DEF Flock
  <2>3. CASE WritePid(p)
    BY <2>3, TerminateHandshake DEF WritePid
  <2>4. CASE Notify(p)
    BY <2>4 DEF Notify
  <2>5. CASE InstallToolkit(p)
    BY <2>5 DEF InstallToolkit, RunCommand
  <2>6. CASE SetupRuntime(p)
    BY <2>6 DEF SetupRuntime, RunCommand
  <2>7. CASE CleanupRuntime(p)
    BY <2>7 DEF CleanupRuntime, RunCommand
  <2>8. CASE WaitForSignal(p)
    BY <2>8 DEF WaitForSignal, HandlerState
  <2>9. CASE SignalReceived(p)
    BY <2>9 DEF SignalReceived
  <2>10. CASE Shutdown(p)
    BY <2>10 DEF Shutdown
  <2>11. CASE Exit(p)
    BY <2>11, TerminateHandshake DEF Exit
  <2> QED
    BY <1>3, <2>1, <2>2, <2>3, <2>4, <2>5, <2>6, <2>7, <2>8, <2>9, <2>10,
       <2>11 DEF MainStep
<1>4. ASSUME NEW p \in Proc, HandlerStep(p)
      PROVE  HandshakeInv'
  <2> USE DEF HandshakeInv, TypeOK
  <2>1. CASE Receive(p)
    BY <2>1 DEF Receive
  <2>2. CASE Select(p)
    BY <2>2 DEF Select
  <2>3. CASE Send(p)
    BY <2>3 DEF Send
  <2>4. CASE HandlerShutdown(p)
    BY <2>4 DEF HandlerShutdown
  <2>5. CASE HandlerExit(p)
    BY <2>5, TerminateHandshake DEF HandlerExit
  <2> QED
    BY <1>4, <2>1, <2>2, <2>3, <2>4, <2>5 DEF HandlerStep
<1>5. ASSUME NEW p \in Proc, CommandBreaks(p) \/ CommandTouches(p)
      PROVE  HandshakeInv'
  BY <1>5 DEF HandshakeInv, CommandBreaks, CommandTouches
<1>6. ASSUME NEW p \in Proc, Environment(p)
      PROVE  HandshakeInv'
  <2>1. CASE Kill(p)
    BY <2>1, TerminateHandshake DEF Kill
  <2>2. CASE ~Kill(p)
    BY <1>6, <2>2 DEF Environment, Signal, CollectPidFile, HandshakeInv
  <2> QED
    BY <2>1, <2>2
<1>7. CASE UNCHANGED vars
  BY <1>7 DEF HandshakeInv, vars
<1> QED
  BY <1>1, <1>2, <1>3, <1>4, <1>5, <1>6, <1>7 DEF Next

-----------------------------------------------------------------------------
(* Commands                                                                *)

\* A process can be ended in the middle of a cleanup only by a kill, and in
\* the middle of any command only by a kill or by its own signal goroutine.
LEMMA TerminateCommand ==
  ASSUME TypeOK, CommandInv, NEW p \in Proc,
         NEW how \in {"zero", "one", "refused", "killed"}, Terminate(p, how),
         how \in {"one", "refused"} => child[p] = "none",
         how = "zero" => child[p] # "cleanup"
  PROVE  CommandInv'
BY DEF CommandInv, TypeOK, Terminate, commandVars, Live

\* Every step keeps the facts about commands.
LEMMA NextCommand ==
  TypeOK /\ FileInv /\ HandshakeInv /\ CommandInv /\ [Next]_vars => CommandInv'
<1> SUFFICES ASSUME TypeOK, FileInv, HandshakeInv, CommandInv, [Next]_vars
             PROVE  CommandInv'
  OBVIOUS
<1> USE DEF fileVars, channels, commandVars, AbortInitialize, Goto
<1>1. ASSUME NEW p \in Proc, Start(p)
      PROVE  CommandInv'
  BY <1>1 DEF CommandInv, FileInv, TypeOK, Start, Live
<1>2. ASSUME NEW p \in Proc, Refuse(p)
      PROVE  CommandInv'
  BY <1>2, TerminateCommand DEF Refuse, CommandInv
<1>3. ASSUME NEW p \in Proc, MainStep(p)
      PROVE  CommandInv'
  <2>0. child[p] # "none" => main[p] \in {"install", "setup", "cleanup"}
    BY <1>3 DEF CommandInv, TypeOK, ChildState, MainStep, Create, Flock,
       WritePid, Notify, InstallToolkit, SetupRuntime, CleanupRuntime,
       WaitForSignal, SignalReceived, Shutdown, Exit
  <2> USE DEF CommandInv, TypeOK, Live
  <2>1. CASE Create(p)
    BY <2>0, <2>1, TerminateCommand DEF Create, HandshakeInv
  <2>2. CASE Flock(p)
    BY <2>0, <2>2, TerminateCommand DEF Flock, HandshakeInv
  <2>3. CASE WritePid(p)
    BY <2>0, <2>3, TerminateCommand DEF WritePid, HandshakeInv
  <2>4. CASE Notify(p)
    BY <2>0, <2>4 DEF Notify
  <2>5. CASE InstallToolkit(p)
    BY <2>5 DEF InstallToolkit, RunCommand, HandshakeInv
  <2>6. CASE SetupRuntime(p)
    BY <2>6 DEF SetupRuntime, RunCommand, HandshakeInv
  <2>7. CASE CleanupRuntime(p)
    BY <2>7 DEF CleanupRuntime, RunCommand, HandshakeInv
  <2>8. CASE WaitForSignal(p)
    BY <2>0, <2>8 DEF WaitForSignal
  <2>9. CASE SignalReceived(p)
    BY <2>0, <2>9 DEF SignalReceived
  <2>10. CASE Shutdown(p)
    BY <2>0, <2>10 DEF Shutdown
  <2>11. CASE Exit(p)
    BY <2>0, <2>11, TerminateCommand DEF Exit
  <2> QED
    BY <1>3, <2>1, <2>2, <2>3, <2>4, <2>5, <2>6, <2>7, <2>8, <2>9, <2>10,
       <2>11 DEF MainStep
<1>4. ASSUME NEW p \in Proc, HandlerStep(p)
      PROVE  CommandInv'
  <2>1. CASE Receive(p) \/ Select(p) \/ HandlerShutdown(p)
    BY <2>1 DEF CommandInv, TypeOK, Receive, Select, HandlerShutdown, Live
  <2>2. CASE Send(p)
    BY <2>2 DEF CommandInv, HandshakeInv, TypeOK, Send, Live
  <2>3. CASE HandlerExit(p)
    BY <2>3, TerminateCommand DEF CommandInv, HandshakeInv, HandlerExit
  <2> QED
    BY <1>4, <2>1, <2>2, <2>3 DEF HandlerStep
<1>5. ASSUME NEW p \in Proc, CommandBreaks(p) \/ CommandTouches(p)
      PROVE  CommandInv'
  BY <1>5, ValueAssumption
     DEF CommandInv, FileInv, HandshakeInv, TypeOK, CommandBreaks,
         CommandTouches, Live, Status
<1>6. ASSUME NEW p \in Proc, Environment(p)
      PROVE  CommandInv'
  <2>1. CASE Kill(p)
    BY <2>1, TerminateCommand DEF Kill
  <2>2. CASE ~Kill(p)
    BY <1>6, <2>2 DEF Environment, Signal, CollectPidFile, CommandInv, Live
  <2> QED
    BY <2>1, <2>2
<1>7. CASE UNCHANGED vars
  BY <1>7 DEF CommandInv, Live, vars
<1> QED
  BY <1>1, <1>2, <1>3, <1>4, <1>5, <1>6, <1>7 DEF Next

-----------------------------------------------------------------------------
(* The configuration a waiting instance relies on                          *)

\* While no pid file was removed and no descriptor collected, one execution
\* at most is past the lock, whatever its signal goroutine does.
LEMMA OnePastFlock ==
  ASSUME TypeOK, FileInv, ~Removed, collected = {},
         NEW p \in Proc, NEW q \in Proc, PastFlock(p), PastFlock(q)
  PROVE  p = q
<1>1. inode[p] = pidFile /\ inode[q] = pidFile
  BY DEF Removed, FileInv, TypeOK, PastFlock
<1> QED
  BY <1>1 DEF FileInv

\* A removed file stays removed.
LEMMA StaysRemoved ==
  TypeOK /\ FileInv /\ Removed /\ [Next]_vars => Removed'
<1> SUFFICES ASSUME TypeOK, FileInv, [Next]_vars,
                    NEW i \in Proc, pidText[i] # None, pidFile # i
             PROVE  pidText'[i] # None /\ pidFile' # i
  BY DEF Removed
<1> USE ValueAssumption DEF fileVars, TypeOK
<1>1. CASE UNCHANGED << pidFile, pidText >>
  BY <1>1
<1>2. ASSUME NEW p \in Proc, Create(p), ~AbortInitialize(p)
      PROVE  pidText'[i] # None /\ pidFile' # i
  BY <1>2 DEF Create, FileInv
<1>3. ASSUME NEW p \in Proc, WritePid(p), ~AbortInitialize(p)
      PROVE  pidText'[i] # None /\ pidFile' # i
  BY <1>3 DEF WritePid
<1>4. ASSUME NEW p \in Proc, Shutdown(p) \/ HandlerShutdown(p)
      PROVE  pidText'[i] # None /\ pidFile' # i
  BY <1>4 DEF Shutdown, HandlerShutdown, RemovePidFile
<1>5. ASSUME NEW p \in Proc, MainStep(p)
      PROVE  \/ UNCHANGED << pidFile, pidText >>
             \/ Create(p) /\ ~AbortInitialize(p)
             \/ WritePid(p) /\ ~AbortInitialize(p)
             \/ Shutdown(p)
  <2>1. AbortInitialize(p) => UNCHANGED << pidFile, pidText >>
    BY DEF AbortInitialize, Terminate
  <2>2. Flock(p) => UNCHANGED << pidFile, pidText >>
    BY <2>1 DEF Flock, Terminate
  <2> QED
    BY <1>5, <2>1, <2>2
       DEF MainStep, Notify, InstallToolkit, SetupRuntime, CleanupRuntime,
           RunCommand, WaitForSignal, SignalReceived, Exit, Terminate
<1>6. ASSUME NEW p \in Proc, ~MainStep(p), ~HandlerShutdown(p),
             \/ Start(p) \/ Refuse(p) \/ HandlerStep(p) \/ CommandBreaks(p)
             \/ CommandTouches(p) \/ Environment(p)
      PROVE  UNCHANGED << pidFile, pidText >>
  BY <1>6 DEF Start, Refuse, HandlerStep, Environment, Terminate, Receive,
     Select, Send, HandlerExit, CommandBreaks, CommandTouches, Signal, Kill,
     CollectPidFile
<1> QED
  BY <1>1, <1>2, <1>3, <1>4, <1>5, <1>6 DEF Next, vars

\* What the collector closed stays closed, and an orphan stays one.
LEMMA StaysDisturbed ==
  ASSUME TypeOK, FileInv, CommandInv, [Next]_vars
  PROVE  /\ collected # {} => collected' # {}
         /\ Orphaned => Orphaned'
<1>1. collected' = collected \/ \E p \in Proc : collected' = collected \cup {p}
  BY DEF vars, fileVars, Next, Start, Refuse, MainStep, HandlerStep,
     Environment, AbortInitialize, Terminate, Create, Flock, WritePid, Notify,
     InstallToolkit, SetupRuntime, CleanupRuntime, RunCommand, WaitForSignal,
     SignalReceived, Shutdown, Exit, Receive, Select, Send, HandlerShutdown,
     HandlerExit, CommandBreaks, CommandTouches, Signal, Kill, CollectPidFile
<1>2. ASSUME NEW q \in Proc, ~Live(q), child[q] # "none"
      PROVE  ~Live(q)' /\ child'[q] # "none"
  <2> USE <1>2 DEF Live, TypeOK
  <2>1. status[q] # "new"
    BY DEF CommandInv
  <2>2. ASSUME NEW p \in Proc, Start(p)
        PROVE  ~Live(q)' /\ child'[q] # "none"
    BY <2>1, <2>2 DEF Start, commandVars
  <2>3. ASSUME NEW p \in Proc, CommandTouches(p)
        PROVE  ~Live(q)' /\ child'[q] # "none"
    BY <2>3 DEF CommandTouches
  <2>4. ASSUME NEW p \in Proc, NEW how \in {"zero", "one", "refused", "killed"},
               Terminate(p, how)
        PROVE  ~Live(q)' /\ child'[q] # "none"
    BY <2>4 DEF Terminate, commandVars
  <2>5. ASSUME NEW p \in Proc, Live(p), UNCHANGED status,
               \A r \in Proc \ {p} : child'[r] = child[r]
        PROVE  ~Live(q)' /\ child'[q] # "none"
    BY <2>5
  <2>6. CASE UNCHANGED << status, child >>
    BY <2>6
  <2>7. \/ UNCHANGED << status, child >>
        \/ \E p \in Proc :
             \/ Start(p) \/ CommandTouches(p)
             \/ \E how \in {"zero", "one", "refused", "killed"} : Terminate(p, how)
             \/ /\ Live(p) /\ UNCHANGED status
                /\ \A r \in Proc \ {p} : child'[r] = child[r]
    BY DEF vars, commandVars, Next, Refuse, MainStep, HandlerStep,
       Environment, AbortInitialize, Create, Flock, WritePid,
       Notify, InstallToolkit, SetupRuntime, CleanupRuntime, RunCommand,
       WaitForSignal, SignalReceived, Shutdown, Exit, Receive, Select, Send,
       HandlerShutdown, HandlerExit, CommandBreaks, Signal, Kill,
       CollectPidFile
  <2> QED
    BY <2>2, <2>3, <2>4, <2>5, <2>6, <2>7
<1> QED
  BY <1>1, <1>2 DEF Orphaned

\* Every step keeps the configuration a waiting instance relies on: while the
\* lock works and no orphan is about, nobody but that instance runs a command.
LEMMA NextConfigured ==
  TypeOK /\ IInv /\ [Next]_vars => ConfiguredInv'
<1> SUFFICES ASSUME TypeOK, IInv, [Next]_vars,
                    ~Disturbed', NEW q \in Proc,
                    \/ main'[q] \in {"wait", "blocked"}
                    \/ main'[q] = "setup" /\ child'[q] = "touched"
             PROVE  runtime' = q
  BY DEF ConfiguredInv
<1> USE DEF IInv
<1>1. ~Removed /\ collected = {} /\ ~Orphaned
  BY StaysRemoved, StaysDisturbed DEF Disturbed
<1>2. \/ main[q] \in {"wait", "blocked"}
      \/ main[q] = "setup" /\ child[q] = "touched"
      => runtime = q
  BY <1>1 DEF ConfiguredInv, Disturbed
<1>3. ASSUME NEW p \in Proc, CommandBreaks(p) \/ CommandTouches(p)
      PROVE  runtime' = q
  <2>1. Live(p)
    BY <1>1, <1>3 DEF Orphaned, CommandBreaks, CommandTouches
  <2>2. PastFlock(p) /\ main[p] = child[p]
    BY <1>3, <2>1 DEF CommandInv, CommandBreaks, CommandTouches, PastFlock
  <2>3. PastFlock(q)
    BY <1>3 DEF CommandBreaks, CommandTouches, FileInv, PastFlock, Live
  <2>4. p = q
    BY <1>1, <2>2, <2>3, OnePastFlock
  <2>5. ~CommandBreaks(p)
    BY <2>2, <2>4 DEF CommandBreaks
  <2> QED
    BY <1>1, <1>3, <2>2, <2>4, <2>5 DEF CommandTouches, Disturbed
<1>4. ASSUME NEW p \in Proc, Start(p) \/ Refuse(p)
      PROVE  runtime' = q
  BY <1>2, <1>4 DEF TypeOK, Start, Refuse, Terminate, commandVars
<1>5. ASSUME NEW p \in Proc, MainStep(p)
      PROVE  runtime' = q
  <2> USE <1>2 DEF TypeOK, commandVars, Goto, AbortInitialize, Terminate
  <2>1. CASE Create(p) \/ Flock(p) \/ WritePid(p) \/ Notify(p)
    BY <2>1 DEF Create, Flock, WritePid, Notify
  <2>2. CASE InstallToolkit(p)
    BY <2>2 DEF InstallToolkit, RunCommand
  <2>3. CASE SetupRuntime(p)
    BY <2>3 DEF SetupRuntime, RunCommand, CommandInv
  <2>4. CASE CleanupRuntime(p)
    BY <2>4 DEF CleanupRuntime, RunCommand
  <2>5. CASE WaitForSignal(p) \/ SignalReceived(p) \/ Shutdown(p) \/ Exit(p)
    BY <2>5 DEF WaitForSignal, SignalReceived, Shutdown, Exit
  <2> QED
    BY <1>5, <2>1, <2>2, <2>3, <2>4, <2>5 DEF MainStep
<1>6. ASSUME NEW p \in Proc, HandlerStep(p) \/ Environment(p)
      PROVE  runtime' = q
  BY <1>2, <1>6 DEF TypeOK, HandlerStep, Receive, Select, Send,
     HandlerShutdown, HandlerExit, Environment, Signal, Kill, CollectPidFile,
     Terminate, commandVars
<1>7. CASE UNCHANGED vars
  BY <1>2, <1>7 DEF vars, commandVars
<1> QED
  BY <1>3, <1>4, <1>5, <1>6, <1>7 DEF Next

-----------------------------------------------------------------------------
(* Theorems                                                                *)

\* The inductive invariant holds at first.
LEMMA InitIInv == Init => TypeOK /\ IInv
BY ValueAssumption
   DEF Init, TypeOK, Status, MainState, HandlerState, ChildState, IInv,
       FileInv, AloneInv, HandshakeInv, CommandInv, ConfiguredInv, PastFlock, Live

\* Every step keeps the inductive invariant.
LEMMA NextIInv == TypeOK /\ IInv /\ [Next]_vars => (TypeOK /\ IInv)'
BY NextType, NextFile, NextAlone, NextHandshake, NextCommand, NextConfigured
   DEF IInv

\* Commands that can have overlapped stay so.
LEMMA DisturbedStays == TypeOK /\ IInv /\ [Next]_vars /\ Disturbed => Disturbed'
BY StaysRemoved, StaysDisturbed DEF IInv, Disturbed

\* Otherwise one execution at most is past the lock.
LEMMA Exclusive ==
  ASSUME TypeOK, IInv, ~Disturbed
  PROVE  \A p, q \in Proc : PastFlock(p) /\ PastFlock(q) => p = q
BY OnePastFlock DEF IInv, Disturbed

\* The inductive invariant holds in every reachable state.
THEOREM Invariance == Spec => [](TypeOK /\ IInv)
BY InitIInv, NextIInv, PTL DEF Spec

\* No signal makes the process leave in the middle of its cleanup: the
\* goroutine that could has returned when main learns of the signal.
THEOREM CleanupIsNotInterrupted == Spec => []CleanupNotInterrupted
<1>1. IInv => CleanupNotInterrupted
  BY DEF IInv, HandshakeInv, CleanupNotInterrupted
<1> QED
  BY <1>1, Invariance, PTL

\* No send blocks, and a blocked main can always be reached by a signal
\* (waitForSignal, the goroutine of initialize): the part of SignalTerminates
\* that needs no fairness.
THEOREM HandshakeIsFree == Spec => []NeverDeadlocked
<1>1. TypeOK /\ IInv => NeverDeadlocked
  <2> SUFFICES ASSUME TypeOK, HandshakeInv, NEW p \in Proc
               PROVE  /\ main[p] = "wait" => waitingForSignal[p] = 0
                      /\ handler[p] = "send" => signalReceived[p] = 0
                      /\ main[p] = "blocked" =>
                           \/ /\ handler[p] \in {"receive", "select"}
                              /\ waitingForSignal[p] = 1
                           \/ handler[p] \in {"send", "shutdown", "exit"}
                           \/ signalReceived[p] = 1
    BY DEF IInv, NeverDeadlocked
  <2>1. waitingForSignal[p] \in 0..1 /\ signalReceived[p] \in 0..1
    BY DEF TypeOK
  <2>2. handler[p] \in HandlerState
    BY DEF TypeOK
  <2> QED
    BY <2>1, <2>2 DEF HandshakeInv, HandlerState
<1> QED
  BY <1>1, Invariance, PTL

\* Until a pid file is removed or a descriptor collected, the lock of
\* initialize lets at most one instance run.
THEOREM LockIsExclusive == Spec => []ExclusiveUntilRemoved
<1>1. TypeOK /\ IInv => ExclusiveUntilRemoved
  BY OnePastFlock DEF IInv, ExclusiveUntilRemoved, Running, PastFlock
<1> QED
  BY <1>1, Invariance, PTL

\* The pid file of a running lock holder gives its number, or none once another
\* execution has been started, and never that of another.
THEOREM PidFileNames == Spec => []PidFileNamesOnlyHolder
<1>1. IInv => PidFileNamesOnlyHolder
  BY DEF IInv, FileInv, AloneInv, PidFileNamesOnlyHolder, Running, PastFlock
<1> QED
  BY <1>1, Invariance, PTL

\* An instance that waits for its signal has the runtime configured by its
\* own setup, while the lock works and no command outlives its instance.
THEOREM WaitingIsConfigured == Spec => []WaitingMeansConfigured
<1>1. IInv => WaitingMeansConfigured
  BY DEF IInv, ConfiguredInv, WaitingMeansConfigured
<1> QED
  BY <1>1, Invariance, PTL

\* Whoever is refused the lock is refused by a live instance.
THEOREM RefusedByLiveHolder == Spec => RefusedOnlyByLiveHolder
<1>1. ASSUME TypeOK, IInv, [Next]_vars, NEW p \in Proc,
             status[p] # "refused", status'[p] = "refused"
      PROVE  \E q \in Proc \ {p} : Live(q) /\ flock[inode[p]] = q
  <2>1. Flock(p) /\ flock[inode[p]] # None
    BY <1>1
       DEF TypeOK, vars, Next, Start, Refuse, MainStep, HandlerStep, Live,
           Environment, AbortInitialize, Terminate, Create, Flock, WritePid,
           Notify, InstallToolkit, SetupRuntime, CleanupRuntime, RunCommand,
           WaitForSignal, SignalReceived, Shutdown, Exit, Receive, Select,
           Send, HandlerShutdown, HandlerExit, CommandBreaks, CommandTouches,
           Signal, Kill, CollectPidFile
  <2>2. Live(p) /\ main[p] = "flock" /\ inode[p] \in Proc
    BY <1>1, <2>1 DEF IInv, FileInv, TypeOK, Flock
  <2> QED
    BY <1>1, <2>1, <2>2 DEF IInv, FileInv, TypeOK, PastFlock
<1>2. TypeOK /\ IInv /\ [Next]_vars =>
        [\A p \in Proc :
           status[p] # "refused" /\ status'[p] = "refused"
             => \E q \in Proc \ {p} : Live(q) /\ flock[inode[p]] = q]_vars
  BY <1>1
<1> QED
  BY <1>2, Invariance, PTL DEF Spec, RefusedOnlyByLiveHolder

\* Who leaves gracefully with exit code 0 has undone its configuration and
\* leaves no command behind.
THEOREM GracefulExit == Spec => GracefulExitRestores
<1>1. ASSUME TypeOK, IInv, [Next]_vars, NEW p \in Proc,
             handler[p] = "done", status'[p] = "zero"
      PROVE  runtime' # p /\ child'[p] = "none"
  <2>1. status[p] = "live"
    BY <1>1 DEF IInv, FileInv, HandshakeInv, Live
  <2>2. Exit(p) /\ err[p] = "nil"
    BY <1>1, <2>1
       DEF TypeOK, vars, Next, Start, Refuse, MainStep, HandlerStep,
           Environment, AbortInitialize, Terminate, Create, Flock, WritePid,
           Notify, InstallToolkit, SetupRuntime, CleanupRuntime, RunCommand,
           WaitForSignal, SignalReceived, Shutdown, Exit, Receive, Select,
           Send, HandlerShutdown, HandlerExit, CommandBreaks, CommandTouches,
           Signal, Kill, CollectPidFile
  <2>3. child[p] = "none"
    BY <2>1, <2>2, <1>1 DEF Exit, IInv, CommandInv, Live, TypeOK, ChildState
  <2> QED
    BY <1>1, <2>2, <2>3
       DEF Exit, Terminate, commandVars, IInv, CommandInv
<1>2. TypeOK /\ IInv /\ [Next]_vars =>
        [\A p \in Proc :
           handler[p] = "done" /\ status'[p] = "zero"
             => runtime' # p /\ child'[p] = "none"]_vars
  BY <1>1
<1> QED
  BY <1>2, Invariance, PTL DEF Spec, GracefulExitRestores

-----------------------------------------------------------------------------
(* The protocol implements ExitDecision                                    *)

\* A step that touches neither the lives, the goroutines, the announcement of
\* main nor the runtime is invisible in ExitDecision.
LEMMA Invisible ==
  ASSUME UNCHANGED << status, mode, handler, waitingForSignal, runtime >>
  PROVE  UNCHANGED Abstract!vars
BY DEF Abstract!vars, decision, DecisionOf, Live

\* A step of p that moves its decision is a step of ExitDecision.
LEMMA Decides ==
  ASSUME NEW p \in Proc, NEW from, NEW to, UNCHANGED runtime,
         DecisionOf(p) \in from, DecisionOf(p)' = to,
         \A q \in Proc \ {p} :
           /\ status'[q] = status[q] /\ mode'[q] = mode[q]
           /\ handler'[q] = handler[q]
           /\ waitingForSignal'[q] = waitingForSignal[q]
  PROVE  Abstract!Decide(p, from, to)
<1>1. \A q \in Proc \ {p} : DecisionOf(q)' = DecisionOf(q)
  BY DEF DecisionOf, Live
<1>2. decision' = [decision EXCEPT ![p] = to]
  BY <1>1 DEF decision
<1> QED
  BY <1>2 DEF Abstract!Decide, decision

\* The end of p by whatever way is an end ExitDecision allows.
LEMMA TerminateDecides ==
  ASSUME TypeOK, IInv, NEW p \in Proc,
         NEW how \in {"zero", "one", "refused", "killed"}, Terminate(p, how),
         \/ status[p] = "new" /\ how \in {"zero", "one"}
         \/ Live(p) /\ how = "killed"
         \/ Live(p) /\ how \in {"one", "refused"} /\ main[p] # "blocked"
         \/ HandlerExit(p) /\ how = "zero"
         \/ Exit(p) /\ how = "zero"
  PROVE  Abstract!Next
<1> USE DEF Live, DecisionOf
<1>1. /\ UNCHANGED runtime
      /\ DecisionOf(p)' = IF how = "zero" THEN "done"
                          ELSE IF how \in {"one", "refused"} THEN "failed" ELSE how
      /\ \A q \in Proc \ {p} :
           /\ status'[q] = status[q] /\ mode'[q] = mode[q]
           /\ handler'[q] = handler[q]
           /\ waitingForSignal'[q] = waitingForSignal[q]
  BY DEF Terminate, commandVars, TypeOK
<1>2. CASE status[p] = "new" /\ how \in {"zero", "one"}
  BY <1>1, <1>2, Decides DEF Abstract!Next, Abstract!Refuse
<1>3. CASE Live(p) /\ how = "killed"
  BY <1>1, <1>3, Decides DEF Abstract!Next, Abstract!Kill
<1>4. CASE Live(p) /\ how \in {"one", "refused"} /\ main[p] # "blocked"
  <2>1. DecisionOf(p) \in {"open", "once", "early", "graceful"}
    BY <1>4 DEF IInv, HandshakeInv
  <2> QED
    BY <1>1, <1>4, <2>1, Decides DEF Abstract!Next, Abstract!Fail
<1>5. CASE HandlerExit(p) /\ how = "zero"
  <2>1. DecisionOf(p) = "early"
    BY <1>5 DEF HandlerExit
  <2> QED
    BY <1>1, <1>5, <2>1, Decides
       DEF Abstract!Next, Abstract!Done, decision
<1>6. CASE Exit(p) /\ how = "zero"
  <2>1. main[p] = "exit" /\ err[p] = "nil" /\ Live(p)
    BY <1>1, <1>6 DEF Exit, Terminate, TypeOK
  <2>2. DecisionOf(p) \in {"once", "early", "graceful"}
    BY <2>1 DEF IInv, HandshakeInv
  <2>3. DecisionOf(p) = "graceful" => runtime # p
    BY <2>1 DEF IInv, HandshakeInv, CommandInv
  <2> QED
    BY <1>1, <1>6, <2>2, <2>3, Decides
       DEF Abstract!Next, Abstract!Done, decision
<1> QED
  BY <1>2, <1>3, <1>4, <1>5, <1>6

\* Every step is a step of ExitDecision or leaves what it speaks of alone.
LEMMA StepSimulation ==
  TypeOK /\ IInv /\ [Next]_vars => [Abstract!Next]_(Abstract!vars)
<1> SUFFICES ASSUME TypeOK, IInv, [Next]_vars
             PROVE  Abstract!Next \/ UNCHANGED Abstract!vars
  OBVIOUS
<1> USE DEF fileVars, channels, commandVars, AbortInitialize, Goto, Live
<1>1. ASSUME NEW p \in Proc, Start(p)
      PROVE  Abstract!Next
  <2>1. DecisionOf(p) = "new" /\ DecisionOf(p)' \in {"open", "once"}
    BY <1>1 DEF Start, DecisionOf, IInv, FileInv, HandshakeInv, TypeOK
  <2> QED
    BY <1>1, <2>1, Decides DEF Start, Abstract!Next, Abstract!Open, TypeOK
<1>2. ASSUME NEW p \in Proc, Refuse(p)
      PROVE  Abstract!Next
  BY <1>2, TerminateDecides DEF Refuse
<1>3. ASSUME NEW p \in Proc, MainStep(p)
      PROVE  Abstract!Next \/ UNCHANGED Abstract!vars
  <2>1. CASE Create(p) \/ Flock(p) \/ WritePid(p)
    <3>1. CASE Terminate(p, "one") \/ Terminate(p, "refused")
      BY <2>1, <3>1, TerminateDecides DEF Create, Flock, WritePid
    <3>2. CASE ~(Terminate(p, "one") \/ Terminate(p, "refused"))
      BY <2>1, <3>2, Invisible DEF Create, Flock, WritePid
    <3> QED
      BY <3>1, <3>2
  <2>2. CASE Notify(p)
    <3>1. \A q \in Proc : DecisionOf(q)' = DecisionOf(q)
      BY <2>2 DEF Notify, DecisionOf, IInv, HandshakeInv, TypeOK
    <3> QED
      BY <2>2, <3>1 DEF Notify, Abstract!vars, decision
  <2>3. CASE InstallToolkit(p) \/ SetupRuntime(p) \/ CleanupRuntime(p)
    BY <2>3, Invisible
       DEF InstallToolkit, SetupRuntime, CleanupRuntime, RunCommand
  <2>4. CASE WaitForSignal(p)
    <3>1. CASE handler[p] \in {"shutdown", "exit"}
      <4>1. \A q \in Proc : DecisionOf(q)' = DecisionOf(q)
        BY <2>4, <3>1 DEF WaitForSignal, DecisionOf, TypeOK
      <4> QED
        BY <2>4, <4>1 DEF WaitForSignal, Abstract!vars, decision
    <3>2. CASE handler[p] \notin {"shutdown", "exit"}
      <4>1. DecisionOf(p) = "open" /\ DecisionOf(p)' = "ready"
        BY <2>4, <3>2
           DEF WaitForSignal, DecisionOf, IInv, HandshakeInv, TypeOK
      <4> QED
        BY <2>4, <4>1, Decides
           DEF WaitForSignal, Abstract!Next, Abstract!BecomeReady, TypeOK
    <3> QED
      BY <3>1, <3>2
  <2>5. CASE SignalReceived(p) \/ Shutdown(p)
    BY <2>5, Invisible DEF SignalReceived, Shutdown
  <2>6. CASE Exit(p)
    BY <2>6, TerminateDecides DEF Exit
  <2> QED
    BY <1>3, <2>1, <2>2, <2>3, <2>4, <2>5, <2>6 DEF MainStep
<1>4. ASSUME NEW p \in Proc, HandlerStep(p)
      PROVE  Abstract!Next \/ UNCHANGED Abstract!vars
  <2>1. CASE Receive(p) \/ Send(p) \/ HandlerShutdown(p)
    <3>1. \A q \in Proc : DecisionOf(q)' = DecisionOf(q)
      BY <2>1 DEF Receive, Send, HandlerShutdown, DecisionOf, TypeOK
    <3> QED
      BY <2>1, <3>1 DEF Receive, Send, HandlerShutdown, Abstract!vars, decision
  <2>2. CASE Select(p)
    <3>1. CASE waitingForSignal[p] = 1
      <4>1. DecisionOf(p) = "ready" /\ DecisionOf(p)' = "graceful"
        BY <2>2, <3>1 DEF Select, DecisionOf, TypeOK
      <4> QED
        BY <2>2, <4>1, Decides
           DEF Select, Abstract!Next, Abstract!LeaveGracefully, TypeOK
    <3>2. CASE waitingForSignal[p] # 1
      <4>1. DecisionOf(p) \in {"open", "once"} /\ DecisionOf(p)' = "early"
        BY <2>2, <3>2 DEF Select, DecisionOf, TypeOK
      <4> QED
        BY <2>2, <4>1, Decides
           DEF Select, Abstract!Next, Abstract!LeaveEarly, TypeOK
    <3> QED
      BY <3>1, <3>2
  <2>3. CASE HandlerExit(p)
    BY <2>3, TerminateDecides DEF HandlerExit
  <2> QED
    BY <1>4, <2>1, <2>2, <2>3 DEF HandlerStep
<1>5. ASSUME NEW p \in Proc, CommandBreaks(p) \/ CommandTouches(p)
      PROVE  Abstract!Next \/ UNCHANGED Abstract!vars
  <2>1. UNCHANGED decision
    BY <1>5 DEF CommandBreaks, CommandTouches, decision, DecisionOf
  <2>2. CASE child[p] = "setup"
    <3>1. DecisionOf(p) \in {"open", "once", "early", "done", "killed"}
      BY <2>2 DEF DecisionOf, IInv, HandshakeInv, CommandInv, TypeOK, Status
    <3> QED
      BY <1>5, <2>1, <2>2, <3>1
         DEF CommandBreaks, CommandTouches, Abstract!Next, Abstract!Configure,
             Abstract!vars, decision
  <2>3. CASE child[p] = "cleanup"
    <3>1. DecisionOf(p) \in {"graceful", "killed"}
      BY <2>3 DEF DecisionOf, IInv, HandshakeInv, CommandInv, TypeOK, Status
    <3> QED
      BY <1>5, <2>1, <2>3, <3>1
         DEF CommandBreaks, CommandTouches, Abstract!Next, Abstract!Restore,
             decision
  <2> QED
    BY <1>5, <2>2, <2>3 DEF CommandBreaks, CommandTouches
<1>6. ASSUME NEW p \in Proc, Environment(p)
      PROVE  Abstract!Next \/ UNCHANGED Abstract!vars
  <2>1. CASE Kill(p)
    BY <2>1, TerminateDecides DEF Kill
  <2>2. CASE Signal(p) \/ CollectPidFile(p)
    BY <2>2, Invisible DEF Signal, CollectPidFile
  <2> QED
    BY <1>6, <2>1, <2>2 DEF Environment
<1>7. CASE UNCHANGED vars
  BY <1>7, Invisible DEF vars
<1> QED
  BY <1>1, <1>2, <1>3, <1>4, <1>5, <1>6, <1>7 DEF Next

\* The goroutines, channels and commands implement ExitDecision: the end of
\* an instance is decided once, and a waiting daemon only leaves through its
\* cleanup.
THEOREM Refinement == Spec => ImplementsExitDecision
<1>1. Init => Abstract!Init
  BY DEF Init, Abstract!Init, decision, DecisionOf, Live
<1> QED
  BY <1>1, StepSimulation, Invariance, PTL
     DEF Spec, ImplementsExitDecision, Abstract!Spec

=============================================================================
