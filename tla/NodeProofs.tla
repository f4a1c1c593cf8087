------------------------------ MODULE NodeProofs ------------------------------
(***************************************************************************)
(* Theorems about Node, for any number of instances.  What is proved of    *)
(* NvidiaToolkit and of CrioHook is used here for the node's own daemon    *)
(* and hook, DP and HP: Node's ValueAssumption contains theirs.            *)
(***************************************************************************)
EXTENDS Node, TLAPS

DP == INSTANCE NvidiaToolkitProofs
        WITH collected <- {}, child <- child, runtime <- runtime

HP == INSTANCE CrioHookProofs WITH Setup <- Proc \X {"setup"},
                                   Cleanup <- Proc \X {"cleanup"}

-----------------------------------------------------------------------------
(* DP says of its own instance of NvidiaToolkit what holds of Daemon: the   *)
(* two are the same instance under two names.                              *)

\* The same states.
LEMMA SameState ==
  /\ DP!TypeOK <=> Daemon!TypeOK
  /\ DP!Init <=> Daemon!Init
  /\ DP!IInv <=> Daemon!IInv
  /\ DP!Disturbed <=> Daemon!Disturbed
  /\ \A p \in Proc : DP!PastFlock(p) <=> Daemon!PastFlock(p)
<1>1. DP!TypeOK <=> Daemon!TypeOK
  BY DEF DP!TypeOK, Daemon!TypeOK, DP!Status, Daemon!Status,
     DP!MainState, Daemon!MainState, DP!HandlerState,
     Daemon!HandlerState, DP!ChildState, Daemon!ChildState
<1>2. DP!Init <=> Daemon!Init
  BY DEF DP!Init, Daemon!Init
<1>3. DP!Disturbed <=> Daemon!Disturbed
  BY DEF DP!Disturbed, Daemon!Disturbed, DP!Removed, Daemon!Removed,
     DP!Orphaned, Daemon!Orphaned, DP!Live, Daemon!Live
<1>4. \A p \in Proc : DP!PastFlock(p) <=> Daemon!PastFlock(p)
  BY DEF DP!PastFlock, Daemon!PastFlock, DP!Live, Daemon!Live
<1>5. DP!IInv <=> Daemon!IInv
  BY <1>1 DEF DP!IInv, Daemon!IInv, DP!FileInv, Daemon!FileInv,
     DP!AloneInv, Daemon!AloneInv, DP!Alone, Daemon!Alone,
     DP!HandshakeInv, Daemon!HandshakeInv, DP!CommandInv,
     Daemon!CommandInv, DP!ConfiguredInv, Daemon!ConfiguredInv,
     DP!Disturbed, Daemon!Disturbed, DP!Removed, Daemon!Removed,
     DP!Orphaned, Daemon!Orphaned, DP!PastFlock, Daemon!PastFlock,
     DP!Live, Daemon!Live
<1> QED
  BY <1>1, <1>2, <1>3, <1>4, <1>5

\* The same states after a step.
LEMMA SameNextState ==
  /\ DP!TypeOK' <=> Daemon!TypeOK'
  /\ DP!IInv' <=> Daemon!IInv'
  /\ DP!Disturbed' <=> Daemon!Disturbed'
<1>1. DP!TypeOK' <=> Daemon!TypeOK'
  BY DEF DP!TypeOK, Daemon!TypeOK, DP!Status, Daemon!Status,
     DP!MainState, Daemon!MainState, DP!HandlerState,
     Daemon!HandlerState, DP!ChildState, Daemon!ChildState
<1>2. DP!Disturbed' <=> Daemon!Disturbed'
  BY DEF DP!Disturbed, Daemon!Disturbed, DP!Removed, Daemon!Removed,
     DP!Orphaned, Daemon!Orphaned, DP!Live, Daemon!Live
<1>3. DP!IInv' <=> Daemon!IInv'
  BY <1>1 DEF DP!IInv, Daemon!IInv, DP!FileInv, Daemon!FileInv,
     DP!AloneInv, Daemon!AloneInv, DP!Alone, Daemon!Alone,
     DP!HandshakeInv, Daemon!HandshakeInv, DP!CommandInv,
     Daemon!CommandInv, DP!ConfiguredInv, Daemon!ConfiguredInv,
     DP!Disturbed, Daemon!Disturbed, DP!Removed, Daemon!Removed,
     DP!Orphaned, Daemon!Orphaned, DP!PastFlock, Daemon!PastFlock,
     DP!Live, Daemon!Live
<1> QED
  BY <1>1, <1>2, <1>3

\* The same steps.
LEMMA SameStep == Daemon!Next <=> DP!Next
<1> USE DEF DP!fileVars, Daemon!fileVars, DP!channels, Daemon!channels,
            DP!commandVars, Daemon!commandVars, DP!Live,
            Daemon!Live, DP!Goto, Daemon!Goto, DP!AbortInitialize,
            Daemon!AbortInitialize, DP!Terminate,
            Daemon!Terminate, DP!Unlock, Daemon!Unlock
<1>1. ASSUME NEW p \in Proc
      PROVE  Daemon!Start(p) <=> DP!Start(p)
  BY DEF DP!Start, Daemon!Start
<1>2. ASSUME NEW p \in Proc
      PROVE  Daemon!Refuse(p) <=> DP!Refuse(p)
  BY DEF DP!Refuse, Daemon!Refuse
<1>3. ASSUME NEW p \in Proc
      PROVE  Daemon!Create(p) <=> DP!Create(p)
  BY DEF DP!Create, Daemon!Create
<1>4. ASSUME NEW p \in Proc
      PROVE  Daemon!Flock(p) <=> DP!Flock(p)
  BY DEF DP!Flock, Daemon!Flock
<1>5. ASSUME NEW p \in Proc
      PROVE  Daemon!WritePid(p) <=> DP!WritePid(p)
  BY DEF DP!WritePid, Daemon!WritePid
<1>6. ASSUME NEW p \in Proc
      PROVE  Daemon!Notify(p) <=> DP!Notify(p)
  BY DEF DP!Notify, Daemon!Notify
<1>7. ASSUME NEW p \in Proc
      PROVE  Daemon!InstallToolkit(p) <=> DP!InstallToolkit(p)
  BY DEF DP!InstallToolkit, Daemon!InstallToolkit, DP!RunCommand,
     Daemon!RunCommand
<1>8. ASSUME NEW p \in Proc
      PROVE  Daemon!SetupRuntime(p) <=> DP!SetupRuntime(p)
  BY DEF DP!SetupRuntime, Daemon!SetupRuntime, DP!RunCommand,
     Daemon!RunCommand
<1>9. ASSUME NEW p \in Proc
      PROVE  Daemon!CleanupRuntime(p) <=> DP!CleanupRuntime(p)
  BY DEF DP!CleanupRuntime, Daemon!CleanupRuntime, DP!RunCommand,
     Daemon!RunCommand
<1>10. ASSUME NEW p \in Proc
      PROVE  Daemon!WaitForSignal(p) <=> DP!WaitForSignal(p)
  BY DEF DP!WaitForSignal, Daemon!WaitForSignal
<1>11. ASSUME NEW p \in Proc
      PROVE  Daemon!SignalReceived(p) <=> DP!SignalReceived(p)
  BY DEF DP!SignalReceived, Daemon!SignalReceived
<1>12. ASSUME NEW p \in Proc
      PROVE  Daemon!Shutdown(p) <=> DP!Shutdown(p)
  BY DEF DP!Shutdown, Daemon!Shutdown, DP!RemovePidFile,
     Daemon!RemovePidFile
<1>13. ASSUME NEW p \in Proc
      PROVE  Daemon!Exit(p) <=> DP!Exit(p)
  BY DEF DP!Exit, Daemon!Exit
<1>14. ASSUME NEW p \in Proc
      PROVE  Daemon!HandlerStep(p) <=> DP!HandlerStep(p)
  BY DEF DP!HandlerStep, Daemon!HandlerStep, DP!Receive, Daemon!Receive,
     DP!Select, Daemon!Select, DP!Send, Daemon!Send, DP!HandlerShutdown,
     Daemon!HandlerShutdown, DP!RemovePidFile, Daemon!RemovePidFile,
     DP!HandlerExit, Daemon!HandlerExit
<1>15. ASSUME NEW p \in Proc
      PROVE  Daemon!CommandBreaks(p) <=> DP!CommandBreaks(p)
  BY DEF DP!CommandBreaks, Daemon!CommandBreaks
<1>16. ASSUME NEW p \in Proc
      PROVE  Daemon!CommandTouches(p) <=> DP!CommandTouches(p)
  BY DEF DP!CommandTouches, Daemon!CommandTouches, DP!Disturbed,
     Daemon!Disturbed, DP!Removed, Daemon!Removed, DP!Orphaned,
     Daemon!Orphaned
<1>17. ASSUME NEW p \in Proc
      PROVE  Daemon!Environment(p) <=> DP!Environment(p)
  BY DEF DP!Environment, Daemon!Environment, DP!Signal, Daemon!Signal,
     DP!Kill, Daemon!Kill, DP!CollectPidFile, Daemon!CollectPidFile
<1>18. ASSUME NEW p \in Proc
      PROVE  Daemon!MainStep(p) <=> DP!MainStep(p)
  BY <1>3, <1>4, <1>5, <1>6, <1>7, <1>8, <1>9, <1>10, <1>11, <1>12, <1>13
     DEF DP!MainStep, Daemon!MainStep
<1> QED
  BY <1>1, <1>2, <1>14, <1>15, <1>16, <1>17, <1>18 DEF DP!Next, Daemon!Next

LEMMA DaemonInit == Daemon!Init => Daemon!TypeOK /\ Daemon!IInv
BY ValueAssumption, SameState, DP!InitIInv

\* What a step of the daemons preserves.
LEMMA DaemonNext ==
  Daemon!TypeOK /\ Daemon!IInv /\ [Daemon!Next]_(Daemon!vars) =>
    /\ Daemon!TypeOK' /\ Daemon!IInv'
    /\ Daemon!Disturbed => Daemon!Disturbed'
<1>1. DP!vars = Daemon!vars /\ DP!vars' = Daemon!vars'
  BY DEF DP!vars, Daemon!vars, DP!fileVars, Daemon!fileVars, DP!channels,
         Daemon!channels, DP!commandVars, Daemon!commandVars
<1>2. [Daemon!Next]_(Daemon!vars) => [DP!Next]_(DP!vars)
  BY <1>1, SameStep
<1> QED
  BY ValueAssumption, <1>2, SameState, SameNextState, DP!NextIInv,
     DP!DisturbedStays

\* The instance past the lock is alone, unless there is a disturbance.
LEMMA DaemonExclusive ==
  ASSUME Daemon!TypeOK, Daemon!IInv, ~Daemon!Disturbed,
         NEW p \in Proc, NEW q \in Proc,
         Daemon!PastFlock(p), Daemon!PastFlock(q)
  PROVE  p = q
BY ValueAssumption, SameState, DP!Exclusive

-----------------------------------------------------------------------------
(* The commands in their own right.                                        *)

\* Every step of an instance is a step of the toolkit directory or of the
\* hook, or leaves them alone.
LEMMA PartSteps ==
  [Next]_vars => [Inst!Next]_(Inst!vars) /\ [Hook!Next]_(Hook!hookVars)
<1> SUFFICES ASSUME [Next]_vars
             PROVE  [Inst!Next]_(Inst!vars) /\ [Hook!Next]_(Hook!hookVars)
  OBVIOUS
<1> USE DEF installVars, hookVars, Inst!vars, Hook!hookVars
<1>1. ASSUME NEW p \in Proc, DaemonStep(p)
      PROVE  UNCHANGED << Inst!vars, Hook!hookVars >>
  BY <1>1 DEF DaemonStep
<1>2. ASSUME NEW p \in Proc, StartCommand(p)
      PROVE  UNCHANGED << Inst!vars, Hook!hookVars >>
  BY <1>2 DEF StartCommand
<1>3. ASSUME NEW p \in Proc, EndCommand(p)
      PROVE  UNCHANGED << Inst!vars, Hook!hookVars >>
  BY <1>3 DEF EndCommand
<1>4. ASSUME NEW p \in Proc, InstallStep(p)
      PROVE  Inst!Next /\ UNCHANGED Hook!hookVars
  BY <1>4 DEF InstallStep, Inst!Next, Inst!Command
<1>5. ASSUME NEW p \in Proc, HookStep(p)
      PROVE  Hook!Next /\ UNCHANGED Inst!vars
  <2>1. << p, command[p] >> \in Hook!Hooking
    BY <1>5 DEF HookStep, Hook!Hooking
  <2> QED
    BY <2>1, <1>5 DEF HookStep, Hook!Next
<1>6. CASE UNCHANGED vars
  BY <1>6 DEF vars
<1> QED
  BY <1>1, <1>2, <1>3, <1>4, <1>5, <1>6 DEF Next

LEMMA InstType ==
  Inst!TypeOK /\ [Inst!Next]_(Inst!vars) => Inst!TypeOK'
<1> SUFFICES ASSUME Inst!TypeOK, Inst!Next
             PROVE  Inst!TypeOK'
  BY DEF Inst!TypeOK, Inst!vars
<1> USE DEF Inst!TypeOK, Inst!Move, Inst!Touch, Inst!Contents, Inst!Progress,
            Inst!Command
<1>1. PICK p \in Proc : Inst!Step(p)
  BY DEF Inst!Next
<1> QED
  BY <1>1 DEF Inst!Step, Inst!Begin, Inst!Remove, Inst!Clear, Inst!Fill,
              Inst!Abandon

\* HP and Hook are the same instance under two names.
LEMMA HookInvariant ==
  /\ Hook!Init => Hook!TypeOK /\ Hook!IInv
  /\ Hook!TypeOK /\ Hook!IInv /\ [Hook!Next]_(Hook!hookVars) =>
       Hook!TypeOK' /\ Hook!IInv'
<1>1. HP!TypeOK <=> Hook!TypeOK
  BY DEF HP!TypeOK, Hook!TypeOK, HP!Hooking, Hook!Hooking
<1>2. HP!TypeOK' <=> Hook!TypeOK'
  BY DEF HP!TypeOK, Hook!TypeOK, HP!Hooking, Hook!Hooking
<1>3. HP!IInv <=> Hook!IInv
  BY DEF HP!IInv, Hook!IInv, HP!AuthorInv, Hook!AuthorInv, HP!HookExplained,
         Hook!HookExplained, HP!Writer, Hook!Writer
<1>4. HP!IInv' <=> Hook!IInv'
  BY DEF HP!IInv, Hook!IInv, HP!AuthorInv, Hook!AuthorInv, HP!HookExplained,
         Hook!HookExplained, HP!Writer, Hook!Writer
<1>5. [Hook!Next]_(Hook!hookVars) <=> [HP!Next]_(HP!hookVars)
  BY DEF HP!hookVars, Hook!hookVars, HP!Next, Hook!Next, HP!Hooking,
         Hook!Hooking, HP!Step, Hook!Step, HP!Begin, Hook!Begin, HP!Create,
         Hook!Create, HP!Encode, Hook!Encode, HP!EncodePart, Hook!EncodePart,
         HP!Remove, Hook!Remove, HP!Fail, Hook!Fail, HP!Write, Hook!Write,
         HP!Move, Hook!Move, HP!Close, Hook!Close
<1>6. HP!Distinct
  BY ValueAssumption DEF HP!Distinct
<1>7. Hook!Init => Hook!TypeOK
  BY DEF Hook!Init, Hook!TypeOK
<1>8. Hook!Init => Hook!IInv
  BY DEF Hook!Init, Hook!IInv, Hook!AuthorInv, Hook!HookExplained,
         Hook!Hooking, Hook!Writer
<1> QED
  BY <1>1, <1>2, <1>3, <1>4, <1>5, <1>6, <1>7, <1>8, HP!NextType, HP!NextIInv

-----------------------------------------------------------------------------
(* The commands as NvidiaToolkit sees them.                                *)

\* What the node's theorems are proved from.
AllInv == TypeOK /\ IInv /\ Daemon!IInv /\ Hook!IInv

\* child tells how far the command is.
LEMMA ChildIs ==
  ASSUME NEW p \in Proc
  PROVE  /\ command[p] \in {"none", "install"} => child[p] = command[p]
         /\ command[p] \in {"setup", "cleanup"} =>
              child[p] = IF hooking[<< p, command[p] >>] = "ok"
                         THEN "touched" ELSE command[p]
BY DEF child, ChildOf, Succeeded

LEMMA ChildIsNext ==
  ASSUME NEW p \in Proc
  PROVE  /\ command'[p] \in {"none", "install"} => child'[p] = command'[p]
         /\ command'[p] \in {"setup", "cleanup"} =>
              child'[p] = IF hooking'[<< p, command'[p] >>] = "ok"
                          THEN "touched" ELSE command'[p]
BY DEF child, ChildOf, Succeeded

\* It changes where the command moves.
LEMMA ChildKept ==
  ASSUME TypeOK, command' = command,
         NEW Q \in SUBSET Proc,
         \A q \in Q : command[q] \in {"setup", "cleanup"} =>
           (hooking'[<< q, command[q] >>] = "ok"
              <=> hooking[<< q, command[q] >>] = "ok")
  PROVE  \A q \in Q : child'[q] = child[q]
BY ChildIs, ChildIsNext DEF TypeOK

\* An undisturbed command has an instance that waits for it and holds the
\* lock.
LEMMA CommandAlive ==
  ASSUME AllInv, ~Daemon!Disturbed, NEW p \in Proc, command[p] # "none"
  PROVE  Live(p) /\ main[p] = command[p] /\ Daemon!PastFlock(p)
<1>1. child[p] # "none"
  BY ChildIs DEF AllInv, TypeOK
<1>2. Live(p)
  BY <1>1 DEF Daemon!Disturbed, Daemon!Orphaned, Daemon!Live, Live
<1>3. main[p] = command[p]
  BY <1>2 DEF AllInv, IInv, PlaceInv, Place
<1> QED
  BY <1>2, <1>3 DEF Daemon!PastFlock, Daemon!Live, Live, AllInv, TypeOK

\* A step of one hook command moves no other.
LEMMA HookFrame ==
  ASSUME TypeOK, NEW p \in Proc, HookStep(p), NEW q \in Proc,
         NEW name \in {"setup", "cleanup"}, q # p \/ name # command[p]
  PROVE  /\ hooking'[<< q, name >>] = hooking[<< q, name >>]
         /\ name = "setup" => opened'[<< q, name >>] = opened[<< q, name >>]
<1> DEFINE c == << p, command[p] >>
           d == << q, name >>
<1>1. d # c /\ d \in Hook!Hooking /\ (name = "setup" => d \in Proc \X {"setup"})
  BY DEF Hook!Hooking
<1> HIDE DEF c, d
<1>2. Hook!Step(c)
  BY DEF HookStep, c
<1>3. hooking'[d] = hooking[d] /\ (d \in Proc \X {"setup"} => opened'[d] = opened[d])
  BY <1>1, <1>2
     DEF Hook!Step, Hook!Begin, Hook!Create, Hook!Encode, Hook!EncodePart,
         Hook!Remove, Hook!Fail, Hook!Move, Hook!Close, TypeOK, Hook!TypeOK
<1> QED
  BY <1>1, <1>3 DEF d

\* A command that does not change whether any has succeeded is not seen.
LEMMA Unseen ==
  ASSUME TypeOK, UNCHANGED << daemonVars, command, runtime >>,
         \A q \in Proc : command[q] \in {"setup", "cleanup"} =>
           (hooking'[<< q, command[q] >>] = "ok"
              <=> hooking[<< q, command[q] >>] = "ok")
  PROVE  UNCHANGED Daemon!vars
<1>1. \A q \in Proc : child'[q] = child[q]
  BY ChildKept
<1>2. child' = child
  BY <1>1 DEF child
<1> QED
  BY <1>2 DEF daemonVars, Daemon!vars, Daemon!fileVars, Daemon!channels,
              Daemon!commandVars

\* What a successful command of p is seen to do.
LEMMA Touches ==
  ASSUME TypeOK, NEW p \in Proc, HookStep(p),
         hooking[<< p, command[p] >>] # "ok",
         hooking'[<< p, command[p] >>] = "ok",
         runtime' \in IF command[p] = "cleanup" THEN {None}
                      ELSE {p} \cup IF Daemon!Disturbed THEN {None, runtime} ELSE {}
  PROVE  Daemon!CommandTouches(p)
<1>1. command[p] \in {"setup", "cleanup"} /\ command' = command
  BY DEF HookStep
<1>2. child[p] = command[p] /\ child'[p] = "touched"
  BY <1>1, ChildIs, ChildIsNext
<1>3. \A q \in Proc \ {p} : child'[q] = child[q]
  <2>1. \A q \in Proc \ {p} : command[q] \in {"setup", "cleanup"} =>
          hooking'[<< q, command[q] >>] = hooking[<< q, command[q] >>]
    BY HookFrame
  <2> QED
    BY <2>1, <1>1, ChildKept
<1>4. child' = [child EXCEPT ![p] = "touched"]
  BY <1>2, <1>3 DEF child
<1> QED
  BY <1>1, <1>2, <1>4
     DEF HookStep, daemonVars, Daemon!CommandTouches, Daemon!fileVars,
         Daemon!channels

\* What a setup that is not done is seen to do.
LEMMA Breaks ==
  ASSUME TypeOK, NEW p \in Proc, HookStep(p), command[p] = "setup",
         hooking[<< p, command[p] >>] # "ok",
         hooking'[<< p, command[p] >>] # "ok",
         runtime' = None
  PROVE  Daemon!CommandBreaks(p)
<1>1. command' = command /\ child[p] = "setup"
  BY ChildIs DEF HookStep
<1>2. \A q \in Proc : child'[q] = child[q]
  BY <1>1, ChildKept, HookFrame
<1>3. child' = child
  BY <1>2 DEF child
<1> QED
  BY <1>1, <1>3
     DEF HookStep, daemonVars, Daemon!CommandBreaks, Daemon!fileVars,
         Daemon!channels

\* Every step of a hook command is one of CommandBreaks and CommandTouches,
\* or is not seen.
LEMMA HookSimulation ==
  ASSUME AllInv, NEW p \in Proc, HookStep(p)
  PROVE  \/ Daemon!CommandBreaks(p) \/ Daemon!CommandTouches(p)
         \/ UNCHANGED Daemon!vars
<1> DEFINE c == << p, command[p] >>
<1>1. Hook!Step(c) /\ c \in Hook!Hooking /\ UNCHANGED << daemonVars, command >>
  BY DEF HookStep, Hook!Hooking
<1>2. (c \in Proc \X {"setup"} <=> command[p] = "setup") /\ c[1] = p
      /\ (c \in Proc \X {"cleanup"} <=> command[p] = "cleanup")
  BY DEF HookStep
<1>3. TypeOK /\ Hook!TypeOK
  BY DEF AllInv, TypeOK
<1> HIDE DEF c
<1>4. ASSUME hooking[c] # "ok", hooking'[c] # "ok", runtime' = runtime
      PROVE  UNCHANGED Daemon!vars
  <2>1. ASSUME NEW q \in Proc, command[q] \in {"setup", "cleanup"}
        PROVE  hooking'[<< q, command[q] >>] = "ok"
                 <=> hooking[<< q, command[q] >>] = "ok"
    <3>1. CASE q = p
      BY <3>1, <1>4 DEF c
    <3>2. CASE q # p
      BY <3>2, <2>1, <1>3, HookFrame
    <3> QED
      BY <3>1, <3>2
  <2> QED
    BY <2>1, <1>1, <1>3, <1>4, Unseen
<1> USE DEF Hook!Move, Hook!Close, Hook!TypeOK
<1>5. CASE Hook!Begin(c) \/ Hook!Fail(c)
  BY <1>1, <1>3, <1>4, <1>5 DEF Hook!Begin, Hook!Fail, runtime
<1>6. CASE Hook!Create(c)
  <2>1. hooking[c] # "ok" /\ hooking'[c] # "ok" /\ runtime' = None
    BY <1>1, <1>3, <1>6 DEF Hook!Create, runtime
  <2>2. command[p] = "setup"
    BY <1>2, <1>6 DEF Hook!Create
  <2> QED
    BY <2>1, <2>2, <1>3, Breaks DEF c
<1>7. CASE Hook!Encode(c)
  <2>1. command[p] = "setup" /\ c = << p, "setup" >>
    BY <1>2, <1>7 DEF Hook!Encode, c
  <2>2. hooking[c] # "ok" /\ hooking'[c] = "ok"
    BY <1>1, <1>3, <1>7 DEF Hook!Encode
  <2>3. runtime' \in {p, None, runtime}
    BY <1>2, <1>7 DEF Hook!Encode, Hook!Write, runtime
  <2>4. ASSUME ~Daemon!Disturbed
        PROVE  runtime' = p
    <3>1. Daemon!PastFlock(p)
      BY <2>1, <2>4, CommandAlive
    <3>2. hooking[c] = "encode"
      BY <1>7 DEF Hook!Encode
    <3>3. opened[c] = hookFile /\ hookText = "empty"
      BY <2>1, <2>4, <3>1, <3>2 DEF AllInv, IInv, HookInv
    <3> QED
      BY <1>2, <1>7, <3>3 DEF Hook!Encode, Hook!Write, runtime
  <2> QED
    BY <2>1, <2>2, <2>3, <2>4, <1>3, Touches
<1>8. CASE Hook!EncodePart(c)
  <2>1. command[p] = "setup"
    BY <1>2, <1>8 DEF Hook!EncodePart
  <2>2. hooking[c] # "ok" /\ hooking'[c] # "ok"
    BY <1>1, <1>3, <1>8 DEF Hook!EncodePart
  <2>3. runtime' \in {None, runtime}
    BY <1>8 DEF Hook!EncodePart, Hook!Write, runtime
  <2> QED
    BY <2>1, <2>2, <2>3, <1>3, <1>4, Breaks DEF c
<1>9. CASE Hook!Remove(c)
  <2>1. command[p] = "cleanup"
    BY <1>2, <1>9 DEF Hook!Remove
  <2>2. hooking[c] # "ok" /\ hooking'[c] = "ok" /\ runtime' = None
    BY <1>1, <1>3, <1>9 DEF Hook!Remove, runtime
  <2> QED
    BY <2>1, <2>2, <1>3, Touches DEF c
<1> QED
  BY <1>1, <1>5, <1>6, <1>7, <1>8, <1>9 DEF Hook!Step

\* Every step of the node is a step of NvidiaToolkit, or is not seen.
LEMMA StepSimulation ==
  AllInv /\ [Next]_vars => [Daemon!Next]_(Daemon!vars)
<1> SUFFICES ASSUME AllInv, [Next]_vars
             PROVE  Daemon!Next \/ UNCHANGED Daemon!vars
  OBVIOUS
<1>1. ASSUME NEW p \in Proc, DaemonStep(p)
      PROVE  Daemon!Next
  BY <1>1 DEF DaemonStep, Daemon!Next, Daemon!MainStep, Daemon!Environment
<1>2. ASSUME NEW p \in Proc, StartCommand(p) \/ EndCommand(p)
      PROVE  Daemon!Next
  BY <1>2 DEF StartCommand, EndCommand, CommandStep, Daemon!Next,
              Daemon!MainStep
<1>3. ASSUME NEW p \in Proc, InstallStep(p)
      PROVE  UNCHANGED Daemon!vars
  BY <1>3, Unseen DEF InstallStep, hookVars, runtime, AllInv
<1>4. ASSUME NEW p \in Proc, HookStep(p)
      PROVE  Daemon!Next \/ UNCHANGED Daemon!vars
  BY <1>4, HookSimulation DEF Daemon!Next
<1>5. CASE UNCHANGED vars
  BY <1>5, Unseen DEF vars, hookVars, runtime, AllInv
<1> QED
  BY <1>1, <1>2, <1>3, <1>4, <1>5 DEF Next

-----------------------------------------------------------------------------
(* The order of the commands.                                              *)

\* An instance that does not move keeps its place.
LEMMA PlaceFrame ==
  ASSUME NEW q \in Proc, Place(q),
         status'[q] = status[q], main'[q] = main[q], err'[q] = err[q],
         command'[q] = command[q], work'[q] = work[q],
         hooking'[<< q, "setup" >>] = hooking[<< q, "setup" >>],
         hooking'[<< q, "cleanup" >>] = hooking[<< q, "cleanup" >>]
  PROVE  Place(q)'
BY DEF Place, Early, About, Live

\* One that has ended has none.
LEMMA TerminatePlace ==
  ASSUME Daemon!TypeOK, NEW p \in Proc,
         NEW how \in {"zero", "one", "refused", "killed"}, Daemon!Terminate(p, how)
  PROVE  Place(p)'
BY DEF Daemon!TypeOK, Daemon!Terminate, Place, Early, About, Live

\* What main and the signal goroutine do between the commands.
LEMMA DaemonPlace ==
  ASSUME AllInv, NEW p \in Proc, DaemonStep(p)
  PROVE  Place(p)'
<1> USE DEF Daemon!Goto, Daemon!Live, Live, Daemon!AbortInitialize
<1>1. Place(p) /\ Daemon!TypeOK /\ TypeOK
  BY DEF AllInv, TypeOK, IInv, PlaceInv
<1>2. UNCHANGED << command, work, hooking >>
  BY DEF DaemonStep, installVars, hookVars
<1> USE DEF Daemon!TypeOK
<1>3. CASE Daemon!Start(p)
  <2>1. main[p] = "create" /\ child[p] = "none"
    BY <1>3 DEF AllInv, Daemon!IInv, Daemon!FileInv, Daemon!CommandInv,
                Daemon!Start
  <2>2. command[p] = "none"
    BY <2>1, <1>1, ChildIs DEF TypeOK
  <2> QED
    BY <1>1, <1>2, <1>3, <2>1, <2>2 DEF Daemon!Start, Place, Early, About
<1>4. CASE Daemon!Refuse(p) \/ Daemon!Exit(p) \/ Daemon!Kill(p)
  BY <1>1, <1>4, TerminatePlace DEF Daemon!Refuse, Daemon!Exit, Daemon!Kill
<1>5. CASE Daemon!Create(p) \/ Daemon!Flock(p) \/ Daemon!WritePid(p)
  <2>1. CASE Daemon!Terminate(p, "one") \/ Daemon!Terminate(p, "refused")
    BY <1>1, <2>1, TerminatePlace
  <2>2. CASE ~(Daemon!Terminate(p, "one") \/ Daemon!Terminate(p, "refused"))
    BY <1>1, <1>2, <1>5, <2>2
       DEF Daemon!Create, Daemon!Flock, Daemon!WritePid, Place, Early, About,
           TypeOK
  <2> QED
    BY <2>1, <2>2
<1>6. CASE Daemon!Notify(p)
  BY <1>1, <1>2, <1>6 DEF Daemon!Notify, Place, Early, About, TypeOK
<1>7. CASE Daemon!WaitForSignal(p)
  BY <1>1, <1>2, <1>7 DEF Daemon!WaitForSignal, Place, Early, About, TypeOK
<1>8. CASE Daemon!SignalReceived(p)
  BY <1>1, <1>2, <1>8 DEF Daemon!SignalReceived, Place, Early, About, TypeOK
<1>9. CASE Daemon!Shutdown(p)
  BY <1>1, <1>2, <1>9 DEF Daemon!Shutdown, Place, Early, About, TypeOK
<1>10. CASE Daemon!HandlerStep(p)
  <2>1. CASE Daemon!HandlerExit(p)
    BY <1>1, <2>1, TerminatePlace DEF Daemon!HandlerExit
  <2>2. CASE ~Daemon!HandlerExit(p)
    BY <1>1, <1>2, <1>10, <2>2, PlaceFrame
       DEF Daemon!HandlerStep, Daemon!Receive, Daemon!Select, Daemon!Send,
           Daemon!HandlerShutdown
  <2> QED
    BY <2>1, <2>2
<1>11. CASE Daemon!Signal(p)
  BY <1>1, <1>2, <1>11, PlaceFrame DEF Daemon!Signal
<1> QED
  BY <1>3, <1>4, <1>5, <1>6, <1>7, <1>8, <1>9, <1>10, <1>11 DEF DaemonStep

\* main starts the command that its place calls for.
LEMMA StartPlace ==
  ASSUME AllInv, NEW p \in Proc, StartCommand(p)
  PROVE  Place(p)'
<1>1. Place(p) /\ Daemon!TypeOK /\ TypeOK
  BY DEF AllInv, TypeOK, IInv, PlaceInv
<1>2. child[p] = "none" /\ command'[p] \in {"install", "setup", "cleanup"}
      /\ UNCHANGED << work, hooking >>
  BY <1>1, ChildIs DEF StartCommand, installVars, hookVars, TypeOK
<1>3. /\ main[p] \in {"install", "setup", "cleanup"} /\ Live(p)
      /\ child' = [child EXCEPT ![p] = main[p]]
      /\ UNCHANGED << main, err, status >>
  BY <1>2 DEF StartCommand, CommandStep, Daemon!InstallToolkit,
              Daemon!SetupRuntime, Daemon!CleanupRuntime, Daemon!RunCommand,
              Daemon!Live, Live
<1>4. child'[p] = main[p]
  BY <1>3 DEF child
<1>5. child'[p] \in {command'[p], "touched"}
  BY <1>2, ChildIsNext
<1>6. command'[p] = main[p]
  BY <1>3, <1>4, <1>5
<1> QED
  BY <1>1, <1>2, <1>3, <1>6 DEF Place, Early, About, Live

\* It goes on once the command has succeeded.
LEMMA EndPlace ==
  ASSUME AllInv, NEW p \in Proc, EndCommand(p)
  PROVE  Place(p)'
<1>1. Place(p) /\ Daemon!TypeOK /\ TypeOK
  BY DEF AllInv, TypeOK, IInv, PlaceInv
<1>2. child[p] # "none" /\ command'[p] = "none" /\ UNCHANGED << work, hooking >>
  BY <1>1, ChildIs DEF EndCommand, installVars, hookVars, TypeOK
<1>3. Live(p) /\ main[p] \in {"install", "setup", "cleanup"}
      /\ main[p] = command[p] /\ err[p] = "nil" /\ UNCHANGED status
  BY <1>1 DEF EndCommand, CommandStep, Daemon!InstallToolkit, Daemon!SetupRuntime,
              Daemon!CleanupRuntime, Daemon!RunCommand, Daemon!Live, Live, Place,
              Daemon!TypeOK
<1>4. CASE main'[p] = "shutdown"
  BY <1>2, <1>3, <1>4 DEF Place, Early, About, Live
<1>5. CASE main'[p] # "shutdown"
  <2>1. err'[p] = "nil" /\ main' = [main EXCEPT
          ![p] = IF main[p] = "install" THEN "setup" ELSE "wait"]
    BY <1>1, <1>2, <1>3, <1>5
       DEF EndCommand, CommandStep, Daemon!InstallToolkit, Daemon!SetupRuntime,
           Daemon!CleanupRuntime, Daemon!RunCommand, Daemon!Goto, Daemon!TypeOK
  <2>2. main[p] # "cleanup"
    BY <1>1, <1>2, <1>3, <1>5
       DEF EndCommand, CommandStep, Daemon!InstallToolkit, Daemon!SetupRuntime,
           Daemon!CleanupRuntime, Daemon!RunCommand, Daemon!Goto, Daemon!TypeOK
  <2>3. Succeeded(p)
    BY <1>1, <1>3, <2>1 DEF EndCommand, Daemon!TypeOK
  <2>4. main[p] = "install" => work[p] = "ok"
    BY <1>3, <2>3 DEF Succeeded
  <2>5. main[p] = "setup" => hooking[<< p, "setup" >>] = "ok"
    BY <1>3, <2>3 DEF Succeeded
  <2> QED
    BY <1>1, <1>2, <1>3, <2>1, <2>2, <2>4, <2>5
       DEF Place, Early, About, Live, Daemon!TypeOK
<1> QED
  BY <1>4, <1>5

\* A command that runs belongs to the place of its instance, if that lives.
LEMMA RunPlace ==
  ASSUME AllInv, NEW p \in Proc, InstallStep(p) \/ HookStep(p)
  PROVE  Place(p)'
<1>1. Place(p) /\ TypeOK
  BY DEF AllInv, IInv, PlaceInv
<1>2. command[p] # "none" /\ UNCHANGED << status, main, err, command >>
  BY DEF InstallStep, HookStep, daemonVars
<1>3. status[p] # "new"
  BY <1>1, <1>2, ChildIs
     DEF AllInv, Daemon!IInv, Daemon!CommandInv, TypeOK
<1>4. CASE InstallStep(p)
  BY <1>1, <1>2, <1>3, <1>4 DEF InstallStep, hookVars, Place, Early, About, Live
<1>5. CASE HookStep(p)
  <2>1. /\ command[p] = "setup" =>
             hooking'[<< p, "cleanup" >>] = hooking[<< p, "cleanup" >>]
        /\ command[p] = "cleanup" =>
             hooking'[<< p, "setup" >>] = hooking[<< p, "setup" >>]
        /\ command[p] \in {"setup", "cleanup"} /\ work' = work
    BY <1>1, <1>5, HookFrame DEF HookStep, installVars
  <2> QED
    BY <1>1, <1>2, <1>3, <2>1 DEF Place, Early, About, Live
<1> QED
  BY <1>4, <1>5

\* The other instances keep their place.
LEMMA OtherPlace ==
  ASSUME AllInv, NEW p \in Proc, NEW q \in Proc, q # p,
         \/ DaemonStep(p) \/ StartCommand(p) \/ EndCommand(p)
         \/ InstallStep(p) \/ HookStep(p)
  PROVE  Place(q)'
<1>1. Place(q) /\ TypeOK /\ Daemon!TypeOK /\ Inst!TypeOK
  BY DEF AllInv, TypeOK, IInv, PlaceInv
<1>2. status'[q] = status[q] /\ main'[q] = main[q] /\ err'[q] = err[q]
  <2> USE <1>1 DEF Daemon!TypeOK, Daemon!Goto, Daemon!AbortInitialize,
                   Daemon!Terminate
  <2>1. CASE DaemonStep(p)
    BY <2>1
       DEF DaemonStep, Daemon!Start, Daemon!Refuse, Daemon!Create,
           Daemon!Flock, Daemon!WritePid, Daemon!Notify, Daemon!WaitForSignal,
           Daemon!SignalReceived, Daemon!Shutdown, Daemon!Exit,
           Daemon!HandlerStep, Daemon!Receive, Daemon!Select, Daemon!Send,
           Daemon!HandlerShutdown, Daemon!HandlerExit, Daemon!Signal,
           Daemon!Kill
  <2>2. CASE StartCommand(p) \/ EndCommand(p)
    BY <2>2
       DEF StartCommand, EndCommand, CommandStep, Daemon!InstallToolkit,
           Daemon!SetupRuntime, Daemon!CleanupRuntime, Daemon!RunCommand
  <2>3. CASE InstallStep(p) \/ HookStep(p)
    BY <2>3 DEF InstallStep, HookStep, daemonVars
  <2> QED
    BY <2>1, <2>2, <2>3
<1>3. command'[q] = command[q]
  BY <1>1 DEF TypeOK, DaemonStep, StartCommand, EndCommand, InstallStep, HookStep
<1>4. work'[q] = work[q]
  BY <1>1
     DEF DaemonStep, StartCommand, EndCommand, InstallStep, HookStep, installVars,
         Inst!Step, Inst!Begin, Inst!Remove, Inst!Clear, Inst!Fill,
         Inst!Abandon, Inst!Move, Inst!TypeOK, Inst!Command
<1>5. \A name \in {"setup", "cleanup"} :
        hooking'[<< q, name >>] = hooking[<< q, name >>]
  <2>1. CASE HookStep(p)
    BY <1>1, <2>1, HookFrame
  <2>2. CASE ~HookStep(p)
    BY <2>2 DEF DaemonStep, StartCommand, EndCommand, InstallStep, hookVars
  <2> QED
    BY <2>1, <2>2
<1> QED
  BY <1>1, <1>2, <1>3, <1>4, <1>5, PlaceFrame

LEMMA NextPlace == AllInv /\ [Next]_vars => PlaceInv'
<1> SUFFICES ASSUME AllInv, [Next]_vars, NEW q \in Proc
             PROVE  Place(q)'
  BY DEF PlaceInv
<1>1. CASE UNCHANGED vars
  BY <1>1, PlaceFrame
     DEF vars, daemonVars, installVars, hookVars, AllInv, IInv, PlaceInv
<1>2. ASSUME NEW p \in Proc,
             \/ DaemonStep(p) \/ StartCommand(p) \/ EndCommand(p)
             \/ InstallStep(p) \/ HookStep(p)
      PROVE  Place(q)'
  BY <1>2, DaemonPlace, StartPlace, EndPlace, RunPlace, OtherPlace
<1> QED
  BY <1>1, <1>2 DEF Next

-----------------------------------------------------------------------------
(* The toolkit directory and the hook.                                     *)

\* An instance gets past the lock before its first command.
LEMMA PastFlockStays ==
  ASSUME AllInv, [Next]_vars, NEW p \in Proc,
         Daemon!PastFlock(p)', ~Daemon!PastFlock(p)
  PROVE  work'[p] = "new" /\ hooking'[<< p, "setup" >>] = "new"
<1>1. Place(p)'
  BY NextPlace DEF PlaceInv
<1>2. Daemon!TypeOK /\ TypeOK
  BY DEF AllInv, TypeOK
<1>3. status'[p] = "live" /\ main'[p] = "writepid"
  <2> USE <1>2 DEF Daemon!PastFlock, Daemon!Live, Daemon!TypeOK, Daemon!Goto,
                   Daemon!AbortInitialize, Daemon!Terminate
  <2>1. ASSUME NEW q \in Proc, DaemonStep(q)
        PROVE  status'[p] = "live" /\ main'[p] = "writepid"
    <3>1. status[p] = "new" => main[p] = "create"
      BY DEF AllInv, Daemon!IInv, Daemon!FileInv
    <3> QED
      BY <2>1, <3>1
         DEF DaemonStep, Daemon!Start, Daemon!Refuse, Daemon!Create,
             Daemon!Flock, Daemon!WritePid, Daemon!Notify,
             Daemon!WaitForSignal, Daemon!SignalReceived, Daemon!Shutdown,
             Daemon!Exit, Daemon!HandlerStep, Daemon!Receive, Daemon!Select,
             Daemon!Send, Daemon!HandlerShutdown, Daemon!HandlerExit,
             Daemon!Signal, Daemon!Kill
  <2>2. ASSUME NEW q \in Proc, StartCommand(q) \/ EndCommand(q)
        PROVE  FALSE
    BY <2>2
       DEF StartCommand, EndCommand, CommandStep, Daemon!InstallToolkit,
           Daemon!SetupRuntime, Daemon!CleanupRuntime, Daemon!RunCommand
  <2>3. ASSUME NEW q \in Proc, InstallStep(q) \/ HookStep(q)
        PROVE  FALSE
    BY <2>3 DEF InstallStep, HookStep, daemonVars
  <2>4. CASE UNCHANGED vars
    BY <2>4 DEF vars, daemonVars
  <2> QED
    BY <2>1, <2>2, <2>3, <2>4 DEF Next
<1> QED
  BY <1>1, <1>3 DEF Place, Early, Live

LEMMA NextToolkit == AllInv /\ [Next]_vars => ToolkitInv'
<1> SUFFICES ASSUME AllInv, [Next]_vars, ~Daemon!Disturbed',
                    NEW q \in Proc, Daemon!PastFlock(q)'
             PROVE  /\ work'[q] \in {"filling", "ok"} => owner' = q
                    /\ work'[q] = "ok" => toolkit' = "complete"
  BY DEF ToolkitInv
<1>1. ~Daemon!Disturbed
  BY StepSimulation, DaemonNext DEF AllInv, TypeOK
<1>2. CASE ~Daemon!PastFlock(q)
  BY <1>2, PastFlockStays
<1>3. CASE Daemon!PastFlock(q)
  <2>1. /\ work[q] \in {"filling", "ok"} => owner = q
        /\ work[q] = "ok" => toolkit = "complete"
    BY <1>1, <1>3 DEF AllInv, IInv, ToolkitInv
  <2>2. ASSUME NEW p \in Proc, InstallStep(p)
        PROVE  /\ work'[q] \in {"filling", "ok"} => owner' = q
               /\ work'[q] = "ok" => toolkit' = "complete"
    <3>1. p = q
      BY <1>1, <1>3, <2>2, CommandAlive, DaemonExclusive
         DEF AllInv, TypeOK, InstallStep
    <3> QED
      BY <2>1, <2>2, <3>1
         DEF InstallStep, AllInv, TypeOK, Inst!TypeOK, Inst!Command, Inst!Step,
             Inst!Begin, Inst!Remove, Inst!Clear, Inst!Fill, Inst!Abandon,
             Inst!Move, Inst!Touch
  <2>3. CASE UNCHANGED installVars
    BY <2>1, <2>3 DEF installVars
  <2> QED
    BY <2>2, <2>3 DEF Next, DaemonStep, StartCommand, EndCommand, HookStep, vars
<1> QED
  BY <1>2, <1>3

LEMMA NextHook == AllInv /\ [Next]_vars => HookInv'
<1> SUFFICES ASSUME AllInv, [Next]_vars, ~Daemon!Disturbed',
                    NEW q \in Proc, Daemon!PastFlock(q)'
             PROVE  LET setup == << q, "setup" >>
                    IN  /\ hooking'[setup] = "encode" =>
                             opened'[setup] = hookFile' /\ hookText' = "empty"
                        /\ hooking'[setup] = "ok"
                             /\ hooking'[<< q, "cleanup" >>] # "ok" =>
                             hookText' = "hook" /\ author' = setup
  BY DEF HookInv
<1> DEFINE s == << q, "setup" >>
           r == << q, "cleanup" >>
           Good == /\ hooking[s] = "encode" =>
                        opened[s] = hookFile /\ hookText = "empty"
                   /\ hooking[s] = "ok" /\ hooking[r] # "ok" =>
                        hookText = "hook" /\ author = s
<1>1. ~Daemon!Disturbed
  BY StepSimulation, DaemonNext DEF AllInv, TypeOK
<1>2. CASE ~Daemon!PastFlock(q)
  BY <1>2, PastFlockStays
<1>3. CASE Daemon!PastFlock(q)
  <2>1. Good
    BY <1>1, <1>3 DEF AllInv, IInv, HookInv
  <2>2. ASSUME NEW p \in Proc, HookStep(p)
        PROVE  Good'
    <3>1. p = q
      BY <1>1, <1>3, <2>2, CommandAlive, DaemonExclusive
         DEF AllInv, TypeOK, HookStep
    <3>2. command[q] = "cleanup" => hooking[s] = "ok"
      BY <1>1, <2>2, <3>1, CommandAlive
         DEF AllInv, IInv, PlaceInv, Place, HookStep
    <3>3. CASE command[q] = "setup"
      <4>1. Hook!Step(s) /\ s \in Proc \X {"setup"} /\ r \notin Proc \X {"setup"}
            /\ s \notin Proc \X {"cleanup"} /\ s \in Hook!Hooking
            /\ hooking'[r] = hooking[r]
        BY <2>2, <3>1, <3>3, HookFrame
           DEF HookStep, Hook!Hooking, AllInv
      <4> HIDE DEF s, r
      <4> QED
        BY <2>1, <4>1
           DEF AllInv, TypeOK, Hook!TypeOK, Hook!Step, Hook!Begin, Hook!Create,
               Hook!Encode, Hook!EncodePart, Hook!Remove, Hook!Fail, Hook!Move,
               Hook!Close, Hook!Write
    <3>4. CASE command[q] = "cleanup"
      <4>1. Hook!Step(r) /\ r \in Proc \X {"cleanup"} /\ r \in Hook!Hooking
            /\ r \notin Proc \X {"setup"} /\ hooking'[s] = hooking[s]
        BY <2>2, <3>1, <3>4, HookFrame
           DEF HookStep, Hook!Hooking, AllInv
      <4> HIDE DEF s, r
      <4> QED
        BY <2>1, <3>2, <3>4, <4>1
           DEF AllInv, TypeOK, Hook!TypeOK, Hook!Step, Hook!Begin, Hook!Create,
               Hook!Encode, Hook!EncodePart, Hook!Remove, Hook!Fail, Hook!Move
    <3> QED
      BY <2>2, <3>1, <3>3, <3>4 DEF HookStep
  <2>3. CASE UNCHANGED hookVars
    BY <2>1, <2>3 DEF hookVars
  <2> QED
    BY <2>2, <2>3 DEF Next, DaemonStep, StartCommand, EndCommand, InstallStep, vars
<1> QED
  BY <1>2, <1>3

-----------------------------------------------------------------------------
(* Theorems                                                                *)

LEMMA InitAll == Init => AllInv
<1> SUFFICES ASSUME Init
             PROVE  AllInv
  OBVIOUS
<1>1. Daemon!TypeOK /\ Daemon!IInv
  BY DaemonInit DEF Init
<1>2. Hook!TypeOK /\ Hook!IInv
  BY HookInvariant DEF Init
<1>3. TypeOK
  BY <1>1, <1>2
     DEF TypeOK, Init, Inst!Init, Inst!TypeOK, Inst!Contents, Inst!Progress, Inst!Command
<1>4. \A p \in Proc : status[p] = "new" /\ main[p] = "create" /\ err[p] = "nil"
                      /\ ~Daemon!PastFlock(p)
  BY DEF Init, Daemon!Init, Daemon!PastFlock, Daemon!Live
<1>5. \A p \in Proc : work[p] = "new" /\ hooking[<< p, "setup" >>] = "new"
                      /\ hooking[<< p, "cleanup" >>] = "new"
  BY DEF Init, Inst!Init, Inst!Command, Hook!Init, Hook!Hooking
<1>6. PlaceInv
  BY <1>4, <1>5 DEF PlaceInv, Place, Live, Early, About
<1>7. ToolkitInv /\ HookInv
  BY <1>4 DEF ToolkitInv, HookInv
<1> QED
  BY <1>1, <1>2, <1>3, <1>6, <1>7 DEF AllInv, IInv

LEMMA NextAll == AllInv /\ [Next]_vars => AllInv'
<1> SUFFICES ASSUME AllInv, [Next]_vars
             PROVE  AllInv'
  OBVIOUS
<1>1. Daemon!TypeOK' /\ Daemon!IInv'
  BY StepSimulation, DaemonNext DEF AllInv, TypeOK
<1>2. Hook!TypeOK' /\ Hook!IInv'
  BY PartSteps, HookInvariant DEF AllInv, TypeOK
<1>3. Inst!TypeOK'
  BY PartSteps, InstType DEF AllInv, TypeOK
<1>4. command' \in [Proc -> {"none", "install", "setup", "cleanup"}]
  BY DEF AllInv, TypeOK, Next, DaemonStep, StartCommand, EndCommand,
         InstallStep, HookStep, vars
<1> QED
  BY <1>1, <1>2, <1>3, <1>4, NextPlace, NextToolkit, NextHook
     DEF AllInv, TypeOK, IInv

LEMMA AllCorrect == Spec => []AllInv
BY InitAll, NextAll, PTL DEF Spec

\* Every variable has its type in every reachable state.
THEOREM TypeCorrect == Spec => []TypeOK
<1>1. AllInv => TypeOK
  BY DEF AllInv
<1> QED
  BY <1>1, AllCorrect, PTL

\* The inductive invariant holds in every reachable state.
THEOREM Invariance == Spec => []IInv
<1>1. AllInv => IInv
  BY DEF AllInv
<1> QED
  BY <1>1, AllCorrect, PTL

\* The node implements NvidiaToolkit: the assumptions that the daemon's model
\* makes about its commands hold of the commands.
THEOREM Refinement == Spec => ImplementsDaemon
<1>1. Init => Daemon!Init
  BY DEF Init
<1> QED
  BY <1>1, StepSimulation, AllCorrect, PTL
     DEF Spec, ImplementsDaemon, Daemon!Spec

\* An instance that waits for its signal has its own hook in place and a
\* complete toolkit that the hook names.
THEOREM WaitingIsUsable == Spec => []WaitingMeansUsable
<1>1. ASSUME AllInv, ~Daemon!Disturbed, NEW p \in Proc,
             main[p] \in {"wait", "blocked"}
      PROVE  hookText = "hook" /\ author = << p, "setup" >>
             /\ toolkit = "complete"
  <2>1. Live(p)
    BY <1>1 DEF AllInv, Daemon!IInv, Daemon!FileInv, Daemon!Live, Live
  <2>2. Daemon!PastFlock(p)
    BY <1>1, <2>1 DEF Daemon!PastFlock, Daemon!Live, Live
  <2>3. work[p] = "ok" /\ hooking[<< p, "setup" >>] = "ok"
        /\ hooking[<< p, "cleanup" >>] = "new"
    BY <1>1, <2>1 DEF AllInv, IInv, PlaceInv, Place
  <2> QED
    BY <1>1, <2>2, <2>3 DEF AllInv, IInv, ToolkitInv, HookInv
<1>2. AllInv => WaitingMeansUsable
  BY <1>1 DEF WaitingMeansUsable
<1> QED
  BY <1>2, AllCorrect, PTL

\* The instance whose hook is in place runs with a complete toolkit: a hook
\* that names nothing was left behind.
THEOREM RunningHookIsResolved == Spec => []RunningHookResolves
<1>1. ASSUME AllInv, ~Daemon!Disturbed, hookText = "hook",
             Daemon!Running(author[1])
      PROVE  toolkit = "complete"
  <2>1. author \in Proc \X {"setup"} /\ Hook!Writer(author)
    BY <1>1 DEF AllInv, TypeOK, Hook!TypeOK, Hook!IInv, Hook!AuthorInv
  <2>2. PICK p \in Proc : author = << p, "setup" >>
    BY <2>1
  <2>3. /\ Live(p)
        /\ main[p] \in {"writepid", "notify", "install", "setup", "wait",
                        "blocked", "cleanup"}
    BY <1>1, <2>2 DEF Daemon!Running, Daemon!Live, Live
  <2>4. hooking[<< p, "setup" >>] # "new"
    BY <2>1, <2>2 DEF Hook!Writer
  <2>5. work[p] = "ok"
    BY <1>1, <2>3, <2>4 DEF AllInv, IInv, PlaceInv, Place, Early
  <2>6. Daemon!PastFlock(p)
    BY <2>3 DEF Daemon!PastFlock, Daemon!Live, Live
  <2> QED
    BY <1>1, <2>5, <2>6 DEF AllInv, IInv, ToolkitInv
<1>2. AllInv => RunningHookResolves
  BY <1>1 DEF RunningHookResolves
<1> QED
  BY <1>2, AllCorrect, PTL

\* A hook that CRI-O cannot read is being written or was cut off.
THEOREM UnreadableIsExplained == Spec => []UnreadableHookExplained
<1>1. AllInv => UnreadableHookExplained
  BY DEF AllInv, Hook!IInv, UnreadableHookExplained
<1> QED
  BY <1>1, AllCorrect, PTL

=============================================================================
