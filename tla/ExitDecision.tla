---------------------------- MODULE ExitDecision ----------------------------
(***************************************************************************)
(* What the shutdown protocol of cmd/nvidia-toolkit promises, without the  *)
(* goroutines, channels and commands that implement it.                    *)
(*                                                                         *)
(* The end of an instance is decided once.  While it is still starting     *)
(* ("open") a signal makes it leave early, with whatever has been set up   *)
(* so far left in place.  Once it waits for its signal ("ready") the only  *)
(* orderly way out is the graceful one: the runtime's configuration is     *)
(* restored first, and the exit code is zero only when that worked.        *)
(***************************************************************************)
CONSTANTS Proc, None

VARIABLES
  decision,  \* how far the end of each instance is decided
  runtime    \* whose setup made the configuration of the runtime, or None

vars == << decision, runtime >>

\* An instance that is to run once, without the daemon, never gets "ready".
Decision ==
  {"new", "open", "once", "early", "ready", "graceful",
   "done", "failed", "killed"}

Init ==
  /\ decision = [p \in Proc |-> "new"]
  /\ runtime = None

Decide(p, from, to) ==
  /\ decision[p] \in from
  /\ decision' = [decision EXCEPT ![p] = to]
  /\ UNCHANGED runtime

Open(p) == \E to \in {"open", "once"} : Decide(p, {"new"}, to)

\* A command line that only asks for help or cannot be accepted.
Refuse(p) == \E to \in {"done", "failed"} : Decide(p, {"new"}, to)

BecomeReady(p) == Decide(p, {"open"}, "ready")

LeaveEarly(p) == Decide(p, {"open", "once"}, "early")

LeaveGracefully(p) == Decide(p, {"ready"}, "graceful")

\* A setup command does its work, or is half done with it.  It may outlive an
\* instance that was killed or that left early.
Configure(p) ==
  /\ decision[p] \in {"open", "once", "early", "done", "killed"}
  /\ runtime' \in {p, None}
  /\ UNCHANGED decision

\* A cleanup command does its work.
Restore(p) ==
  /\ decision[p] \in {"graceful", "killed"}
  /\ runtime' = None
  /\ UNCHANGED decision

\* The exit code is zero: never from "ready", never from "open" without a
\* signal, and on the graceful way only after the restore.
Done(p) ==
  /\ decision[p] = "graceful" => runtime # p
  /\ Decide(p, {"once", "early", "graceful"}, "done")

Fail(p) == Decide(p, {"open", "once", "early", "graceful"}, "failed")

Kill(p) == Decide(p, {"open", "once", "early", "ready", "graceful"}, "killed")

Next ==
  \E p \in Proc :
    \/ Open(p) \/ Refuse(p) \/ BecomeReady(p)
    \/ LeaveEarly(p) \/ LeaveGracefully(p)
    \/ Configure(p) \/ Restore(p)
    \/ Done(p) \/ Fail(p) \/ Kill(p)

Spec == Init /\ [][Next]_vars

=============================================================================
