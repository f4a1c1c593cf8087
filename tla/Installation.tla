---------------------------- MODULE Installation ----------------------------
(***************************************************************************)
(* What the commands of cmd/toolkit promise about the toolkit directory,   *)
(* without the files they put there one by one.                            *)
(*                                                                         *)
(* An install empties the directory and fills it.  There is no transaction *)
(* and no lock: until the install has ended, and for good if it fails or   *)
(* is killed, the directory holds a part of the toolkit, and two commands  *)
(* at once may leave anything.  The promise is about the undisturbed end:  *)
(* an install that reports success, and that nobody interfered with since  *)
(* it emptied the directory, leaves a complete toolkit.                    *)
(***************************************************************************)
CONSTANTS
  Install,  \* the executions of the install command
  Delete,   \* the executions of the delete command
  None      \* nobody

Command == Install \cup Delete

VARIABLES
  toolkit,  \* what the directory holds
  owner,    \* who emptied it, if nobody else has written to it since
  work      \* how far each command is

vars == << toolkit, owner, work >>

Contents == {"absent", "partial", "complete"}

Progress == {"new", "removing", "filling", "ok", "failed"}

TypeOK ==
  /\ toolkit \in Contents
  /\ owner \in Command \cup {None}
  /\ work \in [Command -> Progress]

Init ==
  /\ toolkit \in Contents
  /\ owner = None
  /\ work = [c \in Command |-> "new"]

Move(c, from, to) ==
  /\ work[c] = from
  /\ work' = [work EXCEPT ![c] = to]

\* What c does to the directory is its own work only while nobody interferes.
Touch(c) == owner' = IF owner = c THEN c ELSE None

\* The arguments are accepted.
Begin(c) ==
  /\ Move(c, "new", "removing")
  /\ UNCHANGED << toolkit, owner >>

\* Some files go.
Remove(c) ==
  /\ Move(c, "removing", "removing")
  /\ toolkit' \in {toolkit, "partial"}
  /\ Touch(c)

\* All is gone.  A delete has nothing more to do.
Clear(c) ==
  /\ Move(c, "removing", IF c \in Delete THEN "ok" ELSE "filling")
  /\ toolkit' = "absent"
  /\ owner' = c

\* A step on the way, or the end.  If the command was left alone, the toolkit
\* is complete when success is reported, and not before.
Fill(c) ==
  \E to \in {"filling", "ok"} :
    /\ Move(c, "filling", to)
    /\ toolkit' \in {toolkit, "partial", "complete"}
    /\ Touch(c)
    /\ owner' = c => (toolkit' = "complete" <=> to = "ok")

\* An error or a kill, at any moment.
Abandon(c) ==
  /\ \E from \in {"new", "removing", "filling"} : Move(c, from, "failed")
  /\ UNCHANGED << toolkit, owner >>

Step(c) == Begin(c) \/ Remove(c) \/ Clear(c) \/ Fill(c) \/ Abandon(c)

Next == \E c \in Command : Step(c)

Spec == Init /\ [][Next]_vars

=============================================================================
