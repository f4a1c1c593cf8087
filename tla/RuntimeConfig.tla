---------------------------- MODULE RuntimeConfig ----------------------------
(***************************************************************************)
(* What cmd/docker and cmd/containerd both promise about the configuration *)
(* file that they share with each other's executions, with the user and    *)
(* with the daemon that reads it, without what is in the file.             *)
(*                                                                         *)
(* A command reads the file, works out what to put in its place, takes the *)
(* old text away, writes the new one and tells the daemon.  There is no    *)
(* lock and no transaction: the file can change between the reading and    *)
(* the writing, and a command that is stopped between the two writes       *)
(* leaves no text.  Such commands are "disturbed".  The promise is about   *)
(* the others: what they leave alone stays ("settings"), and when they     *)
(* report success the file is theirs and the daemon works with it.         *)
(***************************************************************************)
CONSTANTS
  Command,  \* the executions of the program
  None      \* no command

VARIABLES
  work,       \* how far each command is
  author,     \* the command whose text the file has had since, or None
  disturbed,  \* the commands whose rewriting did not go undisturbed
  settings,   \* whether the settings that are the user's are "kept" or "lost"
  daemon      \* "current", or "behind": at work with something else

vars == << work, author, disturbed, settings, daemon >>

\* A command that is to tell nobody has its success without ("quiet").
Progress == {"new", "reading", "holding", "writing", "telling",
             "ok", "quiet", "failed"}
Ended    == {"ok", "quiet", "failed"}

TypeOK ==
  /\ work \in [Command -> Progress]
  /\ author \in Command \cup {None}
  /\ disturbed \in SUBSET Command
  /\ settings \in {"kept", "lost"}
  /\ daemon \in {"current", "behind"}

Init ==
  /\ work = [c \in Command |-> "new"]
  /\ author = None
  /\ disturbed = {}
  /\ settings = "kept"
  /\ daemon = "current"

Move(c, from, to) ==
  /\ work[c] \in from
  /\ work' = [work EXCEPT ![c] = to]

\* The file changes under those of cs who have read it and not written it yet.
Change(cs) ==
  /\ disturbed' = disturbed \cup
                    {c \in cs : work[c] \in {"holding", "writing"}}
  /\ daemon' \in {"current", "behind"}

\* The file, and with it the question who disturbed whom, stays as it is.
Leave == UNCHANGED << author, disturbed >>

Begin(c) == Move(c, {"new"}, "reading") /\ Leave /\ UNCHANGED daemon

Read(c) == Move(c, {"reading"}, "holding") /\ Leave /\ UNCHANGED daemon

\* The old text goes.
Clear(c) ==
  /\ Move(c, {"holding"}, "writing")
  /\ Change(Command \ {c})
  /\ author' = None

\* All of the new text is there, or, if there is none, the file is gone.
Put(c) ==
  /\ Move(c, {"holding", "writing"}, "telling")
  /\ Change(Command \ {c})
  /\ author' = c

\* The new text goes to a file that is not there any more, and is lost.
PutAside(c) ==
  /\ Move(c, {"writing"}, "telling")
  /\ c \in disturbed
  /\ disturbed' = disturbed \cup {d \in Command \ {c} :
                                    work[d] \in {"holding", "writing"}}
  /\ UNCHANGED << author, daemon >>

\* Success, with the daemon told if it is still about this command's text.
Report(c) ==
  /\ Move(c, {"telling"}, "ok")
  /\ daemon' \in {daemon, "current"}
  /\ author = c /\ c \notin disturbed => daemon' = "current"
  /\ Leave

\* Success without the daemon.
ReportQuietly(c) == Move(c, {"telling"}, "quiet") /\ Leave /\ UNCHANGED daemon

\* An error or a kill, at any moment: between the two writes it may count as a
\* disturbance.
Fail(c) ==
  /\ Move(c, Progress \ Ended, "failed")
  /\ UNCHANGED << author, daemon >>
  /\ \/ UNCHANGED disturbed
     \/ work[c] = "writing" /\ disturbed' = disturbed \cup {c}

\* An error after part of the text is written.
FailWriting(c) ==
  /\ Move(c, {"writing"}, "failed")
  /\ Change(Command \ {c}) \/ Change(Command)
  /\ author' = None

\* The user writes the file and tells the daemon.
Edit ==
  /\ Change(Command)
  /\ author' = None
  /\ daemon' = "current"
  /\ UNCHANGED work

\* The daemon reads the file, or stops.
Follow == daemon' = "current" /\ Leave /\ UNCHANGED work

\* Whatever happens, as long as nobody is disturbed the settings stay, or are
\* what the user has just made them.
Next ==
  /\ \/ \E c \in Command :
          \/ Begin(c) \/ Read(c) \/ Clear(c) \/ Put(c) \/ PutAside(c)
          \/ Report(c) \/ ReportQuietly(c) \/ Fail(c) \/ FailWriting(c)
     \/ Edit \/ Follow
  /\ settings' \in {"kept", "lost"}
  /\ disturbed' = {} => settings' = "kept"

Spec == Init /\ [][Next]_vars

-----------------------------------------------------------------------------
(* Properties                                                              *)

\* If nobody was disturbed the user has lost nothing.
SettingsKept == disturbed = {} => settings = "kept"

\* A command that was not disturbed and reports success has the daemon at work
\* with its text, for as long as the text is there.
SuccessMeans ==
  \A c \in Command :
    author = c /\ work[c] = "ok" /\ c \notin disturbed => daemon = "current"

=============================================================================
