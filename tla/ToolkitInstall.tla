--------------------------- MODULE ToolkitInstall ---------------------------
(***************************************************************************)
(* The toolkit commands, src/cmd/toolkit: install empties the toolkit      *)
(* directory and puts the files of the NVIDIA container toolkit there one  *)
(* after the other, delete empties it.  Command lines name one directory,  *)
(* all commands come from one image, and nothing locks the directory.      *)
(***************************************************************************)
EXTENDS Naturals

CONSTANTS
  Install,    \* the executions of the install command
  Delete,     \* the executions of the delete command
  None,       \* nobody
  Versioned,  \* whether the image's library has more than its soname
  Remains,    \* the sets of files an interrupted removal can leave
  Short       \* the wrappers that can be cut short without an error

\* The files in the order of Install.  Each executable is a copy of the
\* image's, ".real" or ".experimental", behind a wrapper script.
Library     == 1   \* libnvidia-container.so.1.x.y
LibraryLink == 2   \* libnvidia-container.so.1
Runtime     == 3   \* nvidia-container-runtime.real, and its wrapper
ExpRuntime  == 5   \* nvidia-container-runtime.experimental, and its wrapper
CLI         == 7   \* nvidia-container-cli.real, and its wrapper
Hook        == 9   \* nvidia-container-toolkit.real, and its wrapper
HookLink    == 11  \* nvidia-container-runtime-hook
Config      == 12  \* .config/nvidia-container-runtime/config.toml

File    == Library..Config
Real    == {Runtime, ExpRuntime, CLI, Hook}
Wrapper == {Runtime + 1, ExpRuntime + 1, CLI + 1, Hook + 1}
Link    == {LibraryLink, HookLink}

Command == Install \cup Delete

ASSUME InstallAssumption ==
  /\ None \notin Command
  /\ Install \cap Delete = {}
  /\ Versioned \in BOOLEAN
  /\ Remains \subseteq SUBSET File
  /\ Short \subseteq Wrapper

VARIABLES
  dir,     \* what the directory holds of each file
  exists,  \* whether the directory is there
  work,    \* "new", "working", or how the command ended
  at,      \* the file each install is working on
  phase,   \* what it does next
  last,    \* who emptied the directory last
  owner    \* the same, if nobody else has written to it since

vars == << dir, exists, work, at, phase, last, owner >>

Phase == {"remove", "mkdir", "create", "fill", "mode"}

\* A file that is cut off has been truncated by someone; an old one is from an
\* earlier installation.
NoFile == [text |-> "absent", exec |-> FALSE, by |-> None, old |-> FALSE]
NewFile == [NoFile EXCEPT !.text = "whole"]
OldFile == [text |-> "whole", exec |-> TRUE, by |-> None, old |-> TRUE]

TypeOK ==
  /\ dir \in [File -> [text : {"absent", "cut", "whole"}, exec : BOOLEAN,
                       by : Command \cup {None}, old : BOOLEAN]]
  /\ exists \in BOOLEAN
  /\ work \in [Command -> {"new", "working", "ok", "failed"}]
  /\ at \in [Command -> File]
  /\ phase \in [Command -> Phase]
  /\ last \in Command \cup {None}
  /\ owner \in Command \cup {None}

\* What is left of dir when only the files of keep are.
Only(keep) == [f \in File |-> IF f \in keep THEN dir[f] ELSE NoFile]

\* The directory may hold all or a part of an earlier installation.
Init ==
  /\ \E keep \in Remains \cup {{}} :
       dir = [f \in File |-> IF f \in keep THEN OldFile ELSE NoFile]
  /\ exists = \E f \in File : dir[f].text # "absent"
  /\ work = [c \in Command |-> "new"]
  /\ at = [c \in Command |-> Library]
  /\ phase = [c \in Command |-> "remove"]
  /\ last = None
  /\ owner = None

Working(c, step) == work[c] = "working" /\ phase[c] = step

\* c writes to the directory.
Touch(c) ==
  /\ owner' = IF owner = c THEN c ELSE None
  /\ UNCHANGED last

End(c, how) ==
  /\ work' = [work EXCEPT ![c] = how]
  /\ at' = [at EXCEPT ![c] = Library]
  /\ phase' = [phase EXCEPT ![c] = "remove"]

-----------------------------------------------------------------------------
(* parseArgs, os.RemoveAll and createDirectories                           *)

Start(c) ==
  /\ work[c] = "new"
  /\ work' = [work EXCEPT ![c] = "working"]
  /\ UNCHANGED << dir, exists, at, phase, last, owner >>

Refuse(c) ==
  /\ work[c] = "new"
  /\ End(c, "failed")
  /\ UNCHANGED << dir, exists, last, owner >>

\* RemoveAll takes one file away after the other, in no particular order.
RemoveSome(c) ==
  /\ Working(c, "remove")
  /\ \E keep \in Remains : dir' = Only(keep)
  /\ dir' # dir
  /\ Touch(c)
  /\ UNCHANGED << exists, work, at, phase >>

\* Faulty variant: its error is dropped, and what it leaves stays.
RemoveAllIgnoresError(c) ==
  /\ Working(c, "remove")
  /\ \E keep \in Remains \cup {{}} :
       /\ dir' = Only(keep)
       /\ exists' = (exists /\ keep # {})
  /\ last' = c
  /\ owner' = c
  /\ IF c \in Delete THEN End(c, "ok")
     ELSE /\ phase' = [phase EXCEPT ![c] = "mkdir"]
          /\ UNCHANGED << work, at >>

\* It succeeds at the moment the directory itself goes, which has to be empty
\* then.
RemoveAll(c) ==
  /\ Working(c, "remove")
  /\ dir' = Only({})
  /\ exists' = FALSE
  /\ last' = c
  /\ owner' = c
  /\ IF c \in Delete THEN End(c, "ok")
     ELSE /\ phase' = [phase EXCEPT ![c] = "mkdir"]
          /\ UNCHANGED << work, at >>

CreateDirectories(c) ==
  /\ Working(c, "mkdir")
  /\ exists' = TRUE
  /\ phase' = [phase EXCEPT ![c] = "create"]
  /\ Touch(c)
  /\ UNCHANGED << dir, work, at >>

-----------------------------------------------------------------------------
(* installContainerLibrary, installContainerRuntimes, installContainerCLI,  *)
(* installRuntimeHook and installToolkitConfig                             *)

\* Install goes on with the next file, or ends.
Advance(c) ==
  IF at[c] = Config THEN End(c, "ok")
  ELSE /\ at' = [at EXCEPT ![c] = IF @ = Library /\ ~Versioned THEN @ + 2 ELSE @ + 1]
       /\ phase' = [phase EXCEPT ![c] = "create"]
       /\ UNCHANGED work

\* os.Create makes the file or truncates the one that is there, which keeps
\* its mode.
Create(c) ==
  /\ Working(c, "create") /\ at[c] \notin Link
  /\ exists
  /\ dir' = [dir EXCEPT ![at[c]] = [@ EXCEPT !.text = "cut", !.by = c, !.old = FALSE]]
  /\ phase' = [phase EXCEPT ![c] = "fill"]
  /\ Touch(c)
  /\ UNCHANGED << exists, work, at >>

\* os.Symlink fails when the name is taken.
Symlink(c) ==
  /\ Working(c, "create") /\ at[c] \in Link
  /\ exists /\ dir[at[c]].text = "absent"
  /\ dir' = [dir EXCEPT ![at[c]] = NewFile]
  /\ Advance(c)
  /\ Touch(c)
  /\ UNCHANGED exists

\* The file c is working on has grown to text, if it is still there.
Grow(c, text) ==
  dir' = [dir EXCEPT ![at[c]] =
            IF @.text = "absent" \/ text = "cut" THEN @
            ELSE [@ EXCEPT !.text = "whole", !.by = None]]

\* Faulty variant: nobody looks at the error of writing a copy or the config.
FillIgnoresError(c) ==
  /\ Working(c, "fill")
  /\ \E text \in {"cut", "whole"} : Grow(c, text)
  /\ IF at[c] = Config THEN Advance(c)
     ELSE phase' = [phase EXCEPT ![c] = "mode"] /\ UNCHANGED << work, at >>
  /\ Touch(c)
  /\ UNCHANGED exists

\* io.Copy, writeWrapperTo or WriteTo.  Only writeWrapperTo does not look at
\* the errors of its writes.  When another command has removed, replaced or
\* truncated the file meanwhile, what is written may not show.
Fill(c) ==
  /\ Working(c, "fill")
  /\ \E text \in {"cut", "whole"} :
       /\ text = "cut" => at[c] \in Short \/ dir[at[c]].by # c
       /\ Grow(c, text)
  /\ IF at[c] = Config THEN Advance(c)
     ELSE phase' = [phase EXCEPT ![c] = "mode"] /\ UNCHANGED << work, at >>
  /\ Touch(c)
  /\ UNCHANGED exists

\* applyModeFromSource, ensureExecutable: by name, so the file has to be there.
Mode(c) ==
  /\ Working(c, "mode")
  /\ dir[at[c]].text # "absent"
  /\ dir' = [dir EXCEPT ![at[c]].exec = at[c] # Library]
  /\ Advance(c)
  /\ Touch(c)
  /\ UNCHANGED exists

\* Faulty variant: installContainerRuntimes only logs any failure.
FailOnlyLogsRuntimes(c) ==
  /\ work[c] = "working"
  /\ IF at[c] \in Runtime..(ExpRuntime + 1)
     THEN /\ at' = [at EXCEPT ![c] = CLI]
          /\ phase' = [phase EXCEPT ![c] = "create"]
          /\ UNCHANGED work
     ELSE End(c, "failed")
  /\ UNCHANGED << dir, exists, last, owner >>

\* Faulty variant: after the copy the wrapper is attempted all the same.
FailGoesOnToWrapper(c) ==
  /\ work[c] = "working"
  /\ IF at[c] \in {ExpRuntime, ExpRuntime + 1}
     THEN /\ at' = [at EXCEPT ![c] = @ + 1]
          /\ phase' = [phase EXCEPT ![c] = "create"]
          /\ UNCHANGED work
     ELSE End(c, "failed")
  /\ UNCHANGED << dir, exists, last, owner >>

\* Any call may fail and leave what it has done so far.  Install gives up,
\* except that it does without the experimental runtime.
Fail(c) ==
  /\ work[c] = "working"
  /\ IF at[c] \in {ExpRuntime, ExpRuntime + 1}
     THEN /\ at' = [at EXCEPT ![c] = CLI]
          /\ phase' = [phase EXCEPT ![c] = "create"]
          /\ UNCHANGED work
     ELSE End(c, "failed")
  /\ UNCHANGED << dir, exists, last, owner >>

\* A signal or a crash.
Kill(c) ==
  /\ work[c] = "working"
  /\ End(c, "failed")
  /\ UNCHANGED << dir, exists, last, owner >>

Next ==
  \E c \in Command :
    \/ Start(c) \/ Refuse(c) \/ RemoveSome(c) \/ RemoveAll(c)
    \/ CreateDirectories(c) \/ Create(c) \/ Symlink(c) \/ Fill(c) \/ Mode(c)
    \/ Fail(c) \/ Kill(c)

Spec == Init /\ [][Next]_vars

-----------------------------------------------------------------------------
(* Properties                                                              *)

\* f is as a command leaves it when it reports no error.
Installed(f) ==
  /\ dir[f].text \in IF f \in Wrapper THEN {"cut", "whole"} ELSE {"whole"}
  /\ f \in Real \cup Wrapper => dir[f].exec

\* The files no install does without.
Required ==
  File \ ({ExpRuntime, ExpRuntime + 1} \cup IF Versioned THEN {} ELSE {LibraryLink})

\* An install that reports success and was left alone has installed every
\* file, and nothing of an earlier installation is left among them, such as an
\* experimental runtime that this one failed to install (Install).
SuccessInstalls ==
  \A c \in Install :
    owner = c /\ work[c] = "ok" =>
      /\ \A f \in Required : Installed(f)
      /\ \A f \in File : ~dir[f].old

\* The names that others call lead somewhere: an executable wrapper to a
\* complete executable, a link to its target.
NamesResolve ==
  /\ \A f \in Real : dir[f + 1].exec => Installed(f)
  /\ dir[HookLink].text # "absent" => Installed(Hook + 1)
  /\ dir[LibraryLink].text # "absent" => Installed(Library)

\* Whenever an undisturbed install stops, by an error, a kill or the end, no
\* name dangles (executable.install, installRuntimeHook).
NothingDangles == \A c \in Install : owner = c => NamesResolve

\* Whatever overlapped, an incomplete copy or config is being written, or its
\* writer was stopped, or it belongs to the experimental runtime that an
\* install did without (installFile, installToolkitConfig).
CutExplained ==
  \A f \in File \ Wrapper :
    dir[f].text = "cut" =>
      LET c == dir[f].by
      IN  \/ f = ExpRuntime
          \/ Working(c, "fill") /\ at[c] = f
          \/ work[c] = "failed"

\* Installs that overlapped and all the same all reported success have not
\* harmed each other: after the last of them the toolkit is complete unless a
\* delete came last (Install, Delete).
SuccessesAddUp ==
  (\A c \in Command : work[c] \in {"new", "ok"}) /\ last \in Install =>
    \A f \in Required : Installed(f)

-----------------------------------------------------------------------------
(* The inductive invariant behind these properties, in four parts.         *)

\* What is in dir fits together, and files need the directory.
DirInv ==
  \A f \in File :
    /\ ~exists => dir[f].text = "absent"
    /\ dir[f].text = "absent" => dir[f] = NoFile
    /\ dir[f].text = "cut" => dir[f].by \in Command

\* Where a command can be.
CommandInv ==
  /\ owner \in {None, last}
  /\ \A c \in Command :
       /\ work[c] # "working" \/ c \in Delete => phase[c] = "remove"
       /\ phase[c] \in {"remove", "mkdir"} => at[c] = Library
       /\ phase[c] \in {"fill", "mode"} => at[c] \notin Link
       /\ phase[c] = "mode" => at[c] # Config
       /\ at[c] = LibraryLink => Versioned
       /\ work[c] = "new" \/ Working(c, "remove") => last # c

\* c has dealt with f.
Past(c, f) ==
  \/ work[c] = "ok"
  \/ phase[c] \in {"create", "fill", "mode"} /\ f < at[c]

\* The directory as c left it: what it has dealt with is installed, what it is
\* working on has grown as far as c has got, and the rest is not there.
LeftBy(c) ==
  /\ \A f \in File : ~dir[f].old
  /\ \A f \in Required : Past(c, f) => Installed(f)
  /\ at[c] = ExpRuntime + 1 => Installed(ExpRuntime)
  /\ \A f \in File :
       \/ phase[c] \in {"mkdir", "create"} /\ f >= at[c]
       \/ phase[c] \in {"fill", "mode"} /\ f > at[c]
       => dir[f].text = "absent"
  /\ phase[c] = "fill" =>
       dir[at[c]].text = "cut" /\ dir[at[c]].by = c /\ ~dir[at[c]].exec
  /\ phase[c] = "mode" =>
       /\ dir[at[c]].text \in IF at[c] \in Wrapper THEN {"cut", "whole"} ELSE {"whole"}
       /\ ~dir[at[c]].exec

UndisturbedInv == \A c \in Install : owner = c => LeftBy(c)

\* Nothing has failed and nobody is removing.
Calm == \A c \in Command : work[c] # "failed" /\ ~Working(c, "remove")

\* What c has dealt with is there, whoever wrote to it since.
Present(f) ==
  dir[f].text # "absent" /\ (f \in Real \cup Wrapper => dir[f].exec)

HasPut(c) ==
  /\ \A f \in Required : Past(c, f) => Present(f)
  /\ phase[c] \in {"fill", "mode"} => dir[at[c]].text # "absent"

OverlapInv == Calm /\ last \in Install => HasPut(last)

IInv ==
  /\ TypeOK /\ DirInv /\ CommandInv /\ UndisturbedInv
  /\ NothingDangles /\ CutExplained /\ OverlapInv

-----------------------------------------------------------------------------
(* The commands implement Installation.                                    *)

toolkit ==
  IF ~exists THEN "absent"
  ELSE IF \A f \in Required : Installed(f) THEN "complete" ELSE "partial"

progress ==
  [c \in Command |->
    IF work[c] # "working" THEN work[c]
    ELSE IF phase[c] = "remove" THEN "removing" ELSE "filling"]

Abstract ==
  INSTANCE Installation WITH toolkit <- toolkit, owner <- owner, work <- progress

\* File by file, the commands keep the promise of the whole: success means a
\* complete toolkit for whoever had the directory to himself.
ImplementsInstallation == Abstract!Spec

=============================================================================
