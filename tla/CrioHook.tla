------------------------------- MODULE CrioHook -------------------------------
(***************************************************************************)
(* The crio command, src/cmd/crio/crio.go: setup writes the OCI hook for   *)
(* the NVIDIA container toolkit into the directory of hooks that CRI-O     *)
(* watches, cleanup removes it.  Nothing locks the file, and it is there   *)
(* before it is written.  An inode of the file is named by the setup that  *)
(* created it, which creates at most one.                                  *)
(***************************************************************************)
CONSTANTS
  Setup,    \* the executions of the setup command
  Cleanup,  \* the executions of the cleanup command
  None      \* no execution, no inode

Hooking == Setup \cup Cleanup

\* What is to be assumed of the constants.
Distinct == None \notin Setup

VARIABLES
  hookFile,  \* the inode that the path of the hook names, or None
  hookText,  \* what CRI-O finds there
  author,    \* the setup that truncated or wrote it last
  hooking,   \* where each command is
  opened     \* the inode each setup has opened

hookVars == << hookFile, hookText, author, hooking, opened >>

\* Torn text was cut off by an error, mixed text are two hooks of different
\* command lines over one another.  A setup is stopped when it ends without
\* success after it has opened the file.
TypeOK ==
  /\ hookFile \in Setup \cup {None}
  /\ hookText \in {"missing", "empty", "torn", "mixed", "hook"}
  /\ author \in Setup \cup {None}
  /\ hooking \in [Hooking -> {"new", "create", "encode", "remove", "ok", "stopped",
                            "failed"}]
  /\ opened \in [Setup -> Setup \cup {None}]

Init ==
  /\ hookFile = None
  /\ hookText = "missing"
  /\ author = None
  /\ hooking = [c \in Hooking |-> "new"]
  /\ opened = [c \in Setup |-> None]

Move(c, from, to) ==
  /\ hooking[c] = from
  /\ hooking' = [hooking EXCEPT ![c] = to]

Close(c) == opened' = [x \in Setup |-> IF x = c THEN None ELSE opened[x]]

-----------------------------------------------------------------------------
\* The flags are accepted, and ParseArgs accepts the argument of setup.
Begin(c) ==
  /\ Move(c, "new", IF c \in Setup THEN "create" ELSE "remove")
  /\ UNCHANGED << hookFile, hookText, author, opened >>

\* Faulty variant: opened without O_TRUNC.
CreateKeepsText(c) ==
  /\ c \in Setup
  /\ Move(c, "create", "encode")
  /\ hookFile' = IF hookFile = None THEN c ELSE hookFile
  /\ hookText' = IF hookFile = None THEN "empty" ELSE hookText
  /\ author' = c
  /\ opened' = [opened EXCEPT ![c] = hookFile']

\* MkdirAll, and os.Create makes the file or truncates the one that is there.
Create(c) ==
  /\ c \in Setup
  /\ Move(c, "create", "encode")
  /\ hookFile' = IF hookFile = None THEN c ELSE hookFile
  /\ hookText' = "empty"
  /\ author' = c
  /\ opened' = [opened EXCEPT ![c] = hookFile']

\* c writes to the inode it has opened, which may be gone from the directory.
\* Over the text of another setup that has opened the same, it may leave a
\* remainder.
Write(c, text) ==
  /\ IF opened[c] = hookFile
     THEN /\ text = "torn" => hookText \in {"empty", "torn"}
          /\ text = "mixed" => hookText # "empty"
          /\ hookText' = text
          /\ author' = c
     ELSE UNCHANGED << hookText, author >>
  /\ UNCHANGED hookFile

\* Faulty variant: the error of Encode is dropped.
EncodeIgnoresError(c) ==
  /\ c \in Setup
  /\ Move(c, "encode", "ok")
  /\ \E text \in {"hook", "torn", "mixed"} : Write(c, text)
  /\ Close(c)

\* The encoder writes the whole hook at once.
Encode(c) ==
  /\ c \in Setup
  /\ Move(c, "encode", "ok")
  /\ \E text \in {"hook", "mixed"} : Write(c, text)
  /\ Close(c)

\* The disk is full, or a kill comes in the middle of the write.
EncodePart(c) ==
  /\ c \in Setup
  /\ Move(c, "encode", "stopped")
  /\ \E text \in {"torn", "mixed"} : Write(c, text)
  /\ Close(c)

\* Faulty variant: any error of os.Remove is ignored.
RemoveIgnoresError(c) ==
  /\ c \in Cleanup
  /\ Move(c, "remove", "ok")
  /\ \/ hookFile' = None /\ hookText' = "missing" /\ author' = None
     \/ UNCHANGED << hookFile, hookText, author >>
  /\ UNCHANGED opened

\* os.Remove fails when there is no hook: see Fail.
Remove(c) ==
  /\ c \in Cleanup /\ hookFile # None
  /\ Move(c, "remove", "ok")
  /\ hookFile' = None
  /\ hookText' = "missing"
  /\ author' = None
  /\ UNCHANGED opened

\* An error, bad arguments, or a kill.  What has been done stays.
Fail(c) ==
  /\ \/ \E from \in {"new", "create", "remove"} : Move(c, from, "failed")
     \/ Move(c, "encode", "stopped")
  /\ Close(c)
  /\ UNCHANGED << hookFile, hookText, author >>

Step(c) ==
  \/ Begin(c) \/ Create(c) \/ Encode(c) \/ EncodePart(c) \/ Remove(c) \/ Fail(c)

Next == \E c \in Hooking : Step(c)

Spec == Init /\ [][Next]_hookVars

-----------------------------------------------------------------------------
(* Properties                                                              *)

\* A setup that has opened the file.
Writer(c) == c \in Setup /\ hooking[c] \in {"encode", "ok", "stopped"}

\* A hook that CRI-O cannot read is being written, or its writer was stopped
\* after it had opened the file, or another setup had opened it too: no
\* sequence of successful commands leaves one (createHook).
HookExplained ==
  /\ hookText \in {"empty", "torn"} => hooking[author] \in {"encode", "stopped"}
  /\ hookText = "mixed" => \E c \in Setup \ {author} : Writer(c)

-----------------------------------------------------------------------------
(* The inductive invariant behind it.                                      *)

\* The file has an author exactly while it is there, and as long as that one
\* has not written, the file is the one it has opened, and empty.
AuthorInv ==
  /\ \A c \in Setup : hooking[c] = "encode" => opened[c] # None
  /\ hookFile = None <=> author = None
  /\ hookText = "missing" <=> author = None
  /\ author # None => Writer(author)
  /\ author # None /\ hooking[author] = "encode" =>
       hookText = "empty" /\ opened[author] = hookFile

IInv == AuthorInv /\ HookExplained

=============================================================================
