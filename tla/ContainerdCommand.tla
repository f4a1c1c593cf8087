-------------------------- MODULE ContainerdCommand --------------------------
(***************************************************************************)
(* The containerd command, src/cmd/containerd/containerd.go: setup and     *)
(* cleanup as they load config.toml, rewrite or remove it and restart      *)
(* containerd by a signal, by systemd or not at all; next to each other,   *)
(* to the user who edits the file, and to a containerd that comes and      *)
(* goes.                                                                   *)
(*                                                                         *)
(* Command is a set of executions of the program.                          *)
(***************************************************************************)
EXTENDS ContainerdConfig, Naturals

CONSTANTS
  Command,
  MaxReloadAttempts,  \* maxReloadAttempts of the source
  InitialFile,        \* the files a node can start with
  UserConfig,         \* the configurations the user can write
  MaxEdits,           \* bound on the user's edits
  None                \* no command

\* An empty file is a configuration without keys.
File == [state : {"missing", "torn", "config"}, cfg : Config]
FileOf(state, cfg) == [state |-> state, cfg |-> cfg]

\* What LoadConfig returns, of a file that is not "torn", not TOML.
Content(f) == IF f.state = "config" THEN f.cfg ELSE EmptyConfig

ASSUME AttemptsAssumption == MaxReloadAttempts \in Nat \ {0}
ASSUME EditsAssumption == MaxEdits \in Nat
ASSUME NoneAssumption == None \notin Command
\* Neither a node nor a user starts from a default runtime that does not exist,
\* or from a file that is not TOML.
ASSUME FileAssumption ==
  /\ InitialFile \subseteq File
  /\ \A f \in InitialFile : f.state # "torn" /\ Resolves(Content(f))
ASSUME UserAssumption ==
  UserConfig \subseteq Config /\ \A cfg \in UserConfig : Resolves(cfg)

VARIABLES
  file,        \* config.toml
  status,      \* "new", "live", or how each command ended
  op,          \* "setup" or "cleanup"
  opts,        \* the options each command was started with
  pc,          \* the next step, kept when the command ends
  seen,        \* the configuration that LoadConfig returned
  result,      \* the one to write in its place
  attempt,     \* failed attempts to signal containerd
  ucred,       \* the containerd whose process number the command holds
  containerd,  \* "up" or "down"
  loaded,      \* the configuration containerd works with
  hup,         \* 1 while containerd has a SIGHUP to handle
  pids,        \* whether the commands see containerd's process number
  edits,       \* the edits of the user so far
  user,        \* the settings the user wants
  overtaken,   \* the commands that were rewriting the file when it changed
  author       \* the command whose text the file has had since, or None

command == << status, op, opts, pc, seen, result, attempt, ucred >>
daemon  == << containerd, loaded, hup, pids >>
history == << edits, user, overtaken, author >>
vars    == << file, command, daemon, history >>

NoOptions == [class |-> "", setAsDefault |-> FALSE, legacy |-> FALSE,
              mode |-> "none", dir |-> "none"]

Status == {"new", "live", "ok", "failed", "killed"}
Pc     == {"load", "create", "write", "restart", "dial", "kill"}

\* The settings commands have no business with.
ManagedClass == NvidiaClass \cup {NvidiaClassFor(o) : o \in SetupOptions}
UserPart(cfg) ==
  << cfg.other, [n \in Class \ ManagedClass |-> cfg.classes[n]] >>

TypeOK ==
  /\ file \in File
  /\ status \in [Command -> Status]
  /\ op \in [Command -> {"setup", "cleanup"}]
  /\ opts \in [Command -> SetupOptions \cup {NoOptions}]
  /\ pc \in [Command -> Pc]
  /\ seen \in [Command -> Config]
  /\ result \in [Command -> Config]
  /\ attempt \in [Command -> 0..(MaxReloadAttempts - 1)]
  /\ ucred \in [Command -> {"none", "current", "gone"}]
  /\ containerd \in {"up", "down"}
  /\ loaded \in Config
  /\ hup \in 0..1
  /\ pids \in {"shared", "private"}
  /\ edits \in 0..MaxEdits
  /\ overtaken \in SUBSET Command
  /\ author \in Command \cup {None}

\* containerd accepts TOML of a version it knows.
Readable(f) == f.state # "torn" /\ Content(f).version # "unsupported"

Init ==
  /\ file \in InitialFile
  /\ status = [c \in Command |-> "new"]
  /\ op = [c \in Command |-> "setup"]
  /\ opts = [c \in Command |-> NoOptions]
  /\ pc = [c \in Command |-> "load"]
  /\ seen = [c \in Command |-> EmptyConfig]
  /\ result = [c \in Command |-> EmptyConfig]
  /\ attempt = [c \in Command |-> 0]
  /\ ucred = [c \in Command |-> "none"]
  /\ containerd = IF Readable(file) THEN "up" ELSE "down"
  /\ loaded = IF Readable(file) THEN Content(file) ELSE EmptyConfig
  /\ hup = 0
  /\ pids \in {"shared", "private"}
  /\ edits = 0
  /\ user = UserPart(Content(file))
  /\ overtaken = {}
  /\ author = None

Live(c) == status[c] = "live"
Goto(c, next) == pc' = [pc EXCEPT ![c] = next]
End(c, how) == status' = [status EXCEPT ![c] = how]

\* The file changes under those of cs that have loaded it and not yet written.
Overtake(cs) ==
  overtaken' = overtaken \cup
                 {c \in cs : Live(c) /\ pc[c] \in {"create", "write"}}

-----------------------------------------------------------------------------
(* The steps of Setup and Cleanup.                                         *)

Start(c) ==
  /\ status[c] = "new"
  /\ status' = [status EXCEPT ![c] = "live"]
  /\ \E what \in {"setup", "cleanup"} : op' = [op EXCEPT ![c] = what]
  /\ \E o \in SetupOptions : opts' = [opts EXCEPT ![c] = o]
  /\ UNCHANGED << file, pc, seen, result, attempt, ucred, daemon, history >>

\* ParseArgs: not exactly one argument.
Refuse(c) ==
  /\ status[c] = "new"
  /\ End(c, "failed")
  /\ UNCHANGED << file, op, opts, pc, seen, result, attempt, ucred, daemon,
                  history >>

\* UpdateConfig or RevertConfig; neither for a version that is not supported.
Outcomes(c, cfg) ==
  LET version == Version(cfg, opts[c])
  IN  IF version = "unsupported" THEN {}
      ELSE IF op[c] = "setup" THEN UpdateConfig(cfg, opts[c], version)
      ELSE {RevertConfig(cfg, opts[c], version)}

\* LoadConfig, which may be unable to read the file, ParseVersion, and
\* UpdateConfig or RevertConfig.
Load(c) ==
  /\ Live(c) /\ pc[c] = "load"
  /\ \/ /\ file.state # "torn"
        /\ seen' = [seen EXCEPT ![c] = Content(file)]
        /\ \E cfg \in Outcomes(c, Content(file)) :
             result' = [result EXCEPT ![c] = cfg]
        /\ Goto(c, "create")
        /\ UNCHANGED status
     \/ End(c, "failed") /\ UNCHANGED << seen, result, pc >>
  /\ UNCHANGED << file, op, opts, attempt, ucred, daemon, history >>

\* FlushConfig, os.Remove: a configuration without keys is no file, and there
\* must be one to remove.
Remove(c) ==
  /\ Live(c) /\ pc[c] = "create" /\ IsEmpty(result[c])
  /\ \/ /\ file.state # "missing"
        /\ file' = FileOf("missing", EmptyConfig)
        /\ Overtake(Command \ {c})
        /\ author' = c
        /\ Goto(c, "restart")
        /\ UNCHANGED << status, edits, user >>
     \/ End(c, "failed") /\ UNCHANGED << file, pc, history >>
  /\ UNCHANGED << op, opts, seen, result, attempt, ucred, daemon >>

\* FlushConfig, os.Create: the old text is gone before the new one is there.
Create(c) ==
  /\ Live(c) /\ pc[c] = "create" /\ ~IsEmpty(result[c])
  /\ \/ /\ file' = FileOf("config", EmptyConfig)
        /\ Overtake(Command \ {c})
        /\ author' = None
        /\ Goto(c, "write")
        /\ UNCHANGED << status, edits, user >>
     \/ End(c, "failed") /\ UNCHANGED << file, pc, history >>
  /\ UNCHANGED << op, opts, seen, result, attempt, ucred, daemon >>

Listed(cfg) == {n \in Class : cfg.classes[n] # NoRuntime}

\* A runtime's table of which the options, with the executable, are not written.
Opened(rt) == [rt EXCEPT !.binary = NoBinary]

\* A text that ends after some of the classes, perhaps inside that of "last".
Cut(cfg, part, last, other) ==
  [cfg EXCEPT
     !.classes = [n \in Class |-> IF n \notin part THEN NoRuntime
                                  ELSE IF n = last THEN Opened(@[n])
                                  ELSE @[n]],
     !.other = other]

\* The first part of a configuration's text, in the order of the encoder: the
\* version, the name of the default, default_runtime, then some of the classes.
PrefixesWith(cfg, other) ==
  LET bare == Cut(cfg, {}, Runc, other)
  IN  {[bare EXCEPT !.version = version, !.default = "absent",
                    !.legacy = NoRuntime] : version \in {cfg.version, "absent"}}
      \cup {[bare EXCEPT !.legacy = rt] : rt \in {NoRuntime, Opened(cfg.legacy)}}
      \cup {Cut(cfg, part, last, other) :
              part \in SUBSET Listed(cfg), last \in Class}

Prefixes(cfg) == UNION {PrefixesWith(cfg, other) : other \in {cfg.other, "none"}}

\* Text over text that is not empty any more leaves the end of a longer one:
\* runtimes of it, if the whole is still TOML.
Mixtures(cfg, old) ==
  {[cfg EXCEPT
      !.classes = [n \in Class |-> IF n \in part THEN old.classes[n] ELSE @[n]]] :
     part \in SUBSET (Listed(old) \ Listed(cfg))}

\* The first part of a text over the end of another.
Parts(cfg, old) == UNION {Mixtures(prefix, old) : prefix \in Prefixes(cfg)}

\* The file that was opened may have been removed since.
Overwrite(c, cfg) ==
  \/ /\ file = FileOf("config", EmptyConfig)
     /\ file' = FileOf("config", cfg)
     /\ author' = c
  \/ /\ file.state # "missing" /\ file # FileOf("config", EmptyConfig)
     /\ file' \in {FileOf("config", mix) : mix \in Mixtures(cfg, file.cfg)}
                    \cup {FileOf("torn", EmptyConfig)}
     /\ author' = c
  \/ c \in overtaken /\ UNCHANGED << file, author >>

\* What an error after part or nothing of the text leaves.
OverwritePart(cfg) ==
  \/ UNCHANGED file
  \/ /\ file.state # "missing"
     /\ file' \in {FileOf("config", part) : part \in Parts(cfg, Content(file))}
                    \cup {FileOf("torn", EmptyConfig)}

\* Faulty variant: an error of WriteString goes unnoticed.
WriteIgnoresError(c) ==
  /\ Live(c) /\ pc[c] = "write"
  /\ Overtake(Command \ {c})
  /\ \/ Overwrite(c, result[c])
     \/ OverwritePart(result[c]) /\ author' = c
  /\ Goto(c, "restart")
  /\ UNCHANGED << status, op, opts, seen, result, attempt, ucred, daemon, edits,
                  user >>

\* FlushConfig, WriteString: all of it, or an error after part or nothing of it.
\* A part may well be TOML.
Write(c) ==
  /\ Live(c) /\ pc[c] = "write"
  /\ Overtake(Command \ {c})
  /\ \/ Overwrite(c, result[c]) /\ Goto(c, "restart") /\ UNCHANGED status
     \/ /\ OverwritePart(result[c])
        /\ author' = None
        /\ End(c, "failed")
        /\ UNCHANGED pc
  /\ UNCHANGED << op, opts, seen, result, attempt, ucred, daemon, edits, user >>

\* Faulty variant: an error of systemctl goes unnoticed.
RestartIgnoresError(c) ==
  /\ Live(c) /\ pc[c] = "restart"
  /\ \/ opts[c].mode # "signal" /\ End(c, "ok") /\ UNCHANGED pc
     \/ opts[c].mode = "signal" /\ Goto(c, "dial") /\ UNCHANGED status
  /\ UNCHANGED << file, op, opts, seen, result, attempt, ucred, daemon,
                  history >>

\* RestartContainerd, and RestartContainerdSystemd, which waits for systemctl.
Restart(c) ==
  /\ Live(c) /\ pc[c] = "restart"
  /\ \/ /\ opts[c].mode = "none"
        /\ End(c, "ok")
        /\ UNCHANGED << pc, ucred, containerd, loaded, hup >>
     \/ /\ opts[c].mode = "signal"
        /\ Goto(c, "dial")
        /\ UNCHANGED << status, ucred, containerd, loaded, hup >>
     \/ /\ opts[c].mode = "systemd" /\ Readable(file)
        /\ End(c, "ok")
        /\ containerd' = "up" /\ loaded' = Content(file) /\ hup' = 0
        /\ ucred' = [d \in Command |-> IF ucred[d] = "current" THEN "gone"
                                                               ELSE ucred[d]]
        /\ UNCHANGED pc
     \/ /\ opts[c].mode \in {"systemd", "invalid"}
        /\ End(c, "failed")
        /\ UNCHANGED << pc, ucred, containerd, loaded, hup >>
  /\ UNCHANGED << file, op, opts, seen, result, attempt, pids, history >>

\* Faulty variant: one attempt too many.
RetryOnceMore(c) ==
  IF attempt[c] = MaxReloadAttempts
  THEN End(c, "failed") /\ UNCHANGED << pc, attempt >>
  ELSE /\ attempt' = [attempt EXCEPT ![c] = @ + 1]
       /\ Goto(c, "dial")
       /\ UNCHANGED status

\* Faulty variant: the attempts are not counted.
RetryForever(c) ==
  /\ Goto(c, "dial")
  /\ UNCHANGED << status, attempt >>

\* SignalContainerd: after a failed attempt another one, up to
\* maxReloadAttempts.
Retry(c) ==
  IF attempt[c] = MaxReloadAttempts - 1
  THEN End(c, "failed") /\ UNCHANGED << pc, attempt >>
  ELSE /\ attempt' = [attempt EXCEPT ![c] = @ + 1]
       /\ Goto(c, "dial")
       /\ UNCHANGED status

\* Connect, send nothing and read the sender's process number; any of these
\* can fail.
Dial(c) ==
  /\ Live(c) /\ pc[c] = "dial"
  /\ \/ /\ containerd = "up"
        /\ ucred' = [ucred EXCEPT ![c] = "current"]
        /\ Goto(c, "kill")
        /\ UNCHANGED << status, attempt >>
     \/ Retry(c) /\ UNCHANGED ucred
  /\ UNCHANGED << file, op, opts, seen, result, daemon, history >>

\* SIGHUP to that process number, or, with number 0, to the command's own group.
Kill(c) ==
  /\ Live(c) /\ pc[c] = "kill"
  /\ \/ /\ pids = "shared" /\ ucred[c] = "current"
        /\ hup' = 1
        /\ End(c, "ok")
        /\ UNCHANGED << pc, attempt >>
     \/ /\ pids = "shared" /\ ucred[c] = "gone"
        /\ Retry(c)
        /\ UNCHANGED hup
     \/ /\ pids = "private"
        /\ End(c, "killed")
        /\ UNCHANGED << pc, attempt, hup >>
  /\ ucred' = [ucred EXCEPT ![c] = "none"]
  /\ UNCHANGED << file, op, opts, seen, result, containerd, loaded, pids,
                  history >>

CommandStep(c) ==
  \/ Load(c) \/ Remove(c) \/ Create(c) \/ Write(c)
  \/ Restart(c) \/ Dial(c) \/ Kill(c)

\* The command is killed between two steps.
Crash(c) ==
  /\ Live(c)
  /\ End(c, "killed")
  /\ ucred' = [ucred EXCEPT ![c] = "none"]
  /\ UNCHANGED << file, op, opts, pc, seen, result, attempt, daemon, history >>

-----------------------------------------------------------------------------
(* containerd and the user                                                 *)

\* containerd ends, on SIGHUP or otherwise; the init system starts it again.
DaemonStop ==
  /\ containerd = "up"
  /\ containerd' = "down"
  /\ hup' = 0
  /\ ucred' = [c \in Command |-> IF ucred[c] = "current" THEN "gone"
                                                         ELSE ucred[c]]
  /\ UNCHANGED << file, status, op, opts, pc, seen, result, attempt, loaded,
                  pids, history >>

DaemonStart ==
  /\ containerd = "down" /\ Readable(file)
  /\ containerd' = "up"
  /\ loaded' = Content(file)
  /\ UNCHANGED << file, command, hup, pids, history >>

\* The user rewrites the file and has containerd restarted.
UserEdit ==
  /\ edits < MaxEdits
  /\ edits' = edits + 1
  /\ \E cfg \in UserConfig :
       file' = FileOf("config", cfg) /\ user' = UserPart(cfg)
  /\ hup' = IF containerd = "up" THEN 1 ELSE 0
  /\ Overtake(Command)
  /\ author' = None
  /\ UNCHANGED << command, containerd, loaded, pids >>

-----------------------------------------------------------------------------
Next ==
  \/ \E c \in Command : Start(c) \/ Refuse(c) \/ CommandStep(c) \/ Crash(c)
  \/ DaemonStop \/ DaemonStart \/ UserEdit

Spec == Init /\ [][Next]_vars

\* A command is scheduled, containerd answers or refuses a connection, and
\* systemctl returns.
FairSpec == Spec /\ \A c \in Command : WF_vars(CommandStep(c))

-----------------------------------------------------------------------------
(* Properties                                                              *)

\* No command was stopped inside FlushConfig, or overtaken before it.
Undisturbed ==
  overtaken = {} /\ \A c \in Command : pc[c] = "write" => Live(c)

\* A command works with the options it was given, and everything it writes
\* comes from what it loaded.
CommandInv ==
  \A c \in Command :
    /\ status[c] = "new" => pc[c] = "load"
    /\ status[c] = "ok" => pc[c] \in {"restart", "kill"}
    /\ Live(c) \/ pc[c] # "load" => opts[c] \in SetupOptions
    /\ pc[c] # "load" => result[c] \in Outcomes(c, seen[c])
    /\ pc[c] \in {"dial", "kill"} => opts[c].mode = "signal"

\* No command has failed to write all of its text.
WholeTexts == \A c \in Command : pc[c] = "write" => status[c] # "failed"

\* Unless part of a text was written, a default that resolves goes round: from
\* the file to containerd and to the commands, and back to the file.
ResolveInv ==
  WholeTexts =>
    /\ Resolves(Content(file)) /\ Resolves(loaded)
    /\ \A c \in Command : Resolves(seen[c]) /\ Resolves(result[c])

\* While the file is empty its writer has the user's settings, and
\* otherwise the file has them, and whoever is about to rewrite it.
UserInv ==
  Undisturbed =>
    /\ \A c \in Command :
         Live(c) /\ pc[c] = "write"
           => UserPart(seen[c]) = user /\ file = FileOf("config", EmptyConfig)
    /\ (\A c \in Command : pc[c] # "write") =>
         /\ file.state # "torn" /\ UserPart(Content(file)) = user
         /\ \A c \in Command :
              Live(c) /\ pc[c] = "create" => UserPart(seen[c]) = user

\* The file is as empty as the command left it, unless it was overtaken.
WriteInv ==
  \A c \in Command :
    Live(c) /\ pc[c] = "write"
      => file = FileOf("config", EmptyConfig) \/ c \in overtaken

\* containerd works with something else than its file, and has not been told.
Behind ==
  containerd = "up" /\ hup = 0 /\ Readable(file) /\ loaded # Content(file)

\* The file of an author is the author's, if nobody overtook it, and containerd
\* has been told of it by an author that was to tell and reported success.
AuthorInv ==
  \A c \in Command :
    author = c =>
      /\ pc[c] \in {"restart", "dial", "kill"}
      /\ c \notin overtaken
           => file.state # "torn" /\ Content(file) = result[c]
      /\ status[c] = "ok" /\ opts[c].mode # "none" => ~Behind

\* The facts by which the invariants below are inductive: the whole of what
\* Setup and Cleanup rely on between LoadConfig and RestartContainerd.
IInv ==
  TypeOK /\ CommandInv /\ ResolveInv /\ UserInv /\ WriteInv /\ AuthorInv

\* Neither the file nor containerd names a default runtime that has no entry,
\* whatever setups and cleanups are run (Update, Revert); only an error after
\* part of the text is written can leave the name without its entry.
DefaultResolves ==
  WholeTexts => Resolves(Content(file)) /\ Resolves(loaded)

\* The user's own keys and runtimes are what the user last wrote, once no
\* command is inside FlushConfig, unless one was stopped there or overtaken. A
\* truncated file is an empty configuration to the next command, which would
\* write it back without them.
UserSettingsKept ==
  Undisturbed /\ (\A c \in Command : pc[c] # "write")
    => file.state # "torn" /\ UserPart(Content(file)) = user

\* A running containerd works with the file, or has been told to restart, or
\* the command that wrote the file was not to restart it, is still to do so,
\* was stopped, or ended with an error (FlushConfig, RestartContainerd).
DaemonFollowsFile ==
  Behind =>
    \E c \in Command :
      \/ pc[c] = "write"
      \/ /\ pc[c] \in {"restart", "dial", "kill"}
         /\ status[c] # "ok" \/ opts[c].mode = "none"

\* What a setup or a cleanup is for.
Done(c, cfg) ==
  IF op[c] = "setup" THEN InForce(cfg, opts[c])
  ELSE OutOfForce(cfg, opts[c], Version(seen[c], opts[c]))

\* Success means what it says (Setup and Cleanup, from LoadConfig to
\* RestartContainerd): when a command that nobody overtook has reported it, and
\* as long as nobody has touched the file since, the file, or what its absence
\* stands for, has what the command is for, and so has a containerd that can
\* read it and has no restart to do, if the command was to tell it.
SuccessTakesEffect ==
  \A c \in Command :
    author = c /\ status[c] = "ok" /\ c \notin overtaken
      => /\ file.state # "torn" /\ Done(c, Content(file))
         /\ opts[c].mode # "none" /\ containerd = "up" /\ hup = 0
              /\ Readable(file) => Done(c, loaded)

\* s and c are a setup and a cleanup with the same options, run one after the
\* other.
SetupThenCleanup(s, c) ==
  /\ op[s] = "setup" /\ status[s] = "ok"
  /\ op[c] = "cleanup" /\ status[c] = "ok"
  /\ opts[s] = opts[c] /\ seen[c] = result[s] /\ Content(file) = result[c]

\* After a setup and a cleanup with the same options no toolkit executable is
\* configured, in a version 2 file or with the standard class (Revert).
StandardClassRemoved ==
  \A s, c \in Command :
    /\ SetupThenCleanup(s, c) /\ NoNvidia(seen[s])
    /\ result[s].version = "v2" \/ NvidiaClassFor(opts[s]) = Nvidia
    => NoNvidia(Content(file))

\* A setup of the standard classes that were not there and a cleanup with the
\* same options leave the classes and the default as they were, when the setup
\* is not to change the default, as the test of the two has it.
ConfigRestored ==
  \A s, c \in Command :
    /\ SetupThenCleanup(s, c)
    /\ ~opts[s].setAsDefault /\ NvidiaClassFor(opts[s]) = Nvidia
    /\ \A n \in NvidiaClass : seen[s].classes[n] = NoRuntime
    => /\ Content(file).classes = seen[s].classes
       /\ Content(file).default = seen[s].default
       /\ Content(file).legacy = seen[s].legacy

\* The promise that the containerd command implements.  An empty file is a
\* configuration like any other, so that a command stopped between the two
\* writes disturbs the others.
Stage(c) ==
  IF status[c] = "ok" /\ opts[c].mode = "none" THEN "quiet"
  ELSE IF ~Live(c) THEN IF status[c] = "killed" THEN "failed" ELSE status[c]
  ELSE IF pc[c] = "load" THEN "reading"
  ELSE IF pc[c] = "create" THEN "holding"
  ELSE IF pc[c] = "write" THEN "writing"
  ELSE "telling"

stages == [c \in Command |-> Stage(c)]

stopped == {c \in Command : pc[c] = "write" /\ ~Live(c)}

settings ==
  IF \/ \E c \in Command : Live(c) /\ pc[c] = "write"
     \/ file.state # "torn" /\ UserPart(Content(file)) = user
  THEN "kept" ELSE "lost"

Abstract ==
  INSTANCE RuntimeConfig WITH
    work <- stages, disturbed <- overtaken \cup stopped,
    daemon <- IF Behind THEN "behind" ELSE "current"

\* Setup and Cleanup, step by step, are what RuntimeConfig promises.
ImplementsRuntimeConfig == Abstract!Spec

\* The steps a command can still take before it ends by itself.
StepsLeft(c) ==
  IF status[c] = "new" THEN 2 * MaxReloadAttempts + 5
  ELSE IF ~Live(c) THEN 0
  ELSE IF pc[c] = "load" THEN 2 * MaxReloadAttempts + 4
  ELSE IF pc[c] = "create" THEN 2 * MaxReloadAttempts + 3
  ELSE IF pc[c] = "write" THEN 2 * MaxReloadAttempts + 2
  ELSE IF pc[c] = "restart" THEN 2 * MaxReloadAttempts + 1
  ELSE IF pc[c] = "dial" THEN 2 * (MaxReloadAttempts - attempt[c])
  ELSE 2 * (MaxReloadAttempts - attempt[c]) - 1

\* Every step of a command brings it nearer to its end, and nobody, not the
\* daemon nor the user nor another command, sets it back; it reports that it
\* could not signal containerd only when the last of its attempts, too, did not
\* (SignalContainerd's loop).
NeverSetBack ==
  [][\A c \in Command :
       /\ StepsLeft(c)' <= StepsLeft(c)
       /\ CommandStep(c) => StepsLeft(c)' < StepsLeft(c)
       /\ pc[c] \in {"dial", "kill"} /\ status[c] # "failed" /\ status'[c] = "failed"
            => StepsLeft(c) <= 2 /\ hup' = hup]_vars

\* A command ends, however often containerd comes and goes (RestartContainerd).
CommandTerminates == \A c \in Command : Live(c) ~> ~Live(c)

=============================================================================
