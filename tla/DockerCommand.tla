---------------------------- MODULE DockerCommand ----------------------------
(***************************************************************************)
(* The docker command, src/cmd/docker/docker.go: setup and cleanup as they *)
(* load daemon.json, rewrite it in place and ask dockerd to reload it,     *)
(* next to each other, next to the user who edits the same file, and next  *)
(* to a dockerd that stops and starts.                                     *)
(*                                                                         *)
(* Command is a set of executions of the program.                          *)
(***************************************************************************)
EXTENDS DockerConfig, Naturals

CONSTANTS
  Command,
  MaxReloadAttempts,  \* maxReloadAttempts of the source
  InitialFile,        \* the files a node can start with
  UserConfig,         \* the configurations the user can write
  MaxEdits,           \* bound on the user's edits
  None                \* no command

ASSUME AttemptsAssumption == MaxReloadAttempts \in Nat \ {0}
ASSUME EditsAssumption == MaxEdits \in Nat
ASSUME NoneAssumption == None \notin Command

VARIABLES
  file,     \* daemon.json
  status,   \* "new", "live", or how each command ended
  op,       \* "setup" or "cleanup"
  opts,     \* the options of a setup; a cleanup looks at none
  pc,       \* the next step, kept when the command ends
  seen,     \* the configuration that LoadConfig returned
  attempt,  \* failed attempts to signal dockerd
  ucred,    \* the dockerd whose process number the command holds
  dockerd,  \* "up" or "down"
  loaded,   \* the configuration dockerd works with
  hup,      \* 1 while dockerd has a SIGHUP to handle
  pids,     \* whether the commands see dockerd's process number
  edits,    \* the edits of the user so far
  user,     \* the settings the user wants
  overtaken, \* the commands that were rewriting the file when it changed
  author    \* the command whose text the file has had since, or None

command == << status, op, opts, pc, seen, attempt, ucred >>
daemon  == << dockerd, loaded, hup, pids >>
history == << edits, user, overtaken, author >>
vars    == << file, command, daemon, history >>

\* "trailing" is a configuration followed by the end of a longer one: the
\* JSON decoder of LoadConfig does not look at what follows the first value.
File ==
  [state : {"missing", "empty", "torn", "trailing", "config"}, cfg : Config]

\* The configuration that LoadConfig returns, for a file it accepts.
Decodes(f) == f.state \in {"missing", "trailing", "config"}
Content(f) == IF f.state = "missing" THEN EmptyConfig ELSE f.cfg

\* Neither a node nor a user starts from a default runtime that does not exist.
ASSUME FileAssumption ==
  /\ InitialFile \subseteq File
  /\ \A f \in InitialFile : f.state # "trailing" /\ Resolves(Content(f))
ASSUME UserAssumption ==
  UserConfig \subseteq Config /\ \A cfg \in UserConfig : Resolves(cfg)

FileOf(state, cfg) == [state |-> state, cfg |-> cfg]

NoOptions == [runtimeName |-> "", setAsDefault |-> FALSE, runtimeDir |-> "none"]

Status == {"new", "live", "ok", "failed", "killed"}
Pc     == {"load", "create", "write", "dial", "kill"}

\* The settings commands have no business with: the other keys, and the
\* runtimes registered under names that no setup uses.
ManagedName == NvidiaName \cup {NvidiaNameFor(o) : o \in SetupOptions}
UserPart(cfg) ==
  << cfg.other, [n \in Name \ ManagedName |-> cfg.runtimes[n]] >>

TypeOK ==
  /\ file \in File
  /\ status \in [Command -> Status]
  /\ op \in [Command -> {"setup", "cleanup"}]
  /\ opts \in [Command -> SetupOptions \cup {NoOptions}]
  /\ pc \in [Command -> Pc]
  /\ seen \in [Command -> Config]
  /\ attempt \in [Command -> 0..(MaxReloadAttempts - 1)]
  /\ ucred \in [Command -> {"none", "current", "gone"}]
  /\ dockerd \in {"up", "down"}
  /\ loaded \in Config
  /\ hup \in 0..1
  /\ pids \in {"shared", "private"}
  /\ edits \in 0..MaxEdits
  /\ overtaken \in SUBSET Command
  /\ author \in Command \cup {None}

\* dockerd accepts a file of one JSON value with keys of the right types.
Readable(f) ==
  \/ f.state = "missing"
  \/ /\ f.state = "config"
     /\ f.cfg.default # "malformed" /\ f.cfg.table # "malformed"

Init ==
  /\ file \in InitialFile
  /\ status = [c \in Command |-> "new"]
  /\ op = [c \in Command |-> "setup"]
  /\ opts = [c \in Command |-> NoOptions]
  /\ pc = [c \in Command |-> "load"]
  /\ seen = [c \in Command |-> EmptyConfig]
  /\ attempt = [c \in Command |-> 0]
  /\ ucred = [c \in Command |-> "none"]
  /\ dockerd = IF Readable(file) THEN "up" ELSE "down"
  /\ loaded = IF Readable(file) THEN Content(file) ELSE EmptyConfig
  /\ hup = 0
  /\ pids \in {"shared", "private"}
  /\ edits = 0
  /\ user = UserPart(Content(file))
  /\ overtaken = {}
  /\ author = None

Live(c) == status[c] = "live"
Goto(c, next) == pc' = [pc EXCEPT ![c] = next]
End(c, how) == status' = [status EXCEPT ![c] = how]

\* What the command writes, or has written.
Result(c) ==
  IF op[c] = "setup" THEN UpdateConfig(seen[c], opts[c])
                     ELSE RevertConfig(seen[c])

Panics(c, cfg) ==
  IF op[c] = "setup" THEN UpdatePanics(cfg) ELSE RevertPanics(cfg)

\* The file changes under those of cs that have loaded it and not yet written.
Overtake(cs) ==
  overtaken' = overtaken \cup
                 {c \in cs : Live(c) /\ pc[c] \in {"create", "write"}}

-----------------------------------------------------------------------------
(* The steps of Setup and Cleanup.                                         *)

Start(c) ==
  /\ status[c] = "new"
  /\ status' = [status EXCEPT ![c] = "live"]
  /\ \/ /\ op' = [op EXCEPT ![c] = "setup"]
        /\ \E o \in SetupOptions : opts' = [opts EXCEPT ![c] = o]
     \/ op' = [op EXCEPT ![c] = "cleanup"] /\ UNCHANGED opts
  /\ UNCHANGED << file, pc, seen, attempt, ucred, daemon, history >>

\* ParseArgs: not exactly one argument.
Refuse(c) ==
  /\ status[c] = "new"
  /\ End(c, "failed")
  /\ UNCHANGED << file, op, opts, pc, seen, attempt, ucred, daemon, history >>

\* LoadConfig, which may be unable to read the file, and UpdateConfig or
\* RevertConfig, which may panic.
Load(c) ==
  /\ Live(c) /\ pc[c] = "load"
  /\ \/ /\ Decodes(file) /\ ~Panics(c, Content(file))
        /\ seen' = [seen EXCEPT ![c] = Content(file)]
        /\ Goto(c, "create")
        /\ UNCHANGED status
     \/ End(c, "failed") /\ UNCHANGED << seen, pc >>
  /\ UNCHANGED << file, op, opts, attempt, ucred, daemon, history >>

\* Faulty variant: the file is opened without truncating it.
CreateKeepsText(c) ==
  /\ Live(c) /\ pc[c] = "create"
  /\ Overtake(Command \ {c})
  /\ author' = None
  /\ Goto(c, "write")
  /\ UNCHANGED << file, status, op, opts, seen, attempt, ucred, daemon, edits,
                  user >>

\* FlushConfig, os.Create: the old text is gone before the new one is there.
Create(c) ==
  /\ Live(c) /\ pc[c] = "create"
  /\ \/ /\ file' = FileOf("empty", EmptyConfig)
        /\ Overtake(Command \ {c})
        /\ author' = None
        /\ Goto(c, "write")
        /\ UNCHANGED << status, edits, user >>
     \/ End(c, "failed") /\ UNCHANGED << file, pc, history >>
  /\ UNCHANGED << op, opts, seen, attempt, ucred, daemon >>

\* Writing at the start of a file that is not empty any more leaves the end of
\* a longer text in place.
Overwrite(cfg) ==
  file' \in {FileOf(state, cfg) :
               state \in IF file.state = "empty" THEN {"config"}
                         ELSE {"config", "trailing"}}

\* Faulty variant: the command ends here, without the reload.
WriteOnly(c) ==
  /\ Live(c) /\ pc[c] = "write"
  /\ Overwrite(Result(c))
  /\ Overtake(Command \ {c})
  /\ author' = c
  /\ End(c, "ok")
  /\ UNCHANGED << op, opts, pc, seen, attempt, ucred, daemon, edits, user >>

\* Faulty variant: an error of WriteString goes unnoticed.
WriteIgnoresError(c) ==
  /\ Live(c) /\ pc[c] = "write"
  /\ Overtake(Command \ {c})
  /\ Overwrite(Result(c)) \/ file' \in {file, FileOf("torn", EmptyConfig)}
  /\ author' = c
  /\ Goto(c, "dial")
  /\ UNCHANGED << status, op, opts, seen, attempt, ucred, daemon, edits, user >>

\* The first part of a text over another one, when the two happen to fit
\* together: the encoder sorts the keys, so a runtime of the new text comes
\* with its default.
Mixtures(cfg, old) ==
  {mix \in [default  : {cfg.default, old.default},
            table    : {cfg.table, old.table},
            runtimes : {[n \in Name |-> IF n \in part THEN cfg.runtimes[n]
                                                      ELSE old.runtimes[n]] :
                          part \in SUBSET Name},
            other    : {cfg.other, old.other}] :
     /\ mix.table = "map" \/ NoRuntimes(mix.runtimes)
     /\ mix.runtimes # old.runtimes => mix.default = cfg.default}

\* What an error after part or nothing of the text leaves.
OverwritePart(cfg) ==
  \/ file' \in {file, FileOf("torn", EmptyConfig)}
  \/ /\ file.state \in {"config", "trailing"}
     /\ file' \in {[file EXCEPT !.cfg = mix] : mix \in Mixtures(cfg, file.cfg)}

\* FlushConfig, WriteString: all of it, or an error before that.
Write(c) ==
  /\ Live(c) /\ pc[c] = "write"
  /\ Overtake(Command \ {c})
  /\ \/ /\ Overwrite(Result(c))
        /\ author' = c
        /\ Goto(c, "dial")
        /\ UNCHANGED status
     \/ /\ OverwritePart(Result(c))
        /\ author' = None
        /\ End(c, "failed")
        /\ UNCHANGED pc
  /\ UNCHANGED << op, opts, seen, attempt, ucred, daemon, edits, user >>

\* Faulty variant: one attempt too many.
RetryOnceMore(c) ==
  IF attempt[c] = MaxReloadAttempts
  THEN End(c, "failed") /\ UNCHANGED << pc, attempt >>
  ELSE /\ attempt' = [attempt EXCEPT ![c] = @ + 1]
       /\ Goto(c, "dial")
       /\ UNCHANGED status

\* Faulty variant: the error of the last attempt is lost.
RetryLosesError(c) ==
  IF attempt[c] = MaxReloadAttempts - 1
  THEN End(c, "ok") /\ UNCHANGED << pc, attempt >>
  ELSE /\ attempt' = [attempt EXCEPT ![c] = @ + 1]
       /\ Goto(c, "dial")
       /\ UNCHANGED status

\* Faulty variant: the attempts are not counted.
RetryForever(c) ==
  /\ Goto(c, "dial")
  /\ UNCHANGED << status, attempt >>

\* SignalDocker: after a failed attempt another one, up to maxReloadAttempts.
Retry(c) ==
  IF attempt[c] = MaxReloadAttempts - 1
  THEN End(c, "failed") /\ UNCHANGED << pc, attempt >>
  ELSE /\ attempt' = [attempt EXCEPT ![c] = @ + 1]
       /\ Goto(c, "dial")
       /\ UNCHANGED status

\* Connect, send a request and read the sender's process number; any of these
\* can fail.
Dial(c) ==
  /\ Live(c) /\ pc[c] = "dial"
  /\ \/ /\ dockerd = "up"
        /\ ucred' = [ucred EXCEPT ![c] = "current"]
        /\ Goto(c, "kill")
        /\ UNCHANGED << status, attempt >>
     \/ Retry(c) /\ UNCHANGED ucred
  /\ UNCHANGED << file, op, opts, seen, daemon, history >>

\* SIGHUP to that process number.  A dockerd outside the command's pid
\* namespace has number 0, and the signal goes to the command's own group.
Kill(c) ==
  /\ Live(c) /\ pc[c] = "kill"
  /\ \/ /\ pids = "shared" /\ ucred[c] = "current"
        /\ hup' = 1
        /\ End(c, "ok")
        /\ UNCHANGED << pc, attempt >>
     \/ /\ pids = "shared" /\ ucred[c] = "gone"
        /\ Retry(c)
        /\ UNCHANGED hup
     \/ /\ pids = "private"
        /\ End(c, "killed")
        /\ UNCHANGED << pc, attempt, hup >>
  /\ ucred' = [ucred EXCEPT ![c] = "none"]
  /\ UNCHANGED << file, op, opts, seen, dockerd, loaded, pids, history >>

CommandStep(c) ==
  Load(c) \/ Create(c) \/ Write(c) \/ Dial(c) \/ Kill(c)

\* The command is killed between two steps.
Crash(c) ==
  /\ Live(c)
  /\ End(c, "killed")
  /\ ucred' = [ucred EXCEPT ![c] = "none"]
  /\ UNCHANGED << file, op, opts, pc, seen, attempt, daemon, history >>

-----------------------------------------------------------------------------
(* dockerd and the user                                                    *)

DaemonStop ==
  /\ dockerd = "up"
  /\ dockerd' = "down"
  /\ hup' = 0
  /\ ucred' = [c \in Command |-> IF ucred[c] = "current" THEN "gone"
                                                         ELSE ucred[c]]
  /\ UNCHANGED << file, status, op, opts, pc, seen, attempt, loaded, pids,
                  history >>

\* dockerd does not start on a file it cannot read.
DaemonStart ==
  /\ dockerd = "down" /\ Readable(file)
  /\ dockerd' = "up"
  /\ loaded' = Content(file)
  /\ UNCHANGED << file, command, hup, pids, history >>

\* On SIGHUP dockerd keeps what it has when it cannot read the file.
DaemonReload ==
  /\ dockerd = "up" /\ hup = 1
  /\ hup' = 0
  /\ loaded' = IF Readable(file) THEN Content(file) ELSE loaded
  /\ UNCHANGED << file, command, dockerd, pids, history >>

\* The user rewrites the file and has dockerd reload it.
UserEdit ==
  /\ edits < MaxEdits
  /\ edits' = edits + 1
  /\ \E cfg \in UserConfig :
       file' = FileOf("config", cfg) /\ user' = UserPart(cfg)
  /\ hup' = IF dockerd = "up" THEN 1 ELSE 0
  /\ Overtake(Command)
  /\ author' = None
  /\ UNCHANGED << command, dockerd, loaded, pids >>

-----------------------------------------------------------------------------
Next ==
  \/ \E c \in Command : Start(c) \/ Refuse(c) \/ CommandStep(c) \/ Crash(c)
  \/ DaemonStop \/ DaemonStart \/ DaemonReload \/ UserEdit

Spec == Init /\ [][Next]_vars

\* A command is scheduled, and dockerd answers or refuses a connection.
FairSpec == Spec /\ \A c \in Command : WF_vars(CommandStep(c))

-----------------------------------------------------------------------------
(* Properties                                                              *)

\* No command was overtaken and then failed to write all of its text: where it
\* did, there may be text of two.
NotMixed ==
  \A c \in Command :
    pc[c] = "write" /\ status[c] = "failed" => c \notin overtaken

\* Whatever sequence and mix of setups and cleanups is run, however they end,
\* neither the file nor dockerd ever names a default runtime that is not
\* registered (UpdateConfig, RevertConfig): dockerd would not start with it.
\* Only a write that fails over the text of another can leave such a name.
DefaultResolves ==
  NotMixed =>
    /\ file.state \in {"config", "trailing"} => Resolves(file.cfg)
    /\ Resolves(loaded)

\* What the commands work with, and may write, has a default that resolves.
ResolveInv ==
  NotMixed =>
    /\ Decodes(file) => Resolves(Content(file))
    /\ Resolves(loaded)
    /\ \A c \in Command : Resolves(seen[c])

\* A command works with what it can write back; a setup has its options before
\* it loads the file.
ConfigInv ==
  \A c \in Command :
    /\ seen[c].table # "malformed"
    /\ status[c] = "new" => pc[c] = "load"
    /\ op[c] = "setup" /\ (Live(c) \/ pc[c] # "load") => opts[c] \in SetupOptions

\* As long as nobody was overtaken, what is in the file and what a command is
\* about to put there have the settings the user wants.
UserInv ==
  overtaken = {} =>
    /\ Decodes(file) => UserPart(Content(file)) = user
    /\ \A c \in Command :
         Live(c) /\ pc[c] \in {"create", "write"} => UserPart(seen[c]) = user

\* The file is as empty as the command left it, unless it was overtaken.
WriteInv ==
  \A c \in Command :
    Live(c) /\ pc[c] = "write" => file.state = "empty" \/ c \in overtaken

\* dockerd works with something else than its file, and has not been told.
Behind ==
  dockerd = "up" /\ hup = 0 /\ Readable(file) /\ loaded # Content(file)

\* The file of an author is the author's, if nobody overtook it, and dockerd has
\* been told of it by an author that reported success.
AuthorInv ==
  \A c \in Command :
    author = c =>
      /\ pc[c] \in {"dial", "kill"}
      /\ c \notin overtaken => file = FileOf("config", Result(c))
      /\ status[c] = "ok" => ~Behind

\* The facts by which the invariants above and below are inductive: the whole
\* of what Setup and Cleanup rely on between LoadConfig and SignalDocker.
IInv ==
  TypeOK /\ ConfigInv /\ ResolveInv /\ UserInv /\ WriteInv /\ AuthorInv

\* The user's own keys and runtimes are what the user last wrote, unless the
\* file changed between some command's LoadConfig and its FlushConfig.
UserSettingsKept ==
  file.state \in {"config", "trailing"} /\ overtaken = {}
    => UserPart(file.cfg) = user

\* A file that cannot be decoded is one a command was about to write, or
\* failed to write; text left over from before takes two that wrote at the same
\* time (FlushConfig).
BrokenFileExplained ==
  /\ file.state \in {"empty", "torn"} => \E c \in Command : pc[c] = "write"
  /\ file.state = "trailing" => overtaken # {}

\* A running dockerd works with the file, or has been told to reload it, or
\* the command that wrote the file is still to do so or ended with an error
\* (Setup and Cleanup: FlushConfig before SignalDocker), unless the file is a
\* mixture.
DaemonFollowsFile ==
  NotMixed /\ Behind =>
    \E c \in Command :
      /\ pc[c] \in {"dial", "kill"} /\ status[c] # "ok"
      /\ Content(file) = Result(c)

\* What a setup or a cleanup is for.
Done(c, cfg) ==
  IF op[c] = "setup" THEN InForce(cfg, opts[c]) ELSE OutOfForce(cfg)

\* Success means what it says (Setup and Cleanup, from LoadConfig to
\* SignalDocker): when a command that nobody overtook has reported it, and as
\* long as nobody has touched the file since, the file has what the command is
\* for, and so has a dockerd that can read it and has no reload to do.  That
\* other commands failed or were killed before is no excuse.
SuccessTakesEffect ==
  \A c \in Command :
    author = c /\ status[c] = "ok" /\ c \notin overtaken
      => /\ file.state = "config" /\ Done(c, file.cfg)
         /\ dockerd = "up" /\ hup = 0 /\ Readable(file) => Done(c, loaded)

\* The promise that the docker command implements.  LoadConfig refuses a file
\* between the two writes, so that nobody takes the settings for lost.
Stage(c) ==
  IF ~Live(c) THEN IF status[c] = "killed" THEN "failed" ELSE status[c]
  ELSE IF pc[c] = "load" THEN "reading"
  ELSE IF pc[c] = "create" THEN "holding"
  ELSE IF pc[c] = "write" THEN "writing"
  ELSE "telling"

stages == [c \in Command |-> Stage(c)]

settings ==
  IF Decodes(file) => UserPart(Content(file)) = user THEN "kept" ELSE "lost"

Abstract ==
  INSTANCE RuntimeConfig WITH
    work <- stages, disturbed <- overtaken,
    daemon <- IF Behind THEN "behind" ELSE "current"

\* Setup and Cleanup, step by step, are what RuntimeConfig promises.
ImplementsRuntimeConfig == Abstract!Spec

\* The steps a command can still take before it ends by itself.
StepsLeft(c) ==
  IF status[c] = "new" THEN 2 * MaxReloadAttempts + 4
  ELSE IF ~Live(c) THEN 0
  ELSE IF pc[c] = "load" THEN 2 * MaxReloadAttempts + 3
  ELSE IF pc[c] = "create" THEN 2 * MaxReloadAttempts + 2
  ELSE IF pc[c] = "write" THEN 2 * MaxReloadAttempts + 1
  ELSE IF pc[c] = "dial" THEN 2 * (MaxReloadAttempts - attempt[c])
  ELSE 2 * (MaxReloadAttempts - attempt[c]) - 1

\* Every step of a command brings it nearer to its end, and nobody, not the
\* daemon nor the user nor another command, sets it back; it reports that it
\* could not signal dockerd only when the last of its attempts, too, did not
\* (SignalDocker's loop).
NeverSetBack ==
  [][\A c \in Command :
       /\ StepsLeft(c)' <= StepsLeft(c)
       /\ CommandStep(c) => StepsLeft(c)' < StepsLeft(c)
       /\ pc[c] \in {"dial", "kill"} /\ status[c] # "failed" /\ status'[c] = "failed"
            => StepsLeft(c) <= 2 /\ hup' = hup]_vars

\* A command ends, however often dockerd comes and goes (SignalDocker).
CommandTerminates == \A c \in Command : Live(c) ~> ~Live(c)

\* After a cleanup that loaded what a setup wrote, no toolkit executable is
\* registered any more, as the comment on Cleanup has it.
CleanupRemovesRuntime ==
  \A s, c \in Command :
    /\ op[s] = "setup" /\ status[s] = "ok" /\ NoNvidia(seen[s])
    /\ op[c] = "cleanup" /\ status[c] = "ok"
    /\ seen[c] = Result(s) /\ file = FileOf("config", Result(c))
    => NoNvidia(file.cfg)

=============================================================================
