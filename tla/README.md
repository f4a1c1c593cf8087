# TLA+ models of container-config

The programs of `src/cmd` install the NVIDIA container toolkit on a node and
make a container runtime use it. This directory holds TLA+ models of them, the
TLC configurations that check the models on small instances, and proofs about
them for the TLA+ proof system.

Run a model with `tlc -config X.cfg MCModule.tla`, and check proofs with
`tlapm MProofs.tla`.

## The system

| Part | State it keeps | Operations |
|---|---|---|
| `nvidia-toolkit` (`cmd/nvidia-toolkit/run.go`) | pid file and its lock, three channels, the positions of `main` and of the signal goroutine | `Run`: `initialize`, `installToolkit`, `setupRuntime`, `waitForSignal`, `cleanupRuntime`, `shutdown`; the signal goroutine |
| `docker` (`cmd/docker/docker.go`) | `daemon.json`; the configuration dockerd has loaded | `Setup`, `Cleanup`: load, `UpdateConfig` or `RevertConfig`, `FlushConfig`, `SignalDocker` |
| `containerd` (`cmd/containerd/*.go`) | `config.toml`, version 1 or 2; the configuration containerd has loaded | `Setup`, `Cleanup`: load, `ParseVersion`, update or revert, flush, restart by signal, by systemd, or not at all |
| `crio` (`cmd/crio/crio.go`) | one OCI hook file | `Setup`, `Cleanup` |
| `toolkit` (`cmd/toolkit/*.go`) | the toolkit directory: libraries, executables, wrappers, their configuration | `Install`, `Delete` |

**How they interact.** `nvidia-toolkit` runs `toolkit install`, then one of
`docker|crio|containerd setup`, waits for a signal and runs the same program's
`cleanup`, each as a child process whose exit code is all it learns. The
runtime programs share a configuration file with an administrator and with the
runtime's daemon, which they ask to reload it with a signal. What they write
into it names executables that `toolkit install` put in the toolkit directory.
Instances on one node meet at the pid file `/run/nvidia/toolkit.pid`.

**What is hard, and what makes each part correct.**

- *nvidia-toolkit.* A signal may arrive at any moment: `main` and the signal
  goroutine settle through two buffered channels whether to leave at once or
  through the cleanup. Correct means that a signal ends the process, that a
  cleanup is never interrupted, and that exit code 0 after a signal to a waiting
  instance means the configuration is undone. Instances overlap: the lock on
  the pid file must let one in, must not be held by the dead, and the file must
  not name the wrong one. A killed instance leaves a command running.
- *docker* and *containerd.* They read a file, change it and write all of it
  back, with a truncation in between, while other commands, an administrator and
  the daemon use it. Correct means that the user's settings survive, that the
  default runtime is one that exists, that the daemon ends up with what is in
  the file, that success means that the file has what the command is for, and
  that a cleanup takes back what a setup did.
- *crio.* The hook is created and then written, in a directory CRI-O watches,
  and a hook that cannot be decoded or that names a missing executable concerns
  every container. Correct means that no sequence of successful commands leaves
  a hook that cannot be read.
- *toolkit.* The installation removes the old directory first, then installs
  file by file; it goes on without the experimental runtime, and does not look
  at the errors of writing a wrapper. Correct means that success leaves every
  file in place and nothing of an earlier installation, that no name dangles
  wherever it stops, and that overlapping commands that all succeed add up.
- *All together.* An instance that was killed leaves its hook and perhaps a
  command behind while its successor first removes the toolkit that the hook
  names. Correct means that an instance that waits for its signal has its own
  hook in place, and a complete toolkit under it.

The commands do not lock the files they rewrite. With one daemon per node and
one command at a time nothing overlaps, but the pid file lock can be lost (see
the findings), a killed instance leaves its command running, and the programs
are also run by hand. So the models let commands overlap, and the properties
say what holds for every schedule and what only holds when nobody was overtaken.

## The modules

| Module | What it is |
|---|---|
| `ExitDecision` | What the shutdown protocol promises: the end of each instance is decided once |
| `NvidiaToolkit` | The daemon: goroutines, channels, pid file, lock, commands; shown to implement `ExitDecision` |
| `NvidiaToolkitProofs` | Theorems about it |
| `RuntimeConfig` | What `docker` and `containerd` both promise about a file they share with a user and a daemon |
| `RuntimeConfigProofs` | Theorems about it |
| `DockerConfig` | `daemon.json` as a record; `UpdateConfig` and `RevertConfig` as operators |
| `DockerCommand` | Executions of the docker command, dockerd and the user; shown to implement `RuntimeConfig` |
| `DockerCommandProofs` | Theorems about both |
| `ContainerdConfig` | `config.toml` as a record; `ParseVersion`, `Update` and `Revert` of both versions as operators |
| `ContainerdCommand` | Executions of the containerd command, containerd and the user; shown to implement `RuntimeConfig` |
| `ContainerdCommandProofs` | Theorems about both |
| `Installation` | What the toolkit commands promise about their directory as a whole |
| `ToolkitInstall` | `Install` and `Delete` file by file; shown to implement `Installation` |
| `ToolkitInstallProofs` | Theorems about it |
| `CrioHook` | Executions of the crio command and the hook file |
| `CrioHookProofs` | Theorems about it |
| `Node` | `NvidiaToolkit`, `Installation` and `CrioHook` composed: a node with CRI-O; shown to implement `NvidiaToolkit` |
| `NodeProofs` | Theorems about it, from those about `NvidiaToolkit` and `CrioHook` |
| `MCNvidiaToolkit`, `MCDockerCommand`, `MCContainerdCommand`, `MCToolkitInstall`, `MCNode` | Values of the constants for TLC |

Operators whose comment begins with "Faulty variant" are no part of a model.
Each is another operator as a plausible mistake would have it, with which some
property is known to fail; they show that the property depends on that code.

### NvidiaToolkit

`Proc` is a set of executions, each with a `main` goroutine at a place named for
what `Run` does next, and a signal goroutine (`handler`). One action stands for
the code between two points at which another goroutine or process can tell the
difference: `Create`, `Flock` and `WritePid` are three because others may get in
between, while `Notify` joins `signal.Notify` and the start of the goroutine.
`sigs`, `waitingForSignal` and `signalReceived` are the channels, by the number
of messages in them; each has room for one. An execution that finds the lock held
ends "refused", one that gives up on any other error "failed". `RunCommand` starts a child and
later learns how it ended; `CommandBreaks` and `CommandTouches` are the moments
at which the child truncates and has changed the runtime's configuration, and
they may come after its parent is gone. A setup puts its instance's configuration
in place unless commands can have overlapped (`Disturbed`: a pid file was
removed, a descriptor collected, or a command outlived its instance); then it may
leave nothing of its own. These two actions are an assumption about the
commands, which `Node` replaces by a real one.
An inode is named by the execution that created it, so that a removed pid file
that is still open or locked is told from a new one with the same path.
`CollectPidFile` is the finalizer of the `*os.File` that `initialize` drops: it
closes the descriptor and with it the lock.

`ExitDecision` sees an instance as "open" (a signal makes it leave as it is),
"ready" (it waits, and leaves only by way of the cleanup) and so on. `DecisionOf`
maps the places of both goroutines and the channels to that.

### RuntimeConfig

The promise that both commands make, without what is in the file. A command goes
from "new" through "reading", "holding" (it has read the file), "writing" (it
has taken the old text away) and "telling" to its end. `disturbed` are the
commands whose rewriting did not go undisturbed, `author` is the one whose text
the file has had since it was last changed, `settings` says whether the user has
lost something and `daemon` whether the daemon works with the file. Two things
are promised: as long as nobody is disturbed nothing is lost, and an author that
was not disturbed reports success only with the daemon up to date or told
(`Report`). Everything else may happen: any error or kill (`Fail`), part of a
text (`FailWriting`), a text that goes to a file that was removed meanwhile
(`PutAside`), a success that tells nobody (`ReportQuietly`,
`--restart-mode=none`).

Each of the two modules maps its own state to that: `stages` and `settings`
by name, `author` as it is, "behind" where `Behind` holds. They differ in one
place. Between the two writes the JSON file is empty and `LoadConfig` refuses
it, but an empty TOML file is a configuration like any other, which the next
command would take for the user's; so in `ContainerdCommand` a command that was
stopped there (`stopped`) counts as disturbed, and in `DockerCommand` it does not.

### DockerConfig, DockerCommand

A configuration is the default runtime, the registered runtimes, the shape of
the `runtimes` table (the code asserts its type and may panic) and all other
keys as one value. An entry is a path: a toolkit directory and a file name, or a
path of the user's. `UpdateConfig` and `RevertConfig` are operators over it, so
that facts about them can be stated without any execution.

An execution goes through `Load`, `Create` (`os.Create` truncates), `Write`,
`Dial` and `Kill`. `Load` joins reading with the update or revert, which nobody
else can observe; `Result` is what the command is about to write. `Write` over a
file that someone else has written since leaves the end of the longer text
("trailing"); an error after part of the text leaves "torn", or, when the part
fits on what another command has written since, a text of both that can be read
(`Mixtures`; the encoder sorts the keys, so runtimes of the new text come with its
default). `NotMixed` says that no command has failed in that situation: a mixture
is nobody's configuration, and `DefaultResolves` and `DaemonFollowsFile` promise
nothing of it. `overtaken` remembers whose file changed between load and flush, and `author` whose text it
has. `Done` is what a command is for: after a setup its executables are
registered and its default is set (`InForce`), after a cleanup the standard
names are gone (`OutOfForce`). `pids` says whether the command sees dockerd's
process number: outside its namespace the number is 0, and `Kill(0, SIGHUP)`
signals the command's own process group. dockerd stops, starts on a file it can
read, and reloads it on `SIGHUP`.

### ContainerdConfig, ContainerdCommand

The same construction, with these differences. A configuration has a version,
classes of a `base` (everything but the executable) and an executable, the name
of the default, and version 1's `default_runtime`. `UpdateConfig` is a set: the
code goes over a map, and each round copies `runc`, which an earlier round may
have changed, so both orders are there. `RevertConfig` follows the two versions'
different rules for which classes go. A configuration without keys is removed
(`Remove`) instead of written. A truncated file is an empty configuration to who
reads it, and the first part of a TOML text is most often TOML (`Prefixes`: it may
end anywhere in the encoder's order of version, default, `default_runtime` and
classes, also inside a runtime before its executable; over the text of another
command the rest of that follows, `Parts`), so partial writes are not noticed the
way they are with JSON. `Restart` has a
disjunct for each restart mode, the invalid one included, which is noticed after
the file has been written.

### Installation, ToolkitInstall

The files of the toolkit directory are numbered in the order in which `Install`
puts them there; each is absent, cut off or whole, executable or not, left from
an earlier installation or not, and knows who is writing it. A command is at one
file, in the phase `create`, `fill` or `mode`, which are `os.Create`, the copy
and the `chmod` by name; links come at once. `Fail` is any error at any of
these: `Install` gives up, except at the experimental runtime, where it goes on.
`Fill` may leave a wrapper cut off without an error (`Short`), and any file that
another command has removed or truncated. `last` and `owner` say who emptied the
directory, and whether anybody else has written to it since. All installs
have one image and one command line, as the instances on a node have: the files
of two of them have the same text, so that `Fill` leaves a file cut off or whole,
and a `config.toml` mixed from two command lines is not in the model.

`Installation` knows of the directory only whether it is absent, partial or
complete. It promises that an install that nobody interfered with reports
success exactly when the toolkit is complete. `toolkit` and `progress` map the
files, places and phases to that.

### CrioHook

The hook is a path that names an inode, created by one of the setups, or
nothing. `Create` truncates; `Encode` writes to the inode the setup opened, which
shows only while the path still names it, and over the text of another setup may
leave a remainder ("mixed", as their command lines may name toolkit directories
of different lengths). `EncodePart` is a write that was cut off. A setup that ends
without success is "stopped" when it has opened the file and "failed" when it has
not: only the former can have changed it.

### Node

`child` and `runtime`, variables of `NvidiaToolkit`, are defined here from what
the commands do: `child[p]` is "touched" when the command of `p` has succeeded,
and `runtime` is the instance whose hook CRI-O can read. `command` says what
each instance runs, `StartCommand` and `EndCommand` are the two sides of
`cmd.Run`, and between them, or after the death of the instance, `InstallStep`
and `HookStep` are steps of `Installation` and `CrioHook`. `Installation` stands
for `ToolkitInstall`, which implements it. Every instance uses the same
directories, as on a node where they are started from one image; the collector
is left to `NvidiaToolkit`.

## The runs

| Run | Instance | What it shows |
|---|---|---|
| `toolkit_safety` | 2 executions, symmetric; kills, failing commands, orphans, collection of the descriptor | `IInv`, `CleanupNotInterrupted`, `NeverDeadlocked`, `ExclusiveUntilRemoved`, `PidFileNamesOnlyHolder`, `WaitingMeansConfigured`, `GracefulExitRestores`, `RefusedOnlyByLiveHolder` |
| `toolkit_process` | 1 execution, fair | it implements `ExitDecision` (`ImplementsExitDecision`), and ends: `SignalTerminates`, `NoDaemonTerminates` |
| `toolkit_collected` | 2 executions | `SingleInstance` fails |
| `toolkit_unlinked` | 3 executions | `SingleLockHolder` fails |
| `docker_safety` | 2 commands, symmetric; 1 attempt, 1 edit with a runtime of the user's, 3 files, 2 options | `IInv`, `DefaultResolves`, `UserSettingsKept`, `BrokenFileExplained`, `DaemonFollowsFile`, `SuccessTakesEffect`; it implements `RuntimeConfig` (`ImplementsRuntimeConfig`) |
| `docker_liveness` | 1 command, fair; 6 attempts, any file, all options | `CommandTerminates`, and `NeverSetBack`: each step of a command brings it nearer to its end, and it reports a failure to signal only at its last attempt and without a signal |
| `docker_remove` | 2 commands | `CleanupRemovesRuntime` fails |
| `containerd_safety` | 2 commands, symmetric; 1 attempt, 1 edit with a version 1 file, no file at first, 2 options | `IInv`, `DefaultResolves`, `UserSettingsKept`, `DaemonFollowsFile`, `StandardClassRemoved`, `SuccessTakesEffect` |
| `containerd_liveness` | 1 command, fair; 6 attempts, any file, all options, 1 edit | `CommandTerminates`, `NeverSetBack`; it implements `RuntimeConfig` (`ImplementsRuntimeConfig`) |
| `containerd_restore` | 2 commands | `ConfigRestored` fails |
| `install` | 2 installs, symmetric, and a delete; 4 earlier or interrupted contents, one wrapper that can be cut off | `IInv`, `SuccessInstalls`, `NothingDangles`, `CutExplained`, `SuccessesAddUp`; it implements `Installation` (`ImplementsInstallation`) |
| `node` | 2 instances, symmetric, as daemons | `IInv`, `WaitingMeansUsable`, `RunningHookResolves`, `UnreadableHookExplained`; it implements `NvidiaToolkit` (`ImplementsDaemon`) |

`IInv` is the inductive invariant of each module, and its first part is the type
invariant `TypeOK`.

**Why these bounds are enough.** Two executions of the daemon are enough for
every race over one pid file in which nobody is a bystander; the loss of a
removed file takes three, and `toolkit_unlinked` has them. Two commands make
every overlap of load, truncate and write, and every setup followed by a
cleanup; the files and options were chosen so that each branch of update and
revert is taken (a name of one's own, the experimental class, no name, no
default, a runc to copy, an old `default_runtime`, a runtime already registered
by hand). One edit falls into every gap between steps. The attempts run to the
source's 6 where the loop itself is in question and are fewer elsewhere, since a
failed attempt changes nothing but the count. `containerd_liveness` has a single
command for `ImplementsRuntimeConfig`, which an edit of the user can disturb at
any step: two take too long for this property, and for them there is the
theorem. The theorems hold for any number of executions, commands, edits,
attempts, names and options, so the bounds limit only what is checked and not
proved. For `install`, two installs and a delete make every pair of commands and
the three at once; a removal is interrupted before it has done anything, after
the library and its link, and after the links, which are the files that a later
step depends on; the last wrapper is cut off because a link leads to it. For
`node`, one instance leaves its hook or an orphan behind and the other meets it;
`--no-daemon`, an instance that ends after its setup, more than doubles the
states and was checked to hold as well, and the theorems are about both modes.
Executions are never run again (a restart is another member of the set), so the
systems stop, and the configurations say `CHECK_DEADLOCK FALSE`.

**Fairness.** For `nvidia-toolkit`, weak fairness of each goroutine: the Go
scheduler runs both, and a command that `main` waits for ends at some time
(`MainStep` contains its end). For the commands, weak fairness of the command's
steps: the process is scheduled, its daemon answers a connection or refuses it
(`ReadMsgUnix` has no deadline), and `systemctl` returns. Nothing is assumed
about signals, users, kills, or about daemons coming up.

## What the runs found

- **The lock of a running instance can be released by the garbage collector**
  (`toolkit_collected`). `f` is a local variable of `initialize` (run.go:189);
  once the number is written nothing refers to it, and its finalizer closes the
  descriptor. A second instance then gets past `Flock`.
- **Shutdown removes whichever file is at the path** (`toolkit_unlinked`). An
  instance that opened the file before another's `shutdown` locks an inode
  without a name, and a third one creates and locks a new file.
- **Docker's cleanup does not know the name the setup used** (`docker_remove`).
  It deletes the two standard names, so that a runtime registered with
  `--runtime-name` stays, and stays the default.
  Version 1 of containerd's cleanup has the same gap: it goes over the standard
  classes (config_v1.go:121), unlike version 2, which goes over those of the
  options. `StandardClassRemoved` states for which files and classes a cleanup
  does remove everything, and is proved.
- **Version 1 of containerd's cleanup deletes a `default_runtime` that was not
  its own** (`containerd_restore`) when that has none but the standard fields.

## What is proved

For all values of the constants that satisfy the modules' assumptions: the names
and values are what they are called (`ValueAssumption`, `ConfigAssumption`), the
number of attempts is positive, `None` is not a command, and a node and a user
start from files whose default runtime exists (`FileAssumption`,
`UserAssumption`; without that it would not be the commands that break it).

*NvidiaToolkitProofs.* `Invariance` proves that `IInv` holds in every reachable
state. None of the properties is inductive by itself: `CleanupNotInterrupted`
says that the signal goroutine is gone when `main` cleans up, which needs to
know what the channels can hold at each pair of places (`HandshakeInv`); the
same facts make it impossible for the two goroutines to wait for each other
(`NeverDeadlocked`); exclusion needs to know that a lock is held by a live
execution on the very inode it opened (`FileInv`); that the pid file names its
holder needs to know that an execution on its own has neither met another's text
nor lost its own (`AloneInv`; only another execution can empty the file under a
holder); that a graceful exit has
restored the configuration needs to know which command can be under way
(`CommandInv`), and that a waiting instance is configured that nobody else's
setup came in between (`ConfiguredInv`). From there follow
`CleanupIsNotInterrupted`, `HandshakeIsFree`, `LockIsExclusive`, `PidFileNames`,
`WaitingIsConfigured`, the action properties `RefusedByLiveHolder` and
`GracefulExit`, and `Refinement`: every step of the daemon is a step of
`ExitDecision` or changes nothing it knows.

*RuntimeConfigProofs.* That nothing is lost while nobody is disturbed is part of
what `RuntimeConfig` says of every step. `SuccessIsMeant` is inductive: whoever
changes the file or stops being told of it takes the author's claim away. With
the two refinements below it holds of both commands.

*DockerCommandProofs.* The inductive invariant says that what a command holds
between loading and flushing can be written back (`ConfigInv`), has a default that
resolves (`ResolveInv`, until a command has failed over the text of another;
`PartMixed` says that nothing else makes a mixture, `MixedStays` that the excuse
is not lost again) and the user's settings (`UserInv`), that the file is as empty as its writer left it
(`WriteInv`), and that the file of an author nobody overtook is its result, of
which dockerd has been told when the author reported success (`AuthorInv`; the
last part survives `DaemonReload` and `DaemonStart` because they make dockerd
work with the file, and every other writer because it ends the authorship). It
gives `TypeCorrect`, `DefaultAlwaysResolves` and `UserSettingsAreKept`; with it
`BrokenFileIsExplained` (for nodes that start without a file or with a sound
one) and `DaemonFollows` are inductive. `SuccessIsEffective` takes `AuthorInv`
together with `UpdateInForce` and `RevertOutOfForce`, which say of the operators
that their result is what the command is for. `CommandsAdvance` shows that the
measure `StepsLeft` falls with each of a command's steps and is raised by
nobody: the part of `CommandTerminates` that does not need fairness, with the
number of steps a command can take as a bound; and (`GivesUp`) that an error of an
earlier attempt is not reported after a later one has signalled the daemon. `Refinement` goes action by
action (`CommandSimulation`): each is an action of `RuntimeConfig` or changes
nothing that it sees; that `Write` is `Put` needs `WriteInv`, since over a file
that is not empty it might leave the end of another text, and that a success is
`Report` needs `AuthorInv`. About the operators alone: `UpdateIdempotent`,
`RevertIdempotent`, and `CleanupAfterSetup`, which says of which setups a
cleanup takes back everything.

*ContainerdCommandProofs.* `CommandInv` ties what is about to be written to what
was loaded, by the operators, and each place to the restart mode that leads
there; `ResolveInv` takes a default that resolves around the circle of file,
command, file and containerd; `UserInv` does the same with the user's settings,
as long as nobody was stopped or overtaken inside `FlushConfig`; `WriteInv` and
`AuthorInv` are as above, with a file that was removed in the place of an empty
result. `Invariance`, `TypeCorrect`, `DefaultAlwaysResolves`,
`UserSettingsAreKept`, `DaemonFollows`, `StandardClassIsRemoved`,
`SuccessIsEffective`, `CommandsAdvance` and `Refinement` follow. About the
operators alone: `CleanupAfterSetup`; `UpdateOrderIrrelevant`, that both orders
of Update's loop over a map make the same configuration unless the class to
configure is `runc`, the one the loop copies (for `runc` the two orders differ,
which is why `UpdateConfig` is a set); `UpdateIdempotent`, under the same
condition; `RevertIdempotent`, where the first cleanup may leave no version to
tell the second by.

*ToolkitInstallProofs.* For any number of commands, any files an interrupted
removal leaves and any wrappers that can be cut off. `LeftBy` says what the
directory looks like when its owner is at a given file and phase: what it has
dealt with is installed, what comes later is absent. From it follow
`SuccessCorrect` and `NamesCorrect`, and, by the mapping, `Refinement`: the
toolkit becomes complete with the last file and not before. `CutCorrect` is
inductive next to `DirInv`. For `OverlapCorrect` the directory has no owner;
there `HasPut` says that what the last command to empty it has dealt with is
present, whoever wrote to it since, as long as nobody has failed or is removing.

*CrioHookProofs.* `HookCorrect` with `AuthorInv`: the file has an author exactly
while it is there, and until that one has written it is empty and the one it has
opened. `Distinct` (None is not a setup) is the only assumption.

*NodeProofs.* The theorems about `NvidiaToolkit` and `CrioHook` are used for the
node's own daemon and hook: both proof modules are instantiated, and `SameState`,
`SameNextState` and `SameStep` say that the two instances agree. What is left is
the order of the commands (`PlaceInv`) and that the instance past the lock has
directory and hook to itself (`ToolkitInv`, `HookInv`). The argument is a circle
only at first sight: that nobody else's command interferes follows from the
daemon's exclusion in the state before a step, that the step is one of
`NvidiaToolkit` (`StepSimulation`) from there, and the daemon's invariant in the
next state from that. `Refinement`, `WaitingIsUsable`, `RunningHookIsResolved` and
`UnreadableIsExplained` follow. With `Refinement`, every theorem of
`NvidiaToolkitProofs` holds of a node whose commands are the real ones.

**Only model-checked:** liveness (`SignalTerminates`, `NoDaemonTerminates`,
`CommandTerminates`), which needs fairness and `ENABLED`. Of `SignalTerminates`
the part without fairness is `HandshakeIsFree`. Of `CommandTerminates` what is
left to TLC is that a live command always has a step to take and takes it: that
it can only take so many is `CommandsAdvance`.

## What is not modelled

- Two odd contents of `daemon.json` and `config.toml`: the JSON text `null`
  (a nil map), and TOML tables without keys. A directory in place of either.
- Reuse of a process number by another process between `Dial` and `Kill`.
- The time between attempts (`reloadBackoff`): an attempt may come at any time.
- The name of the runtime type that `--runtime-type` gives: one of the four
  standard fields, which count as one value.
- Vendored code, Dockerfiles, build files and the shell tests: no state of the
  program. The Go runtime, the kernel, dockerd and containerd only as far as the
  code relies on them.
- What wrappers and the toolkit's `config.toml` say: they are whole, cut off or
  absent. `replacements.go` only fills in a directory's name.
- Whether the image has a file: a missing source is one of the reasons to `Fail`.
- Within `Node`, docker and containerd in the place of CRI-O: `CommandTouches`
  summarises a setup that `DockerCommand` or `ContainerdCommand` has in full, but
  that summary is proved only of `CrioHook`.
- Commands that never return: `cmd.Run` has no time limit, nor has `ReadMsgUnix`.
  A property that they return would be false by construction.

## Plan

Done, in this order: `ExitDecision` and `NvidiaToolkit` (the program that
drives the others), `DockerConfig` and `DockerCommand`, `ContainerdConfig` and
`ContainerdCommand`, `Installation` and `ToolkitInstall`, `CrioHook`, `Node`, and
`RuntimeConfig`, which docker and containerd implement, each with its proofs.

What would be worth adding:

1. `RuntimeConfig` in the place of `CrioHook` in `Node`: the daemon's summary of
   a setup command shown of docker and containerd as well.
2. The composition of the experimental runtime that an install did without with a
   runtime command that registers it all the same.
