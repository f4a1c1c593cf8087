---------------------------- MODULE DockerConfig ----------------------------
(***************************************************************************)
(* What cmd/docker does to the contents of daemon.json: UpdateConfig for   *)
(* setup and RevertConfig for cleanup, as functions of the configuration.  *)
(*                                                                         *)
(* A configuration keeps apart the two keys the command knows and all the  *)
(* others ("other").  "runtimes" is a total function in which a runtime    *)
(* that is not listed has NoEntry; "table" tells whether the key is there. *)
(* A key of the wrong JSON type is "malformed".                            *)
(***************************************************************************)
CONSTANTS
  Name,          \* names of runtimes
  Dir,           \* toolkit directories a setup can be given
  UserPath,      \* the executables of runtimes the user configured
  Other,         \* what the other keys of the file can hold
  SetupOptions   \* the options setup commands are run with

Nvidia       == "nvidia"
Experimental == "nvidia-experimental"
Runc         == "runc"

\* nvidiaRuntimeBinaries
NvidiaName == {Nvidia, Experimental}
Binary(rt) ==
  IF rt = Nvidia THEN "nvidia-container-runtime"
                 ELSE "nvidia-container-runtime-experimental"

\* filepath.Join(runtimeDir, bin)
NvidiaPath == Dir \X {Binary(rt) : rt \in NvidiaName}

NoEntry == << >>
Entry   == NvidiaPath \cup UserPath \cup {NoEntry}

Options ==
  [runtimeName : Name \cup {""}, setAsDefault : BOOLEAN, runtimeDir : Dir]

ASSUME ConfigAssumption ==
  /\ NvidiaName \cup {Runc} \subseteq Name
  /\ Name \cap {"", "absent", "malformed"} = {}
  /\ NoEntry \notin UserPath
  /\ UserPath \cap NvidiaPath = {}
  /\ "none" \notin Other \cup Dir
  /\ SetupOptions \subseteq Options

Config ==
  [default  : Name \cup {"absent", "malformed"},
   table    : {"absent", "map", "malformed"},
   runtimes : [Name -> Entry],
   other    : Other \cup {"none"}]

\* What LoadConfig returns when there is no file.
EmptyConfig ==
  [default |-> "absent", table |-> "absent",
   runtimes |-> [n \in Name |-> NoEntry], other |-> "none"]

-----------------------------------------------------------------------------
(* setup                                                                   *)

\* options.getRuntimeBinaries: the name under which the nvidia runtime is
\* registered.
NvidiaNameFor(o) ==
  IF o.runtimeName \in {"", Experimental} THEN Nvidia ELSE o.runtimeName

\* options.runtimes, and what was there before under all other names
AddRuntimes(runtimes, o) ==
  [n \in Name |->
     IF n = NvidiaNameFor(o) THEN << o.runtimeDir, Binary(Nvidia) >>
     ELSE IF n = Experimental THEN << o.runtimeDir, Binary(Experimental) >>
     ELSE runtimes[n]]

\* options.getDefaultRuntime
DefaultRuntime(o) == IF o.setAsDefault THEN o.runtimeName ELSE ""

\* Writing to "runtimes" when it is not an object panics.
UpdatePanics(cfg) == cfg.table = "malformed"

\* Faulty variant: the runtimes of the file are forgotten.
UpdateConfigForgetsRuntimes(cfg, o) ==
  [cfg EXCEPT
     !.default  = IF DefaultRuntime(o) = "" THEN @ ELSE DefaultRuntime(o),
     !.table    = "map",
     !.runtimes = AddRuntimes(EmptyConfig.runtimes, o)]

UpdateConfig(cfg, o) ==
  [cfg EXCEPT
     !.default  = IF DefaultRuntime(o) = "" THEN @ ELSE DefaultRuntime(o),
     !.table    = "map",
     !.runtimes = AddRuntimes(@, o)]

-----------------------------------------------------------------------------
(* cleanup                                                                 *)

RevertPanics(cfg) == cfg.default = "malformed" \/ cfg.table = "malformed"

RemoveRuntimes(runtimes) ==
  [n \in Name |-> IF n \in NvidiaName THEN NoEntry ELSE runtimes[n]]

NoRuntimes(runtimes) == \A n \in Name : runtimes[n] = NoEntry

\* Faulty variant: the runtimes go, the default stays.
RevertConfigKeepsDefault(cfg) ==
  [cfg EXCEPT
     !.table    = IF NoRuntimes(RemoveRuntimes(cfg.runtimes)) THEN "absent"
                                                              ELSE @,
     !.runtimes = RemoveRuntimes(@)]

\* Cleanup knows the two standard names only; it is not told the options of
\* the setup.  An empty "runtimes" is removed.
RevertConfig(cfg) ==
  [cfg EXCEPT
     !.default  = IF @ \in NvidiaName THEN Runc ELSE @,
     !.table    = IF NoRuntimes(RemoveRuntimes(cfg.runtimes)) THEN "absent"
                                                              ELSE @,
     !.runtimes = RemoveRuntimes(@)]

-----------------------------------------------------------------------------
\* dockerd finds the runtime that containers use by default.
Resolves(cfg) ==
  \/ cfg.table = "malformed"
  \/ cfg.default \in {"absent", "malformed", Runc}
  \/ cfg.runtimes[cfg.default] # NoEntry

\* What a setup with options o is for: its executables are registered and its
\* default is set.
InForce(cfg, o) ==
  /\ cfg.runtimes[NvidiaNameFor(o)] = << o.runtimeDir, Binary(Nvidia) >>
  /\ cfg.runtimes[Experimental] = << o.runtimeDir, Binary(Experimental) >>
  /\ DefaultRuntime(o) # "" => cfg.default = DefaultRuntime(o)

\* What a cleanup is for: the standard names are gone.
OutOfForce(cfg) ==
  /\ \A n \in NvidiaName : cfg.runtimes[n] = NoEntry
  /\ cfg.default \notin NvidiaName

\* No runtime of the file is an executable of the toolkit.
NoNvidia(cfg) == \A n \in Name : cfg.runtimes[n] \notin NvidiaPath

=============================================================================
