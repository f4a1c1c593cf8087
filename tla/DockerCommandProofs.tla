------------------------ MODULE DockerCommandProofs ------------------------
(***************************************************************************)
(* Theorems about DockerConfig and DockerCommand: any number of commands,  *)
(* edits and attempts, any names, directories and options.                 *)
(***************************************************************************)
EXTENDS DockerCommand, TLAPS

-----------------------------------------------------------------------------
(* The operators on configurations                                         *)

\* A missing file is a configuration.
LEMMA EmptyType ==
  EmptyConfig \in Config /\ Resolves(EmptyConfig) /\ EmptyConfig.table = "absent"
BY DEF EmptyConfig, Config, Entry, Resolves

\* What setup registers, and under which names.
LEMMA AddRuntimesType ==
  ASSUME NEW cfg \in Config, NEW o \in Options
  PROVE  /\ AddRuntimes(cfg.runtimes, o) \in [Name -> Entry]
         /\ NvidiaNameFor(o) \in Name
         /\ AddRuntimes(cfg.runtimes, o)[NvidiaNameFor(o)] # NoEntry
         /\ AddRuntimes(cfg.runtimes, o)[Experimental] # NoEntry
         /\ \A n \in Name : cfg.runtimes[n] # NoEntry
              => AddRuntimes(cfg.runtimes, o)[n] # NoEntry
<1>1. NvidiaNameFor(o) \in Name /\ Experimental \in Name
  BY ConfigAssumption DEF NvidiaNameFor, Options, NvidiaName
<1>2. \A rt \in NvidiaName : << o.runtimeDir, Binary(rt) >> \in NvidiaPath
  BY DEF NvidiaPath, Options
<1>3. \A rt \in NvidiaName : << o.runtimeDir, Binary(rt) >> # NoEntry
  BY DEF NoEntry
<1> QED
  BY <1>1, <1>2, <1>3
     DEF AddRuntimes, Config, Entry, NvidiaName, Nvidia, Experimental

\* setup makes a configuration out of one.
LEMMA UpdateType ==
  ASSUME NEW cfg \in Config, NEW o \in Options
  PROVE  UpdateConfig(cfg, o) \in Config
<1>1. DefaultRuntime(o) \in Name \cup {""}
  BY ConfigAssumption DEF DefaultRuntime, Options
<1> QED
  BY <1>1, AddRuntimesType DEF UpdateConfig, Config

\* After setup the default runtime is registered if it was before.
LEMMA UpdateResolves ==
  ASSUME NEW cfg \in Config, NEW o \in Options,
         Resolves(cfg), ~UpdatePanics(cfg)
  PROVE  Resolves(UpdateConfig(cfg, o))
<1> DEFINE new == UpdateConfig(cfg, o)
<1>1. /\ new.runtimes = AddRuntimes(cfg.runtimes, o)
      /\ new.default = IF DefaultRuntime(o) = "" THEN cfg.default
                                                 ELSE DefaultRuntime(o)
  BY DEF UpdateConfig, Config
<1>2. CASE DefaultRuntime(o) = ""
  BY <1>1, <1>2, AddRuntimesType DEF Resolves, UpdatePanics, Config
<1>3. CASE DefaultRuntime(o) # ""
  <2>1. DefaultRuntime(o) = o.runtimeName
    BY <1>3 DEF DefaultRuntime
  <2>2. DefaultRuntime(o) \in {NvidiaNameFor(o), Experimental}
    BY <1>3, <2>1 DEF NvidiaNameFor
  <2> QED
    BY <1>1, <1>3, <2>2, AddRuntimesType DEF Resolves
<1> QED
  BY <1>2, <1>3

\* cleanup makes a configuration out of one.
LEMMA RevertType ==
  ASSUME NEW cfg \in Config
  PROVE  RevertConfig(cfg) \in Config
BY ConfigAssumption DEF RevertConfig, RemoveRuntimes, Config, Entry

\* cleanup removes no runtime that is still the default.
LEMMA RevertResolves ==
  ASSUME NEW cfg \in Config, Resolves(cfg), cfg.table # "malformed"
  PROVE  Resolves(RevertConfig(cfg))
<1> DEFINE new == RevertConfig(cfg)
<1>1. /\ new.default = IF cfg.default \in NvidiaName THEN Runc ELSE cfg.default
      /\ new.runtimes = RemoveRuntimes(cfg.runtimes)
  BY DEF RevertConfig, Config
<1> QED
  BY <1>1 DEF Resolves, RemoveRuntimes, Config

\* Neither touches what belongs to the user.
LEMMA UserPartKept ==
  ASSUME NEW cfg \in Config
  PROVE  /\ UserPart(RevertConfig(cfg)) = UserPart(cfg)
         /\ \A o \in SetupOptions :
              UserPart(UpdateConfig(cfg, o)) = UserPart(cfg)
<1>1. UserPart(RevertConfig(cfg)) = UserPart(cfg)
  BY DEF UserPart, RevertConfig, RemoveRuntimes, ManagedName, Config
<1>2. ASSUME NEW o \in SetupOptions
      PROVE  UserPart(UpdateConfig(cfg, o)) = UserPart(cfg)
  <2>1. NvidiaNameFor(o) \in ManagedName /\ Experimental \in ManagedName
    BY DEF ManagedName, NvidiaName
  <2> QED
    BY <2>1 DEF UserPart, UpdateConfig, AddRuntimes, Config
<1> QED
  BY <1>1, <1>2

\* Running setup again with the same options changes nothing more
\* (UpdateConfig).
THEOREM UpdateIdempotent ==
  ASSUME NEW cfg \in Config, NEW o \in Options
  PROVE  UpdateConfig(UpdateConfig(cfg, o), o) = UpdateConfig(cfg, o)
BY DEF UpdateConfig, AddRuntimes, Config

\* Running cleanup again changes nothing more (RevertConfig).
THEOREM RevertIdempotent ==
  ASSUME NEW cfg \in Config
  PROVE  RevertConfig(RevertConfig(cfg)) = RevertConfig(cfg)
BY ConfigAssumption
   DEF RevertConfig, RemoveRuntimes, NoRuntimes, Config, NvidiaName, Nvidia,
       Experimental, Runc

\* cleanup takes back a setup that used a standard name and set no default: what
\* it leaves is what it would have left without the setup (RevertConfig).
THEOREM CleanupAfterSetup ==
  ASSUME NEW cfg \in Config, NEW o \in Options,
         NvidiaNameFor(o) = Nvidia, DefaultRuntime(o) = ""
  PROVE  /\ RevertConfig(UpdateConfig(cfg, o)).runtimes
              = RevertConfig(cfg).runtimes
         /\ RevertConfig(UpdateConfig(cfg, o)).default
              = RevertConfig(cfg).default
         /\ RevertConfig(UpdateConfig(cfg, o)).other = cfg.other
<1> DEFINE new == UpdateConfig(cfg, o)
<1>1. /\ new.runtimes = AddRuntimes(cfg.runtimes, o)
      /\ new.default = cfg.default /\ new.other = cfg.other
  BY DEF UpdateConfig, Config
<1>2. RemoveRuntimes(new.runtimes) = RemoveRuntimes(cfg.runtimes)
  BY <1>1 DEF RemoveRuntimes, AddRuntimes, NvidiaName
<1>3. /\ RevertConfig(new).runtimes = RemoveRuntimes(new.runtimes)
      /\ RevertConfig(new).default
           = IF new.default \in NvidiaName THEN Runc ELSE new.default
      /\ RevertConfig(new).other = new.other
  BY DEF RevertConfig, UpdateConfig, Config
<1>4. /\ RevertConfig(cfg).runtimes = RemoveRuntimes(cfg.runtimes)
      /\ RevertConfig(cfg).default
           = IF cfg.default \in NvidiaName THEN Runc ELSE cfg.default
  BY DEF RevertConfig, Config
<1>5. RevertConfig(new).runtimes = RevertConfig(cfg).runtimes
  BY <1>2, <1>3, <1>4, Zenon
<1>6. RevertConfig(new).default = RevertConfig(cfg).default
  <2>1. new.default \in NvidiaName <=> cfg.default \in NvidiaName
    BY <1>1, Zenon
  <2>2. CASE cfg.default \in NvidiaName
    BY <2>1, <2>2, <1>3, <1>4, Zenon
  <2>3. CASE cfg.default \notin NvidiaName
    BY <2>1, <2>3, <1>1, <1>3, <1>4, Zenon
  <2> QED
    BY <2>2, <2>3
<1>7. RevertConfig(new).other = cfg.other
  BY <1>1, <1>3, Zenon
<1> QED
  BY <1>5, <1>6, <1>7, Zenon

\* After setup its executables are registered and its default is set.
LEMMA UpdateInForce ==
  ASSUME NEW cfg \in Config, NEW o \in Options
  PROVE  InForce(UpdateConfig(cfg, o), o)
<1>1. NvidiaNameFor(o) \in Name /\ Experimental \in Name
      /\ NvidiaNameFor(o) # Experimental
  BY ConfigAssumption
     DEF NvidiaNameFor, Options, NvidiaName, Nvidia, Experimental
<1> QED
  BY <1>1 DEF InForce, UpdateConfig, AddRuntimes, Config

\* After cleanup the standard names are gone.
LEMMA RevertOutOfForce ==
  ASSUME NEW cfg \in Config
  PROVE  OutOfForce(RevertConfig(cfg))
BY ConfigAssumption
   DEF OutOfForce, RevertConfig, RemoveRuntimes, Config, NvidiaName, Nvidia,
       Experimental, Runc

-----------------------------------------------------------------------------
(* Types                                                                   *)

\* A command that writes has a configuration to write.
LEMMA ResultType ==
  ASSUME TypeOK, ConfigInv, NEW c \in Command, pc[c] # "load"
  PROVE  /\ Result(c) \in Config
         /\ UserPart(Result(c)) = UserPart(seen[c])
<1>1. seen[c] \in Config
  BY DEF TypeOK
<1>2. op[c] = "setup" => opts[c] \in SetupOptions
  BY DEF TypeOK, ConfigInv
<1> QED
  BY <1>1, <1>2, ConfigAssumption, UpdateType, RevertType, UserPartKept
     DEF Result

\* What LoadConfig and dockerd read from a file is a configuration.
LEMMA ContentType == ASSUME NEW f \in File PROVE Content(f) \in Config
BY EmptyType DEF File, Content

\* What the commands and the user put in the file is a file.
LEMMA FileOfType ==
  ASSUME NEW cfg \in Config,
         NEW state \in {"missing", "empty", "torn", "trailing", "config"}
  PROVE  /\ FileOf(state, cfg) \in File
         /\ FileOf(state, cfg).state = state /\ FileOf(state, cfg).cfg = cfg
BY DEF FileOf, File

\* A mixture of two configurations is one.
LEMMA MixturesType ==
  ASSUME NEW cfg \in Config, NEW old \in Config
  PROVE  Mixtures(cfg, old) \subseteq Config
BY DEF Mixtures, Config

\* What a write that fails leaves: the text that was there, none that decodes,
\* or a mixture with the text that was there.
LEMMA PartType ==
  ASSUME TypeOK, NEW cfg \in Config, OverwritePart(cfg)
  PROVE  /\ file' \in File
         /\ \/ file' = file
            \/ file'.state = "torn"
            \/ file.state \in {"config", "trailing"} /\ file'.state = file.state
<1>1. CASE file' \in {file, FileOf("torn", EmptyConfig)}
  BY <1>1, EmptyType, FileOfType DEF TypeOK
<1>2. CASE /\ file.state \in {"config", "trailing"}
           /\ file' \in {[file EXCEPT !.cfg = mix] : mix \in Mixtures(cfg, file.cfg)}
  <2>1. PICK mix \in Mixtures(cfg, file.cfg) : file' = [file EXCEPT !.cfg = mix]
    BY <1>2
  <2>2. file \in File /\ file.cfg \in Config
    BY DEF TypeOK, File
  <2>3. mix \in Config
    BY <2>2, MixturesType
  <2> QED
    BY <1>2, <2>1, <2>2, <2>3 DEF File
<1> QED
  BY <1>1, <1>2 DEF OverwritePart

\* A failed attempt keeps the count below the limit.
LEMMA RetryType ==
  ASSUME TypeOK, NEW c \in Command, Retry(c)
  PROVE  /\ status' \in [Command -> Status] /\ pc' \in [Command -> Pc]
         /\ attempt' \in [Command -> 0..(MaxReloadAttempts - 1)]
BY AttemptsAssumption DEF TypeOK, Retry, End, Goto, Status, Pc

\* Every step keeps every variable in its type.
LEMMA NextType == TypeOK /\ ConfigInv /\ [Next]_vars => TypeOK'
<1> SUFFICES ASSUME TypeOK, ConfigInv, [Next]_vars
             PROVE  TypeOK'
  OBVIOUS
<1> USE DEF command, daemon, history
<1>1. ASSUME NEW c \in Command, Start(c)
      PROVE  TypeOK'
  BY <1>1 DEF TypeOK, Start, Status
<1>2. ASSUME NEW c \in Command, Refuse(c)
      PROVE  TypeOK'
  BY <1>2 DEF TypeOK, Refuse, End, Status
<1>3. ASSUME NEW c \in Command, CommandStep(c)
      PROVE  TypeOK'
  <2>1. CASE Load(c)
    <3>1. Content(file) \in Config
      BY ContentType DEF TypeOK
    <3> QED
      BY <2>1, <3>1 DEF TypeOK, Load, End, Goto, Status, Pc
  <2>2. CASE Create(c)
    <3>1. file' \in File
      BY <2>2, EmptyType, FileOfType DEF TypeOK, Create
    <3> QED
      BY <2>2, <3>1 DEF TypeOK, Create, Overtake, End, Goto, Status, Pc
  <2>3. CASE Write(c)
    <3>1. pc[c] = "write"
      BY <2>3 DEF Write
    <3>2. Result(c) \in Config
      BY <3>1, ResultType
    <3>3. file' \in File
      <4>1. CASE Overwrite(Result(c))
        BY <3>2, <4>1, FileOfType DEF Overwrite
      <4>2. CASE OverwritePart(Result(c))
        BY <3>2, <4>2, PartType
      <4> QED
        BY <2>3, <4>1, <4>2 DEF Write
    <3> QED
      BY <2>3, <3>3 DEF TypeOK, Write, Overtake, End, Goto, Status, Pc
  <2>4. CASE Dial(c)
    <3>1. CASE Retry(c)
      BY <2>4, <3>1, RetryType DEF TypeOK, Dial
    <3> QED
      BY <2>4, <3>1 DEF TypeOK, Dial, Goto, Pc
  <2>5. CASE Kill(c)
    <3>1. CASE Retry(c)
      BY <2>5, <3>1, RetryType DEF TypeOK, Kill
    <3> QED
      BY <2>5, <3>1 DEF TypeOK, Kill, End, Status
  <2> QED
    BY <1>3, <2>1, <2>2, <2>3, <2>4, <2>5 DEF CommandStep
<1>4. ASSUME NEW c \in Command, Crash(c)
      PROVE  TypeOK'
  BY <1>4 DEF TypeOK, Crash, End, Status
<1>5. CASE DaemonStop
  BY <1>5 DEF TypeOK, DaemonStop
<1>6. CASE DaemonStart
  BY <1>6, ContentType DEF TypeOK, DaemonStart
<1>7. CASE DaemonReload
  BY <1>7, ContentType DEF TypeOK, DaemonReload
<1>8. CASE UserEdit
  <2>1. file' \in File
    BY <1>8, UserAssumption, FileOfType DEF UserEdit
  <2> QED
    BY <1>8, <2>1, EditsAssumption DEF TypeOK, UserEdit, Overtake
<1>9. CASE UNCHANGED vars
  BY <1>9 DEF TypeOK, vars
<1> QED
  BY <1>1, <1>2, <1>3, <1>4, <1>5, <1>6, <1>7, <1>8, <1>9 DEF Next

-----------------------------------------------------------------------------
(* What commands work with                                                 *)

\* Every step keeps what commands work with fit to be written.
LEMMA NextConfig == TypeOK /\ ConfigInv /\ [Next]_vars => ConfigInv'
<1> SUFFICES ASSUME TypeOK, ConfigInv, [Next]_vars
             PROVE  ConfigInv'
  OBVIOUS
<1> USE DEF command, daemon, history, Live
<1>1. ASSUME NEW c \in Command, Start(c)
      PROVE  ConfigInv'
  BY <1>1 DEF TypeOK, ConfigInv, Start
<1>2. ASSUME NEW c \in Command, Refuse(c)
      PROVE  ConfigInv'
  BY <1>2 DEF TypeOK, ConfigInv, Refuse, End
<1>3. ASSUME NEW c \in Command, CommandStep(c)
      PROVE  ConfigInv'
  <2>1. CASE Load(c)
    <3>1. CASE Decodes(file) /\ ~Panics(c, Content(file))
               /\ seen' = [seen EXCEPT ![c] = Content(file)]
               /\ Goto(c, "create") /\ UNCHANGED status
      <4>1. Content(file).table # "malformed"
        BY <3>1 DEF Panics, UpdatePanics, RevertPanics
      <4> QED
        BY <2>1, <3>1, <4>1 DEF TypeOK, ConfigInv, Load, Goto
    <3>2. CASE End(c, "failed") /\ UNCHANGED << seen, pc >>
      BY <2>1, <3>2 DEF TypeOK, ConfigInv, Load, End
    <3> QED
      BY <2>1, <3>1, <3>2 DEF Load
  <2>2. CASE Create(c)
    BY <2>2 DEF TypeOK, ConfigInv, Create, End, Goto
  <2>3. CASE Write(c)
    BY <2>3 DEF TypeOK, ConfigInv, Write, End, Goto
  <2>4. CASE Dial(c)
    BY <2>4 DEF TypeOK, ConfigInv, Dial, Retry, End, Goto
  <2>5. CASE Kill(c)
    BY <2>5 DEF TypeOK, ConfigInv, Kill, Retry, End, Goto
  <2> QED
    BY <1>3, <2>1, <2>2, <2>3, <2>4, <2>5 DEF CommandStep
<1>4. ASSUME NEW c \in Command, Crash(c)
      PROVE  ConfigInv'
  BY <1>4 DEF TypeOK, ConfigInv, Crash, End
<1>5. CASE DaemonStop \/ DaemonStart \/ DaemonReload \/ UserEdit \/ UNCHANGED vars
  BY <1>5 DEF ConfigInv, DaemonStop, DaemonStart, DaemonReload, UserEdit, vars
<1> QED
  BY <1>1, <1>2, <1>3, <1>4, <1>5 DEF Next

-----------------------------------------------------------------------------
(* The default runtime                                                     *)

\* Once a command has failed over the text of another, it has.
LEMMA MixedStays == TypeOK /\ [Next]_vars /\ NotMixed' => NotMixed
<1> SUFFICES ASSUME TypeOK, [Next]_vars, NEW c \in Command, pc[c] = "write",
                    status[c] = "failed", c \in overtaken
             PROVE  ~NotMixed'
  BY DEF NotMixed
<1> USE DEF command, daemon, history, Live
<1>1. c \in overtaken' /\ pc'[c] = "write" /\ status'[c] = "failed"
  <2>1. ASSUME NEW d \in Command,
               Start(d) \/ Refuse(d) \/ CommandStep(d) \/ Crash(d)
        PROVE  c \in overtaken' /\ pc'[c] = "write" /\ status'[c] = "failed"
    BY <2>1 DEF TypeOK, Start, Refuse, CommandStep, Crash, Load, Create, Write,
                Dial, Kill, Retry, Overtake, End, Goto
  <2>2. CASE DaemonStop \/ DaemonStart \/ DaemonReload \/ UserEdit \/ UNCHANGED vars
    BY <2>2 DEF DaemonStop, DaemonStart, DaemonReload, UserEdit, Overtake, vars
  <2> QED
    BY <2>1, <2>2 DEF Next
<1> QED
  BY <1>1 DEF NotMixed

\* A write that fails leaves a mixture only of the text of another.
LEMMA PartMixed ==
  ASSUME TypeOK, ConfigInv, WriteInv, NEW c \in Command, Write(c),
         OverwritePart(Result(c)), End(c, "failed"), UNCHANGED pc
  PROVE  \/ file' = file
         \/ file'.state = "torn"
         \/ ~NotMixed' /\ overtaken' # {}
<1>1. pc[c] = "write" /\ Live(c) /\ Overtake(Command \ {c})
  BY DEF Write
<1>2. Result(c) \in Config
  BY <1>1, ResultType
<1>3. SUFFICES ASSUME file.state \in {"config", "trailing"}
               PROVE  ~NotMixed' /\ overtaken' # {}
  BY <1>2, PartType
<1>4. c \in overtaken'
  BY <1>1, <1>3 DEF WriteInv, Overtake
<1>5. pc'[c] = "write" /\ status'[c] = "failed"
  BY <1>1 DEF TypeOK, End
<1> QED
  BY <1>4, <1>5 DEF NotMixed

\* What a command writes has a default that resolves.
LEMMA ResultResolves ==
  ASSUME TypeOK, ConfigInv, ResolveInv, NotMixed,
         NEW c \in Command, pc[c] # "load"
  PROVE  Resolves(Result(c))
<1>1. /\ seen[c] \in Config /\ Resolves(seen[c])
      /\ seen[c].table # "malformed" /\ ~UpdatePanics(seen[c])
  BY DEF TypeOK, ConfigInv, ResolveInv, UpdatePanics
<1>2. op[c] = "setup" => opts[c] \in SetupOptions
  BY DEF TypeOK, ConfigInv
<1> QED
  BY <1>1, <1>2, ConfigAssumption, UpdateResolves, RevertResolves DEF Result

\* Every step keeps what commands work with resolved.
LEMMA NextResolve ==
  TypeOK /\ ConfigInv /\ WriteInv /\ ResolveInv /\ [Next]_vars => ResolveInv'
<1> SUFFICES ASSUME TypeOK, ConfigInv, WriteInv, ResolveInv, [Next]_vars, NotMixed'
             PROVE  /\ Decodes(file') => Resolves(Content(file'))
                    /\ Resolves(loaded')
                    /\ \A c \in Command : Resolves(seen'[c])
  BY DEF ResolveInv, Decodes, Content
<1> USE DEF command, daemon, history, Live
<1> DEFINE Resolved(f, l, s) == /\ Decodes(f) => Resolves(Content(f))
                                /\ Resolves(l)
                                /\ \A c \in Command : Resolves(s[c])
<1>1. NotMixed
  BY MixedStays
<1>2. Resolved(file, loaded, seen)
  BY <1>1 DEF ResolveInv
<1> SUFFICES Resolved(file', loaded', seen')
  OBVIOUS
<1>3. ASSUME NEW c \in Command, Start(c) \/ Refuse(c) \/ Crash(c)
      PROVE  Resolved(file', loaded', seen')
  BY <1>2, <1>3 DEF Start, Refuse, Crash
<1>4. ASSUME NEW c \in Command, CommandStep(c)
      PROVE  Resolved(file', loaded', seen')
  <2>1. CASE Load(c)
    <3>1. \A d \in Command : \/ seen'[d] = seen[d]
                             \/ seen'[d] = Content(file) /\ Decodes(file)
      BY <2>1 DEF TypeOK, Load
    <3> QED
      BY <1>2, <2>1, <3>1 DEF Load
  <2>2. CASE Create(c)
    <3>1. file' = file \/ ~Decodes(file')
      BY <2>2, EmptyType, FileOfType DEF Create, Decodes
    <3> QED
      BY <1>2, <2>2, <3>1 DEF Create
  <2>3. CASE Write(c)
    <3>1. pc[c] = "write"
      BY <2>3 DEF Write
    <3>2. Result(c) \in Config /\ Resolves(Result(c))
      BY <1>1, <3>1, ResultType, ResultResolves
    <3>3. Decodes(file') => Resolves(Content(file'))
      <4>1. CASE Overwrite(Result(c))
        BY <3>2, <4>1, FileOfType DEF Overwrite, Content
      <4>2. CASE OverwritePart(Result(c)) /\ End(c, "failed") /\ UNCHANGED pc
        BY <1>2, <2>3, <4>2, PartMixed DEF Decodes
      <4> QED
        BY <2>3, <4>1, <4>2 DEF Write
    <3> QED
      BY <1>2, <2>3, <3>3 DEF Write
  <2>4. CASE Dial(c) \/ Kill(c)
    BY <1>2, <2>4 DEF Dial, Kill
  <2> QED
    BY <1>4, <2>1, <2>2, <2>3, <2>4 DEF CommandStep
<1>5. CASE DaemonStop
  BY <1>2, <1>5 DEF DaemonStop
<1>6. CASE DaemonStart
  BY <1>2, <1>6 DEF DaemonStart, Readable, Decodes
<1>7. CASE DaemonReload
  BY <1>2, <1>7 DEF DaemonReload, Readable, Decodes
<1>8. CASE UserEdit
  <2>1. Resolves(Content(file'))
    BY <1>8, UserAssumption, FileOfType DEF UserEdit, Content
  <2> QED
    BY <1>2, <1>8, <2>1 DEF UserEdit
<1>9. CASE UNCHANGED vars
  BY <1>2, <1>9 DEF vars
<1> QED
  BY <1>3, <1>4, <1>5, <1>6, <1>7, <1>8, <1>9 DEF Next

-----------------------------------------------------------------------------
(* The user's settings                                                     *)

\* Every step keeps the user's settings where they should be.
LEMMA NextUser ==
  TypeOK /\ ConfigInv /\ WriteInv /\ UserInv /\ [Next]_vars => UserInv'
<1> SUFFICES ASSUME TypeOK, ConfigInv, WriteInv, UserInv, [Next]_vars
             PROVE  UserInv'
  OBVIOUS
<1> USE DEF command, daemon, history, Live
<1>1. ASSUME NEW c \in Command, Start(c)
      PROVE  UserInv'
  BY <1>1 DEF TypeOK, ConfigInv, UserInv, Start
<1>2. ASSUME NEW c \in Command, Refuse(c)
      PROVE  UserInv'
  BY <1>2 DEF TypeOK, UserInv, Refuse, End
<1>3. ASSUME NEW c \in Command, CommandStep(c)
      PROVE  UserInv'
  <2>1. CASE Load(c)
    <3>1. CASE Decodes(file) /\ ~Panics(c, Content(file))
               /\ seen' = [seen EXCEPT ![c] = Content(file)]
               /\ Goto(c, "create") /\ UNCHANGED status
      BY <2>1, <3>1 DEF TypeOK, UserInv, Load, Goto
    <3>2. CASE End(c, "failed") /\ UNCHANGED << seen, pc >>
      BY <2>1, <3>2 DEF TypeOK, UserInv, Load, End
    <3> QED
      BY <2>1, <3>1, <3>2 DEF Load
  <2>2. CASE Create(c)
    <3>1. CASE file' = FileOf("empty", EmptyConfig) /\ Overtake(Command \ {c})
               /\ Goto(c, "write") /\ UNCHANGED << status, edits, user >>
      <4>1. ~Decodes(file')
        BY <3>1, EmptyType, FileOfType DEF Decodes
      <4> QED
        BY <2>2, <3>1, <4>1 DEF TypeOK, UserInv, Create, Overtake, Goto
    <3>2. CASE End(c, "failed") /\ UNCHANGED << file, pc, history >>
      BY <2>2, <3>2 DEF TypeOK, UserInv, Create, End
    <3> QED
      BY <2>2, <3>1, <3>2 DEF Create
  <2>3. CASE Write(c)
    <3>1. pc[c] = "write" /\ Live(c)
      BY <2>3 DEF Write
    <3>2. Result(c) \in Config /\ UserPart(Result(c)) = UserPart(seen[c])
      BY <3>1, ResultType
    <3>3. overtaken' = {} /\ Decodes(file') => UserPart(Content(file')) = user
      <4>1. CASE Overwrite(Result(c))
        <5>1. overtaken' = {} => overtaken = {}
          BY <2>3 DEF Write, Overtake
        <5>2. Content(file') = Result(c)
          BY <3>2, <4>1, FileOfType DEF Overwrite, Content
        <5> QED
          BY <3>1, <3>2, <5>1, <5>2 DEF UserInv
      <4>2. CASE OverwritePart(Result(c)) /\ End(c, "failed") /\ UNCHANGED pc
        BY <2>3, <4>2, PartMixed DEF UserInv, Write, Overtake, Decodes
      <4> QED
        BY <2>3, <4>1, <4>2 DEF Write
    <3>4. user' = user
      BY <2>3 DEF Write
    <3> QED
      BY <2>3, <3>3, <3>4 DEF TypeOK, UserInv, Write, Overtake, End, Goto
  <2>4. CASE Dial(c)
    BY <2>4 DEF TypeOK, UserInv, Dial, Retry, End, Goto
  <2>5. CASE Kill(c)
    BY <2>5 DEF TypeOK, UserInv, Kill, Retry, End, Goto
  <2> QED
    BY <1>3, <2>1, <2>2, <2>3, <2>4, <2>5 DEF CommandStep
<1>4. ASSUME NEW c \in Command, Crash(c)
      PROVE  UserInv'
  BY <1>4 DEF TypeOK, UserInv, Crash, End
<1>5. CASE DaemonStop
  BY <1>5 DEF UserInv, DaemonStop
<1>6. CASE DaemonStart
  BY <1>6 DEF UserInv, DaemonStart
<1>7. CASE DaemonReload
  BY <1>7 DEF UserInv, DaemonReload
<1>8. CASE UserEdit
  <2>1. UserPart(Content(file')) = user'
    BY <1>8, UserAssumption, FileOfType DEF UserEdit, Content
  <2>2. overtaken' = {} =>
          \A c \in Command : ~(Live(c) /\ pc[c] \in {"create", "write"})
    BY <1>8 DEF UserEdit, Overtake
  <2> QED
    BY <1>8, <2>1, <2>2 DEF UserInv, UserEdit
<1>9. CASE UNCHANGED vars
  BY <1>9 DEF UserInv, vars
<1> QED
  BY <1>1, <1>2, <1>3, <1>4, <1>5, <1>6, <1>7, <1>8, <1>9 DEF Next

-----------------------------------------------------------------------------
(* The file                                                                *)

\* Every step keeps the file as its writer left it, or marks the writer as
\* overtaken.
LEMMA NextWrite == TypeOK /\ ConfigInv /\ WriteInv /\ [Next]_vars => WriteInv'
<1> SUFFICES ASSUME TypeOK, ConfigInv, WriteInv, [Next]_vars
             PROVE  WriteInv'
  OBVIOUS
<1> USE DEF command, daemon, history, Live
<1>1. ASSUME NEW c \in Command, Start(c)
      PROVE  WriteInv'
  BY <1>1 DEF TypeOK, ConfigInv, WriteInv, Start
<1>2. ASSUME NEW c \in Command, Refuse(c)
      PROVE  WriteInv'
  BY <1>2 DEF TypeOK, WriteInv, Refuse, End
<1>3. ASSUME NEW c \in Command, CommandStep(c)
      PROVE  WriteInv'
  <2>1. CASE Load(c)
    BY <2>1 DEF TypeOK, WriteInv, Load, End, Goto
  <2>2. CASE Create(c)
    <3>1. CASE file' = FileOf("empty", EmptyConfig)
      BY <3>1, EmptyType, FileOfType DEF WriteInv
    <3>2. CASE End(c, "failed") /\ UNCHANGED << file, pc, history >>
      BY <2>2, <3>2 DEF TypeOK, WriteInv, Create, End
    <3> QED
      BY <2>2, <3>1, <3>2 DEF Create
  <2>3. CASE Write(c)
    BY <2>3 DEF TypeOK, WriteInv, Write, Overtake, End, Goto
  <2>4. CASE Dial(c)
    BY <2>4 DEF TypeOK, WriteInv, Dial, Retry, End, Goto
  <2>5. CASE Kill(c)
    BY <2>5 DEF TypeOK, WriteInv, Kill, Retry, End, Goto
  <2> QED
    BY <1>3, <2>1, <2>2, <2>3, <2>4, <2>5 DEF CommandStep
<1>4. ASSUME NEW c \in Command, Crash(c)
      PROVE  WriteInv'
  BY <1>4 DEF TypeOK, WriteInv, Crash, End
<1>5. CASE DaemonStop \/ DaemonStart \/ DaemonReload
  BY <1>5 DEF WriteInv, DaemonStop, DaemonStart, DaemonReload
<1>6. CASE UserEdit
  BY <1>6 DEF WriteInv, UserEdit, Overtake
<1>7. CASE UNCHANGED vars
  BY <1>7 DEF WriteInv, vars
<1> QED
  BY <1>1, <1>2, <1>3, <1>4, <1>5, <1>6, <1>7 DEF Next

\* Every step keeps a broken file explained.
LEMMA NextBroken ==
  TypeOK /\ ConfigInv /\ WriteInv /\ BrokenFileExplained /\ [Next]_vars
    => BrokenFileExplained'
<1> SUFFICES ASSUME TypeOK, ConfigInv, WriteInv, BrokenFileExplained, [Next]_vars
             PROVE  BrokenFileExplained'
  OBVIOUS
<1> USE DEF command, daemon, history
<1>1. ASSUME NEW c \in Command, Start(c) \/ Refuse(c) \/ Crash(c)
      PROVE  BrokenFileExplained'
  BY <1>1 DEF BrokenFileExplained, Start, Refuse, Crash
<1>2. ASSUME NEW c \in Command, CommandStep(c)
      PROVE  BrokenFileExplained'
  <2>1. CASE Load(c)
    BY <2>1 DEF TypeOK, BrokenFileExplained, Load, Goto
  <2>2. CASE Create(c)
    <3>1. CASE file' = FileOf("empty", EmptyConfig) /\ Goto(c, "write")
      BY <3>1, EmptyType, FileOfType DEF TypeOK, BrokenFileExplained, Goto
    <3>2. CASE UNCHANGED << file, pc, history >>
      BY <3>2 DEF BrokenFileExplained
    <3> QED
      BY <2>2, <3>1, <3>2 DEF Create
  <2>3. CASE Write(c)
    <3>1. Live(c) /\ pc[c] = "write" /\ Overtake(Command \ {c})
      BY <2>3 DEF Write
    <3>2. CASE Overwrite(Result(c)) /\ Goto(c, "dial")
      <4>1. file'.state \in {"config", "trailing"}
        BY <3>2 DEF Overwrite, FileOf
      <4>2. file'.state = "trailing" => file.state # "empty"
        BY <3>2 DEF Overwrite, FileOf
      <4>3. file.state # "empty" => overtaken' # {}
        BY <3>1 DEF WriteInv, Overtake
      <4> QED
        BY <4>1, <4>2, <4>3 DEF BrokenFileExplained
    <3>3. CASE OverwritePart(Result(c)) /\ End(c, "failed") /\ UNCHANGED pc
      BY <2>3, <3>1, <3>3, PartMixed DEF BrokenFileExplained, Overtake
    <3> QED
      BY <2>3, <3>2, <3>3 DEF Write
  <2>4. CASE Dial(c)
    BY <2>4 DEF TypeOK, BrokenFileExplained, Dial, Retry, Goto
  <2>5. CASE Kill(c)
    BY <2>5 DEF TypeOK, BrokenFileExplained, Kill, Retry, Goto
  <2> QED
    BY <1>2, <2>1, <2>2, <2>3, <2>4, <2>5 DEF CommandStep
<1>3. CASE DaemonStop \/ DaemonStart \/ DaemonReload
  BY <1>3 DEF BrokenFileExplained, DaemonStop, DaemonStart, DaemonReload
<1>4. CASE UserEdit
  BY <1>4, UserAssumption, FileOfType DEF BrokenFileExplained, UserEdit
<1>5. CASE UNCHANGED vars
  BY <1>5 DEF BrokenFileExplained, vars
<1> QED
  BY <1>1, <1>2, <1>3, <1>4, <1>5 DEF Next

-----------------------------------------------------------------------------
(* The daemon                                                              *)

\* Steps of one command that keep its file, or move to "dial", keep every
\* command that answers for the file.
LEMMA PendingKept ==
  ASSUME TypeOK, ConfigInv, DaemonFollowsFile, NotMixed, NEW c \in Command,
         UNCHANGED << file, dockerd, loaded, op, opts, seen >>,
         hup' = hup,
         \A d \in Command \ {c} : pc'[d] = pc[d] /\ status'[d] = status[d],
         pc[c] \in {"dial", "kill"}
           => pc'[c] \in {"dial", "kill"} /\ status'[c] # "ok"
  PROVE  DaemonFollowsFile'
BY DEF DaemonFollowsFile, Behind, Readable, Content, Result

\* Every step keeps dockerd and its file together, up to a command that
\* answers for the difference.
LEMMA NextFollows ==
  TypeOK /\ ConfigInv /\ WriteInv /\ DaemonFollowsFile /\ [Next]_vars
    => DaemonFollowsFile'
<1> SUFFICES ASSUME TypeOK, ConfigInv, WriteInv, DaemonFollowsFile, [Next]_vars,
                    NotMixed'
             PROVE  DaemonFollowsFile'
  BY DEF DaemonFollowsFile
<1> USE DEF command, daemon, history
<1>9. NotMixed
  BY MixedStays
<1>1. ASSUME NEW c \in Command, Start(c)
      PROVE  DaemonFollowsFile'
  <2>1. pc[c] = "load"
    BY <1>1 DEF ConfigInv, Start
  <2>2. \A d \in Command \ {c} : op'[d] = op[d] /\ opts'[d] = opts[d]
    BY <1>1 DEF TypeOK, Start
  <2>3. \A d \in Command \ {c} : Result(d)' = Result(d)
    BY <1>1, <2>2 DEF Start, Result
  <2> QED
    BY <1>1, <1>9, <2>1, <2>3
       DEF TypeOK, DaemonFollowsFile, Behind, Start, Readable, Content
<1>2. ASSUME NEW c \in Command, Refuse(c) \/ Crash(c)
      PROVE  DaemonFollowsFile'
  BY <1>2, <1>9, PendingKept DEF TypeOK, Refuse, Crash, End
<1>3. ASSUME NEW c \in Command, CommandStep(c)
      PROVE  DaemonFollowsFile'
  <2>1. CASE Load(c)
    <3>1. \A d \in Command \ {c} : seen'[d] = seen[d]
      BY <2>1 DEF TypeOK, Load
    <3>2. \A d \in Command \ {c} : Result(d)' = Result(d)
      BY <2>1, <3>1 DEF Load, Result
    <3> QED
      BY <1>9, <2>1, <3>2
         DEF TypeOK, DaemonFollowsFile, Behind, Load, Readable, Content, End, Goto
  <2>2. CASE Create(c)
    <3>1. CASE file' = FileOf("empty", EmptyConfig)
      BY <3>1, EmptyType, FileOfType DEF DaemonFollowsFile, Behind, Readable
    <3>2. CASE End(c, "failed") /\ UNCHANGED << file, pc, history >>
      BY <2>2, <3>2, <1>9, PendingKept DEF TypeOK, Create, End
    <3> QED
      BY <2>2, <3>1, <3>2 DEF Create
  <2>3. CASE Write(c)
    <3>1. pc[c] = "write" /\ Live(c)
      BY <2>3 DEF Write
    <3>2. Result(c) \in Config
      BY <3>1, ResultType
    <3>3. Result(c)' = Result(c)
      BY <2>3 DEF Write, Result
    <3>4. CASE Overwrite(Result(c)) /\ Goto(c, "dial") /\ UNCHANGED status
      <4>1. Content(file)' = Result(c)
        BY <3>2, <3>4, FileOfType DEF Overwrite, Content
      <4> QED
        BY <3>1, <3>3, <3>4, <4>1 DEF TypeOK, DaemonFollowsFile, Behind, Goto, Live
    <3>5. CASE OverwritePart(Result(c)) /\ End(c, "failed") /\ UNCHANGED pc
      <4>1. CASE file' = file
        BY <1>9, <2>3, <3>1, <3>5, <4>1, PendingKept DEF TypeOK, Write, End
      <4>2. CASE file'.state = "torn"
        BY <4>2 DEF DaemonFollowsFile, Behind, Readable
      <4> QED
        BY <2>3, <3>5, <4>1, <4>2, PartMixed
    <3> QED
      BY <2>3, <3>4, <3>5 DEF Write
  <2>4. CASE Dial(c)
    BY <2>4, <1>9, PendingKept DEF TypeOK, Dial, Retry, End, Goto, Live
  <2>5. CASE Kill(c)
    <3>1. CASE hup' = 1
      BY <3>1 DEF DaemonFollowsFile, Behind
    <3>2. CASE Retry(c) /\ UNCHANGED hup
      BY <2>5, <3>2, <1>9, PendingKept DEF TypeOK, Kill, Retry, End, Goto, Live
    <3>3. CASE End(c, "killed") /\ UNCHANGED << pc, attempt, hup >>
      BY <2>5, <3>3, <1>9, PendingKept DEF TypeOK, Kill, End
    <3> QED
      BY <2>5, <3>1, <3>2, <3>3 DEF Kill
  <2> QED
    BY <1>3, <2>1, <2>2, <2>3, <2>4, <2>5 DEF CommandStep
<1>4. CASE DaemonStop
  BY <1>4, <1>9 DEF DaemonFollowsFile, Behind, DaemonStop
<1>5. CASE DaemonStart
  BY <1>5 DEF DaemonFollowsFile, Behind, DaemonStart, Content
<1>6. CASE DaemonReload
  BY <1>6 DEF DaemonFollowsFile, Behind, DaemonReload, Readable, Content
<1>7. CASE UserEdit
  BY <1>7 DEF DaemonFollowsFile, Behind, UserEdit
<1>8. CASE UNCHANGED vars
  BY <1>8, <1>9 DEF DaemonFollowsFile, Behind, vars, Readable, Content, Result
<1> QED
  BY <1>1, <1>2, <1>3, <1>4, <1>5, <1>6, <1>7, <1>8 DEF Next

-----------------------------------------------------------------------------
(* The author of the file                                                  *)

\* An author stays one while the file and dockerd stay as they are, if it goes
\* on to SignalDocker or ends otherwise than well.
LEMMA AuthorKept ==
  ASSUME AuthorInv, NEW c \in Command,
         UNCHANGED << file, dockerd, loaded, hup, overtaken, author >>,
         \A d \in Command \ {c} :
           pc'[d] = pc[d] /\ status'[d] = status[d] /\ Result(d)' = Result(d),
         pc[c] \in {"dial", "kill"} =>
           /\ pc'[c] \in {"dial", "kill"} /\ Result(c)' = Result(c)
           /\ status'[c] # "ok"
  PROVE  AuthorInv'
BY DEF AuthorInv, Behind, Readable, Content

\* Steps of dockerd do not put it behind its file.
LEMMA AuthorFollowed ==
  ASSUME AuthorInv, UNCHANGED << file, overtaken, author, pc, status, seen, op,
                                 opts >>,
         ~Behind'
  PROVE  AuthorInv'
BY DEF AuthorInv, Result

\* Every step keeps the file the author's.
LEMMA NextAuthor ==
  TypeOK /\ ConfigInv /\ WriteInv /\ AuthorInv /\ [Next]_vars => AuthorInv'
<1> SUFFICES ASSUME TypeOK, ConfigInv, WriteInv, AuthorInv, [Next]_vars
             PROVE  AuthorInv'
  OBVIOUS
<1> USE DEF command, daemon, history
<1>1. ASSUME NEW c \in Command, Start(c)
      PROVE  AuthorInv'
  <2>1. pc[c] = "load"
    BY <1>1 DEF ConfigInv, Start
  <2>2. \A d \in Command \ {c} :
          op'[d] = op[d] /\ opts'[d] = opts[d] /\ status'[d] = status[d]
    BY <1>1 DEF TypeOK, Start
  <2> QED
    BY <1>1, <2>1, <2>2, AuthorKept DEF Start, Result
<1>2. ASSUME NEW c \in Command, Refuse(c) \/ Crash(c)
      PROVE  AuthorInv'
  BY <1>2, AuthorKept DEF TypeOK, Refuse, Crash, End, Result
<1>3. ASSUME NEW c \in Command, CommandStep(c)
      PROVE  AuthorInv'
  <2>1. CASE Load(c)
    <3>1. \A d \in Command \ {c} : seen'[d] = seen[d]
      BY <2>1 DEF TypeOK, Load
    <3> QED
      BY <2>1, <3>1, AuthorKept DEF TypeOK, Load, Result, End, Goto
  <2>2. CASE Create(c)
    <3>1. CASE author' = None
      BY <3>1, NoneAssumption DEF AuthorInv
    <3>2. CASE End(c, "failed") /\ UNCHANGED << file, pc, history >>
      BY <2>2, <3>2, AuthorKept DEF TypeOK, Create, Result, End
    <3> QED
      BY <2>2, <3>1, <3>2 DEF Create
  <2>3. CASE Write(c)
    <3>1. /\ pc[c] = "write" /\ Live(c)
          /\ overtaken' = overtaken \cup
               {d \in Command \ {c} : Live(d) /\ pc[d] \in {"create", "write"}}
      BY <2>3 DEF Write, Overtake
    <3>2. CASE /\ Overwrite(Result(c)) /\ author' = c
               /\ Goto(c, "dial") /\ UNCHANGED status
      <4>1. c \notin overtaken => file.state = "empty"
        BY <3>1 DEF WriteInv
      <4>2. c \notin overtaken => file' = FileOf("config", Result(c))
        BY <3>2, <4>1 DEF Overwrite
      <4>3. Result(c)' = Result(c)
        BY <2>3 DEF Write, Result
      <4> QED
        BY <3>1, <3>2, <4>2, <4>3 DEF TypeOK, AuthorInv, Goto, Live
    <3>3. CASE author' = None
      BY <3>3, NoneAssumption DEF AuthorInv
    <3> QED
      BY <2>3, <3>2, <3>3 DEF Write
  <2>4. CASE Dial(c)
    BY <2>4, AuthorKept DEF TypeOK, Dial, Retry, Result, End, Goto, Live
  <2>5. CASE Kill(c)
    <3>1. CASE hup' = 1 /\ End(c, "ok") /\ UNCHANGED << pc, attempt >>
      <4>1. ~Behind'
        BY <3>1 DEF Behind
      <4>2. \A d \in Command : Result(d)' = Result(d)
        BY <2>5 DEF Kill, Result
      <4> QED
        BY <2>5, <3>1, <4>1, <4>2 DEF AuthorInv, Kill
    <3>2. CASE Retry(c) /\ UNCHANGED hup
      BY <2>5, <3>2, AuthorKept DEF TypeOK, Kill, Retry, Result, End, Goto, Live
    <3>3. CASE End(c, "killed") /\ UNCHANGED << pc, attempt, hup >>
      BY <2>5, <3>3, AuthorKept DEF TypeOK, Kill, Result, End
    <3> QED
      BY <2>5, <3>1, <3>2, <3>3 DEF Kill
  <2> QED
    BY <1>3, <2>1, <2>2, <2>3, <2>4, <2>5 DEF CommandStep
<1>4. CASE DaemonStop
  BY <1>4, AuthorFollowed DEF DaemonStop, Behind
<1>5. CASE DaemonStart
  BY <1>5, AuthorFollowed DEF DaemonStart, Behind, Content
<1>6. CASE DaemonReload
  BY <1>6, AuthorFollowed DEF DaemonReload, Behind, Readable, Content
<1>7. CASE UserEdit
  BY <1>7, NoneAssumption DEF AuthorInv, UserEdit
<1>8. CASE UNCHANGED vars
  BY <1>8 DEF AuthorInv, Behind, Readable, Content, Result, vars
<1> QED
  BY <1>1, <1>2, <1>3, <1>4, <1>5, <1>6, <1>7, <1>8 DEF Next

-----------------------------------------------------------------------------
(* The theorems                                                            *)

\* Initially nothing is under way, and dockerd has read a file it can read.
LEMMA InitInv == Init => TypeOK /\ IInv /\ DaemonFollowsFile
<1> SUFFICES ASSUME Init
             PROVE  TypeOK /\ IInv /\ DaemonFollowsFile
  OBVIOUS
<1>1. file \in File /\ Content(file) \in Config /\ Resolves(Content(file))
  BY FileAssumption, ContentType DEF Init
<1>2. TypeOK
  BY <1>1, EmptyType, AttemptsAssumption, EditsAssumption
     DEF Init, TypeOK, Status, Pc
<1>3. ConfigInv
  BY <1>1, EmptyType DEF Init, ConfigInv, Live
<1>4. UserInv /\ WriteInv /\ AuthorInv
  BY NoneAssumption DEF Init, UserInv, WriteInv, AuthorInv, Live
<1>6. ResolveInv
  BY <1>1, EmptyType DEF Init, ResolveInv
<1>5. DaemonFollowsFile
  BY DEF Init, DaemonFollowsFile, Behind
<1> QED
  BY <1>2, <1>3, <1>4, <1>5, <1>6 DEF IInv

\* The inductive invariant: what commands hold between LoadConfig and
\* FlushConfig has a default that resolves and the user's settings, and the file
\* is as they left it, unless they were overtaken.
THEOREM Invariance == Spec => [](TypeOK /\ IInv)
<1>1. TypeOK /\ IInv /\ [Next]_vars => (TypeOK /\ IInv)'
  BY NextType, NextConfig, NextResolve, NextUser, NextWrite, NextAuthor DEF IInv
<1> QED
  BY InitInv, <1>1, PTL DEF Spec

\* Every variable has its type in every reachable state.
THEOREM TypeCorrect == Spec => []TypeOK
BY Invariance, PTL

\* Neither the file nor dockerd ever has a default runtime that is not
\* registered (UpdateConfig, RevertConfig), unless a command failed to write all
\* of its text over another's.
THEOREM DefaultAlwaysResolves == Spec => []DefaultResolves
<1>1. ResolveInv => DefaultResolves
  BY DEF ResolveInv, DefaultResolves, Decodes, Content
<1>2. IInv => ResolveInv
  BY DEF IInv
<1> QED
  BY Invariance, <1>1, <1>2, PTL

\* The user's keys and runtimes survive every mix of commands in which no
\* command is overtaken between LoadConfig and FlushConfig.
THEOREM UserSettingsAreKept == Spec => []UserSettingsKept
<1>1. IInv => UserSettingsKept
  BY DEF IInv, UserInv, UserSettingsKept, Decodes, Content
<1> QED
  BY Invariance, <1>1, PTL

\* On a node that starts with no file or a sound one, a file that cannot be
\* decoded is one a command was about to write or failed to write (FlushConfig).
THEOREM BrokenFileIsExplained ==
  ASSUME \A f \in InitialFile : f.state \in {"missing", "config"}
  PROVE  Spec => []BrokenFileExplained
<1>1. Init => BrokenFileExplained
  BY DEF Init, BrokenFileExplained
<1>2. TypeOK /\ IInv /\ BrokenFileExplained /\ [Next]_vars
        => BrokenFileExplained'
  BY NextBroken DEF IInv
<1> QED
  BY Invariance, <1>1, <1>2, PTL DEF Spec

\* A running dockerd works with the file, has been told to reload it, or a
\* command that has not ended well answers for the difference (Setup, Cleanup),
\* unless the file may be a mixture.
THEOREM DaemonFollows == Spec => []DaemonFollowsFile
<1>1. Init => DaemonFollowsFile
  BY InitInv
<1>2. TypeOK /\ IInv /\ DaemonFollowsFile /\ [Next]_vars => DaemonFollowsFile'
  BY NextFollows DEF IInv
<1> QED
  BY Invariance, <1>1, <1>2, PTL DEF Spec

\* A command that nobody overtook and that reports success has done what it is
\* for: the file has it, and so has dockerd, until somebody touches the file
\* (Setup and Cleanup as a whole).
THEOREM SuccessIsEffective == Spec => []SuccessTakesEffect
<1>1. TypeOK /\ IInv => SuccessTakesEffect
  <2> SUFFICES ASSUME TypeOK, ConfigInv, AuthorInv, NEW c \in Command,
                      author = c, status[c] = "ok", c \notin overtaken
               PROVE  /\ file.state = "config" /\ Done(c, file.cfg)
                      /\ dockerd = "up" /\ hup = 0 /\ Readable(file)
                           => Done(c, loaded)
    BY DEF IInv, SuccessTakesEffect
  <2>1. pc[c] # "load" /\ file = FileOf("config", Result(c)) /\ ~Behind
    BY DEF AuthorInv
  <2>2. file.state = "config" /\ file.cfg = Result(c)
    BY <2>1, ResultType, FileOfType
  <2>3. Done(c, Result(c))
    <3>1. seen[c] \in Config
      BY DEF TypeOK
    <3>2. CASE op[c] = "setup"
      <4>1. opts[c] \in Options
        BY <2>1, <3>2, ConfigAssumption DEF ConfigInv
      <4> QED
        BY <3>1, <3>2, <4>1, UpdateInForce DEF Done, Result
    <3>3. CASE op[c] # "setup"
      BY <3>1, <3>3, RevertOutOfForce DEF Done, Result
    <3> QED
      BY <3>2, <3>3
  <2>4. dockerd = "up" /\ hup = 0 /\ Readable(file) => loaded = Result(c)
    BY <2>1, <2>2 DEF Behind, Content
  <2> QED
    BY <2>2, <2>3, <2>4
<1> QED
  BY Invariance, <1>1, PTL

-----------------------------------------------------------------------------
(* The way to the end                                                      *)

\* The number of steps left is a number.
LEMMA StepsType ==
  ASSUME TypeOK, NEW c \in Command
  PROVE  StepsLeft(c) \in Nat /\ (Live(c) => StepsLeft(c) # 0)
<1>1. /\ attempt[c] \in Nat /\ attempt[c] < MaxReloadAttempts
      /\ MaxReloadAttempts \in Nat
  BY AttemptsAssumption DEF TypeOK
<1> QED
  BY <1>1 DEF StepsLeft, Live

\* A failed attempt leaves fewer steps than there were with the number of the
\* process, and than there were without it.
LEMMA RetryCounts ==
  ASSUME TypeOK, NEW c \in Command, Live(c), pc[c] \in {"dial", "kill"}, Retry(c)
  PROVE  StepsLeft(c)' < StepsLeft(c)
<1>1. attempt[c] \in Nat /\ attempt[c] < MaxReloadAttempts
      /\ MaxReloadAttempts \in Nat
  BY AttemptsAssumption DEF TypeOK
<1>2. CASE attempt[c] = MaxReloadAttempts - 1
  <2>1. StepsLeft(c)' = 0
    BY <1>2 DEF TypeOK, Retry, End, StepsLeft, Live
  <2>2. StepsLeft(c) \in Nat \ {0}
    BY <1>1 DEF StepsLeft, Live
  <2> QED
    BY <2>1, <2>2
<1>3. CASE attempt[c] # MaxReloadAttempts - 1
  <2>1. /\ attempt'[c] = attempt[c] + 1 /\ pc'[c] = "dial"
        /\ status'[c] = "live"
    BY <1>3 DEF TypeOK, Retry, Goto, Live
  <2>2. StepsLeft(c)' = 2 * (MaxReloadAttempts - (attempt[c] + 1))
    BY <2>1 DEF StepsLeft, Live
  <2>3. StepsLeft(c) \in {2 * (MaxReloadAttempts - attempt[c]),
                          2 * (MaxReloadAttempts - attempt[c]) - 1}
    BY DEF StepsLeft, Live
  <2> QED
    BY <1>1, <2>2, <2>3
<1> QED
  BY <1>2, <1>3

\* Every step of a command leaves it fewer.
LEMMA StepCounts ==
  ASSUME TypeOK, NEW c \in Command, CommandStep(c)
  PROVE  StepsLeft(c)' < StepsLeft(c)
<1>1. attempt[c] \in Nat /\ attempt[c] < MaxReloadAttempts
      /\ MaxReloadAttempts \in Nat
  BY AttemptsAssumption DEF TypeOK
<1>2. Live(c) => StepsLeft(c) \in Nat \ {0}
  BY <1>1 DEF StepsLeft, Live
<1>3. ASSUME Live(c), status'[c] \in {"ok", "failed", "killed"}
      PROVE  StepsLeft(c)' < StepsLeft(c)
  <2>1. StepsLeft(c)' = 0
    BY <1>3 DEF StepsLeft, Live
  <2> QED
    BY <1>2, <1>3, <2>1
<1>4. CASE Load(c)
  BY <1>1, <1>3, <1>4 DEF TypeOK, Load, End, Goto, StepsLeft, Live
<1>5. CASE Create(c)
  BY <1>1, <1>3, <1>5 DEF TypeOK, Create, End, Goto, StepsLeft, Live
<1>6. CASE Write(c)
  BY <1>1, <1>3, <1>6 DEF TypeOK, Write, End, Goto, StepsLeft, Live
<1>7. CASE Dial(c)
  BY <1>1, <1>7, RetryCounts DEF TypeOK, Dial, Goto, StepsLeft, Live
<1>8. CASE Kill(c)
  BY <1>3, <1>8, RetryCounts DEF TypeOK, Kill, End
<1> QED
  BY <1>4, <1>5, <1>6, <1>7, <1>8 DEF CommandStep

\* Nobody sets a command back.
LEMMA NextCounts ==
  ASSUME TypeOK, ConfigInv, [Next]_vars, TypeOK', NEW c \in Command
  PROVE  StepsLeft(c)' <= StepsLeft(c)
<1> USE DEF command
<1>1. StepsLeft(c) \in Nat
  BY StepsType
<1>2. StepsLeft(c)' \in Nat
  <2>1. /\ attempt'[c] \in Nat /\ attempt'[c] < MaxReloadAttempts
        /\ MaxReloadAttempts \in Nat
    BY AttemptsAssumption DEF TypeOK
  <2> QED
    BY <2>1 DEF StepsLeft, Live
<1>3. CASE UNCHANGED << status[c], pc[c], attempt[c] >>
  <2>1. StepsLeft(c)' = StepsLeft(c)
    BY <1>3 DEF StepsLeft, Live
  <2> QED
    BY <1>1, <2>1
<1>4. CASE status'[c] \in {"ok", "failed", "killed"}
  <2>1. StepsLeft(c)' = 0
    BY <1>4 DEF StepsLeft, Live
  <2> QED
    BY <1>1, <2>1
<1>5. ASSUME NEW d \in Command,
             Start(d) \/ Refuse(d) \/ CommandStep(d) \/ Crash(d)
      PROVE  StepsLeft(c)' <= StepsLeft(c)
  <2>1. CASE d # c
    <3>1. UNCHANGED << status[c], pc[c], attempt[c] >>
      BY <1>5, <2>1
         DEF TypeOK, Start, Refuse, CommandStep, Crash, Load, Create, Write,
             Dial, Kill, Retry, End, Goto
    <3> QED
      BY <1>3, <3>1
  <2>2. CASE d = c /\ Start(c)
    BY <2>2, AttemptsAssumption DEF TypeOK, ConfigInv, Start, StepsLeft, Live
  <2>3. CASE d = c /\ (Refuse(c) \/ Crash(c))
    BY <1>4, <2>3 DEF TypeOK, Refuse, Crash, End
  <2>4. CASE d = c /\ CommandStep(c)
    BY <1>1, <1>2, <2>4, StepCounts
  <2> QED
    BY <1>5, <2>1, <2>2, <2>3, <2>4
<1>6. CASE DaemonStop \/ DaemonStart \/ DaemonReload \/ UserEdit \/ UNCHANGED vars
  BY <1>3, <1>6
     DEF DaemonStop, DaemonStart, DaemonReload, UserEdit, vars
<1> QED
  BY <1>5, <1>6 DEF Next

\* A command that reports that it could not signal dockerd was at its last
\* attempt and did not.
LEMMA GivesUp ==
  ASSUME TypeOK, ConfigInv, [Next]_vars, NEW c \in Command,
         pc[c] \in {"dial", "kill"},
         status[c] # "failed", status'[c] = "failed"
  PROVE  StepsLeft(c) <= 2 /\ hup' = hup
<1> USE DEF command, daemon, history, Live
<1>1. /\ attempt[c] \in Nat /\ attempt[c] < MaxReloadAttempts
      /\ MaxReloadAttempts \in Nat
  BY AttemptsAssumption DEF TypeOK
<1>2. ASSUME NEW d \in Command,
             Start(d) \/ Refuse(d) \/ CommandStep(d) \/ Crash(d)
      PROVE  StepsLeft(c) <= 2 /\ hup' = hup
  <2>1. CASE d # c
    <3>1. status'[c] = status[c]
      BY <1>2, <2>1
         DEF TypeOK, Start, Refuse, CommandStep, Crash, Load, Create, Write,
             Dial, Kill, Retry, End, Goto
    <3> QED
      BY <3>1
  <2>2. CASE d = c /\ status[c] = "live"
    <3>1. \/ Dial(c) /\ Retry(c)
          \/ Kill(c) /\ Retry(c) /\ UNCHANGED hup
      BY <1>2, <2>2 DEF TypeOK, Start, Refuse, CommandStep, Crash, Load, Create,
                        Write, Dial, Kill, End
    <3>2. attempt[c] = MaxReloadAttempts - 1
      BY <2>2, <3>1 DEF TypeOK, Retry
    <3>3. StepsLeft(c) <= 2
      BY <1>1, <2>2, <3>2 DEF StepsLeft
    <3> QED
      BY <3>1, <3>3 DEF Dial
  <2>3. status[c] # "new"
    BY DEF ConfigInv
  <2> QED
    BY <1>2, <2>1, <2>2, <2>3
       DEF Start, Refuse, CommandStep, Crash, Load, Create, Write, Dial, Kill
<1>3. CASE DaemonStop \/ DaemonStart \/ DaemonReload \/ UserEdit \/ UNCHANGED vars
  BY <1>3 DEF DaemonStop, DaemonStart, DaemonReload, UserEdit, vars
<1> QED
  BY <1>2, <1>3 DEF Next

\* A command has at most 2 * maxReloadAttempts + 4 steps in all, however many
\* other commands, edits and restarts of dockerd come in between, and gives up
\* on dockerd only at the last attempt (SignalDocker).
THEOREM CommandsAdvance == Spec => NeverSetBack
<1>1. ASSUME TypeOK, IInv, [Next]_vars, TypeOK'
      PROVE  \A c \in Command :
               /\ StepsLeft(c)' <= StepsLeft(c)
               /\ CommandStep(c) => StepsLeft(c)' < StepsLeft(c)
               /\ pc[c] \in {"dial", "kill"} /\ status[c] # "failed"
                    /\ status'[c] = "failed"
                    => StepsLeft(c) <= 2 /\ hup' = hup
  BY <1>1, NextCounts, StepCounts, GivesUp DEF IInv
<1> QED
  BY <1>1, Invariance, PTL DEF Spec, NeverSetBack

-----------------------------------------------------------------------------
(* The promise                                                             *)

\* What stays the same in RuntimeConfig when only commands move.
LEMMA SameDaemon ==
  ASSUME UNCHANGED << file, dockerd, hup, loaded >>
  PROVE  Behind' = Behind
BY DEF Behind, Readable, Content

\* A step of one command moves that command's stage.
LEMMA Moves ==
  ASSUME NEW c \in Command, NEW from, NEW to, Stage(c) \in from, Stage(c)' = to,
         \A d \in Command \ {c} : pc'[d] = pc[d] /\ status'[d] = status[d]
  PROVE  Abstract!Move(c, from, to)
<1>1. \A d \in Command \ {c} : Stage(d)' = Stage(d)
  BY DEF Stage, Live
<1>2. stages' = [stages EXCEPT ![c] = to]
  BY <1>1 DEF stages
<1>3. stages[c] \in from
  BY DEF stages
<1> QED
  BY <1>2, <1>3 DEF Abstract!Move

\* A step in which the file changes disturbs the same commands.
LEMMA Changes ==
  ASSUME TypeOK, NEW cs \in SUBSET Command, Overtake(cs)
  PROVE  Abstract!Change(cs)
<1>1. \A c \in cs : stages[c] \in {"holding", "writing"}
                     <=> Live(c) /\ pc[c] \in {"create", "write"}
  BY DEF TypeOK, Status, stages, Stage, Live
<1> QED
  BY <1>1 DEF Overtake, Abstract!Change

\* Every step of a command is one of RuntimeConfig, short of the settings.
LEMMA CommandSimulation ==
  ASSUME TypeOK, IInv, NEW c \in Command,
         Start(c) \/ Refuse(c) \/ CommandStep(c) \/ Crash(c)
  PROVE  \/ Abstract!Begin(c) \/ Abstract!Read(c) \/ Abstract!Clear(c)
         \/ Abstract!Put(c) \/ Abstract!Report(c) \/ Abstract!Fail(c)
         \/ Abstract!FailWriting(c) \/ UNCHANGED Abstract!vars
<1> USE DEF TypeOK, command, daemon, history
<1>1. CASE Start(c)
  <2>1. Stage(c) = "new" /\ Stage(c)' = "reading"
    BY <1>1 DEF Start, Stage, Live, IInv, ConfigInv
  <2>2. Abstract!Move(c, {"new"}, "reading")
    BY <1>1, <2>1, Moves DEF Start
  <2> QED
    BY <1>1, <2>2, SameDaemon DEF Start, Abstract!Begin, Abstract!Leave
<1>2. ASSUME End(c, "failed") \/ End(c, "killed"), status[c] \in {"new", "live"},
             UNCHANGED << file, pc, dockerd, loaded, hup, overtaken, author >>
      PROVE  Abstract!Fail(c)
  <2>1. /\ Stage(c)' = "failed"
        /\ Stage(c) \in Abstract!Progress \ Abstract!Ended
    BY <1>2 DEF End, Stage, Live, Abstract!Progress, Abstract!Ended
  <2>2. Abstract!Move(c, Abstract!Progress \ Abstract!Ended, "failed")
    BY <1>2, <2>1, Moves DEF End
  <2> QED
    BY <1>2, <2>2, SameDaemon DEF Abstract!Fail
<1>3. CASE Refuse(c) \/ Crash(c)
  BY <1>2, <1>3 DEF Refuse, Crash, Live
<1>4. CASE Load(c)
  <2>1. CASE Goto(c, "create") /\ UNCHANGED status
    <3>1. Stage(c) = "reading" /\ Stage(c)' = "holding"
      BY <1>4, <2>1 DEF Load, Goto, Stage, Live
    <3>2. Abstract!Move(c, {"reading"}, "holding")
      BY <2>1, <3>1, Moves DEF Goto
    <3> QED
      BY <1>4, <3>2, SameDaemon DEF Load, Abstract!Read, Abstract!Leave
  <2>2. CASE End(c, "failed") /\ UNCHANGED << seen, pc >>
    BY <1>2, <1>4, <2>2 DEF Load, Live
  <2> QED
    BY <1>4, <2>1, <2>2 DEF Load
<1>5. CASE Create(c)
  <2>1. CASE /\ Overtake(Command \ {c}) /\ author' = None
             /\ Goto(c, "write") /\ UNCHANGED << status, edits, user >>
    <3>1. Stage(c) = "holding" /\ Stage(c)' = "writing"
      BY <1>5, <2>1 DEF Create, Goto, Stage, Live
    <3>2. Abstract!Move(c, {"holding"}, "writing")
      BY <2>1, <3>1, Moves DEF Goto
    <3> QED
      BY <2>1, <3>2, Changes DEF Abstract!Clear
  <2>2. CASE End(c, "failed") /\ UNCHANGED << file, pc, history >>
    BY <1>2, <1>5, <2>2 DEF Create, Live
  <2> QED
    BY <1>5, <2>1, <2>2 DEF Create
<1>6. CASE Write(c)
  <2>1. Abstract!Change(Command \ {c})
    BY <1>6, Changes DEF Write
  <2>2. CASE author' = c /\ Goto(c, "dial") /\ UNCHANGED status
    <3>1. Stage(c) \in {"holding", "writing"} /\ Stage(c)' = "telling"
      BY <1>6, <2>2 DEF Write, Goto, Stage, Live
    <3>2. Abstract!Move(c, {"holding", "writing"}, "telling")
      BY <2>2, <3>1, Moves DEF Goto
    <3> QED
      BY <2>1, <2>2, <3>2 DEF Abstract!Put
  <2>3. CASE author' = None /\ End(c, "failed") /\ UNCHANGED pc
    <3>1. Stage(c) \in {"writing"} /\ Stage(c)' = "failed"
      BY <1>6, <2>3 DEF Write, End, Stage, Live
    <3>2. Abstract!Move(c, {"writing"}, "failed")
      BY <2>3, <3>1, Moves DEF End
    <3> QED
      BY <2>1, <2>3, <3>2 DEF Abstract!FailWriting
  <2> QED
    BY <1>6, <2>2, <2>3 DEF Write
<1>7. ASSUME Retry(c), pc[c] \in {"dial", "kill"}, Live(c),
             UNCHANGED << file, user, dockerd, loaded, hup, overtaken, author >>
      PROVE  Abstract!Fail(c) \/ UNCHANGED Abstract!vars
  <2>1. CASE End(c, "failed") /\ UNCHANGED << pc, attempt >>
    BY <1>2, <1>7, <2>1 DEF Live
  <2>2. CASE Goto(c, "dial") /\ UNCHANGED status
    <3>1. \A d \in Command : Stage(d)' = Stage(d)
      BY <1>7, <2>2 DEF Goto, Stage, Live
    <3>2. stages' = stages /\ settings' = settings
      BY <1>7, <3>1 DEF stages, settings, Decodes, Content
    <3> QED
      BY <1>7, <3>2, SameDaemon DEF Abstract!vars
  <2> QED
    BY <1>7, <2>1, <2>2 DEF Retry
<1>8. CASE Dial(c)
  <2>1. CASE Goto(c, "kill") /\ UNCHANGED status
    <3>1. \A d \in Command : Stage(d)' = Stage(d)
      BY <1>8, <2>1 DEF Dial, Goto, Stage, Live
    <3>2. stages' = stages /\ settings' = settings
      BY <1>8, <3>1 DEF Dial, stages, settings, Decodes, Content
    <3> QED
      BY <1>8, <3>2, SameDaemon DEF Dial, Abstract!vars
  <2>2. CASE Retry(c)
    BY <1>7, <1>8, <2>2 DEF Dial
  <2> QED
    BY <1>8, <2>1, <2>2 DEF Dial
<1>9. CASE Kill(c)
  <2>1. CASE hup' = 1 /\ End(c, "ok") /\ UNCHANGED << pc, attempt >>
    <3>1. Stage(c) \in {"telling"} /\ Stage(c)' = "ok"
      BY <1>9, <2>1 DEF Kill, End, Stage, Live
    <3>2. Abstract!Move(c, {"telling"}, "ok")
      BY <2>1, <3>1, Moves DEF End
    <3>3. ~Behind'
      BY <2>1 DEF Behind
    <3> QED
      BY <1>9, <3>2, <3>3 DEF Kill, Abstract!Report, Abstract!Leave
  <2>2. CASE Retry(c) /\ UNCHANGED hup
    BY <1>7, <1>9, <2>2 DEF Kill
  <2>3. CASE End(c, "killed") /\ UNCHANGED << pc, attempt, hup >>
    BY <1>2, <1>9, <2>3 DEF Kill, Live
  <2> QED
    BY <1>9, <2>1, <2>2, <2>3 DEF Kill
<1> QED
  BY <1>1, <1>3, <1>4, <1>5, <1>6, <1>8, <1>9 DEF CommandStep

\* Every step is a step of RuntimeConfig, or nothing that it knows of.
LEMMA StepSimulation ==
  TypeOK /\ IInv /\ [Next]_vars /\ IInv' => [Abstract!Next]_(Abstract!vars)
<1> SUFFICES ASSUME TypeOK, IInv, [Next]_vars, IInv'
             PROVE  Abstract!Next \/ UNCHANGED Abstract!vars
  BY DEF Abstract!vars
<1> USE DEF command, daemon, history
<1>1. /\ settings' \in {"kept", "lost"}
      /\ overtaken' = {} => settings' = "kept"
  BY DEF settings, IInv, UserInv, Decodes, Content
<1>2. ASSUME NEW c \in Command,
             Start(c) \/ Refuse(c) \/ CommandStep(c) \/ Crash(c)
      PROVE  Abstract!Next \/ UNCHANGED Abstract!vars
  BY <1>1, <1>2, CommandSimulation DEF Abstract!Next
<1>3. CASE DaemonStop \/ DaemonStart \/ DaemonReload
  <2>1. ~Behind'
    BY <1>3 DEF DaemonStop, DaemonStart, DaemonReload, Behind, Readable, Content
  <2>2. UNCHANGED << pc, status, overtaken, author >>
    BY <1>3 DEF DaemonStop, DaemonStart, DaemonReload
  <2>3. stages' = stages
    BY <2>2 DEF stages, Stage, Live
  <2>4. Abstract!Follow
    BY <2>1, <2>2, <2>3 DEF Abstract!Follow, Abstract!Leave
  <2> QED
    BY <1>1, <2>4 DEF Abstract!Next
<1>4. CASE UserEdit
  <2>1. ~Behind'
    BY <1>4 DEF UserEdit, Behind
  <2>2. Abstract!Change(Command) /\ author' = None
    BY <1>4, Changes DEF UserEdit
  <2>3. stages' = stages
    BY <1>4 DEF UserEdit, stages, Stage, Live
  <2>4. Abstract!Edit
    BY <2>1, <2>2, <2>3 DEF Abstract!Edit
  <2> QED
    BY <1>1, <2>4 DEF Abstract!Next
<1>5. CASE UNCHANGED vars
  <2>1. stages' = stages /\ settings' = settings /\ Behind' = Behind
    BY <1>5, SameDaemon
       DEF vars, stages, Stage, Live, settings, Decodes, Content
  <2> QED
    BY <1>5, <2>1 DEF vars, Abstract!vars
<1> QED
  BY <1>2, <1>3, <1>4, <1>5 DEF Next

\* The docker command implements RuntimeConfig, for any number of commands,
\* edits and attempts (Setup, Cleanup).
THEOREM Refinement == Spec => ImplementsRuntimeConfig
<1>1. Init => Abstract!Init
  <2> SUFFICES ASSUME Init
               PROVE  Abstract!Init
    OBVIOUS
  <2>1. stages = [c \in Command |-> "new"]
    BY DEF Init, stages, Stage, Live
  <2>2. settings = "kept" /\ ~Behind
    BY DEF Init, settings, Behind
  <2> QED
    BY <2>1, <2>2 DEF Init, Abstract!Init
<1> QED
  BY <1>1, StepSimulation, Invariance, PTL
     DEF Spec, ImplementsRuntimeConfig, Abstract!Spec

=============================================================================
