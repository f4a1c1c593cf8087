-------------------------- MODULE ContainerdConfig --------------------------
(***************************************************************************)
(* What cmd/containerd does to the contents of config.toml: ParseVersion,  *)
(* and Update and Revert for versions 1 and 2 of the file, as functions of *)
(* the configuration.                                                      *)
(*                                                                         *)
(* A configuration keeps apart what the command knows, which is below      *)
(* plugins.<cri>.containerd with the <cri> of the file's version, and all  *)
(* the rest ("other").  A runtime is the executable in its options and the *)
(* "base" of all its other keys; a runtime that has neither is not there.  *)
(***************************************************************************)
CONSTANTS
  Class,         \* names of runtime classes
  Dir,           \* toolkit directories a setup can be given
  UserBinary,    \* the executables of runtimes the user configured
  Base,          \* what the other keys of a runtime can hold
  PlainBase,     \* those that hold nothing but the four standard fields
  DefaultBase,   \* the four standard fields as initRuntime sets them
  Other,         \* what the rest of the file can hold
  SetupOptions   \* the options commands are run with

Nvidia       == "nvidia"
Experimental == "nvidia-experimental"
Runc         == "runc"

\* nvidiaRuntimeBinaries
NvidiaClass == {Nvidia, Experimental}
BinaryName(class) ==
  IF class = Nvidia THEN "nvidia-container-runtime"
                    ELSE "nvidia-container-runtime-experimental"

\* filepath.Join and path.Base
NvidiaBinary == Dir \X {BinaryName(class) : class \in NvidiaClass}
NamedLikeNvidia(binary) ==
  \E class \in NvidiaClass : binary # << >> /\ binary[2] = BinaryName(class)

NoBinary  == << >>
Runtime   == [base : Base \cup {"none"},
              binary : NvidiaBinary \cup UserBinary \cup {NoBinary}]
NoRuntime == [base |-> "none", binary |-> NoBinary]

Mode == {"none", "signal", "systemd", "invalid"}

Options ==
  [class : Class \cup {""}, setAsDefault : BOOLEAN, legacy : BOOLEAN,
   mode : Mode, dir : Dir]

ASSUME ConfigAssumption ==
  /\ NvidiaClass \cup {Runc} \subseteq Class
  /\ Class \cap {"", "absent"} = {}
  /\ DefaultBase \in PlainBase /\ PlainBase \subseteq Base
  /\ "none" \notin Base \cup Other
  /\ NoBinary \notin UserBinary /\ UserBinary \cap NvidiaBinary = {}
  /\ SetupOptions \subseteq Options

Config ==
  [version : {"absent", "v1", "v2", "unsupported"},
   classes : [Class -> Runtime],
   default : Class \cup {"absent"},   \* default_runtime_name
   legacy  : Runtime,                 \* default_runtime, of version 1 only
   other   : Other \cup {"none"}]

\* What LoadConfig returns when there is no file, or an empty one.
EmptyConfig ==
  [version |-> "absent", classes |-> [n \in Class |-> NoRuntime],
   default |-> "absent", legacy |-> NoRuntime, other |-> "none"]

OnlyVersion(cfg) ==
  /\ \A n \in Class : cfg.classes[n] = NoRuntime
  /\ cfg.default = "absent" /\ cfg.legacy = NoRuntime /\ cfg.other = "none"

IsEmpty(cfg) == OnlyVersion(cfg) /\ cfg.version = "absent"

\* ParseVersion
Version(cfg, o) ==
  IF cfg.version # "absent" THEN cfg.version
  ELSE IF IsEmpty(cfg) /\ ~o.legacy THEN "v2"
  ELSE "v1"

-----------------------------------------------------------------------------
(* setup                                                                   *)

\* options.getRuntimeBinaries: the class under which the nvidia runtime is
\* registered, and the executable of each class.
NvidiaClassFor(o) ==
  IF o.class \in {"", Experimental} THEN Nvidia ELSE o.class

BinaryFor(o, class) ==
  << o.dir, BinaryName(IF class = Experimental THEN Experimental ELSE Nvidia) >>

\* options.getDefaultRuntime
DefaultRuntime(o) ==
  IF ~o.setAsDefault THEN "" ELSE IF o.class = "" THEN Nvidia ELSE o.class

\* initRuntime: the standard fields for a new runtime, and the executable.
InitRuntime(rt, binary) ==
  [base |-> IF rt = NoRuntime THEN DefaultBase ELSE rt.base,
   binary |-> binary]

\* Faulty variant: a copy of runc keeps the executable of runc.
UpdateClassCopies(classes, class, binary) ==
  [classes EXCEPT
     ![class] = IF classes[Runc] # NoRuntime THEN classes[Runc]
                                             ELSE InitRuntime(@, binary)]

\* Faulty variant: the entry of runc itself is used instead of a copy of it.
UpdateClassInPlace(classes, class, binary) ==
  IF classes[Runc] # NoRuntime
  THEN [classes EXCEPT ![Runc] = InitRuntime(@, binary),
                       ![class] = InitRuntime(classes[Runc], binary)]
  ELSE [classes EXCEPT ![class] = InitRuntime(@, binary)]

\* config.update: a copy of runc, if there is one, and otherwise the class as
\* it is, with the new executable.
UpdateClass(classes, class, binary) ==
  [classes EXCEPT
     ![class] = InitRuntime(IF classes[Runc] # NoRuntime THEN classes[Runc]
                                                         ELSE @, binary)]

\* One round of the loop of Update.  A default is set in the old way, below
\* default_runtime, in a version 1 file of an old containerd.
UpdateOne(cfg, o, version, class) ==
  LET binary    == BinaryFor(o, class)
      isDefault == class = DefaultRuntime(o)
      old       == version = "v1" /\ o.legacy
  IN  [version |-> version,
       classes |-> UpdateClass(cfg.classes, class, binary),
       default |-> IF isDefault /\ ~old THEN class ELSE cfg.default,
       legacy  |-> IF isDefault /\ old THEN InitRuntime(cfg.legacy, binary)
                                       ELSE cfg.legacy,
       other   |-> cfg.other]

\* The loop is over a map, so the order of the classes is any.
UpdateConfig(cfg, o, version) ==
  LET first(a, b) == UpdateOne(UpdateOne(cfg, o, version, a), o, version, b)
  IN  {first(NvidiaClassFor(o), Experimental),
       first(Experimental, NvidiaClassFor(o))}

-----------------------------------------------------------------------------
(* cleanup                                                                 *)

\* Faulty variant: a version 2 file is reverted like a version 1 file.
ClassesToRevertAlwaysStandard(o, version) == NvidiaClass

\* The classes Revert removes: version 1 does not look at the options.
ClassesToRevert(o, version) ==
  IF version = "v1" THEN NvidiaClass ELSE {NvidiaClassFor(o), Experimental}

\* configV1.Revert, default_runtime: the executable goes if it is named like
\* one of the toolkit, and a runtime of standard fields alone goes as well.
RevertLegacy(rt) ==
  LET rest == [rt EXCEPT !.binary = IF NamedLikeNvidia(@) THEN NoBinary ELSE @]
  IN  IF rest.binary = NoBinary /\ rest.base \in PlainBase THEN NoRuntime
                                                           ELSE rest

\* config.revert: the class, and the default that names it
RemoveClasses(classes, removed) ==
  [n \in Class |-> IF n \in removed THEN NoRuntime ELSE classes[n]]

\* Faulty variant: the class goes, the default that names it stays.
RemoveDefaultNever(default, removed) == default

RemoveDefault(default, removed) ==
  IF default \in removed THEN "absent" ELSE default

\* A version that is left alone goes as well.
DropVersion(cfg) ==
  [cfg EXCEPT !.version = IF OnlyVersion(cfg) THEN "absent" ELSE @]

RevertConfig(cfg, o, version) ==
  LET removed == ClassesToRevert(o, version)
  IN  DropVersion(
        [version |-> cfg.version,
         classes |-> RemoveClasses(cfg.classes, removed),
         default |-> RemoveDefault(cfg.default, removed),
         legacy  |-> IF version = "v1" THEN RevertLegacy(cfg.legacy)
                                       ELSE cfg.legacy,
         other   |-> cfg.other])

-----------------------------------------------------------------------------
\* containerd finds the runtime that containers use by default; runc needs no
\* entry.
Resolves(cfg) ==
  cfg.default \in {"absent", Runc} \/ cfg.classes[cfg.default] # NoRuntime

\* What a setup with options o is for: its executables are registered and its
\* default is set.
InForce(cfg, o) ==
  /\ \A class \in {NvidiaClassFor(o), Experimental} :
       cfg.classes[class].binary = BinaryFor(o, class)
  /\ DefaultRuntime(o) # "" =>
       IF cfg.version = "v1" /\ o.legacy
       THEN cfg.legacy.binary = BinaryFor(o, DefaultRuntime(o))
       ELSE cfg.default = DefaultRuntime(o)

\* What a cleanup with options o is for: its classes are gone, and in a version
\* 1 file no executable that is named like the toolkit's is the default.
OutOfForce(cfg, o, version) ==
  /\ \A class \in ClassesToRevert(o, version) :
       cfg.classes[class] = NoRuntime /\ cfg.default # class
  /\ version = "v1" => ~NamedLikeNvidia(cfg.legacy.binary)

\* No runtime of the file is an executable of the toolkit.
NoNvidia(cfg) ==
  /\ cfg.legacy.binary \notin NvidiaBinary
  /\ \A n \in Class : cfg.classes[n].binary \notin NvidiaBinary

=============================================================================
