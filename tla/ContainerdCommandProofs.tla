---------------------- MODULE ContainerdCommandProofs ----------------------
(***************************************************************************)
(* Theorems about ContainerdConfig and ContainerdCommand: any number of    *)
(* commands, edits and attempts, any classes, directories and options.     *)
(***************************************************************************)
EXTENDS ContainerdCommand, TLAPS

-----------------------------------------------------------------------------
(* The operators on configurations                                         *)

\* The absence of a runtime is a value of its type.
LEMMA NoRuntimeType == NoRuntime \in Runtime
BY DEF NoRuntime, Runtime

\* A missing file is a configuration.
LEMMA EmptyType ==
  EmptyConfig \in Config /\ Resolves(EmptyConfig)
BY NoRuntimeType DEF EmptyConfig, Config, Resolves

\* What setup registers is registered, under a class of Class.
LEMMA BinaryType ==
  ASSUME NEW o \in Options, NEW class \in Class
  PROVE  /\ BinaryFor(o, class) \in NvidiaBinary
         /\ NvidiaClassFor(o) \in Class /\ Experimental \in Class
         /\ DefaultRuntime(o) \in {"", NvidiaClassFor(o), Experimental}
BY ConfigAssumption
   DEF BinaryFor, NvidiaBinary, NvidiaClass, NvidiaClassFor, DefaultRuntime,
       Options

\* A runtime with an executable is there.
LEMMA InitRuntimeType ==
  ASSUME NEW rt \in Runtime, NEW binary \in NvidiaBinary
  PROVE  /\ InitRuntime(rt, binary) \in Runtime
         /\ InitRuntime(rt, binary) # NoRuntime
         /\ InitRuntime(rt, binary).binary = binary
<1>1. binary # NoBinary
  BY DEF NvidiaBinary, NoBinary
<1> QED
  BY <1>1, ConfigAssumption DEF InitRuntime, Runtime, NoRuntime

\* One round of setup: what it changes, and what it does not.
OneRound(cfg, version, class, new) ==
  /\ new \in Config
  /\ new.version = version /\ new.other = cfg.other
  /\ new.classes[class] # NoRuntime
  /\ \A n \in Class \ {class} : new.classes[n] = cfg.classes[n]
  /\ new.default \in {cfg.default, class}
  /\ version = "v2" => new.legacy = cfg.legacy

\* A round of setup does that.
LEMMA UpdateOneFacts ==
  ASSUME NEW cfg \in Config, NEW o \in Options, NEW version \in {"v1", "v2"},
         NEW class \in Class
  PROVE  OneRound(cfg, version, class, UpdateOne(cfg, o, version, class))
<1> DEFINE binary == BinaryFor(o, class)
           from == IF cfg.classes[Runc] # NoRuntime THEN cfg.classes[Runc]
                                                    ELSE cfg.classes[class]
           new == UpdateOne(cfg, o, version, class)
<1>1. binary \in NvidiaBinary
  BY BinaryType
<1>2. from \in Runtime /\ cfg.legacy \in Runtime
  BY ConfigAssumption DEF Config
<1>3. /\ InitRuntime(from, binary) \in Runtime
      /\ InitRuntime(from, binary) # NoRuntime
      /\ InitRuntime(cfg.legacy, binary) \in Runtime
      /\ InitRuntime(cfg.legacy, binary).binary = binary
  BY <1>1, <1>2, InitRuntimeType
<1>4. /\ new.version = version /\ new.other = cfg.other
      /\ new.classes = [cfg.classes EXCEPT ![class] = InitRuntime(from, binary)]
  BY DEF UpdateOne, UpdateClass
<1>5. new.default \in {cfg.default, class}
  BY DEF UpdateOne
<1>6. /\ new.legacy \in {cfg.legacy, InitRuntime(cfg.legacy, binary)}
      /\ version = "v2" => new.legacy = cfg.legacy
  BY DEF UpdateOne
<1>7. new = [version |-> new.version, classes |-> new.classes,
             default |-> new.default, legacy |-> new.legacy,
             other |-> new.other]
  BY DEF UpdateOne
<1> HIDE DEF binary, from, new
<1>8. /\ new.classes \in [Class -> Runtime] /\ new.classes[class] # NoRuntime
      /\ \A n \in Class \ {class} : new.classes[n] = cfg.classes[n]
  BY <1>3, <1>4 DEF Config
<1>9. /\ new.default \in Class \cup {"absent"} /\ new.legacy \in Runtime
      /\ new.other \in Other \cup {"none"}
  BY <1>2, <1>3, <1>4, <1>5, <1>6 DEF Config
<1>10. new \in Config
  BY <1>4, <1>7, <1>8, <1>9 DEF Config
<1> QED
  BY <1>4, <1>5, <1>6, <1>8, <1>10 DEF OneRound, new

\* setup: what it changes, in either order, and what it does not.
LEMMA UpdateFacts ==
  ASSUME NEW cfg \in Config, NEW o \in Options, NEW version \in {"v1", "v2"},
         NEW new \in UpdateConfig(cfg, o, version)
  PROVE  /\ new \in Config
         /\ new.version = version /\ new.other = cfg.other
         /\ \A n \in Class \ {NvidiaClassFor(o), Experimental} :
              new.classes[n] = cfg.classes[n]
         /\ version = "v2" => new.legacy = cfg.legacy
         /\ Resolves(cfg) => Resolves(new)
<1>1. ASSUME NEW a \in {NvidiaClassFor(o), Experimental},
             NEW b \in {NvidiaClassFor(o), Experimental},
             new = UpdateOne(UpdateOne(cfg, o, version, a), o, version, b)
      PROVE  /\ new \in Config
             /\ new.version = version /\ new.other = cfg.other
             /\ \A n \in Class \ {NvidiaClassFor(o), Experimental} :
                  new.classes[n] = cfg.classes[n]
             /\ version = "v2" => new.legacy = cfg.legacy
             /\ Resolves(cfg) => Resolves(new)
  <2> DEFINE mid == UpdateOne(cfg, o, version, a)
  <2>1. a \in Class /\ b \in Class
    BY ConfigAssumption, BinaryType DEF NvidiaClass
  <2>2. OneRound(cfg, version, a, mid)
    BY <2>1, UpdateOneFacts
  <2>3. new = UpdateOne(mid, o, version, b)
    BY <1>1
  <2> HIDE DEF mid
  <2>4. mid \in Config
    BY <2>2 DEF OneRound
  <2>5. OneRound(mid, version, b, new)
    BY <2>1, <2>3, <2>4, UpdateOneFacts
  <2>6. Resolves(cfg) => Resolves(mid)
    BY <2>1, <2>2 DEF OneRound, Resolves, Config
  <2>7. Resolves(mid) => Resolves(new)
    BY <2>1, <2>4, <2>5 DEF OneRound, Resolves, Config
  <2> QED
    BY <2>1, <2>2, <2>5, <2>6, <2>7 DEF OneRound
<1> QED
  BY <1>1 DEF UpdateConfig

\* default_runtime after cleanup never names a toolkit executable.
LEMMA RevertLegacyFacts ==
  ASSUME NEW rt \in Runtime
  PROVE  /\ RevertLegacy(rt) \in Runtime
         /\ RevertLegacy(rt).binary \notin NvidiaBinary
<1>1. NoBinary \notin NvidiaBinary
  BY DEF NoBinary, NvidiaBinary
<1>2. \A binary \in NvidiaBinary : NamedLikeNvidia(binary)
  BY <1>1 DEF NvidiaBinary, NamedLikeNvidia, NoBinary
<1> DEFINE binary == IF NamedLikeNvidia(rt.binary) THEN NoBinary ELSE rt.binary
           rest   == [base |-> rt.base, binary |-> binary]
<1>3. rest \in Runtime /\ rest.binary \notin NvidiaBinary
  BY <1>1, <1>2 DEF Runtime
<1>4. RevertLegacy(rt) \in {rest, NoRuntime}
  BY DEF RevertLegacy, Runtime
<1> QED
  BY <1>1, <1>3, <1>4, NoRuntimeType DEF NoRuntime

\* cleanup: what it removes, and what it does not.
LEMMA RevertFacts ==
  ASSUME NEW cfg \in Config, NEW o \in Options, NEW version \in {"v1", "v2"},
         NEW new, new = RevertConfig(cfg, o, version),
         NEW removed, removed = ClassesToRevert(o, version)
  PROVE  /\ new \in Config /\ new.other = cfg.other
         /\ new.classes = RemoveClasses(cfg.classes, removed)
         /\ new.default = RemoveDefault(cfg.default, removed)
         /\ new.legacy = IF version = "v1" THEN RevertLegacy(cfg.legacy)
                                           ELSE cfg.legacy
<1> DEFINE classes == RemoveClasses(cfg.classes, removed)
           default == RemoveDefault(cfg.default, removed)
           legacy  == IF version = "v1" THEN RevertLegacy(cfg.legacy)
                                        ELSE cfg.legacy
           mid     == [version |-> cfg.version, classes |-> classes,
                       default |-> default, legacy |-> legacy,
                       other |-> cfg.other]
<1>1. classes \in [Class -> Runtime] /\ default \in Class \cup {"absent"}
  BY NoRuntimeType DEF Config, RemoveClasses, RemoveDefault
<1>2. legacy \in Runtime
  BY RevertLegacyFacts DEF Config
<1>3. new = DropVersion(mid)
  BY DEF RevertConfig
<1> HIDE DEF classes, default, legacy
<1>4. mid \in Config
  BY <1>1, <1>2 DEF Config
<1>5. new \in {mid, [mid EXCEPT !.version = "absent"]}
  BY <1>3 DEF DropVersion
<1>6. new \in Config /\ new.other = cfg.other /\ new.classes = classes
      /\ new.default = default /\ new.legacy = legacy
  BY <1>4, <1>5 DEF Config
<1> QED
  BY <1>6 DEF classes, default, legacy

\* cleanup removes no class that is still the default.
LEMMA RevertResolves ==
  ASSUME NEW cfg \in Config, NEW o \in Options, NEW version \in {"v1", "v2"},
         Resolves(cfg)
  PROVE  Resolves(RevertConfig(cfg, o, version))
<1> DEFINE new     == RevertConfig(cfg, o, version)
           removed == ClassesToRevert(o, version)
<1> HIDE DEF removed
<1>1. /\ new.classes = RemoveClasses(cfg.classes, removed)
      /\ new.default = RemoveDefault(cfg.default, removed)
  BY RevertFacts DEF removed
<1> HIDE DEF new
<1>2. Resolves(new)
  BY <1>1 DEF Resolves, RemoveClasses, RemoveDefault, Config
<1> QED
  BY <1>2 DEF new

\* One round of setup: what it is for.
RoundSets(cfg, o, version, class, new) ==
  /\ new.classes[class].binary = BinaryFor(o, class)
  /\ IF class # DefaultRuntime(o)
     THEN new.default = cfg.default /\ new.legacy = cfg.legacy
     ELSE IF version = "v1" /\ o.legacy
          THEN new.legacy.binary = BinaryFor(o, class)
          ELSE new.default = class

\* A round of setup does that.
LEMMA RoundSetsFacts ==
  ASSUME NEW cfg \in Config, NEW o \in Options, NEW version \in {"v1", "v2"},
         NEW class \in Class
  PROVE  RoundSets(cfg, o, version, class, UpdateOne(cfg, o, version, class))
<1> DEFINE binary == BinaryFor(o, class)
           from == IF cfg.classes[Runc] # NoRuntime THEN cfg.classes[Runc]
                                                    ELSE cfg.classes[class]
           new == UpdateOne(cfg, o, version, class)
<1>1. InitRuntime(from, binary).binary = binary
      /\ InitRuntime(cfg.legacy, binary).binary = binary
  BY DEF InitRuntime
<1>2. /\ new.classes = [cfg.classes EXCEPT ![class] = InitRuntime(from, binary)]
      /\ new.default = IF class = DefaultRuntime(o)
                            /\ ~(version = "v1" /\ o.legacy)
                       THEN class ELSE cfg.default
      /\ new.legacy = IF class = DefaultRuntime(o) /\ version = "v1" /\ o.legacy
                      THEN InitRuntime(cfg.legacy, binary) ELSE cfg.legacy
  BY DEF UpdateOne, UpdateClass
<1> HIDE DEF from, new, binary
<1>3. new.classes[class] = InitRuntime(from, binary)
  BY <1>2 DEF Config
<1>4. RoundSets(cfg, o, version, class, new)
  BY <1>1, <1>2, <1>3 DEF RoundSets, binary
<1> QED
  BY <1>4 DEF new

\* After setup its executables are registered and its default is set, in
\* whatever order the loop went.
LEMMA UpdateInForce ==
  ASSUME NEW cfg \in Config, NEW o \in Options, NEW version \in {"v1", "v2"},
         NEW new \in UpdateConfig(cfg, o, version)
  PROVE  InForce(new, o)
<1>1. /\ NvidiaClassFor(o) \in Class /\ Experimental \in Class
      /\ NvidiaClassFor(o) # Experimental
      /\ DefaultRuntime(o) \in {"", NvidiaClassFor(o), Experimental}
  BY ConfigAssumption, BinaryType
     DEF NvidiaClass, NvidiaClassFor, Nvidia, Experimental
<1>2. ASSUME NEW a \in {NvidiaClassFor(o), Experimental},
             NEW b \in {NvidiaClassFor(o), Experimental}, a # b,
             new = UpdateOne(UpdateOne(cfg, o, version, a), o, version, b)
      PROVE  InForce(new, o)
  <2> DEFINE mid == UpdateOne(cfg, o, version, a)
  <2>1. a \in Class /\ b \in Class
    BY <1>1
  <2>2. OneRound(cfg, version, a, mid) /\ RoundSets(cfg, o, version, a, mid)
    BY <2>1, UpdateOneFacts, RoundSetsFacts
  <2>3. new = UpdateOne(mid, o, version, b)
    BY <1>2
  <2> HIDE DEF mid
  <2>4. mid \in Config
    BY <2>2 DEF OneRound
  <2>5. OneRound(mid, version, b, new) /\ RoundSets(mid, o, version, b, new)
    BY <2>1, <2>3, <2>4, UpdateOneFacts, RoundSetsFacts
  <2>6. /\ new.classes[a].binary = BinaryFor(o, a)
        /\ new.classes[b].binary = BinaryFor(o, b)
        /\ new.version = version
    BY <1>2, <2>1, <2>2, <2>5 DEF OneRound, RoundSets
  <2>7. ASSUME DefaultRuntime(o) # ""
        PROVE  IF version = "v1" /\ o.legacy
               THEN new.legacy.binary = BinaryFor(o, DefaultRuntime(o))
               ELSE new.default = DefaultRuntime(o)
    <3>1. DefaultRuntime(o) \in {a, b}
      BY <1>1, <1>2, <2>7
    <3>2. CASE DefaultRuntime(o) = b
      BY <2>5, <3>2 DEF RoundSets
    <3>3. CASE DefaultRuntime(o) = a
      BY <1>2, <2>2, <2>5, <3>3 DEF RoundSets
    <3> QED
      BY <3>1, <3>2, <3>3
  <2>8. \A class \in {NvidiaClassFor(o), Experimental} : class \in {a, b}
    BY <1>2
  <2>9. \A class \in {NvidiaClassFor(o), Experimental} :
          new.classes[class].binary = BinaryFor(o, class)
    BY <2>6, <2>8
  <2> QED
    BY <2>6, <2>7, <2>9 DEF InForce
<1> QED
  BY <1>1, <1>2 DEF UpdateConfig

\* After cleanup its classes are gone, and the toolkit's default with them.
LEMMA RevertOutOfForce ==
  ASSUME NEW cfg \in Config, NEW o \in Options, NEW version \in {"v1", "v2"}
  PROVE  OutOfForce(RevertConfig(cfg, o, version), o, version)
<1> DEFINE new     == RevertConfig(cfg, o, version)
           removed == ClassesToRevert(o, version)
<1>1. removed \subseteq Class
  BY ConfigAssumption, BinaryType DEF ClassesToRevert, NvidiaClass
<1> HIDE DEF removed
<1>2. /\ new.classes = RemoveClasses(cfg.classes, removed)
      /\ new.default = RemoveDefault(cfg.default, removed)
      /\ version = "v1" => new.legacy = RevertLegacy(cfg.legacy)
  BY RevertFacts DEF removed
<1> HIDE DEF new
<1>3. \A class \in removed : new.classes[class] = NoRuntime /\ new.default # class
  BY <1>1, <1>2, ConfigAssumption DEF RemoveClasses, RemoveDefault
<1>4. ~NamedLikeNvidia(RevertLegacy(cfg.legacy).binary)
  BY DEF RevertLegacy, NamedLikeNvidia, NoRuntime, NoBinary, Config, Runtime
<1> QED
  BY <1>2, <1>3, <1>4 DEF OutOfForce, new, removed

\* What a setup makes of a configuration when the class it is given is not runc.
SetUp(cfg, o, version) ==
  LET registered == {NvidiaClassFor(o), Experimental}
      default    == DefaultRuntime(o)
      old        == version = "v1" /\ o.legacy
  IN  [version |-> version,
       classes |->
         [n \in Class |->
            IF n \in registered
            THEN InitRuntime(IF cfg.classes[Runc] # NoRuntime
                             THEN cfg.classes[Runc] ELSE cfg.classes[n],
                             BinaryFor(o, n))
            ELSE cfg.classes[n]],
       default |-> IF default # "" /\ ~old THEN default ELSE cfg.default,
       legacy  |-> IF default # "" /\ old
                   THEN InitRuntime(cfg.legacy, BinaryFor(o, default))
                   ELSE cfg.legacy,
       other   |-> cfg.other]

\* Both orders make the same.
LEMMA UpdateClosed ==
  ASSUME NEW cfg \in Config, NEW o \in Options, NEW version \in {"v1", "v2"},
         NvidiaClassFor(o) # Runc
  PROVE  UpdateConfig(cfg, o, version) = {SetUp(cfg, o, version)}
<1>1. /\ NvidiaClassFor(o) \in Class /\ Experimental \in Class
      /\ NvidiaClassFor(o) # Experimental /\ Experimental # Runc
      /\ Runc \in Class /\ "" \notin Class
      /\ DefaultRuntime(o) \in {"", NvidiaClassFor(o), Experimental}
  BY ConfigAssumption, BinaryType
     DEF NvidiaClass, NvidiaClassFor, Nvidia, Experimental, Runc
<1>2. ASSUME NEW a \in {NvidiaClassFor(o), Experimental},
             NEW b \in {NvidiaClassFor(o), Experimental}, a # b
      PROVE  UpdateOne(UpdateOne(cfg, o, version, a), o, version, b)
               = SetUp(cfg, o, version)
  <2>1. a \in Class /\ b \in Class
    BY <1>1
  <2>2. a # Runc /\ b # Runc
    BY <1>1
  <2>3. {NvidiaClassFor(o), Experimental} = {a, b}
    BY <1>2
  <2> DEFINE mid   == UpdateOne(cfg, o, version, a)
             new   == UpdateOne(mid, o, version, b)
             want  == SetUp(cfg, o, version)
             from  == [n \in Class |-> IF cfg.classes[Runc] # NoRuntime
                                       THEN cfg.classes[Runc]
                                       ELSE cfg.classes[n]]
             entry(n) == InitRuntime(from[n], BinaryFor(o, n))
             old   == version = "v1" /\ o.legacy
  <2>4. cfg.classes \in [Class -> Runtime]
    BY DEF Config
  <2>5. mid.classes = [cfg.classes EXCEPT ![a] = entry(a)]
    BY <2>1 DEF UpdateOne, UpdateClass
  <2>6. mid.classes = [n \in Class |-> IF n = a THEN entry(a) ELSE cfg.classes[n]]
    <3> HIDE DEF mid, entry
    <3> QED
      BY <2>1, <2>4, <2>5
  <2>7. new.classes = [mid.classes EXCEPT ![b] = entry(b)]
    <3>1. mid.classes[Runc] = cfg.classes[Runc] /\ mid.classes[b] = cfg.classes[b]
      BY <1>1, <1>2, <2>1, <2>2, <2>6
    <3> HIDE DEF mid
    <3> QED
      BY <2>1, <3>1 DEF UpdateOne, UpdateClass
  <2>8. want.classes = [n \in Class |-> IF n \in {a, b} THEN entry(n)
                                                         ELSE cfg.classes[n]]
    BY <2>1, <2>3 DEF SetUp
  <2>9. new.classes = want.classes
    <3> HIDE DEF mid, new, want, entry
    <3>1. new.classes = [n \in Class |-> IF n = b THEN entry(b)
                                         ELSE IF n = a THEN entry(a)
                                         ELSE cfg.classes[n]]
      BY <2>1, <2>6, <2>7
    <3>2. \A n \in Class : new.classes[n] = want.classes[n]
      BY <2>8, <3>1
    <3> QED
      BY <2>8, <3>1, <3>2
  <2>10. /\ mid.default = IF a = DefaultRuntime(o) /\ ~old THEN a ELSE cfg.default
        /\ mid.legacy = IF a = DefaultRuntime(o) /\ old
                        THEN InitRuntime(cfg.legacy, BinaryFor(o, a))
                        ELSE cfg.legacy
    BY DEF UpdateOne
  <2>11. /\ new.default = IF b = DefaultRuntime(o) /\ ~old THEN b ELSE mid.default
        /\ new.legacy = IF b = DefaultRuntime(o) /\ old
                        THEN InitRuntime(mid.legacy, BinaryFor(o, b))
                        ELSE mid.legacy
    BY DEF UpdateOne
  <2>12. /\ want.default = IF DefaultRuntime(o) # "" /\ ~old
                           THEN DefaultRuntime(o) ELSE cfg.default
         /\ want.legacy = IF DefaultRuntime(o) # "" /\ old
                          THEN InitRuntime(cfg.legacy,
                                           BinaryFor(o, DefaultRuntime(o)))
                          ELSE cfg.legacy
    BY DEF SetUp
  <2>13. DefaultRuntime(o) \in {"", a, b} /\ a # "" /\ b # "" /\ a # b
    BY <1>1, <1>2, <2>1, <2>3
  <2>14. new.default = want.default /\ new.legacy = want.legacy
    <3> HIDE DEF mid, new, want
    <3>1. CASE DefaultRuntime(o) = ""
      BY <2>10, <2>11, <2>12, <2>13, <3>1
    <3>2. CASE DefaultRuntime(o) = a
      BY <2>10, <2>11, <2>12, <2>13, <3>2
    <3>3. CASE DefaultRuntime(o) = b
      BY <2>10, <2>11, <2>12, <2>13, <3>3
    <3> QED
      BY <2>13, <3>1, <3>2, <3>3
  <2>15. new.version = want.version /\ new.other = want.other
    BY DEF UpdateOne, SetUp
  <2>16. /\ new = [version |-> new.version, classes |-> new.classes,
                   default |-> new.default, legacy |-> new.legacy,
                   other |-> new.other]
         /\ want = [version |-> want.version, classes |-> want.classes,
                    default |-> want.default, legacy |-> want.legacy,
                    other |-> want.other]
    BY DEF UpdateOne, SetUp
  <2> HIDE DEF new, want
  <2>17. new = want
    BY <2>9, <2>14, <2>15, <2>16
  <2> QED
    BY <2>17 DEF new, want
<1>3. UpdateOne(UpdateOne(cfg, o, version, NvidiaClassFor(o)), o, version,
                Experimental) = SetUp(cfg, o, version)
  BY <1>1, <1>2
<1>4. UpdateOne(UpdateOne(cfg, o, version, Experimental), o, version,
                NvidiaClassFor(o)) = SetUp(cfg, o, version)
  BY <1>1, <1>2
<1> QED
  BY <1>3, <1>4 DEF UpdateConfig

\* The order in which the loop of Update goes through its map does not matter,
\* unless it is to replace runc, of which it makes copies.
THEOREM UpdateOrderIrrelevant ==
  ASSUME NEW cfg \in Config, NEW o \in Options, NEW version \in {"v1", "v2"},
         NvidiaClassFor(o) # Runc
  PROVE  \A x, y \in UpdateConfig(cfg, o, version) : x = y
BY UpdateClosed

\* Running setup again with the same options changes nothing more (Update),
\* unless it replaces runc.
THEOREM UpdateIdempotent ==
  ASSUME NEW cfg \in Config, NEW o \in Options, NEW version \in {"v1", "v2"},
         NvidiaClassFor(o) # Runc,
         NEW new \in UpdateConfig(cfg, o, version)
  PROVE  /\ Version(new, o) = version
         /\ UpdateConfig(new, o, version) = {new}
<1> DEFINE again == SetUp(new, o, version)
           default == DefaultRuntime(o)
           old     == version = "v1" /\ o.legacy
           from    == [n \in Class |-> IF cfg.classes[Runc] # NoRuntime
                                       THEN cfg.classes[Runc] ELSE cfg.classes[n]]
           next    == [n \in Class |-> IF new.classes[Runc] # NoRuntime
                                       THEN new.classes[Runc] ELSE new.classes[n]]
           set     == {NvidiaClassFor(o), Experimental}
<1>1. new = SetUp(cfg, o, version) /\ new \in Config /\ new.version = version
  BY UpdateClosed, UpdateFacts
<1>2. set \subseteq Class /\ Runc \in Class \ set
  BY ConfigAssumption, BinaryType
     DEF NvidiaClass, NvidiaClassFor, Nvidia, Experimental, Runc
<1>3. \A rt, binary : binary # NoBinary =>
        InitRuntime(InitRuntime(rt, binary), binary) = InitRuntime(rt, binary)
  BY DEF InitRuntime, NoRuntime
<1>4. \A class \in Class : BinaryFor(o, class) # NoBinary
  BY DEF BinaryFor, NoBinary
<1>5. /\ \A n \in set : new.classes[n] = InitRuntime(from[n], BinaryFor(o, n))
      /\ \A n \in Class \ set : new.classes[n] = cfg.classes[n]
  BY <1>1, <1>2 DEF SetUp
<1>6. /\ \A n \in set : again.classes[n] = InitRuntime(next[n], BinaryFor(o, n))
      /\ \A n \in Class \ set : again.classes[n] = new.classes[n]
      /\ again.classes = [n \in Class |-> again.classes[n]]
  BY <1>2 DEF SetUp
<1>7. \A n \in set : InitRuntime(next[n], BinaryFor(o, n))
                       = InitRuntime(from[n], BinaryFor(o, n))
  <2> SUFFICES ASSUME NEW n \in set
               PROVE  InitRuntime(next[n], BinaryFor(o, n))
                        = InitRuntime(from[n], BinaryFor(o, n))
    OBVIOUS
  <2>1. new.classes[Runc] = cfg.classes[Runc]
    BY <1>2, <1>5
  <2>2. CASE cfg.classes[Runc] # NoRuntime
    BY <1>2, <2>1, <2>2
  <2>3. CASE cfg.classes[Runc] = NoRuntime
    BY <1>2, <1>3, <1>4, <1>5, <2>1, <2>3
  <2> QED
    BY <2>2, <2>3
<1>8. again.classes = new.classes
  BY <1>1, <1>5, <1>6, <1>7 DEF Config
<1>9. again.default = new.default
  BY <1>1 DEF SetUp
<1>10. again.legacy = new.legacy
  <2>1. CASE default # "" /\ old
    <3>1. DefaultRuntime(o) \in Class
      BY <1>2, <2>1, BinaryType, ConfigAssumption DEF NvidiaClass
    <3>2. new.legacy = InitRuntime(cfg.legacy, BinaryFor(o, DefaultRuntime(o)))
      BY <1>1, <2>1 DEF SetUp
    <3>3. again.legacy = InitRuntime(new.legacy, BinaryFor(o, DefaultRuntime(o)))
      BY <2>1 DEF SetUp
    <3> QED
      BY <1>3, <1>4, <3>1, <3>2, <3>3
  <2>2. CASE ~(default # "" /\ old)
    BY <2>2 DEF SetUp
  <2> QED
    BY <2>1, <2>2
<1>11. again.version = new.version /\ again.other = new.other
  BY <1>1 DEF SetUp
<1>12. /\ again = [version |-> again.version, classes |-> again.classes,
                   default |-> again.default, legacy |-> again.legacy,
                   other |-> again.other]
       /\ new = [version |-> new.version, classes |-> new.classes,
                 default |-> new.default, legacy |-> new.legacy,
                 other |-> new.other]
  BY <1>1 DEF SetUp, Config
<1> HIDE DEF again
<1>13. again = new
  BY <1>8, <1>9, <1>10, <1>11, <1>12
<1> QED
  BY <1>1, <1>13, UpdateClosed DEF again, Version

\* A default_runtime that was cleaned up has nothing more to clean up.
LEMMA RevertLegacyTwice ==
  ASSUME NEW rt \in Runtime
  PROVE  RevertLegacy(RevertLegacy(rt)) = RevertLegacy(rt)
<1>1. ~NamedLikeNvidia(NoBinary)
  BY DEF NamedLikeNvidia, NoBinary
<1>2. "none" \notin PlainBase
  BY ConfigAssumption
<1>3. \A r \in Runtime :
        RevertLegacy(r) =
          LET binary == IF NamedLikeNvidia(r.binary) THEN NoBinary ELSE r.binary
          IN  IF binary = NoBinary /\ r.base \in PlainBase THEN NoRuntime
              ELSE [base |-> r.base, binary |-> binary]
  BY DEF RevertLegacy, Runtime
<1> DEFINE new == RevertLegacy(rt)
<1>4. new \in Runtime
  BY RevertLegacyFacts
<1>5. CASE new = NoRuntime
  BY <1>1, <1>2, <1>3, <1>4, <1>5 DEF NoRuntime
<1>6. CASE new # NoRuntime
  <2>1. /\ new.base = rt.base /\ ~NamedLikeNvidia(new.binary)
        /\ ~(new.binary = NoBinary /\ new.base \in PlainBase)
        /\ new = [base |-> new.base, binary |-> new.binary]
    BY <1>1, <1>3, <1>6
  <2> HIDE DEF new
  <2>2. RevertLegacy(new) = new
    BY <1>3, <1>4, <2>1
  <2> QED
    BY <2>2 DEF new
<1> QED
  BY <1>5, <1>6

\* Running cleanup again with the same options changes nothing more (Revert),
\* also where it goes by another version the second time, as the first has left
\* nothing to tell the version by.
THEOREM RevertIdempotent ==
  ASSUME NEW cfg \in Config, NEW o \in Options, NEW version \in {"v1", "v2"},
         version = Version(cfg, o),
         NEW new, new = RevertConfig(cfg, o, version)
  PROVE  /\ Version(new, o) \in {"v1", "v2"}
         /\ RevertConfig(new, o, Version(new, o)) = new
<1> DEFINE mid(from, v) ==
             [version |-> from.version,
              classes |-> RemoveClasses(from.classes, ClassesToRevert(o, v)),
              default |-> RemoveDefault(from.default, ClassesToRevert(o, v)),
              legacy  |-> IF v = "v1" THEN RevertLegacy(from.legacy)
                                      ELSE from.legacy,
              other   |-> from.other]
<1>1. \A from, v : RevertConfig(from, o, v) = DropVersion(mid(from, v))
  BY DEF RevertConfig
<1>2. /\ new \in Config /\ new.other = cfg.other
      /\ new.classes = RemoveClasses(cfg.classes, ClassesToRevert(o, version))
      /\ new.default = RemoveDefault(cfg.default, ClassesToRevert(o, version))
      /\ new.legacy = IF version = "v1" THEN RevertLegacy(cfg.legacy)
                                        ELSE cfg.legacy
  BY RevertFacts
<1>3. \A v : ClassesToRevert(o, v) \subseteq Class
  BY ConfigAssumption, BinaryType DEF ClassesToRevert, NvidiaClass
<1>4. new.version = IF OnlyVersion(new) THEN "absent" ELSE cfg.version
  <2>1. OnlyVersion(new) <=> OnlyVersion(mid(cfg, version))
    BY <1>2 DEF OnlyVersion
  <2> QED
    BY <1>1, <2>1 DEF DropVersion
<1>5. CASE OnlyVersion(new)
  <2>1. new = EmptyConfig
    BY <1>2, <1>4, <1>5 DEF OnlyVersion, EmptyConfig, Config
  <2>2. Version(new, o) \in {"v1", "v2"}
    BY <1>4, <1>5 DEF Version
  <2>3. \A v : mid(new, v) = new
    <3> SUFFICES ASSUME NEW v
                 PROVE  mid(new, v) = new
      OBVIOUS
    <3>1. RevertLegacy(NoRuntime) = NoRuntime
      BY ConfigAssumption
         DEF RevertLegacy, NamedLikeNvidia, NoRuntime, NoBinary
    <3>2. RemoveClasses(new.classes, ClassesToRevert(o, v)) = new.classes
      BY <2>1 DEF RemoveClasses, EmptyConfig
    <3>3. RemoveDefault(new.default, ClassesToRevert(o, v)) = new.default
      BY <2>1 DEF RemoveDefault, EmptyConfig
    <3> QED
      BY <2>1, <3>1, <3>2, <3>3 DEF EmptyConfig
  <2>4. DropVersion(new) = new
    BY <2>1 DEF DropVersion, EmptyConfig
  <2> QED
    BY <1>1, <2>2, <2>3, <2>4
<1>6. CASE ~OnlyVersion(new)
  <2>1. Version(new, o) = version
    <3>1. ~OnlyVersion(cfg)
      <4> SUFFICES ASSUME OnlyVersion(cfg)
                   PROVE  OnlyVersion(new)
        BY <1>6
      <4>1. RevertLegacy(NoRuntime) = NoRuntime
        BY ConfigAssumption
           DEF RevertLegacy, NamedLikeNvidia, NoRuntime, NoBinary
      <4> QED
        BY <1>2, <4>1 DEF OnlyVersion, RemoveClasses, RemoveDefault
    <3> QED
      BY <1>4, <1>6, <3>1 DEF Version, IsEmpty
  <2>2. mid(new, version) = new
    <3>1. RemoveClasses(new.classes, ClassesToRevert(o, version)) = new.classes
      BY <1>2, <1>3 DEF RemoveClasses
    <3>2. RemoveDefault(new.default, ClassesToRevert(o, version)) = new.default
      BY <1>2, <1>3, ConfigAssumption DEF RemoveDefault
    <3>3. version = "v1" => RevertLegacy(new.legacy) = new.legacy
      BY <1>2, RevertLegacyTwice DEF Config
    <3>4. new = [version |-> new.version, classes |-> new.classes,
                 default |-> new.default, legacy |-> new.legacy,
                 other |-> new.other]
      BY <1>2 DEF Config
    <3> QED
      BY <3>1, <3>2, <3>3, <3>4
  <2>3. DropVersion(new) = new
    BY <1>2, <1>6 DEF DropVersion, Config
  <2> QED
    BY <1>1, <2>1, <2>2, <2>3
<1> QED
  BY <1>5, <1>6

\* What a command works out keeps what belongs to the user, and a default that
\* resolves.
LEMMA OutcomeFacts ==
  ASSUME NEW c \in Command, opts[c] \in SetupOptions,
         NEW cfg \in Config, NEW new \in Outcomes(c, cfg)
  PROVE  /\ new \in Config
         /\ UserPart(new) = UserPart(cfg)
         /\ Resolves(cfg) => Resolves(new)
<1> DEFINE o == opts[c]
           version == Version(cfg, o)
<1>1. version \in {"v1", "v2"}
  BY DEF Outcomes, Version, Config
<1>2. /\ o \in Options
      /\ NvidiaClassFor(o) \in ManagedClass /\ NvidiaClass \subseteq ManagedClass
      /\ Experimental \in ManagedClass
  BY ConfigAssumption DEF ManagedClass, NvidiaClass
<1> HIDE DEF o, version
<1>3. CASE new \in UpdateConfig(cfg, o, version)
  <2>1. /\ new \in Config /\ new.other = cfg.other
        /\ \A n \in Class \ {NvidiaClassFor(o), Experimental} :
             new.classes[n] = cfg.classes[n]
        /\ Resolves(cfg) => Resolves(new)
    BY <1>1, <1>2, <1>3, UpdateFacts
  <2> QED
    BY <1>2, <2>1 DEF UserPart
<1>4. CASE new = RevertConfig(cfg, o, version)
  <2> DEFINE removed == ClassesToRevert(o, version)
  <2>1. removed \subseteq ManagedClass
    BY <1>2 DEF ClassesToRevert
  <2> HIDE DEF removed
  <2>2. /\ new \in Config /\ new.other = cfg.other
        /\ new.classes = RemoveClasses(cfg.classes, removed)
    BY <1>1, <1>2, <1>4, RevertFacts DEF removed
  <2>3. Resolves(cfg) => Resolves(new)
    BY <1>1, <1>2, <1>4, RevertResolves
  <2>4. UserPart(new) = UserPart(cfg)
    BY <2>1, <2>2 DEF UserPart, RemoveClasses
  <2> QED
    BY <2>2, <2>3, <2>4
<1> QED
  BY <1>3, <1>4 DEF Outcomes, o, version

-----------------------------------------------------------------------------
(* Types                                                                   *)

\* What LoadConfig and containerd read from a file is a configuration.
LEMMA ContentType == ASSUME NEW f \in File PROVE Content(f) \in Config
BY EmptyType DEF File, Content

\* What the commands and the user put in the file is a file.
LEMMA FileOfType ==
  ASSUME NEW cfg \in Config, NEW state \in {"missing", "torn", "config"}
  PROVE  /\ FileOf(state, cfg) \in File
         /\ FileOf(state, cfg).state = state /\ FileOf(state, cfg).cfg = cfg
BY DEF FileOf, File

\* A text that ends after some of the classes is a configuration.
LEMMA CutType ==
  ASSUME NEW cfg \in Config, NEW part \in SUBSET Class, NEW last \in Class,
         NEW other \in {cfg.other, "none"}
  PROVE  Cut(cfg, part, last, other) \in Config
<1>1. \A n \in Class : Opened(cfg.classes[n]) \in Runtime
  BY DEF Opened, Config, Runtime
<1> QED
  BY <1>1, NoRuntimeType DEF Cut, Config

\* The first part of a text is a configuration.
LEMMA PrefixType ==
  ASSUME NEW cfg \in Config, NEW new \in Prefixes(cfg)
  PROVE  new \in Config
<1>1. PICK other \in {cfg.other, "none"} : new \in PrefixesWith(cfg, other)
  BY DEF Prefixes
<1> DEFINE bare == Cut(cfg, {}, Runc, other)
<1>2. Runc \in Class /\ bare \in Config
  BY ConfigAssumption, CutType
<1>3. CASE new \in {[bare EXCEPT !.version = version, !.default = "absent",
                                 !.legacy = NoRuntime] :
                      version \in {cfg.version, "absent"}}
  BY <1>2, <1>3, NoRuntimeType DEF Config
<1>4. CASE new \in {[bare EXCEPT !.legacy = rt] :
                      rt \in {NoRuntime, Opened(cfg.legacy)}}
  <2>1. Opened(cfg.legacy) \in Runtime
    BY DEF Opened, Config, Runtime
  <2> QED
    BY <1>2, <1>4, <2>1, NoRuntimeType DEF Config
<1>5. CASE new \in {Cut(cfg, part, last, other) :
                      part \in SUBSET Listed(cfg), last \in Class}
  <2>1. PICK part \in SUBSET Listed(cfg), last \in Class :
          new = Cut(cfg, part, last, other)
    BY <1>5
  <2>2. part \in SUBSET Class
    BY DEF Listed
  <2> QED
    BY <2>1, <2>2, CutType
<1> QED
  BY <1>1, <1>3, <1>4, <1>5 DEF PrefixesWith

\* Two texts over each other, as far as they are one, resolve as the newer does.
LEMMA MixtureFacts ==
  ASSUME NEW cfg \in Config, NEW old \in Config, NEW new \in Mixtures(cfg, old)
  PROVE  new \in Config /\ (Resolves(cfg) => Resolves(new))
<1>1. PICK part \in SUBSET (Listed(old) \ Listed(cfg)) :
        new = [cfg EXCEPT
                 !.classes = [n \in Class |->
                                IF n \in part THEN old.classes[n] ELSE @[n]]]
  BY DEF Mixtures
<1>2. new \in Config
  BY <1>1 DEF Config
<1>3. /\ new.default = cfg.default
      /\ \A n \in Class : cfg.classes[n] # NoRuntime => new.classes[n] # NoRuntime
  BY <1>1 DEF Config, Listed
<1> QED
  BY <1>2, <1>3 DEF Resolves, Config

\* What a command leaves in the file when it has not.
LEMMA PartType ==
  ASSUME NEW cfg \in Config, file \in File, OverwritePart(cfg)
  PROVE  file' \in File
<1>1. ASSUME NEW part \in Parts(cfg, Content(file))
      PROVE  part \in Config
  <2>1. PICK prefix \in Prefixes(cfg) : part \in Mixtures(prefix, Content(file))
    BY <1>1 DEF Parts
  <2> QED
    BY <2>1, ContentType, PrefixType, MixtureFacts
<1> QED
  BY <1>1, EmptyType, FileOfType DEF OverwritePart

\* What a command leaves in the file when it has written all its text.
LEMMA OverwriteFacts ==
  ASSUME NEW c \in Command, NEW cfg \in Config, file \in File,
         Overwrite(c, cfg)
  PROVE  /\ file' \in File
         /\ Resolves(cfg) /\ Resolves(Content(file)) => Resolves(Content(file'))
         /\ \/ c \in overtaken \/ file # FileOf("config", EmptyConfig)
            \/ file' = FileOf("config", cfg)
<1>1. CASE file = FileOf("config", EmptyConfig) /\ file' = FileOf("config", cfg)
  BY <1>1, FileOfType DEF Content
<1>2. CASE /\ file # FileOf("config", EmptyConfig)
           /\ file' \in {FileOf("config", mix) : mix \in Mixtures(cfg, file.cfg)}
                          \cup {FileOf("torn", EmptyConfig)}
  <2>1. file.cfg \in Config
    BY DEF File
  <2>2. CASE file' = FileOf("torn", EmptyConfig)
    BY <1>2, <2>2, EmptyType, FileOfType DEF Content
  <2>3. CASE \E mix \in Mixtures(cfg, file.cfg) : file' = FileOf("config", mix)
    BY <1>2, <2>1, <2>3, MixtureFacts, FileOfType DEF Content
  <2> QED
    BY <1>2, <2>2, <2>3
<1>3. CASE c \in overtaken /\ UNCHANGED file
  BY <1>3 DEF Content
<1> QED
  BY <1>1, <1>2, <1>3 DEF Overwrite

\* A failed attempt keeps the count below the limit.
LEMMA RetryType ==
  ASSUME TypeOK, NEW c \in Command, Retry(c)
  PROVE  /\ status' \in [Command -> Status] /\ pc' \in [Command -> Pc]
         /\ attempt' \in [Command -> 0..(MaxReloadAttempts - 1)]
BY AttemptsAssumption DEF TypeOK, Retry, End, Goto, Status, Pc

\* Every step keeps every variable in its type.
LEMMA NextType == TypeOK /\ CommandInv /\ [Next]_vars => TypeOK'
<1> SUFFICES ASSUME TypeOK, CommandInv, [Next]_vars
             PROVE  TypeOK'
  OBVIOUS
<1> USE DEF command, daemon, history
<1>1. ASSUME NEW c \in Command, Start(c)
      PROVE  TypeOK'
  BY <1>1 DEF TypeOK, Start, Status
<1>2. ASSUME NEW c \in Command, Refuse(c)
      PROVE  TypeOK'
  BY <1>2 DEF TypeOK, Refuse, End, Status
<1>3. ASSUME NEW c \in Command, CommandStep(c)
      PROVE  TypeOK'
  <2>1. CASE Load(c)
    <3>1. Content(file) \in Config
      BY ContentType DEF TypeOK
    <3>2. opts[c] \in SetupOptions
      BY <2>1 DEF CommandInv, Load
    <3>3. \A cfg \in Outcomes(c, Content(file)) : cfg \in Config
      BY <3>1, <3>2, OutcomeFacts
    <3> QED
      BY <2>1, <3>1, <3>3 DEF TypeOK, Load, End, Goto, Status, Pc
  <2>2. CASE Remove(c)
    <3>1. file' \in File
      BY <2>2, EmptyType, FileOfType DEF TypeOK, Remove
    <3> QED
      BY <2>2, <3>1 DEF TypeOK, Remove, Overtake, End, Goto, Status, Pc
  <2>3. CASE Create(c)
    <3>1. file' \in File
      BY <2>3, EmptyType, FileOfType DEF TypeOK, Create
    <3> QED
      BY <2>3, <3>1 DEF TypeOK, Create, Overtake, End, Goto, Status, Pc
  <2>4. CASE Write(c)
    <3>1. result[c] \in Config
      BY DEF TypeOK
    <3>2. file' \in File
      <4>1. CASE Overwrite(c, result[c])
        BY <3>1, <4>1, OverwriteFacts DEF TypeOK
      <4>2. CASE OverwritePart(result[c])
        BY <3>1, <4>2, PartType DEF TypeOK
      <4> QED
        BY <2>4, <4>1, <4>2 DEF Write
    <3>3. author' \in Command \cup {None}
      BY <2>4 DEF TypeOK, Write, Overwrite
    <3> QED
      BY <2>4, <3>2, <3>3 DEF TypeOK, Write, Overtake, End, Goto, Status, Pc
  <2>5. CASE Restart(c)
    <3>1. Content(file) \in Config
      BY ContentType DEF TypeOK
    <3>2. ucred' \in [Command -> {"none", "current", "gone"}]
      BY <2>5 DEF TypeOK, Restart
    <3> QED
      BY <2>5, <3>1, <3>2 DEF TypeOK, Restart, End, Goto, Status, Pc
  <2>6. CASE Dial(c)
    <3>1. CASE Retry(c)
      BY <2>6, <3>1, RetryType DEF TypeOK, Dial
    <3> QED
      BY <2>6, <3>1 DEF TypeOK, Dial, Goto, Pc
  <2>7. CASE Kill(c)
    <3>1. CASE Retry(c)
      BY <2>7, <3>1, RetryType DEF TypeOK, Kill
    <3> QED
      BY <2>7, <3>1 DEF TypeOK, Kill, End, Status
  <2> QED
    BY <1>3, <2>1, <2>2, <2>3, <2>4, <2>5, <2>6, <2>7 DEF CommandStep
<1>4. ASSUME NEW c \in Command, Crash(c)
      PROVE  TypeOK'
  BY <1>4 DEF TypeOK, Crash, End, Status
<1>5. CASE DaemonStop
  BY <1>5 DEF TypeOK, DaemonStop
<1>6. CASE DaemonStart
  BY <1>6, ContentType DEF TypeOK, DaemonStart
<1>7. CASE UserEdit
  <2>1. file' \in File
    BY <1>7, UserAssumption, FileOfType DEF UserEdit
  <2> QED
    BY <1>7, <2>1, EditsAssumption DEF TypeOK, UserEdit, Overtake
<1>8. CASE UNCHANGED vars
  BY <1>8 DEF TypeOK, vars
<1> QED
  BY <1>1, <1>2, <1>3, <1>4, <1>5, <1>6, <1>7, <1>8 DEF Next

-----------------------------------------------------------------------------
(* What commands work with                                                 *)

\* A command that changes none of it still works with what it had.
LEMMA OutcomesKept ==
  ASSUME NEW c \in Command,
         op'[c] = op[c], opts'[c] = opts[c], seen'[c] = seen[c]
  PROVE  Outcomes(c, seen[c])' = Outcomes(c, seen[c])
BY DEF Outcomes

\* Steps of a command that only move it on, once it has loaded the file.
LEMMA CommandMoves ==
  ASSUME CommandInv, UNCHANGED << op, opts, seen, result >>, NEW c \in Command,
         status[c] # "new", status'[c] # "new",
         pc'[c] # "load" => pc[c] # "load",
         status'[c] = "live" => status[c] = "live",
         status'[c] = "ok" => pc'[c] \in {"restart", "kill"},
         pc'[c] \in {"dial", "kill"} => opts[c].mode = "signal",
         \A d \in Command \ {c} : pc'[d] = pc[d] /\ status'[d] = status[d]
  PROVE  CommandInv'
<1> SUFFICES ASSUME NEW d \in Command
             PROVE  /\ status'[d] = "new" => pc'[d] = "load"
                    /\ status'[d] = "ok" => pc'[d] \in {"restart", "kill"}
                    /\ status'[d] = "live" \/ pc'[d] # "load"
                         => opts'[d] \in SetupOptions
                    /\ pc'[d] # "load" => result'[d] \in Outcomes(d, seen[d])'
                    /\ pc'[d] \in {"dial", "kill"}
                         => opts'[d].mode = "signal"
  BY DEF CommandInv, Live
<1>1. Outcomes(d, seen[d])' = Outcomes(d, seen[d])
  BY OutcomesKept
<1> QED
  BY <1>1 DEF CommandInv, Live

\* Every step keeps commands to their options and to what they loaded.
LEMMA NextCommand == TypeOK /\ CommandInv /\ [Next]_vars => CommandInv'
<1> SUFFICES ASSUME TypeOK, CommandInv, [Next]_vars
             PROVE  CommandInv'
  OBVIOUS
<1> USE DEF command, daemon, history
<1>1. ASSUME NEW c \in Command, Start(c)
      PROVE  CommandInv'
  <2>1. pc[c] = "load"
    BY <1>1 DEF CommandInv, Start
  <2>2. \A d \in Command \ {c} : op'[d] = op[d] /\ opts'[d] = opts[d]
    BY <1>1 DEF TypeOK, Start
  <2>3. \A d \in Command \ {c} : Outcomes(d, seen[d])' = Outcomes(d, seen[d])
    BY <1>1, <2>2, OutcomesKept DEF Start
  <2> QED
    BY <1>1, <2>1, <2>3 DEF TypeOK, CommandInv, Start, Live
<1>2. ASSUME NEW c \in Command, Refuse(c)
      PROVE  CommandInv'
  <2>1. \A d \in Command : Outcomes(d, seen[d])' = Outcomes(d, seen[d])
    BY <1>2, OutcomesKept DEF Refuse
  <2> QED
    BY <1>2, <2>1 DEF TypeOK, CommandInv, Refuse, End, Live
<1>3. ASSUME NEW c \in Command, CommandStep(c)
      PROVE  CommandInv'
  <2>1. CASE Load(c)
    <3>1. CASE \E cfg \in Outcomes(c, Content(file)) :
                 /\ seen' = [seen EXCEPT ![c] = Content(file)]
                 /\ result' = [result EXCEPT ![c] = cfg]
                 /\ Goto(c, "create") /\ UNCHANGED status
      <4>1. PICK cfg \in Outcomes(c, Content(file)) :
              /\ seen' = [seen EXCEPT ![c] = Content(file)]
              /\ result' = [result EXCEPT ![c] = cfg]
              /\ Goto(c, "create") /\ UNCHANGED status
        BY <3>1
      <4>2. Outcomes(c, seen[c])' = Outcomes(c, Content(file))
        BY <2>1, <4>1 DEF TypeOK, Load, Outcomes
      <4>3. \A d \in Command \ {c} :
              Outcomes(d, seen[d])' = Outcomes(d, seen[d])
        BY <2>1, <4>1, OutcomesKept DEF TypeOK, Load
      <4> QED
        BY <2>1, <4>1, <4>2, <4>3 DEF TypeOK, CommandInv, Load, Goto, Live
    <3>2. CASE End(c, "failed") /\ UNCHANGED << seen, result, pc >>
      BY <2>1, <3>2, CommandMoves DEF TypeOK, Load, End, Live
    <3> QED
      BY <2>1, <3>1, <3>2 DEF Load
  <2>2. CASE Remove(c)
    BY <2>2, CommandMoves DEF TypeOK, Remove, End, Goto, Live
  <2>3. CASE Create(c)
    BY <2>3, CommandMoves DEF TypeOK, Create, End, Goto, Live
  <2>4. CASE Write(c)
    BY <2>4, CommandMoves DEF TypeOK, Write, End, Goto, Live
  <2>5. CASE Restart(c)
    BY <2>5, CommandMoves DEF TypeOK, Restart, End, Goto, Live
  <2>6. CASE Dial(c)
    BY <2>6, CommandMoves
       DEF TypeOK, CommandInv, Dial, Retry, End, Goto, Live
  <2>7. CASE Kill(c)
    BY <2>7, CommandMoves
       DEF TypeOK, CommandInv, Kill, Retry, End, Goto, Live
  <2> QED
    BY <1>3, <2>1, <2>2, <2>3, <2>4, <2>5, <2>6, <2>7 DEF CommandStep
<1>4. ASSUME NEW c \in Command, Crash(c)
      PROVE  CommandInv'
  BY <1>4, CommandMoves DEF TypeOK, CommandInv, Crash, End, Live
<1>5. CASE DaemonStop \/ DaemonStart \/ UserEdit \/ UNCHANGED vars
  <2>1. UNCHANGED << status, op, opts, pc, seen, result >>
    BY <1>5 DEF DaemonStop, DaemonStart, UserEdit, vars
  <2>2. \A d \in Command : Outcomes(d, seen[d])' = Outcomes(d, seen[d])
    BY <2>1, OutcomesKept
  <2> QED
    BY <2>1, <2>2 DEF CommandInv, Live
<1> QED
  BY <1>1, <1>2, <1>3, <1>4, <1>5 DEF Next

-----------------------------------------------------------------------------
(* The default runtime                                                     *)

\* A command that has failed to write all of its text takes no more steps.
LEMMA WholeTextsBefore ==
  TypeOK /\ CommandInv /\ [Next]_vars /\ WholeTexts' => WholeTexts
<1> SUFFICES ASSUME TypeOK, CommandInv, [Next]_vars, WholeTexts'
             PROVE  WholeTexts
  OBVIOUS
<1> USE DEF command, daemon, history
<1>1. ASSUME NEW c \in Command, status[c] \in {"new", "live"},
             \A d \in Command \ {c} : pc'[d] = pc[d] /\ status'[d] = status[d]
      PROVE  WholeTexts
  BY <1>1 DEF WholeTexts
<1>2. ASSUME NEW c \in Command,
             Start(c) \/ Refuse(c) \/ CommandStep(c) \/ Crash(c)
      PROVE  WholeTexts
  <2>1. CASE Start(c) \/ Refuse(c) \/ Crash(c)
    BY <2>1, <1>1 DEF TypeOK, Start, Refuse, Crash, End, Live
  <2>2. CASE Load(c) \/ Remove(c) \/ Create(c)
    BY <2>2, <1>1 DEF TypeOK, Load, Remove, Create, End, Goto, Live
  <2>3. CASE Write(c) \/ Restart(c)
    BY <2>3, <1>1 DEF TypeOK, Write, Restart, End, Goto, Live
  <2>4. CASE Dial(c) \/ Kill(c)
    BY <2>4, <1>1 DEF TypeOK, Dial, Kill, Retry, End, Goto, Live
  <2> QED
    BY <1>2, <2>1, <2>2, <2>3, <2>4 DEF CommandStep
<1>3. CASE DaemonStop \/ DaemonStart \/ UserEdit \/ UNCHANGED vars
  BY <1>3 DEF WholeTexts, DaemonStop, DaemonStart, UserEdit, vars
<1> QED
  BY <1>2, <1>3 DEF Next

\* Every step keeps the default that goes round one that resolves.
LEMMA NextResolve ==
  TypeOK /\ CommandInv /\ ResolveInv /\ [Next]_vars => ResolveInv'
<1> SUFFICES ASSUME TypeOK, CommandInv, ResolveInv, [Next]_vars, WholeTexts'
             PROVE  /\ Resolves(Content(file')) /\ Resolves(loaded')
                    /\ \A c \in Command :
                         Resolves(seen'[c]) /\ Resolves(result'[c])
  BY DEF ResolveInv, Content, Resolves
<1>1. /\ Resolves(Content(file)) /\ Resolves(loaded)
      /\ \A c \in Command : Resolves(seen[c]) /\ Resolves(result[c])
  BY WholeTextsBefore DEF ResolveInv
<1> USE DEF command, daemon, history
<1>2. ASSUME NEW c \in Command, CommandStep(c)
      PROVE  /\ Resolves(Content(file')) /\ Resolves(loaded')
             /\ \A d \in Command : Resolves(seen'[d]) /\ Resolves(result'[d])
  <2>1. CASE Load(c)
    <3>1. Content(file) \in Config /\ opts[c] \in SetupOptions
      BY <2>1, ContentType DEF TypeOK, CommandInv, Load
    <3>2. \A cfg \in Outcomes(c, Content(file)) : Resolves(cfg)
      BY <1>1, <3>1, OutcomeFacts
    <3> QED
      BY <2>1, <1>1, <3>2 DEF TypeOK, Load
  <2>2. CASE Remove(c) \/ Create(c)
    <3>1. file' \in {file, FileOf("missing", EmptyConfig),
                     FileOf("config", EmptyConfig)}
      BY <2>2 DEF Remove, Create
    <3>2. Resolves(Content(file'))
      BY <1>1, <3>1, EmptyType, FileOfType DEF Content
    <3> QED
      BY <2>2, <1>1, <3>2 DEF Remove, Create
  <2>3. CASE Write(c)
    <3>1. CASE Overwrite(c, result[c])
      <4>1. Resolves(Content(file'))
        BY <1>1, <3>1, OverwriteFacts DEF TypeOK
      <4> QED
        BY <2>3, <1>1, <4>1 DEF Write
    <3>2. CASE End(c, "failed") /\ UNCHANGED pc
      BY <2>3, <3>2 DEF TypeOK, WholeTexts, Write, End
    <3> QED
      BY <2>3, <3>1, <3>2 DEF Write
  <2>4. CASE Restart(c)
    BY <2>4, <1>1 DEF Restart
  <2>5. CASE Dial(c) \/ Kill(c)
    BY <2>5, <1>1 DEF Dial, Kill
  <2> QED
    BY <1>2, <2>1, <2>2, <2>3, <2>4, <2>5 DEF CommandStep
<1>3. ASSUME NEW c \in Command, Start(c) \/ Refuse(c) \/ Crash(c)
      PROVE  UNCHANGED << file, loaded, seen, result >>
  BY <1>3 DEF Start, Refuse, Crash
<1>4. CASE DaemonStop \/ DaemonStart \/ UNCHANGED vars
  BY <1>4, <1>1 DEF DaemonStop, DaemonStart, vars
<1>5. CASE UserEdit
  <2>1. Resolves(Content(file'))
    BY <1>5, UserAssumption, FileOfType DEF UserEdit, Content
  <2> QED
    BY <1>5, <1>1, <2>1 DEF UserEdit
<1> QED
  BY <1>1, <1>2, <1>3, <1>4, <1>5 DEF Next

-----------------------------------------------------------------------------
(* The user's settings                                                     *)

\* What a command writes keeps what belongs to the user.
LEMMA ResultKeeps ==
  ASSUME TypeOK, CommandInv, NEW c \in Command, pc[c] # "load"
  PROVE  UserPart(result[c]) = UserPart(seen[c])
<1>1. /\ seen[c] \in Config /\ opts[c] \in SetupOptions
      /\ result[c] \in Outcomes(c, seen[c])
  BY DEF TypeOK, CommandInv
<1> QED
  BY <1>1, OutcomeFacts

\* A configuration without keys has nothing of the user's in it.
LEMMA EmptyKeeps ==
  ASSUME NEW cfg \in Config, IsEmpty(cfg)
  PROVE  UserPart(cfg) = UserPart(EmptyConfig)
BY DEF IsEmpty, OnlyVersion, UserPart, EmptyConfig, Config

\* Whoever was stopped or overtaken inside FlushConfig remains so.
LEMMA UndisturbedBefore ==
  TypeOK /\ CommandInv /\ [Next]_vars /\ Undisturbed' => Undisturbed
<1> SUFFICES ASSUME TypeOK, CommandInv, [Next]_vars, Undisturbed'
             PROVE  Undisturbed
  OBVIOUS
<1> USE DEF command, daemon, history
<1>1. overtaken = {}
  <2>1. overtaken \subseteq overtaken'
    BY DEF Next, Start, Refuse, CommandStep, Load, Remove, Create, Write,
           Restart, Dial, Kill, Crash, DaemonStop, DaemonStart, UserEdit,
           Overtake, vars
  <2> QED
    BY <2>1 DEF Undisturbed
<1>2. ASSUME NEW c \in Command,
             status[c] = "live" \/ (status[c] = "new" /\ pc[c] = "load"),
             \A d \in Command \ {c} : pc'[d] = pc[d] /\ status'[d] = status[d]
      PROVE  Undisturbed
  BY <1>1, <1>2 DEF Undisturbed, Live
<1>3. ASSUME NEW c \in Command,
             Start(c) \/ Refuse(c) \/ CommandStep(c) \/ Crash(c)
      PROVE  Undisturbed
  <2>1. CASE Start(c) \/ Refuse(c)
    BY <2>1, <1>2 DEF TypeOK, CommandInv, Start, Refuse, End
  <2>2. CASE Crash(c)
    BY <2>2, <1>2 DEF TypeOK, Crash, End, Live
  <2>3. CASE Load(c) \/ Remove(c) \/ Create(c)
    BY <2>3, <1>2 DEF TypeOK, Load, Remove, Create, End, Goto, Live
  <2>4. CASE Write(c) \/ Restart(c)
    BY <2>4, <1>2 DEF TypeOK, Write, Restart, End, Goto, Live
  <2>5. CASE Dial(c) \/ Kill(c)
    BY <2>5, <1>2 DEF TypeOK, Dial, Kill, Retry, End, Goto, Live
  <2> QED
    BY <1>3, <2>1, <2>2, <2>3, <2>4, <2>5 DEF CommandStep
<1>4. CASE DaemonStop \/ DaemonStart \/ UserEdit \/ UNCHANGED vars
  BY <1>1, <1>4 DEF Undisturbed, Live, DaemonStop, DaemonStart, UserEdit, vars
<1> QED
  BY <1>3, <1>4 DEF Next

\* A command that changes the file, undisturbed, is alone inside FlushConfig.
LEMMA AloneInFlush ==
  ASSUME TypeOK, Undisturbed', NEW c \in Command, Overtake(Command \ {c}),
         \A d \in Command \ {c} : pc'[d] = pc[d] /\ status'[d] = status[d]
  PROVE  \A d \in Command \ {c} :
           pc[d] # "write" /\ ~(Live(d) /\ pc[d] = "create")
BY DEF Undisturbed, Overtake, Live

\* Every step keeps the user's settings where they should be.
LEMMA NextUser == TypeOK /\ CommandInv /\ UserInv /\ [Next]_vars => UserInv'
<1> SUFFICES ASSUME TypeOK, CommandInv, UserInv, [Next]_vars, Undisturbed'
             PROVE  UserInv'
  BY DEF UserInv
<1>1. Undisturbed
  BY UndisturbedBefore
<1> USE DEF command, daemon, history
\* Steps that leave the file alone, and nobody who was not at FlushConfig there.
<1>2. ASSUME UNCHANGED << file, user, seen >>,
             \A d \in Command : pc'[d] = "write" => pc[d] = "write",
             \A d \in Command : pc[d] = "write" => pc'[d] = "write",
             \A d \in Command : pc'[d] = "create" => pc[d] = "create",
             \A d \in Command : status'[d] = "live" /\ pc[d] # "load"
                                  => status[d] = "live"
      PROVE  UserInv'
  BY <1>1, <1>2 DEF UserInv, Live, UserPart, Content
<1>3. ASSUME NEW c \in Command, Start(c)
      PROVE  UserInv'
  BY <1>2, <1>3 DEF TypeOK, CommandInv, Start
<1>4. ASSUME NEW c \in Command, Refuse(c) \/ Crash(c)
      PROVE  UserInv'
  BY <1>2, <1>4 DEF TypeOK, Refuse, Crash, End
<1>5. ASSUME NEW c \in Command, CommandStep(c)
      PROVE  UserInv'
  <2>1. CASE Load(c)
    <3>1. CASE /\ file.state # "torn"
               /\ seen' = [seen EXCEPT ![c] = Content(file)]
               /\ Goto(c, "create") /\ UNCHANGED status
      <4>1. /\ \A d \in Command : pc'[d] = "write" <=> pc[d] = "write"
            /\ \A d \in Command \ {c} : seen'[d] = seen[d] /\ pc'[d] = pc[d]
            /\ seen'[c] = Content(file) /\ pc'[c] = "create"
        BY <2>1, <3>1 DEF TypeOK, Load, Goto
      <4>2. \A d \in Command : pc[d] = "write" => d # c
        BY <2>1 DEF Load
      <4>3. UNCHANGED << file, user, status >>
        BY <2>1, <3>1 DEF Load
      <4> QED
        BY <4>1, <4>2, <4>3, <1>1 DEF UserInv, Live
    <3>2. CASE End(c, "failed") /\ UNCHANGED << seen, result, pc >>
      BY <2>1, <3>2, <1>2 DEF TypeOK, Load, End, Live
    <3> QED
      BY <2>1, <3>1, <3>2 DEF Load
  <2>2. CASE Remove(c)
    <3>1. CASE /\ file' = FileOf("missing", EmptyConfig)
               /\ Overtake(Command \ {c})
               /\ Goto(c, "restart") /\ UNCHANGED << status, edits, user >>
      <4>1. \A d \in Command \ {c} :
              pc[d] # "write" /\ ~(Live(d) /\ pc[d] = "create")
        BY <3>1, AloneInFlush DEF TypeOK, Goto
      <4>2. UserPart(seen[c]) = user
        BY <2>2, <4>1, <1>1 DEF UserInv, Remove
      <4>3. UserPart(EmptyConfig) = user
        BY <2>2, <4>2, ResultKeeps, EmptyKeeps DEF TypeOK, Remove
      <4>4. file'.state # "torn" /\ Content(file') = EmptyConfig
        BY <3>1, EmptyType, FileOfType DEF Content
      <4> QED
        BY <2>2, <3>1, <4>1, <4>3, <4>4
           DEF TypeOK, UserInv, Remove, Goto, Live
    <3>2. CASE End(c, "failed") /\ UNCHANGED << file, pc, history >>
      BY <2>2, <3>2, <1>2 DEF TypeOK, Remove, End, Live
    <3> QED
      BY <2>2, <3>1, <3>2 DEF Remove
  <2>3. CASE Create(c)
    <3>1. CASE /\ file' = FileOf("config", EmptyConfig)
               /\ Overtake(Command \ {c})
               /\ Goto(c, "write") /\ UNCHANGED << status, edits, user >>
      <4>1. \A d \in Command \ {c} :
              pc[d] # "write" /\ ~(Live(d) /\ pc[d] = "create")
        BY <3>1, AloneInFlush DEF TypeOK, Goto
      <4>2. UserPart(seen[c]) = user
        BY <2>3, <4>1, <1>1 DEF UserInv, Create
      <4> QED
        BY <2>3, <3>1, <4>1, <4>2 DEF TypeOK, UserInv, Create, Goto, Live
    <3>2. CASE End(c, "failed") /\ UNCHANGED << file, pc, history >>
      BY <2>3, <3>2, <1>2 DEF TypeOK, Create, End, Live
    <3> QED
      BY <2>3, <3>1, <3>2 DEF Create
  <2>4. CASE Write(c)
    <3>1. CASE Overwrite(c, result[c]) /\ Goto(c, "restart") /\ UNCHANGED status
      <4>1. \A d \in Command \ {c} :
              pc[d] # "write" /\ ~(Live(d) /\ pc[d] = "create")
        BY <2>4, <3>1, AloneInFlush DEF TypeOK, Write, Goto
      <4>2. UserPart(seen[c]) = user /\ file = FileOf("config", EmptyConfig)
        BY <2>4, <1>1 DEF UserInv, Write
      <4>3. file' = FileOf("config", result[c])
        BY <3>1, <4>2, <1>1, OverwriteFacts DEF TypeOK, Undisturbed
      <4>4. UserPart(result[c]) = user
        BY <2>4, <4>2, ResultKeeps DEF Write
      <4>5. file'.state # "torn" /\ Content(file') = result[c]
        BY <4>3, FileOfType DEF TypeOK, Content
      <4> QED
        BY <2>4, <3>1, <4>1, <4>4, <4>5
           DEF TypeOK, UserInv, Write, Goto, Live
    <3>2. CASE End(c, "failed") /\ UNCHANGED pc
      BY <2>4, <3>2 DEF TypeOK, Undisturbed, Write, End, Live
    <3> QED
      BY <2>4, <3>1, <3>2 DEF Write
  <2>5. CASE Restart(c)
    BY <2>5, <1>2 DEF TypeOK, Restart, End, Goto, Live
  <2>6. CASE Dial(c)
    BY <2>6, <1>2 DEF TypeOK, Dial, Retry, End, Goto, Live
  <2>7. CASE Kill(c)
    BY <2>7, <1>2 DEF TypeOK, Kill, Retry, End, Goto, Live
  <2> QED
    BY <1>5, <2>1, <2>2, <2>3, <2>4, <2>5, <2>6, <2>7 DEF CommandStep
<1>6. CASE DaemonStop \/ DaemonStart \/ UNCHANGED vars
  BY <1>6, <1>2 DEF DaemonStop, DaemonStart, vars
<1>7. CASE UserEdit
  <2>1. file'.state # "torn" /\ UserPart(Content(file')) = user'
    BY <1>7, UserAssumption, FileOfType DEF UserEdit, Content
  <2>2. \A d \in Command : ~(Live(d) /\ pc[d] \in {"create", "write"})
    BY <1>7 DEF UserEdit, Undisturbed, Overtake
  <2> QED
    BY <1>7, <2>1, <2>2 DEF UserInv, UserEdit, Live
<1> QED
  BY <1>3, <1>4, <1>5, <1>6, <1>7 DEF Next

-----------------------------------------------------------------------------
(* containerd and its file                                                 *)

\* Steps of one command that leave the file and containerd as they are, and the
\* command answerable for the file if it was.
LEMMA PendingKept ==
  ASSUME DaemonFollowsFile, NEW c \in Command,
         UNCHANGED << file, containerd, loaded, hup, opts >>,
         \A d \in Command \ {c} : pc'[d] = pc[d] /\ status'[d] = status[d],
         pc[c] = "write" => pc'[c] = "write",
         pc[c] \in {"restart", "dial", "kill"}
           => /\ pc'[c] \in {"restart", "dial", "kill"}
              /\ status'[c] # "ok" \/ opts[c].mode = "none"
  PROVE  DaemonFollowsFile'
BY DEF DaemonFollowsFile, Behind, Readable, Content

\* A command that answers for the file, after its own step.
LEMMA PendingAfter ==
  ASSUME NEW c \in Command,
         \/ pc'[c] = "write"
         \/ pc'[c] = "restart" /\ status'[c] # "ok"
  PROVE  DaemonFollowsFile'
BY DEF DaemonFollowsFile

\* Every step keeps containerd and its file together, up to a command that
\* answers for the difference.
LEMMA NextFollows ==
  TypeOK /\ CommandInv /\ DaemonFollowsFile /\ [Next]_vars
    => DaemonFollowsFile'
<1> SUFFICES ASSUME TypeOK, CommandInv, DaemonFollowsFile, [Next]_vars
             PROVE  DaemonFollowsFile'
  OBVIOUS
<1> USE DEF command, daemon, history
<1>1. ASSUME NEW c \in Command, Start(c)
      PROVE  DaemonFollowsFile'
  <2>1. pc[c] = "load"
    BY <1>1 DEF CommandInv, Start
  <2>2. \A d \in Command \ {c} :
          opts'[d] = opts[d] /\ pc'[d] = pc[d] /\ status'[d] = status[d]
    BY <1>1 DEF TypeOK, Start
  <2> QED
    BY <1>1, <2>1, <2>2 DEF DaemonFollowsFile, Behind, Start, Readable, Content
<1>2. ASSUME NEW c \in Command, Refuse(c) \/ Crash(c)
      PROVE  DaemonFollowsFile'
  BY <1>2, PendingKept DEF TypeOK, Refuse, Crash, End
<1>3. ASSUME NEW c \in Command, CommandStep(c)
      PROVE  DaemonFollowsFile'
  <2>1. CASE Load(c)
    BY <2>1, PendingKept DEF TypeOK, Load, End, Goto
  <2>2. CASE Remove(c)
    <3>1. CASE Goto(c, "restart") /\ UNCHANGED status
      BY <2>2, <3>1, PendingAfter DEF TypeOK, Remove, Goto, Live
    <3>2. CASE End(c, "failed") /\ UNCHANGED << file, pc, history >>
      BY <2>2, <3>2, PendingKept DEF TypeOK, Remove, End
    <3> QED
      BY <2>2, <3>1, <3>2 DEF Remove
  <2>3. CASE Create(c)
    <3>1. CASE Goto(c, "write")
      BY <3>1, PendingAfter DEF TypeOK, Goto
    <3>2. CASE End(c, "failed") /\ UNCHANGED << file, pc, history >>
      BY <2>3, <3>2, PendingKept DEF TypeOK, Create, End
    <3> QED
      BY <2>3, <3>1, <3>2 DEF Create
  <2>4. CASE Write(c)
    <3>1. CASE Goto(c, "restart") /\ UNCHANGED status
      BY <2>4, <3>1, PendingAfter DEF TypeOK, Write, Goto, Live
    <3>2. CASE UNCHANGED pc
      BY <2>4, <3>2, PendingAfter DEF Write
    <3> QED
      BY <2>4, <3>1, <3>2 DEF Write
  <2>5. CASE Restart(c)
    <3>1. CASE loaded' = Content(file) /\ UNCHANGED file
      BY <3>1 DEF DaemonFollowsFile, Behind, Content
    <3>2. CASE opts[c].mode = "none" /\ End(c, "ok") /\ UNCHANGED pc
      BY <2>5, <3>2, PendingKept DEF TypeOK, Restart, End
    <3>3. CASE Goto(c, "dial") /\ UNCHANGED status
      BY <2>5, <3>3, PendingKept DEF TypeOK, Restart, Goto, Live
    <3>4. CASE End(c, "failed") /\ UNCHANGED pc
      BY <2>5, <3>4, PendingKept DEF TypeOK, Restart, End
    <3> QED
      BY <2>5, <3>1, <3>2, <3>3, <3>4 DEF Restart
  <2>6. CASE Dial(c)
    BY <2>6, PendingKept DEF TypeOK, Dial, Retry, End, Goto, Live
  <2>7. CASE Kill(c)
    <3>1. CASE hup' = 1
      BY <3>1 DEF DaemonFollowsFile, Behind
    <3>2. CASE Retry(c) /\ UNCHANGED hup
      BY <2>7, <3>2, PendingKept DEF TypeOK, Kill, Retry, End, Goto, Live
    <3>3. CASE End(c, "killed") /\ UNCHANGED << pc, attempt, hup >>
      BY <2>7, <3>3, PendingKept DEF TypeOK, Kill, End
    <3> QED
      BY <2>7, <3>1, <3>2, <3>3 DEF Kill
  <2> QED
    BY <1>3, <2>1, <2>2, <2>3, <2>4, <2>5, <2>6, <2>7 DEF CommandStep
<1>4. CASE DaemonStop
  BY <1>4 DEF DaemonFollowsFile, Behind, DaemonStop
<1>5. CASE DaemonStart
  BY <1>5 DEF DaemonFollowsFile, Behind, DaemonStart, Content
<1>6. CASE UserEdit
  BY <1>6 DEF DaemonFollowsFile, Behind, UserEdit
<1>7. CASE UNCHANGED vars
  BY <1>7 DEF DaemonFollowsFile, Behind, vars, Readable, Content
<1> QED
  BY <1>1, <1>2, <1>3, <1>4, <1>5, <1>6, <1>7 DEF Next

-----------------------------------------------------------------------------
(* The author of the file                                                  *)

\* Every step keeps the file as empty as its writer left it.
LEMMA NextWrite ==
  TypeOK /\ CommandInv /\ WriteInv /\ [Next]_vars => WriteInv'
<1> SUFFICES ASSUME TypeOK, CommandInv, WriteInv, [Next]_vars
             PROVE  WriteInv'
  OBVIOUS
<1> USE DEF command, daemon, history, Live
<1>1. ASSUME NEW c \in Command, Start(c)
      PROVE  WriteInv'
  BY <1>1 DEF TypeOK, CommandInv, WriteInv, Start
<1>2. ASSUME NEW c \in Command, Refuse(c) \/ Crash(c)
      PROVE  WriteInv'
  BY <1>2 DEF TypeOK, WriteInv, Refuse, Crash, End
<1>3. ASSUME NEW c \in Command, CommandStep(c)
      PROVE  WriteInv'
  <2>1. CASE Load(c)
    BY <2>1 DEF TypeOK, WriteInv, Load, End, Goto
  <2>2. CASE Remove(c)
    <3>1. CASE /\ Overtake(Command \ {c})
               /\ Goto(c, "restart") /\ UNCHANGED << status, edits, user >>
      BY <3>1 DEF TypeOK, WriteInv, Overtake, Goto
    <3>2. CASE End(c, "failed") /\ UNCHANGED << file, pc, history >>
      BY <2>2, <3>2 DEF TypeOK, WriteInv, Remove, End
    <3> QED
      BY <2>2, <3>1, <3>2 DEF Remove
  <2>3. CASE Create(c)
    <3>1. CASE file' = FileOf("config", EmptyConfig)
      BY <3>1 DEF WriteInv
    <3>2. CASE End(c, "failed") /\ UNCHANGED << file, pc, history >>
      BY <2>3, <3>2 DEF TypeOK, WriteInv, Create, End
    <3> QED
      BY <2>3, <3>1, <3>2 DEF Create
  <2>4. CASE Write(c)
    BY <2>4 DEF TypeOK, WriteInv, Write, Overtake, End, Goto
  <2>5. CASE Restart(c)
    BY <2>5 DEF TypeOK, WriteInv, Restart, End, Goto
  <2>6. CASE Dial(c)
    BY <2>6 DEF TypeOK, WriteInv, Dial, Retry, End, Goto
  <2>7. CASE Kill(c)
    BY <2>7 DEF TypeOK, WriteInv, Kill, Retry, End, Goto
  <2> QED
    BY <1>3, <2>1, <2>2, <2>3, <2>4, <2>5, <2>6, <2>7 DEF CommandStep
<1>4. CASE DaemonStop \/ DaemonStart \/ UNCHANGED vars
  BY <1>4 DEF WriteInv, DaemonStop, DaemonStart, vars
<1>5. CASE UserEdit
  BY <1>5 DEF WriteInv, UserEdit, Overtake
<1> QED
  BY <1>1, <1>2, <1>3, <1>4, <1>5 DEF Next

\* An author stays one while the file and containerd stay as they are, if it
\* goes on to RestartContainerd or ends otherwise than well, or is to tell nobody.
LEMMA AuthorKept ==
  ASSUME AuthorInv, NEW c \in Command,
         UNCHANGED << file, containerd, loaded, hup, overtaken, author >>,
         \A d \in Command \ {c} : /\ pc'[d] = pc[d] /\ status'[d] = status[d]
                                  /\ opts'[d] = opts[d] /\ result'[d] = result[d],
         pc[c] \in {"restart", "dial", "kill"} =>
           /\ pc'[c] \in {"restart", "dial", "kill"}
           /\ opts'[c] = opts[c] /\ result'[c] = result[c]
           /\ status'[c] = "ok" => opts[c].mode = "none"
  PROVE  AuthorInv'
BY DEF AuthorInv, Behind, Readable, Content

\* A step after which containerd works with its file keeps the file's author.
LEMMA AuthorFollowed ==
  ASSUME AuthorInv, UNCHANGED << file, overtaken, author, pc, opts, result >>,
         ~Behind'
  PROVE  AuthorInv'
BY DEF AuthorInv, Content

\* A configuration without keys is the empty one.
LEMMA EmptyIsEmpty ==
  ASSUME NEW cfg \in Config, IsEmpty(cfg)
  PROVE  cfg = EmptyConfig
BY DEF IsEmpty, OnlyVersion, EmptyConfig, Config

\* Every step keeps the file the author's.
LEMMA NextAuthor ==
  TypeOK /\ CommandInv /\ WriteInv /\ AuthorInv /\ [Next]_vars => AuthorInv'
<1> SUFFICES ASSUME TypeOK, CommandInv, WriteInv, AuthorInv, [Next]_vars
             PROVE  AuthorInv'
  OBVIOUS
<1> USE DEF command, daemon, history
<1>1. ASSUME NEW c \in Command, Start(c)
      PROVE  AuthorInv'
  <2>1. pc[c] = "load"
    BY <1>1 DEF CommandInv, Start
  <2>2. \A d \in Command \ {c} : opts'[d] = opts[d] /\ status'[d] = status[d]
    BY <1>1 DEF TypeOK, Start
  <2> QED
    BY <1>1, <2>1, <2>2, AuthorKept DEF Start
<1>2. ASSUME NEW c \in Command, Refuse(c) \/ Crash(c)
      PROVE  AuthorInv'
  BY <1>2, AuthorKept DEF TypeOK, Refuse, Crash, End
<1>3. ASSUME NEW c \in Command, CommandStep(c)
      PROVE  AuthorInv'
  <2>1. CASE Load(c)
    <3>1. \A d \in Command \ {c} : result'[d] = result[d]
      BY <2>1 DEF TypeOK, Load
    <3> QED
      BY <2>1, <3>1, AuthorKept DEF TypeOK, Load, End, Goto
  <2>2. CASE Remove(c)
    <3>1. CASE /\ file' = FileOf("missing", EmptyConfig) /\ author' = c
               /\ Goto(c, "restart") /\ UNCHANGED << status, edits, user >>
      <4>1. result[c] = EmptyConfig
        BY <2>2, EmptyIsEmpty DEF TypeOK, Remove
      <4>2. file'.state # "torn" /\ Content(file') = EmptyConfig
        BY <3>1, EmptyType, FileOfType DEF Content
      <4> QED
        BY <2>2, <3>1, <4>1, <4>2 DEF TypeOK, AuthorInv, Remove, Goto, Live, Content
    <3>2. CASE End(c, "failed") /\ UNCHANGED << file, pc, history >>
      BY <2>2, <3>2, AuthorKept DEF TypeOK, Remove, End
    <3> QED
      BY <2>2, <3>1, <3>2 DEF Remove
  <2>3. CASE Create(c)
    <3>1. CASE author' = None
      BY <3>1, NoneAssumption DEF AuthorInv
    <3>2. CASE End(c, "failed") /\ UNCHANGED << file, pc, history >>
      BY <2>3, <3>2, AuthorKept DEF TypeOK, Create, End
    <3> QED
      BY <2>3, <3>1, <3>2 DEF Create
  <2>4. CASE Write(c)
    <3>1. pc[c] = "write" /\ Live(c) /\ (c \in overtaken' <=> c \in overtaken)
      BY <2>4 DEF Write, Overtake
    <3>2. CASE /\ Overwrite(c, result[c])
               /\ Goto(c, "restart") /\ UNCHANGED status
      <4>1. CASE author' = c
        <5>1. c \notin overtaken => file' = FileOf("config", result[c])
          BY <3>1, <3>2, OverwriteFacts DEF TypeOK, WriteInv
        <5>2. c \notin overtaken
                => file'.state # "torn" /\ Content(file') = result[c]
          BY <5>1, FileOfType DEF TypeOK, Content
        <5> QED
          BY <2>4, <3>1, <3>2, <4>1, <5>2
             DEF TypeOK, AuthorInv, Write, Goto, Live, Content
      <4>2. CASE UNCHANGED << file, author >>
        <5>1. author # c /\ overtaken \subseteq overtaken'
          BY <2>4, <3>1 DEF AuthorInv, Write, Overtake
        <5>2. Behind' = Behind /\ Content(file)' = Content(file)
          BY <2>4, <4>2 DEF Write, Behind, Readable, Content
        <5> QED
          BY <2>4, <3>2, <4>2, <5>1, <5>2 DEF TypeOK, AuthorInv, Write, Goto
      <4> QED
        BY <3>2, <4>1, <4>2 DEF Overwrite
    <3>3. CASE author' = None
      BY <3>3, NoneAssumption DEF AuthorInv
    <3> QED
      BY <2>4, <3>2, <3>3 DEF Write
  <2>5. CASE Restart(c)
    <3>1. CASE loaded' = Content(file) /\ UNCHANGED << file, pc >>
      <4>1. ~Behind'
        BY <3>1 DEF Behind, Content
      <4> QED
        BY <2>5, <3>1, <4>1, AuthorFollowed DEF Restart
    <3>2. CASE /\ opts[c].mode = "none" /\ End(c, "ok")
               /\ UNCHANGED << pc, ucred, containerd, loaded, hup >>
      BY <2>5, <3>2, AuthorKept DEF TypeOK, Restart, End
    <3>3. CASE /\ Goto(c, "dial")
               /\ UNCHANGED << status, ucred, containerd, loaded, hup >>
      BY <2>5, <3>3, AuthorKept DEF TypeOK, Restart, Goto, Live
    <3>4. CASE /\ End(c, "failed")
               /\ UNCHANGED << pc, ucred, containerd, loaded, hup >>
      BY <2>5, <3>4, AuthorKept DEF TypeOK, Restart, End
    <3> QED
      BY <2>5, <3>1, <3>2, <3>3, <3>4 DEF Restart
  <2>6. CASE Dial(c)
    BY <2>6, AuthorKept DEF TypeOK, Dial, Retry, End, Goto, Live
  <2>7. CASE Kill(c)
    <3>1. CASE hup' = 1 /\ UNCHANGED << pc, attempt >>
      <4>1. ~Behind'
        BY <3>1 DEF Behind
      <4> QED
        BY <2>7, <3>1, <4>1, AuthorFollowed DEF Kill
    <3>2. CASE Retry(c) /\ UNCHANGED hup
      BY <2>7, <3>2, AuthorKept DEF TypeOK, Kill, Retry, End, Goto, Live
    <3>3. CASE End(c, "killed") /\ UNCHANGED << pc, attempt, hup >>
      BY <2>7, <3>3, AuthorKept DEF TypeOK, Kill, End
    <3> QED
      BY <2>7, <3>1, <3>2, <3>3 DEF Kill
  <2> QED
    BY <1>3, <2>1, <2>2, <2>3, <2>4, <2>5, <2>6, <2>7 DEF CommandStep
<1>4. CASE DaemonStop
  BY <1>4, AuthorFollowed DEF DaemonStop, Behind
<1>5. CASE DaemonStart
  BY <1>5, AuthorFollowed DEF DaemonStart, Behind, Content
<1>6. CASE UserEdit
  BY <1>6, NoneAssumption DEF AuthorInv, UserEdit
<1>7. CASE UNCHANGED vars
  BY <1>7 DEF AuthorInv, Behind, Readable, Content, vars
<1> QED
  BY <1>1, <1>2, <1>3, <1>4, <1>5, <1>6, <1>7 DEF Next

-----------------------------------------------------------------------------
(* The theorems                                                            *)

\* A cleanup with the options of a setup removes every toolkit executable that
\* the setup configured, in a version 2 file or with the standard class (Update,
\* Revert).
THEOREM CleanupAfterSetup ==
  ASSUME NEW cfg \in Config, NoNvidia(cfg), NEW o \in Options,
         NEW version \in {"v1", "v2"},
         version = "v2" \/ NvidiaClassFor(o) = Nvidia,
         NEW mid \in UpdateConfig(cfg, o, version)
  PROVE  NoNvidia(RevertConfig(mid, o, version))
<1> DEFINE new     == RevertConfig(mid, o, version)
           removed == ClassesToRevert(o, version)
<1>1. /\ mid \in Config
      /\ \A n \in Class \ {NvidiaClassFor(o), Experimental} :
           mid.classes[n] = cfg.classes[n]
      /\ version = "v2" => mid.legacy = cfg.legacy
  BY UpdateFacts
<1>2. {NvidiaClassFor(o), Experimental} \subseteq removed
  BY DEF ClassesToRevert, NvidiaClass
<1> HIDE DEF removed
<1>3. /\ new.classes = RemoveClasses(mid.classes, removed)
      /\ new.legacy = IF version = "v1" THEN RevertLegacy(mid.legacy)
                                        ELSE mid.legacy
  BY <1>1, RevertFacts DEF removed
<1> HIDE DEF new
<1>4. new.legacy.binary \notin NvidiaBinary
  <2>1. CASE version = "v1"
    BY <1>1, <1>3, <2>1, RevertLegacyFacts DEF Config
  <2>2. CASE version = "v2"
    BY <1>1, <1>3, <2>2 DEF NoNvidia
  <2> QED
    BY <2>1, <2>2
<1>5. NoRuntime.binary \notin NvidiaBinary
  BY DEF NoRuntime, NoBinary, NvidiaBinary
<1>6. \A n \in Class : new.classes[n].binary \notin NvidiaBinary
  BY <1>1, <1>2, <1>3, <1>5 DEF RemoveClasses, NoNvidia
<1>7. NoNvidia(new)
  BY <1>4, <1>6 DEF NoNvidia
<1> QED
  BY <1>7 DEF new

\* Initially nothing is under way, and containerd has read a file it can read.
LEMMA InitInv == Init => TypeOK /\ IInv /\ DaemonFollowsFile
<1> SUFFICES ASSUME Init
             PROVE  TypeOK /\ IInv /\ DaemonFollowsFile
  OBVIOUS
<1>1. file \in File /\ Content(file) \in Config /\ Resolves(Content(file))
  BY FileAssumption, ContentType DEF Init
<1>2. TypeOK
  BY <1>1, EmptyType, AttemptsAssumption, EditsAssumption
     DEF Init, TypeOK, Status, Pc
<1>3. CommandInv
  BY DEF Init, CommandInv, Live
<1>4. ResolveInv
  BY <1>1, EmptyType DEF Init, ResolveInv
<1>5. UserInv
  BY FileAssumption DEF Init, UserInv, Live
<1>6. WriteInv /\ AuthorInv
  BY NoneAssumption DEF Init, WriteInv, AuthorInv, Live
<1>7. DaemonFollowsFile
  BY DEF Init, DaemonFollowsFile, Behind
<1> QED
  BY <1>2, <1>3, <1>4, <1>5, <1>6, <1>7 DEF IInv

\* The inductive invariant: commands write what comes from what they loaded,
\* which has a default that resolves, unless part of a text was written, and the
\* user's settings, unless they were stopped or overtaken; and the file stays
\* the author's.
THEOREM Invariance == Spec => [](TypeOK /\ IInv)
<1>1. TypeOK /\ IInv /\ [Next]_vars => (TypeOK /\ IInv)'
  BY NextType, NextCommand, NextResolve, NextUser, NextWrite, NextAuthor DEF IInv
<1> QED
  BY InitInv, <1>1, PTL DEF Spec

\* Every variable has its type in every reachable state.
THEOREM TypeCorrect == Spec => []TypeOK
BY Invariance, PTL

\* Neither the file nor containerd names a default runtime without an entry,
\* unless an error left part of a text (Update, Revert, FlushConfig).
THEOREM DefaultAlwaysResolves == Spec => []DefaultResolves
<1>1. IInv => DefaultResolves
  BY DEF IInv, ResolveInv, DefaultResolves
<1> QED
  BY Invariance, <1>1, PTL

\* The user's keys and runtimes survive every mix of commands in which none is
\* stopped inside FlushConfig, or overtaken before it.
THEOREM UserSettingsAreKept == Spec => []UserSettingsKept
<1>1. IInv => UserSettingsKept
  BY DEF IInv, UserInv, UserSettingsKept
<1> QED
  BY Invariance, <1>1, PTL

\* A running containerd works with the file, has been told to restart, or a
\* command answers for the difference (Setup, Cleanup).
THEOREM DaemonFollows == Spec => []DaemonFollowsFile
<1>1. Init => DaemonFollowsFile
  BY InitInv
<1>2. TypeOK /\ IInv /\ DaemonFollowsFile /\ [Next]_vars => DaemonFollowsFile'
  BY NextFollows DEF IInv
<1> QED
  BY Invariance, <1>1, <1>2, PTL DEF Spec

\* No toolkit executable is left by a setup and a cleanup with the same options,
\* in a version 2 file or with the standard class, wherever in a run of commands
\* the two are (Update, Revert).
THEOREM StandardClassIsRemoved == Spec => []StandardClassRemoved
<1>1. TypeOK /\ IInv => StandardClassRemoved
  <2> SUFFICES ASSUME TypeOK, IInv, NEW s \in Command, NEW c \in Command,
                      SetupThenCleanup(s, c), NoNvidia(seen[s]),
                      \/ result[s].version = "v2"
                      \/ NvidiaClassFor(opts[s]) = Nvidia
               PROVE  NoNvidia(Content(file))
    BY DEF StandardClassRemoved
  <2> DEFINE o       == opts[s]
             version == Version(seen[s], o)
  <2>1. pc[s] # "load" /\ pc[c] # "load"
    BY DEF IInv, CommandInv, SetupThenCleanup
  <2>2. /\ o \in SetupOptions /\ o \in Options /\ seen[s] \in Config
        /\ result[s] \in Outcomes(s, seen[s])
        /\ result[c] \in Outcomes(c, seen[c])
    BY <2>1, ConfigAssumption DEF IInv, CommandInv, TypeOK
  <2>3. /\ version \in {"v1", "v2"}
        /\ result[s] \in UpdateConfig(seen[s], o, version)
    BY <2>2 DEF Outcomes, SetupThenCleanup, Version, Config
  <2>4. result[s] \in Config /\ result[s].version = version
    BY <2>2, <2>3, UpdateFacts
  <2>5. Version(result[s], o) = version
    BY <2>3, <2>4 DEF Version
  <2>6. result[c] = RevertConfig(result[s], o, version)
    BY <2>2, <2>3, <2>5 DEF Outcomes, SetupThenCleanup
  <2> HIDE DEF o, version
  <2>7. version = "v2" \/ NvidiaClassFor(o) = Nvidia
    BY <2>4 DEF o
  <2>8. NoNvidia(RevertConfig(result[s], o, version))
    BY <2>2, <2>3, <2>7, CleanupAfterSetup
  <2> QED
    BY <2>6, <2>8 DEF SetupThenCleanup
<1> QED
  BY Invariance, <1>1, PTL

\* A command that nobody overtook and that reports success has done what it is
\* for: the file has it, and so has containerd if it was to be told, until
\* somebody touches the file (Setup and Cleanup as a whole).
THEOREM SuccessIsEffective == Spec => []SuccessTakesEffect
<1>1. TypeOK /\ IInv => SuccessTakesEffect
  <2> SUFFICES ASSUME TypeOK, CommandInv, AuthorInv, NEW c \in Command,
                      author = c, status[c] = "ok", c \notin overtaken
               PROVE  /\ file.state # "torn" /\ Done(c, Content(file))
                      /\ opts[c].mode # "none" /\ containerd = "up" /\ hup = 0
                           /\ Readable(file) => Done(c, loaded)
    BY DEF IInv, SuccessTakesEffect
  <2> DEFINE o == opts[c]
             version == Version(seen[c], o)
  <2>1. /\ pc[c] # "load" /\ file.state # "torn" /\ Content(file) = result[c]
        /\ o.mode # "none" => ~Behind
    BY DEF AuthorInv
  <2>2. /\ o \in Options /\ seen[c] \in Config
        /\ result[c] \in Outcomes(c, seen[c])
    BY <2>1, ConfigAssumption DEF CommandInv, TypeOK
  <2>3. version \in {"v1", "v2"}
    BY <2>2 DEF Outcomes, Version, Config
  <2>4. Done(c, result[c])
    <3>1. CASE op[c] = "setup"
      <4>1. result[c] \in UpdateConfig(seen[c], o, version)
        BY <2>2, <2>3, <3>1 DEF Outcomes
      <4> QED
        BY <2>2, <2>3, <3>1, <4>1, UpdateInForce DEF Done
    <3>2. CASE op[c] # "setup"
      <4>1. result[c] = RevertConfig(seen[c], o, version)
        BY <2>2, <2>3, <3>2 DEF Outcomes
      <4> QED
        BY <2>2, <2>3, <3>2, <4>1, RevertOutOfForce DEF Done
    <3> QED
      BY <3>1, <3>2
  <2>5. o.mode # "none" /\ containerd = "up" /\ hup = 0 /\ Readable(file)
          => loaded = result[c]
    BY <2>1 DEF Behind
  <2> QED
    BY <2>1, <2>4, <2>5
<1> QED
  BY Invariance, <1>1, PTL

-----------------------------------------------------------------------------
(* The way to the end                                                      *)

\* The number of steps left is a number.
LEMMA StepsType ==
  ASSUME TypeOK, NEW c \in Command
  PROVE  StepsLeft(c) \in Nat /\ (Live(c) => StepsLeft(c) # 0)
<1>1. /\ attempt[c] \in Nat /\ attempt[c] < MaxReloadAttempts
      /\ MaxReloadAttempts \in Nat
  BY AttemptsAssumption DEF TypeOK
<1> QED
  BY <1>1 DEF StepsLeft, Live

\* A failed attempt leaves fewer steps than there were with the number of the
\* process, and than there were without it.
LEMMA RetryCounts ==
  ASSUME TypeOK, NEW c \in Command, Live(c), pc[c] \in {"dial", "kill"}, Retry(c)
  PROVE  StepsLeft(c)' < StepsLeft(c)
<1>1. attempt[c] \in Nat /\ attempt[c] < MaxReloadAttempts
      /\ MaxReloadAttempts \in Nat
  BY AttemptsAssumption DEF TypeOK
<1>2. CASE attempt[c] = MaxReloadAttempts - 1
  <2>1. StepsLeft(c)' = 0
    BY <1>2 DEF TypeOK, Retry, End, StepsLeft, Live
  <2>2. StepsLeft(c) \in Nat \ {0}
    BY <1>1 DEF StepsLeft, Live
  <2> QED
    BY <2>1, <2>2
<1>3. CASE attempt[c] # MaxReloadAttempts - 1
  <2>1. /\ attempt'[c] = attempt[c] + 1 /\ pc'[c] = "dial"
        /\ status'[c] = "live"
    BY <1>3 DEF TypeOK, Retry, Goto, Live
  <2>2. StepsLeft(c)' = 2 * (MaxReloadAttempts - (attempt[c] + 1))
    BY <2>1 DEF StepsLeft, Live
  <2>3. StepsLeft(c) \in {2 * (MaxReloadAttempts - attempt[c]),
                          2 * (MaxReloadAttempts - attempt[c]) - 1}
    BY DEF StepsLeft, Live
  <2> QED
    BY <1>1, <2>2, <2>3
<1> QED
  BY <1>2, <1>3

\* Every step of a command leaves it fewer.
LEMMA StepCounts ==
  ASSUME TypeOK, NEW c \in Command, CommandStep(c)
  PROVE  StepsLeft(c)' < StepsLeft(c)
<1>1. attempt[c] \in Nat /\ attempt[c] < MaxReloadAttempts
      /\ MaxReloadAttempts \in Nat
  BY AttemptsAssumption DEF TypeOK
<1>2. Live(c) => StepsLeft(c) \in Nat \ {0}
  BY <1>1 DEF StepsLeft, Live
<1>3. ASSUME Live(c), status'[c] \in {"ok", "failed", "killed"}
      PROVE  StepsLeft(c)' < StepsLeft(c)
  <2>1. StepsLeft(c)' = 0
    BY <1>3 DEF StepsLeft, Live
  <2> QED
    BY <1>2, <1>3, <2>1
<1>4. CASE Load(c)
  BY <1>1, <1>3, <1>4 DEF TypeOK, Load, End, Goto, StepsLeft, Live
<1>5. CASE Remove(c)
  BY <1>1, <1>3, <1>5 DEF TypeOK, Remove, End, Goto, StepsLeft, Live
<1>6. CASE Create(c)
  BY <1>1, <1>3, <1>6 DEF TypeOK, Create, End, Goto, StepsLeft, Live
<1>7. CASE Write(c)
  BY <1>1, <1>3, <1>7 DEF TypeOK, Write, End, Goto, StepsLeft, Live
<1>8. CASE Restart(c)
  BY <1>1, <1>3, <1>8 DEF TypeOK, Restart, End, Goto, StepsLeft, Live
<1>9. CASE Dial(c)
  BY <1>1, <1>9, RetryCounts DEF TypeOK, Dial, Goto, StepsLeft, Live
<1>10. CASE Kill(c)
  BY <1>3, <1>10, RetryCounts DEF TypeOK, Kill, End
<1> QED
  BY <1>4, <1>5, <1>6, <1>7, <1>8, <1>9, <1>10 DEF CommandStep

\* Nobody sets a command back.
LEMMA NextCounts ==
  ASSUME TypeOK, CommandInv, [Next]_vars, TypeOK', NEW c \in Command
  PROVE  StepsLeft(c)' <= StepsLeft(c)
<1> USE DEF command
<1>1. StepsLeft(c) \in Nat
  BY StepsType
<1>2. StepsLeft(c)' \in Nat
  <2>1. /\ attempt'[c] \in Nat /\ attempt'[c] < MaxReloadAttempts
        /\ MaxReloadAttempts \in Nat
    BY AttemptsAssumption DEF TypeOK
  <2> QED
    BY <2>1 DEF StepsLeft, Live
<1>3. CASE UNCHANGED << status[c], pc[c], attempt[c] >>
  <2>1. StepsLeft(c)' = StepsLeft(c)
    BY <1>3 DEF StepsLeft, Live
  <2> QED
    BY <1>1, <2>1
<1>4. CASE status'[c] \in {"ok", "failed", "killed"}
  <2>1. StepsLeft(c)' = 0
    BY <1>4 DEF StepsLeft, Live
  <2> QED
    BY <1>1, <2>1
<1>5. ASSUME NEW d \in Command,
             Start(d) \/ Refuse(d) \/ CommandStep(d) \/ Crash(d)
      PROVE  StepsLeft(c)' <= StepsLeft(c)
  <2>1. CASE d # c
    <3>1. UNCHANGED << status[c], pc[c], attempt[c] >>
      BY <1>5, <2>1
         DEF TypeOK, Start, Refuse, CommandStep, Crash, Load, Remove, Create,
             Write, Restart, Dial, Kill, Retry, End, Goto
    <3> QED
      BY <1>3, <3>1
  <2>2. CASE d = c /\ Start(c)
    BY <2>2, AttemptsAssumption DEF TypeOK, CommandInv, Start, StepsLeft, Live
  <2>3. CASE d = c /\ (Refuse(c) \/ Crash(c))
    BY <1>4, <2>3 DEF TypeOK, Refuse, Crash, End
  <2>4. CASE d = c /\ CommandStep(c)
    BY <1>1, <1>2, <2>4, StepCounts
  <2> QED
    BY <1>5, <2>1, <2>2, <2>3, <2>4
<1>6. CASE DaemonStop \/ DaemonStart \/ UserEdit \/ UNCHANGED vars
  BY <1>3, <1>6
     DEF DaemonStop, DaemonStart, UserEdit, vars
<1> QED
  BY <1>5, <1>6 DEF Next

\* A command that reports that it could not signal containerd was at its last
\* attempt and did not.
LEMMA GivesUp ==
  ASSUME TypeOK, CommandInv, [Next]_vars, NEW c \in Command,
         pc[c] \in {"dial", "kill"},
         status[c] # "failed", status'[c] = "failed"
  PROVE  StepsLeft(c) <= 2 /\ hup' = hup
<1> USE DEF command, daemon, history, Live
<1>1. /\ attempt[c] \in Nat /\ attempt[c] < MaxReloadAttempts
      /\ MaxReloadAttempts \in Nat
  BY AttemptsAssumption DEF TypeOK
<1>2. ASSUME NEW d \in Command,
             Start(d) \/ Refuse(d) \/ CommandStep(d) \/ Crash(d)
      PROVE  StepsLeft(c) <= 2 /\ hup' = hup
  <2>1. CASE d # c
    <3>1. status'[c] = status[c]
      BY <1>2, <2>1
         DEF TypeOK, Start, Refuse, CommandStep, Crash, Load, Remove, Create,
             Write, Restart, Dial, Kill, Retry, End, Goto
    <3> QED
      BY <3>1
  <2>2. CASE d = c /\ status[c] = "live"
    <3>1. \/ Dial(c) /\ Retry(c)
          \/ Kill(c) /\ Retry(c) /\ UNCHANGED hup
      BY <1>2, <2>2 DEF TypeOK, Start, Refuse, CommandStep, Crash, Load, Remove,
                        Create, Write, Restart, Dial, Kill, End
    <3>2. attempt[c] = MaxReloadAttempts - 1
      BY <2>2, <3>1 DEF TypeOK, Retry
    <3>3. StepsLeft(c) \in {2 * (MaxReloadAttempts - attempt[c]),
                            2 * (MaxReloadAttempts - attempt[c]) - 1}
      BY <2>2 DEF StepsLeft
    <3>4. StepsLeft(c) <= 2
      BY <1>1, <3>2, <3>3
    <3> QED
      BY <3>1, <3>4 DEF Dial
  <2>3. status[c] # "new"
    BY DEF CommandInv
  <2> QED
    BY <1>2, <2>1, <2>2, <2>3
       DEF Start, Refuse, CommandStep, Crash, Load, Remove, Create, Write,
           Restart, Dial, Kill
<1>3. CASE DaemonStop \/ DaemonStart \/ UserEdit \/ UNCHANGED vars
  BY <1>3 DEF DaemonStop, DaemonStart, UserEdit, vars
<1> QED
  BY <1>2, <1>3 DEF Next

\* A command has at most 2 * maxReloadAttempts + 5 steps in all, however many
\* other commands, edits and restarts of containerd come in between, and gives
\* up on containerd only at the last attempt (SignalContainerd).
THEOREM CommandsAdvance == Spec => NeverSetBack
<1>1. ASSUME TypeOK, IInv, [Next]_vars, TypeOK'
      PROVE  \A c \in Command :
               /\ StepsLeft(c)' <= StepsLeft(c)
               /\ CommandStep(c) => StepsLeft(c)' < StepsLeft(c)
               /\ pc[c] \in {"dial", "kill"} /\ status[c] # "failed"
                    /\ status'[c] = "failed"
                    => StepsLeft(c) <= 2 /\ hup' = hup
  BY <1>1, NextCounts, StepCounts, GivesUp DEF IInv
<1> QED
  BY <1>1, Invariance, PTL DEF Spec, NeverSetBack

-----------------------------------------------------------------------------
(* The promise                                                             *)

\* What stays the same in RuntimeConfig when the file and containerd do.
LEMMA SameDaemon ==
  ASSUME UNCHANGED << file, containerd, hup, loaded >>
  PROVE  Behind' = Behind
BY DEF Behind, Readable, Content

\* A step of one command moves that command's stage.
LEMMA Moves ==
  ASSUME NEW c \in Command, NEW from, NEW to, Stage(c) \in from, Stage(c)' = to,
         \A d \in Command \ {c} :
           pc'[d] = pc[d] /\ status'[d] = status[d] /\ opts'[d] = opts[d]
  PROVE  Abstract!Move(c, from, to)
<1>1. \A d \in Command \ {c} : Stage(d)' = Stage(d)
  BY DEF Stage, Live
<1>2. stages' = [stages EXCEPT ![c] = to]
  BY <1>1 DEF stages
<1>3. stages[c] \in from
  BY DEF stages
<1> QED
  BY <1>2, <1>3 DEF Abstract!Move

\* Nobody is stopped between its two writes by a step that stops nobody there.
LEMMA SameStopped ==
  ASSUME \A d \in Command : (pc'[d] = "write" /\ status'[d] # "live")
                              <=> (pc[d] = "write" /\ status[d] # "live")
  PROVE  stopped' = stopped
BY DEF stopped, Live

\* The commands that a change of the file disturbs.
LEMMA Rewriting ==
  ASSUME TypeOK, NEW c \in Command
  PROVE  stages[c] \in {"holding", "writing"}
           <=> Live(c) /\ pc[c] \in {"create", "write"}
BY DEF TypeOK, Status, stages, Stage, Live

\* A step in which the file changes disturbs the same commands.
LEMMA Changes ==
  ASSUME TypeOK, NEW cs \in SUBSET Command, Overtake(cs), stopped' = stopped
  PROVE  /\ Abstract!Change(cs)
         /\ (overtaken \cup stopped)' = (overtaken \cup stopped) \cup
               {c \in cs : stages[c] \in {"holding", "writing"}}
BY Rewriting DEF Overtake, Abstract!Change

\* An error or a kill of a command that leaves everything else as it is.
LEMMA Fails ==
  ASSUME TypeOK, NEW c \in Command, End(c, "failed") \/ End(c, "killed"),
         Live(c) \/ (status[c] = "new" /\ pc[c] = "load"),
         UNCHANGED << file, opts, pc, containerd, loaded, hup, overtaken, author >>
  PROVE  Abstract!Fail(c)
<1>1. /\ Stage(c)' = "failed"
      /\ Stage(c) \in Abstract!Progress \ Abstract!Ended
  BY DEF TypeOK, End, Stage, Live, Abstract!Progress, Abstract!Ended
<1>2. Abstract!Move(c, Abstract!Progress \ Abstract!Ended, "failed")
  BY <1>1, Moves DEF TypeOK, End
<1>3. CASE pc[c] = "write"
  <2>1. stopped' = stopped \cup {c}
    BY <1>3 DEF TypeOK, stopped, End, Live
  <2>2. stages[c] = "writing"
    BY <1>3 DEF stages, Stage, Live
  <2> QED
    BY <1>2, <2>1, <2>2, SameDaemon DEF Abstract!Fail
<1>4. CASE pc[c] # "write"
  <2>1. stopped' = stopped
    BY <1>4, SameStopped DEF TypeOK, End
  <2> QED
    BY <1>2, <2>1, SameDaemon DEF Abstract!Fail
<1> QED
  BY <1>3, <1>4

\* A step that RuntimeConfig does not know of.
LEMMA Stutters ==
  ASSUME TypeOK, NEW c \in Command, Live(c), pc[c] \in {"restart", "dial", "kill"},
         pc'[c] \in {"restart", "dial", "kill"}, UNCHANGED status,
         \A d \in Command \ {c} : pc'[d] = pc[d],
         UNCHANGED << file, opts, containerd, loaded, hup, history >>
  PROVE  UNCHANGED Abstract!vars
<1> USE DEF history
<1>1. stages' = stages
  BY DEF stages, Stage, Live
<1>2. stopped' = stopped
  BY SameStopped
<1>3. settings' = settings
  BY DEF settings, Live, Content, UserPart
<1> QED
  BY <1>1, <1>2, <1>3, SameDaemon DEF Abstract!vars

\* An attempt to signal containerd that fails is an error, or nothing.
LEMMA RetrySimulation ==
  ASSUME TypeOK, NEW c \in Command, Live(c), pc[c] \in {"dial", "kill"}, Retry(c),
         UNCHANGED << file, opts, containerd, loaded, hup, history >>
  PROVE  Abstract!Fail(c) \/ UNCHANGED Abstract!vars
<1> USE DEF history
<1>1. CASE End(c, "failed") /\ UNCHANGED << pc, attempt >>
  BY <1>1, Fails
<1>2. CASE Goto(c, "dial") /\ UNCHANGED status
  BY <1>2, Stutters DEF TypeOK, Goto
<1> QED
  BY <1>1, <1>2 DEF Retry

\* A write that succeeds, one that does so too late, and one that fails.
LEMMA WriteSimulation ==
  ASSUME TypeOK, NEW c \in Command, Write(c)
  PROVE  Abstract!Put(c) \/ Abstract!PutAside(c) \/ Abstract!FailWriting(c)
<1> USE DEF daemon, history
<1>1. /\ Live(c) /\ pc[c] = "write" /\ Stage(c) = "writing"
      /\ Overtake(Command \ {c}) /\ UNCHANGED << opts, daemon >>
  BY DEF Write, Stage, Live
<1>2. CASE Overwrite(c, result[c]) /\ Goto(c, "restart") /\ UNCHANGED status
  <2>1. Stage(c)' = "telling"
    BY <1>1, <1>2 DEF TypeOK, Goto, Stage, Live
  <2>2. /\ Abstract!Move(c, {"holding", "writing"}, "telling")
        /\ Abstract!Move(c, {"writing"}, "telling")
    BY <1>1, <1>2, <2>1, Moves DEF TypeOK, Goto
  <2>3. stopped' = stopped
    BY <1>1, <1>2, SameStopped DEF TypeOK, Goto, Live
  <2>4. CASE author' = c
    BY <1>1, <2>2, <2>3, <2>4, Changes DEF Abstract!Put
  <2>5. CASE c \in overtaken /\ UNCHANGED << file, author >>
    BY <1>1, <2>2, <2>3, <2>5, Changes, SameDaemon DEF Abstract!PutAside
  <2> QED
    BY <1>2, <2>4, <2>5 DEF Overwrite
<1>3. CASE author' = None /\ End(c, "failed") /\ UNCHANGED pc
  <2>1. Stage(c)' = "failed"
    BY <1>1, <1>3 DEF TypeOK, End, Stage, Live
  <2>2. Abstract!Move(c, {"writing"}, "failed")
    BY <1>1, <1>3, <2>1, Moves DEF TypeOK, End
  <2>3. stopped' = stopped \cup {c}
    BY <1>1, <1>3 DEF TypeOK, stopped, End, Live
  <2>4. Abstract!Change(Command)
    BY <1>1, <2>3, Rewriting DEF Overtake, Abstract!Change
  <2> QED
    BY <1>3, <2>2, <2>4 DEF Abstract!FailWriting
<1> QED
  BY <1>2, <1>3 DEF Write

\* What RestartContainerd reports.
LEMMA RestartSimulation ==
  ASSUME TypeOK, NEW c \in Command, Restart(c)
  PROVE  \/ Abstract!Report(c) \/ Abstract!ReportQuietly(c) \/ Abstract!Fail(c)
         \/ UNCHANGED Abstract!vars
<1> USE DEF history
<1>1. /\ Live(c) /\ pc[c] = "restart" /\ Stage(c) = "telling"
      /\ UNCHANGED << file, opts, history >>
  BY DEF Restart, Stage, Live
<1>2. ASSUME End(c, "ok"), UNCHANGED pc
      PROVE  /\ stopped' = stopped
             /\ Abstract!Move(c, {"telling"},
                              IF opts[c].mode = "none" THEN "quiet" ELSE "ok")
  <2>1. Stage(c)' = IF opts[c].mode = "none" THEN "quiet" ELSE "ok"
    BY <1>1, <1>2 DEF TypeOK, End, Stage, Live
  <2> QED
    BY <1>1, <1>2, <2>1, Moves, SameStopped DEF TypeOK, End
<1>3. CASE /\ opts[c].mode = "none" /\ End(c, "ok")
           /\ UNCHANGED << pc, ucred, containerd, loaded, hup >>
  BY <1>1, <1>2, <1>3, SameDaemon DEF Abstract!ReportQuietly, Abstract!Leave
<1>4. CASE Goto(c, "dial") /\ UNCHANGED << status, containerd, loaded, hup >>
  BY <1>1, <1>4, Stutters DEF TypeOK, Goto
<1>5. CASE /\ opts[c].mode = "systemd" /\ End(c, "ok") /\ UNCHANGED pc
           /\ loaded' = Content(file)
  <2>1. ~Behind'
    BY <1>1, <1>5 DEF Behind, Content
  <2> QED
    BY <1>1, <1>2, <1>5, <2>1 DEF Abstract!Report, Abstract!Leave
<1>6. CASE End(c, "failed") /\ UNCHANGED << pc, containerd, loaded, hup >>
  BY <1>1, <1>6, Fails
<1> QED
  BY <1>3, <1>4, <1>5, <1>6 DEF Restart

\* Every step of a command is one of RuntimeConfig, short of the settings.
LEMMA CommandSimulation ==
  ASSUME TypeOK, CommandInv, NEW c \in Command,
         Start(c) \/ Refuse(c) \/ CommandStep(c) \/ Crash(c)
  PROVE  \/ Abstract!Begin(c) \/ Abstract!Read(c) \/ Abstract!Clear(c)
         \/ Abstract!Put(c) \/ Abstract!PutAside(c) \/ Abstract!Report(c)
         \/ Abstract!ReportQuietly(c) \/ Abstract!Fail(c)
         \/ Abstract!FailWriting(c) \/ UNCHANGED Abstract!vars
<1> USE DEF command, daemon, history
<1>1. CASE Start(c)
  <2>1. pc[c] = "load"
    BY <1>1 DEF CommandInv, Start
  <2>2. Stage(c) = "new" /\ Stage(c)' = "reading"
    BY <1>1, <2>1 DEF TypeOK, Start, Stage, Live
  <2>3. Abstract!Move(c, {"new"}, "reading")
    BY <1>1, <2>2, Moves DEF TypeOK, Start
  <2>4. stopped' = stopped
    BY <1>1, <2>1, SameStopped DEF TypeOK, Start
  <2> QED
    BY <1>1, <2>3, <2>4, SameDaemon DEF Start, Abstract!Begin, Abstract!Leave
<1>2. CASE Refuse(c) \/ Crash(c)
  BY <1>2, Fails DEF CommandInv, Refuse, Crash
<1>3. CASE Load(c)
  <2>1. CASE Goto(c, "create") /\ UNCHANGED status
    <3>1. Stage(c) = "reading" /\ Stage(c)' = "holding"
      BY <1>3, <2>1 DEF TypeOK, Load, Goto, Stage, Live
    <3>2. Abstract!Move(c, {"reading"}, "holding")
      BY <1>3, <2>1, <3>1, Moves DEF TypeOK, Load, Goto
    <3>3. stopped' = stopped
      BY <1>3, <2>1, SameStopped DEF TypeOK, Load, Goto
    <3> QED
      BY <1>3, <3>2, <3>3, SameDaemon DEF Load, Abstract!Read, Abstract!Leave
  <2>2. CASE End(c, "failed") /\ UNCHANGED << seen, result, pc >>
    BY <1>3, <2>2, Fails DEF Load
  <2> QED
    BY <1>3, <2>1, <2>2 DEF Load
<1>4. CASE Remove(c)
  <2>1. CASE /\ Overtake(Command \ {c}) /\ author' = c
             /\ Goto(c, "restart") /\ UNCHANGED << status, edits, user >>
    <3>1. Stage(c) = "holding" /\ Stage(c)' = "telling"
      BY <1>4, <2>1 DEF TypeOK, Remove, Goto, Stage, Live
    <3>2. Abstract!Move(c, {"holding", "writing"}, "telling")
      BY <1>4, <2>1, <3>1, Moves DEF TypeOK, Remove, Goto
    <3>3. stopped' = stopped
      BY <1>4, <2>1, SameStopped DEF TypeOK, Remove, Goto, Live
    <3> QED
      BY <2>1, <3>2, <3>3, Changes DEF Abstract!Put
  <2>2. CASE End(c, "failed") /\ UNCHANGED << file, pc, history >>
    BY <1>4, <2>2, Fails DEF Remove
  <2> QED
    BY <1>4, <2>1, <2>2 DEF Remove
<1>5. CASE Create(c)
  <2>1. CASE /\ Overtake(Command \ {c}) /\ author' = None
             /\ Goto(c, "write") /\ UNCHANGED << status, edits, user >>
    <3>1. Stage(c) = "holding" /\ Stage(c)' = "writing"
      BY <1>5, <2>1 DEF TypeOK, Create, Goto, Stage, Live
    <3>2. Abstract!Move(c, {"holding"}, "writing")
      BY <1>5, <2>1, <3>1, Moves DEF TypeOK, Create, Goto
    <3>3. stopped' = stopped
      BY <1>5, <2>1, SameStopped DEF TypeOK, Create, Goto, Live
    <3> QED
      BY <2>1, <3>2, <3>3, Changes DEF Abstract!Clear
  <2>2. CASE End(c, "failed") /\ UNCHANGED << file, pc, history >>
    BY <1>5, <2>2, Fails DEF Create
  <2> QED
    BY <1>5, <2>1, <2>2 DEF Create
<1>6. CASE Write(c)
  BY <1>6, WriteSimulation
<1>7. CASE Restart(c)
  BY <1>7, RestartSimulation
<1>8. CASE Dial(c)
  <2>1. CASE Goto(c, "kill") /\ UNCHANGED status
    BY <1>8, <2>1, Stutters DEF TypeOK, Dial, Goto
  <2>2. CASE Retry(c)
    BY <1>8, <2>2, RetrySimulation DEF Dial
  <2> QED
    BY <1>8, <2>1, <2>2 DEF Dial
<1>9. CASE Kill(c)
  <2>1. CASE hup' = 1 /\ End(c, "ok") /\ UNCHANGED << pc, attempt >>
    <3>1. opts[c].mode = "signal"
      BY <1>9 DEF CommandInv, Kill
    <3>2. Stage(c) = "telling" /\ Stage(c)' = "ok"
      BY <1>9, <2>1, <3>1 DEF TypeOK, Kill, End, Stage, Live
    <3>3. Abstract!Move(c, {"telling"}, "ok")
      BY <1>9, <2>1, <3>2, Moves DEF TypeOK, Kill, End
    <3>4. stopped' = stopped
      BY <1>9, <2>1, SameStopped DEF TypeOK, Kill, End, Live
    <3>5. ~Behind'
      BY <2>1 DEF Behind
    <3> QED
      BY <1>9, <3>3, <3>4, <3>5 DEF Kill, Abstract!Report, Abstract!Leave
  <2>2. CASE Retry(c) /\ UNCHANGED hup
    BY <1>9, <2>2, RetrySimulation DEF Kill
  <2>3. CASE End(c, "killed") /\ UNCHANGED << pc, attempt, hup >>
    BY <1>9, <2>3, Fails DEF Kill
  <2> QED
    BY <1>9, <2>1, <2>2, <2>3 DEF Kill
<1> QED
  BY <1>1, <1>2, <1>3, <1>4, <1>5, <1>6, <1>7, <1>8, <1>9 DEF CommandStep

\* Every step is a step of RuntimeConfig, or nothing that it knows of.
LEMMA StepSimulation ==
  TypeOK /\ IInv /\ [Next]_vars /\ IInv' => [Abstract!Next]_(Abstract!vars)
<1> SUFFICES ASSUME TypeOK, IInv, [Next]_vars, IInv'
             PROVE  Abstract!Next \/ UNCHANGED Abstract!vars
  BY DEF Abstract!vars
<1> USE DEF command, daemon, history
<1>1. /\ settings' \in {"kept", "lost"}
      /\ (overtaken \cup stopped)' = {} => settings' = "kept"
  BY DEF settings, stopped, IInv, UserInv, Undisturbed
<1>2. ASSUME NEW c \in Command,
             Start(c) \/ Refuse(c) \/ CommandStep(c) \/ Crash(c)
      PROVE  Abstract!Next \/ UNCHANGED Abstract!vars
  BY <1>1, <1>2, CommandSimulation DEF IInv, Abstract!Next
<1>3. CASE DaemonStop \/ DaemonStart
  <2>1. ~Behind'
    BY <1>3 DEF DaemonStop, DaemonStart, Behind, Readable, Content
  <2>2. UNCHANGED << pc, status, opts, overtaken, author >>
    BY <1>3 DEF DaemonStop, DaemonStart
  <2>3. stages' = stages /\ stopped' = stopped
    BY <2>2 DEF stages, stopped, Stage, Live
  <2>4. Abstract!Follow
    BY <2>1, <2>2, <2>3 DEF Abstract!Follow, Abstract!Leave
  <2> QED
    BY <1>1, <2>4 DEF Abstract!Next
<1>4. CASE UserEdit
  <2>1. ~Behind'
    BY <1>4 DEF UserEdit, Behind
  <2>2. stages' = stages /\ stopped' = stopped
    BY <1>4 DEF UserEdit, stages, stopped, Stage, Live
  <2>3. Abstract!Change(Command) /\ author' = None
    BY <1>4, <2>2, Changes DEF UserEdit
  <2>4. Abstract!Edit
    BY <2>1, <2>2, <2>3 DEF Abstract!Edit
  <2> QED
    BY <1>1, <2>4 DEF Abstract!Next
<1>5. CASE UNCHANGED vars
  <2>1. stages' = stages /\ stopped' = stopped
    BY <1>5 DEF vars, stages, stopped, Stage, Live
  <2>2. settings' = settings /\ Behind' = Behind
    BY <1>5, SameDaemon DEF vars, settings, Live, Content, UserPart
  <2> QED
    BY <1>5, <2>1, <2>2 DEF vars, Abstract!vars
<1> QED
  BY <1>2, <1>3, <1>4, <1>5 DEF Next

\* The containerd command implements RuntimeConfig, for any number of commands,
\* edits and attempts (Setup, Cleanup).
THEOREM Refinement == Spec => ImplementsRuntimeConfig
<1>1. Init => Abstract!Init
  <2> SUFFICES ASSUME Init
               PROVE  Abstract!Init
    OBVIOUS
  <2>1. stages = [c \in Command |-> "new"] /\ stopped = {}
    BY DEF Init, stages, stopped, Stage, Live
  <2>2. settings = "kept" /\ ~Behind
    BY FileAssumption DEF Init, settings, Behind
  <2> QED
    BY <2>1, <2>2 DEF Init, Abstract!Init
<1> QED
  BY <1>1, StepSimulation, Invariance, PTL
     DEF Spec, ImplementsRuntimeConfig, Abstract!Spec

============================================================================
