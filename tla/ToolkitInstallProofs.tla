------------------------ MODULE ToolkitInstallProofs ------------------------
(* Theorems about ToolkitInstall and their proofs. *)
EXTENDS ToolkitInstall, TLAPS

\* The files and their order.
LEMMA Files ==
  /\ Library \in File /\ CLI \in File /\ ExpRuntime + 1 \in File
  /\ \A f \in File : f # Config => f + 1 \in File
  /\ Library + 2 \in File /\ Library # Config
  /\ ExpRuntime # Library /\ ExpRuntime + 1 # Library
BY DEF Library, ExpRuntime, CLI, Config, File

-----------------------------------------------------------------------------
(* Type correctness                                                        *)

\* Going on or ending keeps the types of what describes the commands.
LEMMA AdvanceType ==
  ASSUME TypeOK, NEW c \in Command, Advance(c)
  PROVE  /\ work' \in [Command -> {"new", "working", "ok", "failed"}]
         /\ at' \in [Command -> File]
         /\ phase' \in [Command -> Phase]
<1>1. CASE at[c] = Config
  BY <1>1, Files DEF TypeOK, Advance, End, Phase
<1>2. CASE at[c] # Config
  BY <1>2, Files DEF TypeOK, Advance, Phase
<1> QED
  BY <1>1, <1>2

\* What TypeOK says of one file.
FileType ==
  [text : {"absent", "cut", "whole"}, exec : BOOLEAN, by : Command \cup {None},
   old : BOOLEAN]

\* Every step keeps the types.
LEMMA NextType == TypeOK /\ [Next]_vars => TypeOK'
<1> SUFFICES ASSUME TypeOK, [Next]_vars
             PROVE  TypeOK'
  OBVIOUS
<1>0. /\ dir \in [File -> FileType] /\ exists \in BOOLEAN
      /\ work \in [Command -> {"new", "working", "ok", "failed"}]
      /\ at \in [Command -> File]
      /\ phase \in [Command -> Phase]
      /\ last \in Command \cup {None}
      /\ owner \in Command \cup {None}
      /\ NoFile \in FileType
  BY DEF TypeOK, FileType, NoFile
<1> DEFINE DirType  == dir' \in [File -> FileType] /\ exists' \in BOOLEAN
           WorkType == /\ work' \in [Command -> {"new", "working", "ok", "failed"}]
                       /\ at' \in [Command -> File]
                       /\ phase' \in [Command -> Phase]
           LastType == last' \in Command \cup {None} /\ owner' \in Command \cup {None}
<1>1. DirType /\ WorkType /\ LastType => TypeOK'
  BY DEF TypeOK, FileType
<1>2. ASSUME NEW c \in Command, NEW how \in {"ok", "failed"}, End(c, how)
      PROVE  WorkType
  BY <1>0, <1>2, Files DEF End, Phase
<1>3. ASSUME NEW c \in Command, Touch(c)
      PROVE  LastType
  BY <1>0, <1>3 DEF Touch
<1>4. ASSUME NEW c \in Command, Start(c) \/ Refuse(c) \/ Kill(c) \/ Fail(c)
      PROVE  DirType /\ WorkType /\ LastType
  BY <1>0, <1>2, <1>4, Files DEF Start, Refuse, Kill, Fail, Phase
<1>5. ASSUME NEW c \in Command, RemoveSome(c) \/ CreateDirectories(c)
      PROVE  DirType /\ WorkType /\ LastType
  BY <1>0, <1>3, <1>5 DEF RemoveSome, CreateDirectories, Only, Phase
<1>6. ASSUME NEW c \in Command, RemoveAll(c)
      PROVE  DirType /\ WorkType /\ LastType
  BY <1>0, <1>2, <1>6 DEF RemoveAll, Only, Phase
<1>7. ASSUME NEW c \in Command, Create(c) \/ Symlink(c) \/ Fill(c) \/ Mode(c)
      PROVE  DirType /\ WorkType /\ LastType
  <2>1. WorkType /\ LastType /\ exists' \in BOOLEAN
    BY <1>0, <1>3, <1>7, AdvanceType DEF Create, Symlink, Fill, Mode, Phase
  <2>2. \E x \in FileType : dir' = [dir EXCEPT ![at[c]] = x]
    <3>1. dir[at[c]] \in FileType
      BY <1>0
    <3>2. CASE Create(c)
      BY <3>1, <3>2 DEF Create, FileType
    <3>3. CASE Symlink(c)
      BY <3>3 DEF Symlink, NewFile, NoFile, FileType
    <3>4. CASE Fill(c)
      BY <3>1, <3>4 DEF Fill, Grow, FileType
    <3>5. CASE Mode(c)
      BY <3>1, <3>5 DEF Mode, FileType
    <3> QED
      BY <1>7, <3>2, <3>3, <3>4, <3>5
  <2> QED
    BY <1>0, <2>1, <2>2
<1>8. CASE UNCHANGED vars
  BY <1>0, <1>1, <1>8 DEF vars
<1> QED
  BY <1>1, <1>4, <1>5, <1>6, <1>7, <1>8 DEF Next

\* No command has started, and the directory is what an interrupted removal or
\* an earlier installation left.
LEMMA InitType == Init => TypeOK
BY Files DEF Init, TypeOK, OldFile, NoFile, Phase

\* Every variable has its type in every reachable state.
THEOREM TypeCorrect == Spec => []TypeOK
BY InitType, NextType, PTL DEF Spec

-----------------------------------------------------------------------------
(* The directory and the commands                                          *)

USE DEF Library, LibraryLink, Runtime, ExpRuntime, CLI, Hook, HookLink, Config,
        File, Real, Wrapper, Link

\* Every step keeps the parts of dir together.
LEMMA NextDir == TypeOK /\ DirInv /\ [Next]_vars => DirInv'
<1> SUFFICES ASSUME TypeOK, DirInv, [Next]_vars, NEW f \in File
             PROVE  /\ ~exists' => dir'[f].text = "absent"
                    /\ dir'[f].text = "absent" => dir'[f] = NoFile
                    /\ dir'[f].text = "cut" => dir'[f].by \in Command
  BY DEF DirInv
<1> DEFINE Goal == /\ ~exists' => dir'[f].text = "absent"
                   /\ dir'[f].text = "absent" => dir'[f] = NoFile
                   /\ dir'[f].text = "cut" => dir'[f].by \in Command
<1> USE DEF TypeOK, DirInv
<1>1. CASE UNCHANGED << dir, exists >>
  BY <1>1
<1>2. ASSUME NEW c \in Command, RemoveSome(c) \/ RemoveAll(c)
      PROVE  Goal
  <2>1. \A keep : Only(keep)[f] \in {NoFile, dir[f]}
    BY DEF Only
  <2>2. Only({})[f] = NoFile
    BY Zenon DEF Only
  <2>3. CASE RemoveSome(c)
    <3>1. dir'[f] \in {NoFile, dir[f]} /\ exists' = exists
      BY <2>1, <2>3 DEF RemoveSome
    <3>2. CASE dir'[f] = NoFile
      BY <3>2 DEF NoFile
    <3>3. CASE dir'[f] = dir[f]
      BY <3>1, <3>3
    <3> QED
      BY <3>1, <3>2, <3>3
  <2>4. CASE RemoveAll(c)
    BY <2>2, <2>4 DEF RemoveAll, NoFile
  <2> QED
    BY <1>2, <2>3, <2>4
<1>3. ASSUME NEW c \in Command, CreateDirectories(c)
      PROVE  Goal
  BY <1>3 DEF CreateDirectories
<1>4. ASSUME NEW c \in Command, Create(c)
      PROVE  Goal
  BY <1>4 DEF Create
<1>5. ASSUME NEW c \in Command, Symlink(c)
      PROVE  Goal
  BY <1>5 DEF Symlink, NewFile, NoFile
<1>6. ASSUME NEW c \in Command, Fill(c)
      PROVE  Goal
  BY <1>6 DEF Fill, Grow
<1>7. ASSUME NEW c \in Command, Mode(c)
      PROVE  Goal
  BY <1>7 DEF Mode
<1> QED
  BY <1>1, <1>2, <1>3, <1>4, <1>5, <1>6, <1>7
     DEF Next, vars, Start, Refuse, Fail, Kill

\* Every step leaves every command at a place it can be at.
LEMMA NextCommand == TypeOK /\ CommandInv /\ [Next]_vars => CommandInv'
<1> SUFFICES ASSUME TypeOK, CommandInv, [Next]_vars
             PROVE  CommandInv'
  OBVIOUS
<1> USE DEF TypeOK, CommandInv, Working, Touch, Command
<1>1. ASSUME NEW c \in Command,
             Start(c) \/ Refuse(c) \/ Kill(c) \/ RemoveSome(c) \/ CreateDirectories(c)
      PROVE  CommandInv'
  BY <1>1 DEF Start, Refuse, Kill, End, RemoveSome, CreateDirectories
<1>2. ASSUME NEW c \in Command, RemoveAll(c)
      PROVE  CommandInv'
  BY <1>2 DEF RemoveAll, End
<1>3. ASSUME NEW c \in Command, Advance(c), work[c] = "working",
             phase[c] \in {"create", "fill", "mode"}, Touch(c)
      PROVE  CommandInv'
  BY <1>3 DEF Advance, End
<1>4. ASSUME NEW c \in Command, Create(c) \/ Symlink(c) \/ Fill(c) \/ Mode(c)
      PROVE  CommandInv'
  BY <1>3, <1>4 DEF Create, Symlink, Fill, Mode
<1>5. ASSUME NEW c \in Command, Fail(c)
      PROVE  CommandInv'
  BY <1>5 DEF Fail, End
<1>6. CASE UNCHANGED vars
  BY <1>6 DEF vars
<1> QED
  BY <1>1, <1>2, <1>4, <1>5, <1>6 DEF Next

\* Every step keeps an explanation for each incomplete copy.
LEMMA NextCut ==
  TypeOK /\ DirInv /\ CommandInv /\ CutExplained /\ [Next]_vars => CutExplained'
<1> SUFFICES ASSUME TypeOK, DirInv, CommandInv, CutExplained, [Next]_vars,
                    NEW f \in File \ Wrapper, f # ExpRuntime, dir'[f].text = "cut"
             PROVE  \/ Working(dir[f].by, "fill")' /\ at'[dir'[f].by] = f
                    \/ work'[dir'[f].by] = "failed"
  BY DEF CutExplained
<1> DEFINE Goal == \/ Working(dir[f].by, "fill")' /\ at'[dir'[f].by] = f
                   \/ work'[dir'[f].by] = "failed"
<1> USE DEF TypeOK, Working
<1>1. dir[f].text = "cut" =>
        /\ dir[f].by \in Command
        /\ \/ Working(dir[f].by, "fill") /\ at[dir[f].by] = f
           \/ work[dir[f].by] = "failed"
  BY DEF CutExplained, DirInv
<1>2. ASSUME NEW c \in Command, Start(c) \/ Refuse(c) \/ Kill(c)
      PROVE  Goal
  BY <1>1, <1>2 DEF Start, Refuse, Kill, End
<1>3. ASSUME NEW c \in Command, RemoveSome(c) \/ RemoveAll(c)
      PROVE  Goal
  BY <1>1, <1>3 DEF RemoveSome, RemoveAll, Only, NoFile, End
<1>4. ASSUME NEW c \in Command, CreateDirectories(c)
      PROVE  Goal
  BY <1>1, <1>4 DEF CreateDirectories
<1>5. ASSUME NEW c \in Command, Create(c)
      PROVE  Goal
  BY <1>1, <1>5 DEF Create
<1>6. ASSUME NEW c \in Command, Symlink(c) \/ Mode(c)
      PROVE  Goal
  BY <1>1, <1>6 DEF Symlink, NewFile, NoFile, Mode, Advance, End
<1>7. ASSUME NEW c \in Command, Fill(c)
      PROVE  Goal
  <2>1. dir[f].text = "cut" /\ dir'[f].by = dir[f].by
    BY <1>7 DEF Fill, Grow
  <2>2. dir[f].by = c => at[c] # f
    BY <1>7, <2>1, InstallAssumption DEF Fill, Grow
  <2> QED
    BY <1>1, <1>7, <2>1, <2>2 DEF Fill, Advance, End
<1>8. ASSUME NEW c \in Command, Fail(c)
      PROVE  Goal
  BY <1>1, <1>8 DEF Fail, End
<1>9. CASE UNCHANGED vars
  BY <1>1, <1>9 DEF vars
<1> QED
  BY <1>2, <1>3, <1>4, <1>5, <1>6, <1>7, <1>8, <1>9 DEF Next

-----------------------------------------------------------------------------
(* The undisturbed install                                                 *)

\* No step of another command leaves c the owner and touches its files.
LEMMA OthersKeep ==
  ASSUME TypeOK, CommandInv, NEW c \in Install, NEW d \in Command, d # c, owner' = c,
         \/ Start(d) \/ Refuse(d) \/ RemoveSome(d) \/ RemoveAll(d)
         \/ CreateDirectories(d) \/ Create(d) \/ Symlink(d) \/ Fill(d) \/ Mode(d)
         \/ Fail(d) \/ Kill(d)
  PROVE  /\ owner = c /\ dir' = dir
         /\ work'[c] = work[c] /\ at'[c] = at[c] /\ phase'[c] = phase[c]
<1>1. c \in Command /\ c # None
  BY InstallAssumption DEF Command
<1>2. ~Touch(d) /\ ~RemoveAll(d)
  BY <1>1 DEF Touch, RemoveAll
<1>3. Start(d) \/ Refuse(d) \/ Fail(d) \/ Kill(d)
  BY <1>2 DEF RemoveSome, CreateDirectories, Create, Symlink, Fill, Mode
<1> QED
  BY <1>1, <1>3 DEF TypeOK, Start, Refuse, Fail, Kill, End

\* The owner goes on to the next file or to its end.
LEMMA AdvanceKeeps ==
  ASSUME TypeOK, CommandInv, NEW c \in Install, Advance(c), LeftBy(c), NamesResolve,
         work[c] = "working", phase[c] \in {"create", "mode", "fill"},
         NEW x, dir' = [dir EXCEPT ![at[c]] = x],
         ~x.old,
         x.text \in IF at[c] \in Wrapper THEN {"cut", "whole"} ELSE {"whole"},
         at[c] \in Real \cup Wrapper => x.exec,
         at[c] \notin Real \cup Wrapper => ~x.exec
  PROVE  LeftBy(c)' /\ NamesResolve'
<1> USE DEF TypeOK
<1>1. c \in Command /\ at[c] \in File
  BY DEF Command
<1>2. \A f \in File : dir'[f] = IF f = at[c] THEN x ELSE dir[f]
  BY <1>1
<1>3. \A f \in File : f = at[c] \/ Installed(f) => Installed(f)'
  BY <1>1, <1>2 DEF Installed
<1>4. \A f \in Required : f < at[c] => Installed(f)
  BY DEF LeftBy, Past
<1>5. NamesResolve'
  <2>1. ASSUME NEW f \in Real, at[c] = f + 1
        PROVE  Installed(f)
    BY <1>4, <2>1 DEF LeftBy, Required
  <2>2. ASSUME NEW f \in Real
        PROVE  dir'[f + 1].exec => Installed(f)'
    BY <1>1, <1>2, <1>3, <2>1 DEF NamesResolve
  <2>3. dir'[HookLink].text # "absent" => Installed(Hook + 1)'
    BY <1>1, <1>2, <1>3, <1>4 DEF NamesResolve, Required
  <2>4. dir'[LibraryLink].text # "absent" => Installed(Library)'
    BY <1>1, <1>2, <1>3, <1>4 DEF NamesResolve, Required
  <2> QED
    BY <2>2, <2>3, <2>4 DEF NamesResolve
<1>6. CASE at[c] = Config
  <2>1. work'[c] = "ok" /\ at'[c] = Library /\ phase'[c] = "remove"
    BY <1>1, <1>6 DEF Advance, End
  <2>2. \A f \in Required : Installed(f)'
    BY <1>3, <1>4, <1>6 DEF Required
  <2>3. LeftBy(c)'
    BY <1>2, <2>1, <2>2 DEF LeftBy, Required
  <2> QED
    BY <1>5, <2>3
<1>7. CASE at[c] # Config
  <2>1. /\ work'[c] = "working" /\ phase'[c] = "create"
        /\ at'[c] = IF at[c] = Library /\ ~Versioned THEN at[c] + 2 ELSE at[c] + 1
    BY <1>1, <1>7 DEF Advance
  <2>2. \A f \in Required : Past(c, f)' => Installed(f)'
    BY <1>1, <1>3, <1>4, <2>1 DEF Required, Past
  <2>3. at'[c] = ExpRuntime + 1 => Installed(ExpRuntime)'
    BY <1>1, <1>3, <2>1
  <2>4. \A f \in File : f >= at'[c] => dir'[f].text = "absent"
    BY <1>1, <1>2, <2>1 DEF LeftBy
  <2>5. \A f \in File : ~dir'[f].old
    BY <1>2 DEF LeftBy
  <2>6. LeftBy(c)'
    BY <2>1, <2>2, <2>3, <2>4, <2>5 DEF LeftBy, Required
  <2> QED
    BY <1>5, <2>6
<1> QED
  BY <1>6, <1>7

\* Every step keeps what an undisturbed install has done.
LEMMA NextUndisturbed ==
  TypeOK /\ DirInv /\ CommandInv /\ UndisturbedInv /\ NothingDangles /\ [Next]_vars
    => (UndisturbedInv /\ NothingDangles)'
<1> SUFFICES ASSUME TypeOK, DirInv, CommandInv, UndisturbedInv, NothingDangles,
                    [Next]_vars, NEW c \in Install, owner' = c
             PROVE  LeftBy(c)' /\ NamesResolve'
  BY DEF UndisturbedInv, NothingDangles
<1>0. c \in Command /\ c # None
  BY InstallAssumption DEF Command
<1>1. ASSUME owner = c, UNCHANGED dir,
             work'[c] = work[c], at'[c] = at[c], phase'[c] = phase[c]
      PROVE  LeftBy(c)' /\ NamesResolve'
  <2>1. LeftBy(c) /\ NamesResolve
    BY <1>1 DEF UndisturbedInv, NothingDangles
  <2> QED
    BY <1>1, <2>1 DEF LeftBy, NamesResolve, Past, Installed
<1>2. ASSUME NEW d \in Command, d # c,
             \/ Start(d) \/ Refuse(d) \/ RemoveSome(d) \/ RemoveAll(d)
             \/ CreateDirectories(d) \/ Create(d) \/ Symlink(d) \/ Fill(d)
             \/ Mode(d) \/ Fail(d) \/ Kill(d)
      PROVE  LeftBy(c)' /\ NamesResolve'
  BY <1>1, <1>2, OthersKeep
<1>3. CASE RemoveAll(c)
  <2>1. /\ \A f \in File : dir'[f] = NoFile
        /\ at'[c] = Library /\ phase'[c] = "mkdir" /\ work'[c] = "working"
    BY <1>0, <1>3, InstallAssumption
       DEF RemoveAll, Only, Working, CommandInv, TypeOK, Command
  <2>2. \A f \in File : /\ dir'[f].text = "absent" /\ ~dir'[f].old
                        /\ ~dir'[f].exec
    BY <2>1 DEF NoFile
  <2> QED
    BY <2>1, <2>2 DEF LeftBy, NamesResolve, Past
<1>4. CASE ~RemoveAll(c) /\ owner # c
  BY <1>0, <1>2, <1>4 DEF Next, vars, Start, Refuse, RemoveSome, Touch,
     CreateDirectories, Create, Symlink, Fill, Mode, Fail, Kill
<1>5. CASE owner = c
  <2>1. LeftBy(c) /\ NamesResolve
    BY <1>5 DEF UndisturbedInv, NothingDangles
  <2>2. ~Working(c, "remove") /\ last = c
    BY <1>0, <1>5 DEF CommandInv
  <2> USE DEF TypeOK
  <2>3. CASE Start(c) \/ Refuse(c)
    BY <1>0, <2>2, <2>3 DEF CommandInv, Start, Refuse
  <2>4. CASE Kill(c)
    <3>1. dir' = dir /\ work'[c] = "failed" /\ phase'[c] = "remove" /\ at'[c] = Library
      BY <1>0, <2>4 DEF Kill, End
    <3> QED
      BY <2>1, <3>1 DEF LeftBy, NamesResolve, Installed, Past
  <2>5. CASE RemoveSome(c)
    BY <2>2, <2>5 DEF RemoveSome
  <2>6. CASE CreateDirectories(c)
    <3>1. /\ dir' = dir /\ work'[c] = "working" /\ phase[c] = "mkdir"
          /\ phase'[c] = "create" /\ at'[c] = at[c] /\ at[c] = Library
      BY <1>0, <2>6 DEF CreateDirectories, Working, CommandInv
    <3> QED
      BY <2>1, <3>1 DEF LeftBy, NamesResolve, Installed, Past, Required
  <2>7. CASE Create(c)
    <3>1. /\ work'[c] = "working" /\ phase'[c] = "fill" /\ at'[c] = at[c]
          /\ phase[c] = "create" /\ work[c] = "working"
          /\ at[c] \notin Link /\ at[c] \in File
      BY <1>0, <2>7 DEF Create, Working
    <3>2. dir[at[c]] = NoFile
      BY <2>1, <3>1 DEF LeftBy, DirInv
    <3>3. /\ \A f \in File : f # at[c] => dir'[f] = dir[f]
          /\ dir'[at[c]].text = "cut" /\ dir'[at[c]].by = c
          /\ ~dir'[at[c]].exec /\ ~dir'[at[c]].old
      BY <3>1, <3>2, <2>7 DEF Create, NoFile
    <3>4. \A f \in File : f # at[c] => (Installed(f)' <=> Installed(f))
      BY <3>3 DEF Installed
    <3>5. NamesResolve'
      <4>1. ~Installed(at[c])
        BY <3>2 DEF Installed, NoFile
      <4>2. \A f \in Real : dir'[f + 1].exec => Installed(f)'
        BY <2>1, <3>1, <3>3, <3>4, <4>1 DEF NamesResolve
      <4> QED
        BY <2>1, <3>1, <3>3, <3>4, <4>1, <4>2 DEF NamesResolve
    <3>6. LeftBy(c)'
      BY <2>1, <3>1, <3>3, <3>4 DEF LeftBy, Past, Required
    <3> QED
      BY <3>5, <3>6
  <2>8. CASE Symlink(c)
    <3>1. ~NewFile.old /\ NewFile.text = "whole" /\ ~NewFile.exec
      BY DEF NewFile, NoFile
    <3>2. /\ work[c] = "working" /\ phase[c] = "create" /\ at[c] \in Link
          /\ Advance(c) /\ dir' = [dir EXCEPT ![at[c]] = NewFile]
      BY <2>8 DEF Symlink, Working
    <3>3. at[c] \notin Real \cup Wrapper
      BY <3>2
    <3> QED
      BY <2>1, <3>1, <3>2, <3>3, AdvanceKeeps
  <2>9. CASE Fill(c)
    <3>1. /\ work[c] = "working" /\ phase[c] = "fill"
          /\ at[c] \in File \ Link
          /\ dir[at[c]].text = "cut" /\ dir[at[c]].by = c /\ ~dir[at[c]].exec
          /\ ~dir[at[c]].old
      BY <1>0, <2>1, <2>9 DEF Fill, Working, CommandInv, LeftBy
    <3>2. PICK text \in {"cut", "whole"} :
            /\ text = "cut" => at[c] \in Short
            /\ Grow(c, text)
      BY <2>9, <3>1 DEF Fill
    <3> DEFINE x == IF text = "cut" THEN dir[at[c]]
                    ELSE [dir[at[c]] EXCEPT !.text = "whole", !.by = None]
    <3>3. /\ dir' = [dir EXCEPT ![at[c]] = x]
          /\ x.text \in IF at[c] \in Wrapper THEN {"cut", "whole"} ELSE {"whole"}
          /\ ~x.exec /\ ~x.old
      BY <3>1, <3>2, InstallAssumption DEF Grow
    <3> HIDE DEF x
    <3>4. CASE at[c] = Config
      <4>1. Advance(c)
        BY <2>9, <3>4 DEF Fill
      <4>2. at[c] \notin Real \cup Wrapper
        BY <3>4
      <4> QED
        BY <2>1, <3>1, <3>3, <4>1, <4>2, AdvanceKeeps
    <3>5. CASE at[c] # Config
      <4>1. phase'[c] = "mode" /\ work'[c] = "working" /\ at'[c] = at[c]
        BY <1>0, <2>9, <3>1, <3>5 DEF Fill
      <4>2. \A f \in File : dir'[f] = IF f = at[c] THEN x ELSE dir[f]
        BY <3>1, <3>3
      <4>3. \A f \in File : f # at[c] => (Installed(f)' <=> Installed(f))
        BY <4>2 DEF Installed
      <4>4. LeftBy(c)'
        BY <2>1, <3>1, <3>3, <4>1, <4>2, <4>3 DEF LeftBy, Past, Required
      <4>5. ~Installed(at[c]) \/ at[c] \in Wrapper
        BY <3>1 DEF Installed
      <4>6. \A f \in Real : dir'[f + 1].exec => Installed(f)'
        BY <2>1, <3>1, <3>3, <4>2, <4>3, <4>5 DEF NamesResolve
      <4>7. Installed(Hook + 1) => at[c] # Hook + 1
        BY <3>1 DEF Installed
      <4>8. NamesResolve'
        BY <2>1, <3>1, <4>2, <4>3, <4>5, <4>6, <4>7 DEF NamesResolve
      <4> QED
        BY <4>4, <4>8
    <3> QED
      BY <3>4, <3>5
  <2>10. CASE Mode(c)
    <3> DEFINE x == [dir[at[c]] EXCEPT !.exec = at[c] # Library]
    <3>1. /\ work[c] = "working" /\ phase[c] = "mode" /\ Advance(c)
          /\ at[c] \in File \ Link
          /\ dir' = [dir EXCEPT ![at[c]] = x]
      BY <1>0, <2>10 DEF Mode, Working, CommandInv
    <3>2. /\ x.text = dir[at[c]].text /\ x.old = dir[at[c]].old
          /\ at[c] = Library => ~x.exec
          /\ at[c] # Library => x.exec
      BY <3>1
    <3>3. at[c] # Config
      BY <1>0, <3>1 DEF CommandInv
    <3> HIDE DEF x
    <3>4. ~x.old /\ x.text \in IF at[c] \in Wrapper THEN {"cut", "whole"} ELSE {"whole"}
      BY <2>1, <3>1, <3>2 DEF LeftBy
    <3>5. /\ at[c] \in Real \cup Wrapper => x.exec
          /\ at[c] \notin Real \cup Wrapper => ~x.exec
      BY <3>1, <3>2, <3>3
    <3> QED
      BY <2>1, <3>1, <3>4, <3>5, AdvanceKeeps
  <2>11. CASE Fail(c)
    <3>1. CASE at[c] \in {ExpRuntime, ExpRuntime + 1}
      <4>1. /\ dir' = dir /\ work'[c] = "working" /\ work[c] = "working"
            /\ at'[c] = CLI /\ phase'[c] = "create"
            /\ phase[c] \in {"create", "fill", "mode"}
        BY <1>0, <2>11, <3>1 DEF Fail, CommandInv, Phase
      <4> QED
        BY <2>1, <3>1, <4>1 DEF LeftBy, NamesResolve, Installed, Past, Required
    <3>2. CASE at[c] \notin {ExpRuntime, ExpRuntime + 1}
      <4>1. dir' = dir /\ work'[c] = "failed" /\ phase'[c] = "remove" /\ at'[c] = Library
        BY <1>0, <2>11, <3>2 DEF Fail, End
      <4> QED
        BY <2>1, <4>1 DEF LeftBy, NamesResolve, Installed, Past
    <3> QED
      BY <3>1, <3>2
  <2>12. CASE UNCHANGED vars
    BY <1>1, <1>5, <2>12 DEF vars
  <2> QED
    BY <1>2, <1>3, <2>3, <2>4, <2>5, <2>6, <2>7, <2>8, <2>9, <2>10, <2>11, <2>12
       DEF Next
<1> QED
  BY <1>3, <1>4, <1>5

-----------------------------------------------------------------------------
(* Overlapping commands                                                    *)

\* While it is calm, it has been so since the directory was emptied last.
LEMMA CalmBefore ==
  ASSUME TypeOK, CommandInv, [Next]_vars, Calm', \A d \in Command : ~RemoveAll(d)
  PROVE  Calm /\ last' = last
<1> USE DEF TypeOK
<1>1. ASSUME NEW c \in Command, work[c] = "failed" \/ Working(c, "remove")
      PROVE  work'[c] = "failed" \/ Working(c, "remove")'
  <2> USE <1>1 DEF Working
  <2>1. ASSUME NEW d \in Command,
               Start(d) \/ Refuse(d) \/ RemoveSome(d) \/ Kill(d) \/ Fail(d)
        PROVE  work'[c] = "failed" \/ Working(c, "remove")'
    BY <2>1 DEF Start, Refuse, RemoveSome, Kill, Fail, End, CommandInv
  <2>2. ASSUME NEW d \in Command, Advance(d), work[d] = "working", phase[d] # "remove"
        PROVE  work'[c] = "failed" \/ Working(c, "remove")'
    BY <2>2 DEF Advance, End
  <2>3. ASSUME NEW d \in Command,
               CreateDirectories(d) \/ Create(d) \/ Symlink(d) \/ Fill(d) \/ Mode(d)
        PROVE  work'[c] = "failed" \/ Working(c, "remove")'
    BY <2>2, <2>3 DEF CreateDirectories, Create, Symlink, Fill, Mode
  <2> QED
    BY <2>1, <2>3 DEF Next, vars
<1>2. last' = last
  BY DEF Next, vars, Start, Refuse, RemoveSome, Touch, CreateDirectories, Create,
     Symlink, Fill, Mode, Fail, Kill
<1> QED
  BY <1>1, <1>2 DEF Calm

\* Going on counts the file just finished among those that are there.
LEMMA AdvancePuts ==
  ASSUME TypeOK, CommandInv, NEW b \in Install, NEW d \in Command, HasPut(b), Advance(d),
         work[d] = "working", phase[d] \in {"create", "fill", "mode"},
         \A f \in File : Present(f) => Present(f)',
         \A f \in File : dir[f].text # "absent" => dir'[f].text # "absent",
         d = b => \A f \in File : f = at[d] => Present(f)'
  PROVE  HasPut(b)'
<1> USE DEF TypeOK, Command
<1>1. CASE d = b
  <2>1. work'[b] = "ok" => at[b] = Config
    BY <1>1 DEF Advance
  <2>2. phase'[b] \in {"create", "remove"}
    BY <1>1 DEF Advance, End
  <2>3. work'[b] # "ok" =>
          at'[b] = IF at[b] = Library /\ ~Versioned THEN at[b] + 2 ELSE at[b] + 1
    BY <1>1 DEF Advance, End
  <2>4. ASSUME NEW f \in Required, Past(b, f)'
        PROVE  Present(f)'
    <3>1. f \in File /\ f <= at[b]
      BY <2>1, <2>2, <2>3, <2>4 DEF Past, Required
    <3>2. f < at[b] => Present(f)
      BY <1>1, <3>1 DEF HasPut, Past
    <3> QED
      BY <1>1, <3>1, <3>2
  <2> QED
    BY <2>2, <2>4 DEF HasPut
<1>2. CASE d # b
  <2>1. work'[b] = work[b] /\ phase'[b] = phase[b] /\ at'[b] = at[b]
    BY <1>2 DEF Advance, End
  <2> QED
    BY <2>1 DEF HasPut, Past, Required
<1> QED
  BY <1>1, <1>2

\* Every step keeps what the last to empty the directory has put there, until
\* something fails or somebody removes.
LEMMA NextOverlap ==
  TypeOK /\ DirInv /\ CommandInv /\ OverlapInv /\ [Next]_vars => OverlapInv'
<1> SUFFICES ASSUME TypeOK, DirInv, CommandInv, OverlapInv, [Next]_vars,
                    Calm', NEW b \in Install, last' = b
             PROVE  HasPut(b)'
  BY DEF OverlapInv
<1>0. b \in Command
  BY DEF Command
<1>1. ASSUME NEW d \in Command, RemoveAll(d)
      PROVE  HasPut(b)'
  <2>1. d = b
    BY <1>1 DEF RemoveAll
  <2>2. work'[b] = "working" /\ phase'[b] = "mkdir"
    BY <1>0, <1>1, <2>1, InstallAssumption DEF RemoveAll, Working, TypeOK
  <2> QED
    BY <2>2 DEF HasPut, Past
<1>2. CASE \A d \in Command : ~RemoveAll(d)
  <2>1. Calm /\ last = b
    BY <1>2, CalmBefore
  <2>2. HasPut(b)
    BY <2>1 DEF OverlapInv
  <2> USE <1>0 DEF TypeOK
  <2>3. ASSUME NEW d \in Command, Start(d) \/ Refuse(d) \/ Kill(d) \/ RemoveSome(d)
        PROVE  FALSE
    BY <2>1, <2>3 DEF Calm, Working, Start, Refuse, Kill, End, RemoveSome, CommandInv
  <2>4. ASSUME NEW d \in Command, CreateDirectories(d)
        PROVE  HasPut(b)'
    <3>1. /\ dir' = dir /\ work' = work /\ at' = at /\ work[d] = "working"
          /\ phase' = [phase EXCEPT ![d] = "create"]
          /\ phase[d] = "mkdir" /\ at[d] = Library
      BY <2>4 DEF CreateDirectories, Working, CommandInv
    <3> QED
      BY <2>2, <3>1 DEF HasPut, Past, Present, Required
  <2>5. ASSUME NEW d \in Command, Create(d)
        PROVE  HasPut(b)'
    <3>1. /\ work' = work /\ at' = at /\ phase' = [phase EXCEPT ![d] = "fill"]
          /\ work[d] = "working" /\ phase[d] = "create" /\ at[d] \in File
      BY <2>5 DEF Create, Working
    <3>2. /\ \A f \in File : f # at[d] => dir'[f] = dir[f]
          /\ dir'[at[d]].text = "cut"
          /\ dir[at[d]].exec => dir'[at[d]].exec
      BY <2>5, <3>1 DEF Create
    <3>3. \A f \in File : Present(f) => Present(f)'
      BY <3>1, <3>2 DEF Present
    <3> QED
      BY <2>2, <3>1, <3>2, <3>3 DEF HasPut, Past, Required
  <2>6. ASSUME NEW d \in Command, Symlink(d)
        PROVE  HasPut(b)'
    <3>1. /\ work[d] = "working" /\ phase[d] = "create" /\ Advance(d)
          /\ at[d] \in Link /\ dir' = [dir EXCEPT ![at[d]] = NewFile]
      BY <2>6 DEF Symlink, Working
    <3>2. NewFile.text = "whole"
      BY DEF NewFile, NoFile
    <3>3. \A f \in File : f = at[d] \/ Present(f) => Present(f)'
      BY <3>1, <3>2 DEF Present
    <3>4. \A f \in File : dir[f].text # "absent" => dir'[f].text # "absent"
      BY <3>1, <3>2
    <3> QED
      BY <2>2, <3>1, <3>3, <3>4, AdvancePuts
  <2>7. ASSUME NEW d \in Command, Fill(d)
        PROVE  HasPut(b)'
    <3>1. work[d] = "working" /\ phase[d] = "fill" /\ at[d] \in File
      BY <2>7 DEF Fill, Working
    <3>2. /\ \A f \in File : f # at[d] => dir'[f] = dir[f]
          /\ dir[at[d]].text # "absent" => dir'[at[d]].text # "absent"
          /\ dir[at[d]].exec => dir'[at[d]].exec
      BY <2>7, <3>1 DEF Fill, Grow
    <3>3. \A f \in File : Present(f) => Present(f)'
      BY <3>1, <3>2 DEF Present
    <3>4. CASE at[d] = Config
      <4>1. Advance(d)
        BY <2>7, <3>4 DEF Fill
      <4>2. d = b => \A f \in File : f = at[d] => Present(f)'
        BY <2>2, <3>1, <3>2, <3>4 DEF HasPut, Present
      <4> QED
        BY <2>2, <3>1, <3>2, <3>3, <4>1, <4>2, AdvancePuts
    <3>5. CASE at[d] # Config
      <4>1. work' = work /\ at' = at /\ phase' = [phase EXCEPT ![d] = "mode"]
        BY <2>7, <3>5 DEF Fill
      <4> QED
        BY <2>2, <3>1, <3>2, <3>3, <4>1 DEF HasPut, Past, Required
    <3> QED
      BY <3>4, <3>5
  <2>8. ASSUME NEW d \in Command, Mode(d)
        PROVE  HasPut(b)'
    <3>1. /\ work[d] = "working" /\ phase[d] = "mode" /\ Advance(d)
          /\ at[d] \in File \ Link /\ dir[at[d]].text # "absent"
      BY <2>8 DEF Mode, Working, CommandInv
    <3>2. /\ \A f \in File : f # at[d] => dir'[f] = dir[f]
          /\ dir'[at[d]].text = dir[at[d]].text
          /\ at[d] # Library => dir'[at[d]].exec
      BY <2>8, <3>1 DEF Mode
    <3>3. \A f \in File : f = at[d] \/ Present(f) => Present(f)'
      BY <3>1, <3>2 DEF Present
    <3> QED
      BY <2>2, <3>1, <3>2, <3>3, AdvancePuts
  <2>9. ASSUME NEW d \in Command, Fail(d)
        PROVE  HasPut(b)'
    <3>1. /\ at[d] \in {ExpRuntime, ExpRuntime + 1} /\ work[d] = "working"
          /\ at' = [at EXCEPT ![d] = CLI] /\ phase' = [phase EXCEPT ![d] = "create"]
          /\ work' = work /\ dir' = dir /\ phase[d] \in {"create", "fill", "mode"}
      BY <2>9 DEF Fail, End, Calm, CommandInv, Phase
    <3> QED
      BY <2>2, <3>1 DEF HasPut, Past, Present, Required
  <2>10. CASE UNCHANGED vars
    BY <2>2, <2>10 DEF vars, HasPut, Past, Present
  <2> QED
    BY <1>2, <2>3, <2>4, <2>5, <2>6, <2>7, <2>8, <2>9, <2>10 DEF Next
<1> QED
  BY <1>1, <1>2

-----------------------------------------------------------------------------
(* The invariant and what follows from it                                  *)

\* The invariant behind the properties below is inductive: what the owner of
\* the directory has dealt with, what every installer has dealt with while
\* nothing fails, and who answers for each incomplete file (Install, Delete).
THEOREM Invariance == Spec => [](TypeOK /\ IInv)
<1>1. Init => IInv
  <2> SUFFICES ASSUME Init
               PROVE  IInv
    OBVIOUS
  <2>0. TypeOK
    BY InitType
  <2>1. \A f \in File : dir[f] \in {NoFile, OldFile}
    BY DEF Init
  <2>2. DirInv /\ CutExplained
    BY <2>1 DEF Init, DirInv, CutExplained, NoFile, OldFile
  <2>3. CommandInv
    BY InstallAssumption DEF Init, CommandInv, Working, Command
  <2>4. UndisturbedInv /\ NothingDangles /\ OverlapInv
    BY InstallAssumption
       DEF Init, UndisturbedInv, NothingDangles, OverlapInv, Command
  <2> QED
    BY <2>0, <2>2, <2>3, <2>4 DEF IInv
<1>2. TypeOK /\ IInv /\ [Next]_vars => IInv'
  BY NextType, NextDir, NextCommand, NextUndisturbed, NextCut, NextOverlap DEF IInv
<1> QED
  BY <1>1, <1>2, TypeCorrect, PTL DEF Spec

\* Success of an install that was left alone means a complete toolkit, with
\* nothing of an earlier one in it (Install).
THEOREM SuccessCorrect == Spec => []SuccessInstalls
<1>1. UndisturbedInv => SuccessInstalls
  BY DEF UndisturbedInv, LeftBy, Past, SuccessInstalls
<1> QED
  BY <1>1, Invariance, PTL DEF IInv

\* An install that was left alone leaves no dangling name wherever it stops
\* (executable.install, installRuntimeHook).
THEOREM NamesCorrect == Spec => []NothingDangles
BY Invariance, PTL DEF IInv

\* Each incomplete copy or config is being written, or its writer gave up
\* (installFile, installToolkitConfig).
THEOREM CutCorrect == Spec => []CutExplained
BY Invariance, PTL DEF IInv

\* Overlapping installs that all succeed add up to a complete toolkit.
THEOREM OverlapCorrect == Spec => []SuccessesAddUp
<1>1. TypeOK /\ IInv => SuccessesAddUp
  <2> SUFFICES ASSUME TypeOK, IInv, \A c \in Command : work[c] \in {"new", "ok"},
                      last \in Install, NEW f \in Required
               PROVE  Installed(f)
    BY DEF SuccessesAddUp
  <2>1. last \in Command /\ work[last] = "ok"
    BY DEF IInv, CommandInv, Command
  <2>2. HasPut(last)
    BY DEF IInv, OverlapInv, Calm, Working
  <2>3. f \in File /\ f # ExpRuntime /\ Present(f)
    BY <2>1, <2>2 DEF HasPut, Past, Required
  <2>4. CASE dir[f].text = "cut" /\ f \notin Wrapper
    BY <2>3, <2>4 DEF IInv, CutExplained, DirInv, Working
  <2>5. CASE dir[f].text = "whole" \/ f \in Wrapper
    BY <2>3, <2>5 DEF Installed, Present, TypeOK
  <2> QED
    BY <2>3, <2>4, <2>5 DEF TypeOK, Present
<1> QED
  BY <1>1, Invariance, PTL

-----------------------------------------------------------------------------
(* Installation                                                            *)

\* An undisturbed end is a complete toolkit.
LEMMA EndComplete ==
  ASSUME DirInv', UndisturbedInv', NEW c \in Install, owner' = c, work'[c] = "ok"
  PROVE  toolkit' = "complete"
<1>1. \A f \in Required : Installed(f)'
  BY DEF UndisturbedInv, LeftBy, Past
<1>2. Installed(Library)'
  BY <1>1 DEF Required
<1>3. exists'
  BY <1>2 DEF Installed, DirInv
<1> QED
  BY <1>1, <1>3 DEF toolkit

\* Nor is the toolkit complete before, as the config comes last.
LEMMA NotBefore ==
  ASSUME TypeOK', CommandInv', UndisturbedInv', NEW c \in Install, owner' = c,
         work'[c] = "working", phase'[c] # "remove"
  PROVE  toolkit' # "complete"
<1>1. LeftBy(c)' /\ at'[c] \in File /\ phase'[c] \in Phase
  BY DEF UndisturbedInv, TypeOK, Command
<1>2. dir'[Config].text # "whole"
  <2>1. CASE at'[c] = Config /\ phase'[c] \in {"fill", "mode"}
    BY <1>1, <2>1 DEF LeftBy, CommandInv, Command
  <2>2. CASE ~(at'[c] = Config /\ phase'[c] \in {"fill", "mode"})
    BY <1>1, <2>2 DEF LeftBy, Phase
  <2> QED
    BY <2>1, <2>2
<1> QED
  BY <1>2 DEF toolkit, Required, Installed

\* A command moves on in Installation as its own variables tell.
LEMMA Moves ==
  ASSUME TypeOK, NEW c \in Command, NEW w, NEW step, NEW to,
         work' = [work EXCEPT ![c] = w],
         phase' = [phase EXCEPT ![c] = step],
         to = IF w # "working" THEN w
              ELSE IF step = "remove" THEN "removing" ELSE "filling"
  PROVE  progress' = [progress EXCEPT ![c] = to]
BY DEF TypeOK, progress

\* Every step is one of Installation.
LEMMA StepSimulation ==
  TypeOK /\ IInv /\ [Next]_vars /\ IInv' => [Abstract!Next]_(Abstract!vars)
<1> SUFFICES ASSUME TypeOK, IInv, [Next]_vars, IInv'
             PROVE  Abstract!Next \/ UNCHANGED Abstract!vars
  BY DEF Abstract!vars
<1> USE DEF TypeOK
<1>0. ASSUME NEW c \in Command, Abstract!Step(c)
      PROVE  Abstract!Next
  BY <1>0 DEF Abstract!Next, Abstract!Command, Command
<1>1. dir' = dir /\ exists' = exists => toolkit' = toolkit
  BY DEF toolkit, Installed
<1>2. toolkit' \in {"absent", "partial", "complete"}
  BY DEF toolkit
<1>3. ASSUME NEW c \in Command, Touch(c)
      PROVE  Abstract!Touch(c)
  BY <1>3 DEF Touch, Abstract!Touch
<1>4. ASSUME NEW c \in Command, Start(c)
      PROVE  Abstract!Step(c)
  <2>1. work' = [work EXCEPT ![c] = "working"] /\ phase' = [phase EXCEPT ![c] = "remove"]
    BY <1>4 DEF Start, IInv, CommandInv
  <2>2. progress' = [progress EXCEPT ![c] = "removing"]
    BY <2>1, Moves
  <2>3. progress[c] = "new"
    BY <1>4 DEF Start, progress
  <2> QED
    BY <1>1, <1>4, <2>2, <2>3 DEF Start, Abstract!Begin, Abstract!Move, Abstract!Step
<1>5. ASSUME NEW c \in Command, End(c, "failed"), work[c] \in {"new", "working"},
             UNCHANGED << dir, exists, owner >>
      PROVE  Abstract!Step(c)
  <2>1. progress' = [progress EXCEPT ![c] = "failed"]
    BY <1>5, Moves DEF End
  <2>2. progress[c] \in {"new", "removing", "filling"}
    BY <1>5 DEF progress
  <2> QED
    BY <1>1, <1>5, <2>1, <2>2 DEF Abstract!Abandon, Abstract!Move, Abstract!Step
<1>6. ASSUME NEW c \in Command, RemoveSome(c)
      PROVE  Abstract!Step(c)
  <2>1. progress' = progress /\ progress[c] = "removing"
    BY <1>6 DEF RemoveSome, Working, progress
  <2>2. progress' = [progress EXCEPT ![c] = "removing"]
    BY <2>1 DEF progress
  <2>3. \A f \in File : dir'[f] \in {NoFile, dir[f]}
    BY <1>6 DEF RemoveSome, Only
  <2>4. \A f \in File : Installed(f)' => Installed(f)
    BY <2>3 DEF Installed, NoFile
  <2>5. toolkit' \in {toolkit, "partial"}
    BY <1>6, <2>4 DEF RemoveSome, toolkit, Required
  <2> QED
    BY <1>3, <1>6, <2>1, <2>2, <2>5
       DEF RemoveSome, Abstract!Remove, Abstract!Move, Abstract!Step
<1>7. ASSUME NEW c \in Command, RemoveAll(c)
      PROVE  Abstract!Step(c)
  <2>1. toolkit' = "absent" /\ progress[c] = "removing" /\ owner' = c
    BY <1>7 DEF RemoveAll, toolkit, Working, progress
  <2>2. CASE c \in Delete
    <3>1. progress' = [progress EXCEPT ![c] = "ok"]
      BY <1>7, <2>2, Moves DEF RemoveAll, End
    <3> QED
      BY <2>1, <2>2, <3>1 DEF Abstract!Clear, Abstract!Move, Abstract!Step
  <2>3. CASE c \notin Delete
    <3>1. work' = [work EXCEPT ![c] = "working"] /\ phase' = [phase EXCEPT ![c] = "mkdir"]
      BY <1>7, <2>3 DEF RemoveAll, Working
    <3>2. progress' = [progress EXCEPT ![c] = "filling"]
      BY <3>1, Moves
    <3> QED
      BY <2>1, <2>3, <3>2 DEF Abstract!Clear, Abstract!Move, Abstract!Step
  <2> QED
    BY <2>2, <2>3
<1>8. ASSUME NEW c \in Command, NEW w \in {"working", "ok"}, NEW step \in Phase,
             work[c] = "working", phase[c] # "remove", Touch(c), exists => exists',
             work' = [work EXCEPT ![c] = w], phase' = [phase EXCEPT ![c] = step],
             w = "working" => step # "remove"
      PROVE  Abstract!Step(c)
  <2>1. progress[c] = "filling"
    BY <1>8 DEF progress
  <2>2. c \in Install
    BY <1>8 DEF IInv, CommandInv, Command
  <2>3. owner' = c => (toolkit' = "complete" <=> w = "ok")
    <3>1. work'[c] = w /\ phase'[c] = step
      BY <1>8
    <3>2. TypeOK'
      BY NextType
    <3>3. owner' = c /\ w = "ok" => toolkit' = "complete"
      BY <2>2, <3>1, EndComplete DEF IInv
    <3>4. owner' = c /\ w = "working" => toolkit' # "complete"
      BY <1>8, <2>2, <3>1, <3>2, NotBefore DEF IInv
    <3> QED
      BY <3>3, <3>4
  <2>4. progress' = [progress EXCEPT ![c] = IF w = "ok" THEN "ok" ELSE "filling"]
    BY <1>8, Moves
  <2>5. toolkit' \in {toolkit, "partial", "complete"}
    BY <1>8 DEF toolkit
  <2>6. Abstract!Fill(c)
    BY <1>3, <1>8, <2>1, <2>3, <2>4, <2>5 DEF Abstract!Fill, Abstract!Move
  <2> QED
    BY <2>6 DEF Abstract!Step
<1>9. ASSUME NEW c \in Command, CreateDirectories(c) \/ Create(c)
      PROVE  Abstract!Step(c)
  <2>1. /\ work[c] = "working" /\ phase[c] # "remove" /\ Touch(c)
        /\ work' = [work EXCEPT ![c] = "working"] /\ (exists => exists')
    BY <1>9 DEF CreateDirectories, Create, Working
  <2>2. \E step \in {"create", "fill"} : phase' = [phase EXCEPT ![c] = step]
    BY <1>9 DEF CreateDirectories, Create
  <2> QED
    BY <1>8, <2>1, <2>2 DEF Phase
<1>10. ASSUME NEW c \in Command, Symlink(c) \/ Fill(c) \/ Mode(c)
       PROVE  Abstract!Step(c)
  <2>1. work[c] = "working" /\ phase[c] # "remove" /\ Touch(c) /\ exists' = exists
    BY <1>10 DEF Symlink, Fill, Mode, Working
  <2>2. \/ /\ work' = [work EXCEPT ![c] = "working"]
           /\ \E step \in {"create", "mode"} : phase' = [phase EXCEPT ![c] = step]
        \/ /\ work' = [work EXCEPT ![c] = "ok"]
           /\ phase' = [phase EXCEPT ![c] = "remove"]
    BY <1>10, <2>1 DEF Symlink, Fill, Mode, Advance, End
  <2> QED
    BY <1>8, <2>1, <2>2 DEF Phase
<1>11. ASSUME NEW c \in Command, Refuse(c) \/ Kill(c)
       PROVE  Abstract!Step(c)
  BY <1>5, <1>11 DEF Refuse, Kill
<1>12. ASSUME NEW c \in Command, Fail(c)
       PROVE  Abstract!Step(c) \/ UNCHANGED Abstract!vars
  <2>1. CASE at[c] \in {ExpRuntime, ExpRuntime + 1}
    <3>1. phase[c] # "remove"
      BY <2>1 DEF IInv, CommandInv
    <3>2. progress' = progress
      BY <1>12, <2>1, <3>1 DEF Fail, progress
    <3> QED
      BY <1>1, <1>12, <3>2 DEF Fail, Abstract!vars
  <2>2. CASE at[c] \notin {ExpRuntime, ExpRuntime + 1}
    BY <1>5, <1>12, <2>2 DEF Fail
  <2> QED
    BY <2>1, <2>2
<1>13. CASE UNCHANGED vars
  BY <1>1, <1>13 DEF vars, progress, Abstract!vars
<1> QED
  BY <1>0, <1>4, <1>6, <1>7, <1>9, <1>10, <1>11, <1>12, <1>13 DEF Next

\* File by file, with failures, kills and overlapping commands, the commands
\* implement Installation: success is reported for a complete toolkit unless
\* somebody else interfered (Install, Delete).
THEOREM Refinement == Spec => ImplementsInstallation
<1>1. Init => Abstract!Init
  <2>1. toolkit \in Abstract!Contents
    BY DEF toolkit, Abstract!Contents
  <2>2. Init => owner = None /\ progress = [c \in Command |-> "new"]
    BY DEF Init, progress
  <2> QED
    BY <2>1, <2>2 DEF Abstract!Init, Abstract!Command, Command
<1> QED
  BY <1>1, StepSimulation, Invariance, PTL DEF Spec, ImplementsInstallation, Abstract!Spec

=============================================================================
