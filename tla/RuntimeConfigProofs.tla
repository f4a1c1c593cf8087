------------------------- MODULE RuntimeConfigProofs -------------------------
(* What RuntimeConfig promises, and with it every module that implements it. *)
EXTENDS RuntimeConfig, TLAPS

\* RuntimeConfig, Next: every variable keeps its type, so that the values which
\* an implementation gives them are among those that are named.
THEOREM TypeCorrect == Spec => []TypeOK
<1>1. Init => TypeOK
  BY DEF Init, TypeOK, Progress
<1>2. TypeOK /\ [Next]_vars => TypeOK'
  <2> SUFFICES ASSUME TypeOK, [Next]_vars PROVE TypeOK'
    OBVIOUS
  <2> USE DEF TypeOK, Progress
  <2>1. ASSUME NEW c \in Command, NEW from, NEW to \in Progress,
               Move(c, from, to)
        PROVE work' \in [Command -> Progress]
    BY <2>1 DEF Move
  <2>2. ASSUME NEW cs \in SUBSET Command, Change(cs)
        PROVE disturbed' \in SUBSET Command /\ daemon' \in {"current", "behind"}
    BY <2>2 DEF Change
  <2>3. CASE UNCHANGED vars
    BY <2>3 DEF vars
  <2>4. CASE Next
    <3>0. settings' \in {"kept", "lost"}
      BY <2>4 DEF Next
    <3>1. ASSUME NEW c \in Command, Begin(c) \/ Read(c) \/ ReportQuietly(c)
          PROVE TypeOK'
      BY <3>0, <3>1, <2>1 DEF Begin, Read, ReportQuietly, Leave
    <3>2. ASSUME NEW c \in Command, Clear(c) \/ Put(c)
          PROVE TypeOK'
      BY <3>0, <3>2, <2>1, <2>2 DEF Clear, Put
    <3>3. ASSUME NEW c \in Command, PutAside(c)
          PROVE TypeOK'
      BY <3>0, <3>3, <2>1 DEF PutAside
    <3>4. ASSUME NEW c \in Command, Report(c)
          PROVE TypeOK'
      BY <3>0, <3>4, <2>1 DEF Report, Leave
    <3>5. ASSUME NEW c \in Command, Fail(c)
          PROVE TypeOK'
      BY <3>0, <3>5, <2>1 DEF Fail
    <3>6. ASSUME NEW c \in Command, FailWriting(c)
          PROVE TypeOK'
      BY <3>0, <3>6, <2>1, <2>2 DEF FailWriting
    <3>7. CASE Edit
      BY <3>0, <3>7, <2>2 DEF Edit
    <3>8. CASE Follow
      BY <3>0, <3>8 DEF Follow, Leave
    <3> QED
      BY <2>4, <3>1, <3>2, <3>3, <3>4, <3>5, <3>6, <3>7, <3>8 DEF Next
  <2> QED
    BY <2>3, <2>4
<1> QED
  BY <1>1, <1>2, PTL DEF Spec

-----------------------------------------------------------------------------
\* RuntimeConfig, Next: who is disturbed stays so, and so do lost settings only
\* as long as somebody is.
THEOREM SettingsAreKept == Spec => []SettingsKept
<1>1. Init => SettingsKept
  BY DEF Init, SettingsKept
<1>2. SettingsKept /\ [Next]_vars => SettingsKept'
  BY DEF SettingsKept, Next, vars
<1> QED
  BY <1>1, <1>2, PTL DEF Spec

\* Success is reported with the daemon at work with the text, and whatever
\* changes the file or the daemon afterwards ends the author's claim to it
\* (Report, and every action that writes).
THEOREM SuccessIsMeant ==
  ASSUME None \notin Command
  PROVE  Spec => []SuccessMeans
<1>1. Init => SuccessMeans
  BY DEF Init, SuccessMeans
<1>2. TypeOK /\ SuccessMeans /\ [Next]_vars => SuccessMeans'
  <2> SUFFICES ASSUME TypeOK, SuccessMeans, [Next]_vars,
                      NEW d \in Command,
                      author' = d, work'[d] = "ok", d \notin disturbed'
               PROVE  daemon' = "current"
    BY DEF SuccessMeans
  <2> USE DEF TypeOK
  <2>0. author' # None
    OBVIOUS
  <2>1. ASSUME author = d, work[d] = "ok", d \notin disturbed
        PROVE  daemon = "current"
    BY <2>1 DEF SuccessMeans
  <2>2. ASSUME NEW c \in Command, NEW from, NEW to, to # "ok",
               Move(c, from, to)
        PROVE  c # d /\ work[d] = "ok"
    BY <2>2 DEF Move
  <2>3. CASE UNCHANGED vars
    BY <2>3, <2>1 DEF vars
  <2>4. ASSUME NEW c \in Command,
               Begin(c) \/ Read(c) \/ ReportQuietly(c)
        PROVE  daemon' = "current"
    BY <2>4, <2>1, <2>2 DEF Begin, Read, ReportQuietly, Leave
  <2>5. ASSUME NEW c \in Command,
               Clear(c) \/ Put(c) \/ FailWriting(c)
        PROVE  daemon' = "current"
    BY <2>5, <2>0, <2>2 DEF Clear, Put, FailWriting
  <2>6. ASSUME NEW c \in Command, PutAside(c) \/ Fail(c)
        PROVE  daemon' = "current"
    BY <2>6, <2>1, <2>2 DEF PutAside, Fail
  <2>7. ASSUME NEW c \in Command, Report(c)
        PROVE  daemon' = "current"
    BY <2>7, <2>1 DEF Report, Leave, Move
  <2>8. CASE Edit \/ Follow
    BY <2>8 DEF Edit, Follow
  <2> QED
    BY <2>3, <2>4, <2>5, <2>6, <2>7, <2>8 DEF Next
<1> QED
  BY <1>1, <1>2, TypeCorrect, PTL DEF Spec

=============================================================================
