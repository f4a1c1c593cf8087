---------------------------- MODULE CrioHookProofs ----------------------------
(* Theorems about CrioHook and their proofs. *)
EXTENDS CrioHook, TLAPS

\* Every step keeps the types.
LEMMA NextType == TypeOK /\ [Next]_hookVars => TypeOK'
<1> SUFFICES ASSUME TypeOK, [Next]_hookVars
             PROVE  TypeOK'
  OBVIOUS
<1> USE DEF TypeOK, Move, Close
<1>1. ASSUME NEW c \in Hooking, Begin(c)
      PROVE  TypeOK'
  BY <1>1 DEF Begin
<1>2. ASSUME NEW c \in Hooking, Create(c)
      PROVE  TypeOK'
  BY <1>2 DEF Create
<1>3. ASSUME NEW c \in Hooking, Encode(c)
      PROVE  TypeOK'
  BY <1>3 DEF Encode, Write
<1>4. ASSUME NEW c \in Hooking, EncodePart(c)
      PROVE  TypeOK'
  BY <1>4 DEF EncodePart, Write
<1>5. ASSUME NEW c \in Hooking, Remove(c)
      PROVE  TypeOK'
  BY <1>5 DEF Remove
<1>6. ASSUME NEW c \in Hooking, Fail(c)
      PROVE  TypeOK'
  BY <1>6 DEF Fail
<1>7. CASE UNCHANGED hookVars
  BY <1>7 DEF hookVars
<1> QED
  BY <1>1, <1>2, <1>3, <1>4, <1>5, <1>6, <1>7 DEF Next, Step

\* Every variable has its type in every reachable state.
THEOREM TypeCorrect == Spec => []TypeOK
<1>1. Init => TypeOK
  BY DEF Init, TypeOK
<1> QED
  BY <1>1, NextType, PTL DEF Spec

\* A setup that writes stays a writer.
LEMMA WriterStays ==
  ASSUME TypeOK, [Next]_hookVars, NEW a \in Setup, Writer(a)
  PROVE  Writer(a)'
<1> USE DEF TypeOK, Move, Writer, Hooking
<1>1. ASSUME NEW c \in Hooking, Step(c)
      PROVE  Writer(a)'
  BY <1>1 DEF Step, Begin, Create, Encode, EncodePart, Remove, Fail
<1> QED
  BY <1>1 DEF Next, hookVars

\* Every step keeps the inductive invariant.
LEMMA NextIInv == Distinct /\ TypeOK /\ IInv /\ [Next]_hookVars => IInv'
<1> SUFFICES ASSUME Distinct, TypeOK, IInv, [Next]_hookVars
             PROVE  IInv'
  OBVIOUS
<1> USE DEF Distinct, TypeOK, IInv, AuthorInv
<1>1. \A a \in Setup : Writer(a) => Writer(a)'
  BY WriterStays
<1>2. ASSUME NEW c \in Hooking, UNCHANGED << hookFile, hookText, author >>,
             hooking' = [hooking EXCEPT ![c] = hooking'[c]],
             hooking[c] \notin {"ok", "failed", "stopped"},
             hooking[c] = "encode" => hooking'[c] = "stopped",
             hooking'[c] = "encode" => hooking[c] = "encode",
             \A x \in Setup \ {c} : opened'[x] = opened[x]
      PROVE  IInv'
  <2>1. ASSUME author # None
        PROVE  /\ Writer(author)'
               /\ hooking'[author] = "encode" => opened'[author] = hookFile
               /\ hooking[author] \in {"encode", "stopped"}
                    => hooking'[author] \in {"encode", "stopped"}
    <3>1. author \in Setup /\ Writer(author) /\ author' = author
      BY <1>2, <2>1 DEF Writer
    <3>2. CASE author = c
      BY <1>2, <3>1, <3>2 DEF Writer, Hooking
    <3>3. CASE author # c
      BY <1>2, <2>1, <3>1, <3>3 DEF Writer, Hooking
    <3> QED
      BY <3>1, <3>2, <3>3
  <2>2. \A x \in Setup : hooking'[x] = "encode" => opened'[x] # None
    BY <1>2 DEF Hooking
  <2> QED
    BY <1>1, <1>2, <2>1, <2>2 DEF HookExplained, Writer, Hooking
<1>3. ASSUME NEW c \in Hooking, Begin(c) \/ Fail(c)
      PROVE  IInv'
  BY <1>2, <1>3 DEF Begin, Fail, Move, Close
<1>4. ASSUME NEW c \in Hooking, Create(c)
      PROVE  IInv'
  BY <1>1, <1>4 DEF Create, Move, HookExplained, Writer, Hooking
<1>5. ASSUME NEW c \in Hooking, Remove(c)
      PROVE  IInv'
  BY <1>5 DEF Remove, Move, HookExplained, Hooking
<1>6. ASSUME NEW c \in Setup, NEW text \in {"hook", "torn", "mixed"},
             NEW to \in {"ok", "stopped"}, text = "torn" => to = "stopped",
             Move(c, "encode", to), Write(c, text), Close(c)
      PROVE  IInv'
  <2> USE DEF Move, Close, Writer, Hooking
  <2>1. /\ hooking'[c] = to /\ \A x \in Setup \ {c} : hooking'[x] = hooking[x]
        /\ \A x \in Setup \ {c} : opened'[x] = opened[x]
    BY <1>6
  <2>2. CASE opened[c] = hookFile
    <3>1. hookText' = text /\ author' = c /\ hookFile' = hookFile
      BY <1>6, <2>2 DEF Write
    <3>2. text = "mixed" => hookText # "empty" /\ author # None
      BY <1>6, <2>2 DEF Write
    <3>3. text = "mixed" => author # c /\ Writer(author)
      BY <1>6, <3>2
    <3> QED
      BY <1>1, <1>6, <2>1, <2>2, <3>1, <3>3 DEF HookExplained
  <2>3. CASE opened[c] # hookFile
    <3>1. UNCHANGED << hookText, author, hookFile >>
      BY <1>6, <2>3 DEF Write
    <3>2. author # c
      BY <1>6, <2>3
    <3> QED
      BY <1>1, <1>6, <2>1, <2>3, <3>1, <3>2 DEF HookExplained
  <2> QED
    BY <2>2, <2>3
<1>7. ASSUME NEW c \in Hooking, Encode(c) \/ EncodePart(c)
      PROVE  IInv'
  BY <1>6, <1>7 DEF Encode, EncodePart
<1>8. CASE UNCHANGED hookVars
  BY <1>8 DEF hookVars, HookExplained, Writer
<1> QED
  BY <1>3, <1>4, <1>5, <1>7, <1>8 DEF Next, Step

\* A hook that CRI-O cannot read is being written, or its writer was stopped
\* after it had opened the file, or another setup had opened it too, whatever
\* setups and cleanups overlap (createHook).
THEOREM HookCorrect == ASSUME Distinct PROVE Spec => []HookExplained
<1>1. Init => IInv
  BY DEF Init, IInv, AuthorInv, HookExplained, Hooking
<1>2. TypeOK /\ IInv /\ [Next]_hookVars => IInv'
  BY NextIInv
<1> QED
  BY <1>1, <1>2, TypeCorrect, PTL DEF Spec, IInv

=============================================================================
