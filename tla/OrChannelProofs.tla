--------------------------- MODULE OrChannelProofs ---------------------------
(* One goroutine of Or sends and closes, for any number of inputs.           *)
EXTENDS OrChannel, FiniteSetTheorems, TLAPS

Inside(c) == pc[c] \in {"send", "close"}

\* The state of the Once says who is inside and whether the result is closed.
OnceInv ==
    /\ n \in 0..MaxInputs
    /\ pc \in [1..MaxInputs -> {"wait", "once", "send", "close", "done"}]
    /\ once \in {"new", "running", "done"}
    /\ closed = (once = "done")
    /\ once # "running" => \A c \in 1..MaxInputs : ~Inside(c)
    /\ \A c, d \in 1..MaxInputs : Inside(c) /\ Inside(d) => c = d

\* Only Do lets a goroutine in, and only CloseOut lets it out.
LEMMA OnceStep == OnceInv /\ [Next]_vars => OnceInv'
<1> SUFFICES ASSUME OnceInv, [Next]_vars PROVE OnceInv'
  OBVIOUS
<1>i. Inputs \subseteq 1..MaxInputs
  BY OrBounds DEF OnceInv, Inputs
<1>1. ASSUME NEW c \in 1..MaxInputs, Wait(c) PROVE OnceInv'
  BY <1>1 DEF Wait, OnceInv, Inside
<1>2. ASSUME NEW c \in 1..MaxInputs, Do(c) PROVE OnceInv'
  BY <1>2 DEF Do, OnceInv, Inside
<1>3. ASSUME NEW c \in 1..MaxInputs, Send(c) PROVE OnceInv'
  BY <1>3 DEF Send, OnceInv, Inside
<1>4. ASSUME NEW c \in 1..MaxInputs, CloseOut(c) PROVE OnceInv'
  BY <1>4 DEF CloseOut, OnceInv, Inside
<1>5. ASSUME UNCHANGED <<n, pc, once, closed>> PROVE OnceInv'
  BY <1>5 DEF OnceInv, Inside
<1>6. ASSUME \/ \E c \in Inputs : InputCloses(c) \/ InputSends(c)
             \/ ReaderReceives \/ PassThrough \/ ReaderSeesClose \/ UNCHANGED vars
      PROVE  UNCHANGED <<n, pc, once, closed>>
  BY <1>6 DEF InputCloses, InputSends, Fire, ReaderReceives, PassThrough,
              ReaderSeesClose, vars
<1> QED
  BY <1>i, <1>1, <1>2, <1>3, <1>4, <1>5, <1>6 DEF Next

\* At most one goroutine is inside the Once, and none once the result is
\* closed: neither the send nor the close can panic.
THEOREM OnlyOneWriter == Spec => []OneWriter
<1>1. Init => OnceInv
  BY DEF Init, OnceInv, Inside
<1>2. OnceInv => OneWriter
  <2> SUFFICES ASSUME OnceInv PROVE OneWriter
    OBVIOUS
  <2> DEFINE inside == {c \in Inputs : pc[c] \in {"send", "close"}}
  <2>1. Inputs \subseteq 1..MaxInputs
    BY OrBounds DEF OnceInv, Inputs
  <2>2. CASE inside = {}
    <3>1. Cardinality(inside) = 0
      BY <2>2, FS_EmptySet
    <3> QED
      BY <3>1 DEF OneWriter
  <2>3. CASE inside # {}
    <3>1. PICK c \in inside : TRUE
      BY <2>3
    <3>2. inside = {c} /\ ~closed
      BY <2>1, <3>1 DEF OnceInv, Inside
    <3>3. Cardinality(inside) = 1
      BY <3>2, FS_Singleton
    <3> QED
      BY <3>2, <3>3 DEF OneWriter
  <2> QED
    BY <2>2, <2>3
<1> QED
  BY <1>1, <1>2, OnceStep, PTL DEF Spec

-----------------------------------------------------------------------------
\* The result carries one value: none was received while the Once is new or
\* its goroutine is still to send, or while the only input keeps its value.
ValueInv ==
    /\ input \in [1..MaxInputs -> {"open", "value", "closed", "taken"}]
    /\ receiving \in BOOLEAN /\ sawClose \in BOOLEAN
    /\ got \in 0..1 /\ fired \subseteq Inputs
    /\ ~Merged => \A c \in 1..MaxInputs : pc[c] = "wait"
    /\ n = 1 /\ input[1] # "taken" => got = 0
    /\ Merged /\ (once = "new" \/ \E c \in 1..MaxInputs : pc[c] = "send") => got = 0

\* A value is received from the goroutine inside the Once, or is the one of
\* the only input.
LEMMA ValueStep == OnceInv /\ ValueInv /\ [Next]_vars => ValueInv'
<1> SUFFICES ASSUME OnceInv, ValueInv, [Next]_vars PROVE ValueInv'
  OBVIOUS
<1>i. Inputs \subseteq 1..MaxInputs /\ n \in Nat
  BY OrBounds DEF OnceInv, Inputs
<1>1. ASSUME NEW c \in Inputs, InputCloses(c) \/ InputSends(c) PROVE ValueInv'
  <2>1. PICK how \in {"closed", "value"} : Fire(c, how)
    BY <1>1 DEF InputCloses, InputSends
  <2>2. UNCHANGED <<n, pc, once, receiving, got, sawClose>> /\ fired' = fired \cup {c}
    BY <2>1 DEF Fire
  <2>3. /\ input' \in [1..MaxInputs -> {"open", "value", "closed", "taken"}]
        /\ \A d \in 1..MaxInputs : input'[d] = "taken" <=> input[d] = "taken"
    BY <1>i, <2>1 DEF Fire, ValueInv
  <2>4. n = 1 => 1 \in 1..MaxInputs
    BY OrBounds DEF OnceInv
  <2> QED
    BY <2>2, <2>3, <2>4 DEF ValueInv, Inputs, Merged
<1>2. ASSUME NEW c \in 1..MaxInputs, Wait(c) PROVE ValueInv'
  <2>1. /\ UNCHANGED <<n, once, receiving, got, sawClose, fired>> /\ n >= 2
    BY <1>2 DEF Wait, Merged
  <2>2. input' \in [1..MaxInputs -> {"open", "value", "closed", "taken"}]
    BY <1>2 DEF Wait, ValueInv
  <2>3. \A d \in 1..MaxInputs : pc'[d] = "send" => pc[d] = "send"
    BY <1>2 DEF Wait, OnceInv
  <2> QED
    BY <1>i, <2>1, <2>2, <2>3 DEF ValueInv, Inputs, Merged
<1>3. ASSUME NEW c \in 1..MaxInputs, Do(c) PROVE ValueInv'
  BY <1>i, <1>3 DEF Do, OnceInv, Inside, ValueInv, Inputs, Merged
<1>4. ASSUME NEW c \in 1..MaxInputs, Send(c) PROVE ValueInv'
  <2>1. /\ UNCHANGED <<n, input, once, sawClose, fired>>
        /\ pc[c] = "send" /\ receiving' = FALSE /\ got' = got + 1
        /\ pc' = [pc EXCEPT ![c] = "close"]
    BY <1>4 DEF Send
  <2>2. Merged /\ got = 0 /\ once = "running"
    BY <2>1 DEF ValueInv, OnceInv, Inside
  <2>3. \A d \in 1..MaxInputs : pc'[d] # "send"
    BY <2>1 DEF OnceInv, Inside
  <2>4. receiving' \in BOOLEAN /\ sawClose' \in BOOLEAN /\ got' \in 0..1
    <3>1. receiving' \in BOOLEAN /\ sawClose' \in BOOLEAN
      BY <2>1, Zenon DEF ValueInv
    <3>2. got' \in 0..1
      BY <2>1, <2>2
    <3> QED
      BY <3>1, <3>2, Zenon
  <2>5. Merged' /\ Inputs' = Inputs /\ once' # "new" /\ n # 1
    BY <1>i, <2>1, <2>2 DEF Merged, Inputs
  <2> QED
    BY <2>1, <2>3, <2>4, <2>5 DEF ValueInv
<1>5. ASSUME NEW c \in 1..MaxInputs, CloseOut(c) PROVE ValueInv'
  BY <1>i, <1>5 DEF CloseOut, OnceInv, Inside, ValueInv, Inputs, Merged
<1>6. ASSUME PassThrough PROVE ValueInv'
  <2>1. n = 1 /\ UNCHANGED <<n, pc, once, fired>> /\ receiving' = FALSE /\ 1 \in 1..MaxInputs
    BY <1>6, OrBounds DEF PassThrough, OnceInv
  <2>2. CASE input[1] = "value" /\ input' = [input EXCEPT ![1] = "taken"] /\ got' = got + 1
             /\ UNCHANGED sawClose
    <3>1. input' \in [1..MaxInputs -> {"open", "value", "closed", "taken"}]
          /\ input'[1] = "taken" /\ got' \in 0..1
      BY <2>1, <2>2 DEF ValueInv
    <3>2. receiving' \in BOOLEAN /\ sawClose' \in BOOLEAN
      BY <2>1, <2>2 DEF ValueInv
    <3>3. Inputs' = Inputs /\ ~Merged'
      BY <2>1 DEF Inputs, Merged
    <3>4. fired' \subseteq Inputs' /\ \A c \in 1..MaxInputs : pc'[c] = "wait"
      BY <2>1, <3>3 DEF ValueInv, Merged
    <3> QED
      BY <3>1, <3>2, <3>3, <3>4 DEF ValueInv
  <2>3. CASE sawClose' = TRUE /\ UNCHANGED <<input, got>>
    BY <2>1, <2>3 DEF ValueInv, Inputs, Merged
  <2> QED
    BY <1>6, <2>2, <2>3 DEF PassThrough
<1>7. ASSUME ReaderReceives \/ ReaderSeesClose \/ UNCHANGED vars PROVE ValueInv'
  BY <1>7 DEF ReaderReceives, ReaderSeesClose, vars, ValueInv, Inputs, Merged
<1> QED
  BY <1>i, <1>1, <1>2, <1>3, <1>4, <1>5, <1>6, <1>7 DEF Next

\* Every variable keeps its type; in particular the reader never receives a
\* second value, however many inputs fire.
THEOREM OrTypes == Spec => []TypeOK
<1>1. ASSUME Init PROVE OnceInv /\ ValueInv
  <2>1. OnceInv
    BY <1>1 DEF Init, OnceInv, Inside
  <2>2. receiving \in BOOLEAN /\ sawClose \in BOOLEAN /\ got = 0 /\ fired \subseteq Inputs
    BY <1>1 DEF Init
  <2>3. input \in [1..MaxInputs -> {"open", "value", "closed", "taken"}]
        /\ \A c \in 1..MaxInputs : pc[c] = "wait"
    BY <1>1 DEF Init
  <2> QED
    BY <2>1, <2>2, <2>3 DEF ValueInv
<1>2. OnceInv /\ ValueInv => TypeOK
  BY DEF OnceInv, ValueInv, TypeOK
<1> QED
  BY <1>1, <1>2, OnceStep, ValueStep, PTL DEF Spec
=============================================================================
