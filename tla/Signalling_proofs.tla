-------------------------- MODULE Signalling_proofs --------------------------
(***************************************************************************)
(* What is proved of the messages, for every value of the constants.       *)
(*                                                                         *)
(* First, that the string buffer is big enough: for every text and every   *)
(* history of its use, it is written past its capacity only by a text that *)
(* is longer than a new buffer.  The inductive invariant is that the       *)
(* capacity of a pooled buffer stays between the initial one and the       *)
(* limit; a handler starts with an empty buffer, and each append that is   *)
(* no longer than a new buffer finds room.                                 *)
(*                                                                         *)
(* Then, that what is sent and heard is what was meant: the fields of the  *)
(* messages, the connect tokens and the indexes of labels.  Labels are     *)
(* read by a fold, and a fold is known by induction over sets of numbers:  *)
(* a set that has zero and with a number its successor has all of them     *)
(* (AllNumbers).  From this come the existence of a fold (FoldExists), its *)
(* steps (IndexInSteps, ValueInSteps) and what it gives (IndexIsValue).    *)
(***************************************************************************)
EXTENDS Signalling, TLAPS, WellFoundedInduction, FiniteSetTheorems
-----------------------------------------------------------------------------
(***************************************************************************)
(* The string buffer is big enough.                                        *)
(***************************************************************************)
\* A buffer of a capacity that buffers have.
Kept(b) ==
  /\ b.position \in Nat
  /\ b.capacity \in InitialCapacity .. MaxCapacity
  /\ b.overrun \in BOOLEAN

\* A buffer whose contents lie inside its memory.
Inside(b) == Kept(b) /\ b.position <= b.capacity /\ b.overrun = FALSE

PoolKept == \A b \in pool : Kept(b)

IInv == PoolKept /\ StaysInside

\* Appending keeps the capacity in its range, however long the text is.  A text
\* that is no longer than a new buffer stays inside: if it needs the buffer
\* grown, doubling the capacity is enough, and if that is cut off at the limit,
\* the limit was tested first (string-buffer.c:24-33).
LEMMA AppendKeeps ==
  ASSUME NEW b, NEW text, NEW size \in Nat, NEW granted \in BOOLEAN, Kept(b)
  PROVE  /\ Kept(AppendBin(b, text, size, granted))
         /\ Inside(b) /\ size <= InitialCapacity =>
              Inside(AppendBin(b, text, size, granted))
<1> DEFINE need == b.position + size
           capacity == IF need < b.capacity THEN b.capacity ELSE Grown(b)
           over == b.overrun \/ need > capacity
           data == b.data \o text
           filled == [position |-> need, capacity |-> capacity, data |-> data,
                      overrun |-> over]
<1>1. need \in Nat
  BY DEF Kept
<1>2. capacity \in InitialCapacity .. MaxCapacity
  BY StringBufferAssumption DEF Kept, Grown
<1>3. over \in BOOLEAN
  BY Zenon
<1>4. CASE size = 0 \/ ~Ensures(b, need, granted)
  BY <1>4 DEF AppendBin
<1>5. CASE size # 0 /\ Ensures(b, need, granted)
  <2>1. AppendBin(b, text, size, granted) = filled
    BY <1>5, Zenon DEF AppendBin
  <2>2. ASSUME Inside(b), size <= InitialCapacity PROVE need <= capacity
    <3>1. CASE need < b.capacity
      BY <3>1, <1>1 DEF Kept
    <3>2. CASE ~(need < b.capacity)
      <4>1. need < MaxCapacity /\ need <= 2 * b.capacity
        BY <2>2, <3>2, <1>5, StringBufferAssumption DEF Inside, Kept, Ensures
      <4> QED
        BY <3>2, <4>1, StringBufferAssumption DEF Kept, Grown
    <3> QED
      BY <3>1, <3>2
  <2>3. ASSUME Inside(b), size <= InitialCapacity PROVE over = FALSE
    <3>1. ~(need > capacity)
      BY <1>1, <1>2, <2>2, <2>3, StringBufferAssumption
    <3> HIDE DEF need, capacity
    <3> QED
      BY <2>3, <3>1, Zenon DEF Inside
  <2> HIDE DEF need, capacity, over, data
  <2>4. Kept(filled)
    BY <1>1, <1>2, <1>3 DEF Kept
  <2>5. Inside(b) /\ size <= InitialCapacity => Inside(filled)
    BY <2>2, <2>3, <2>4 DEF Inside
  <2> QED
    BY <2>1, <2>4, <2>5
<1> QED
  BY <1>4, <1>5

\* The same for append_str of a text.
LEMMA AppendStrKeeps ==
  ASSUME NEW b, NEW text \in Texts, NEW granted \in BOOLEAN, Kept(b)
  PROVE  /\ Kept(AppendStr(b, text, granted))
         /\ Inside(b) /\ Size[text] <= InitialCapacity =>
              Inside(AppendStr(b, text, granted))
<1>1. Size[text] \in Nat
  BY StringBufferAssumption
<1> QED
  BY <1>1, AppendKeeps DEF AppendStr

\* The same for append_chr and to_string.
LEMMA AppendChrKeeps ==
  ASSUME NEW b, NEW chr, NEW granted \in BOOLEAN, Kept(b)
  PROVE  /\ Kept(AppendChr(b, chr, granted)) /\ Kept(Terminated(b, granted))
         /\ Inside(b) => /\ Inside(AppendChr(b, chr, granted))
                         /\ Inside(Terminated(b, granted))
<1>1. 1 \in Nat /\ 1 <= InitialCapacity
  BY StringBufferAssumption
<1> QED
  BY <1>1, AppendKeeps DEF AppendChr, Terminated

\* A message whose fields are no longer than a new buffer is written inside it.
LEMMA JoinKeeps ==
  ASSUME NEW b, NEW f, NEW refused, Inside(b),
         f[1] \in Texts, f[2] \in Texts, f[3] \in Texts, Size[f[1]] <= InitialCapacity
  PROVE  /\ Kept(Join(b, f, refused))
         /\ Size[f[2]] <= InitialCapacity /\ Size[f[3]] <= InitialCapacity =>
              Inside(Join(b, f, refused))
<1> DEFINE one   == AppendStr(b, f[1], 1 \notin refused)
           two   == AppendChr(one, Sep, 2 \notin refused)
           three == AppendStr(two, f[2], 3 \notin refused)
           four  == AppendChr(three, Sep, 4 \notin refused)
           five  == AppendStr(four, f[3], 5 \notin refused)
<1>1. \A k \in 1 .. 5 : (k \notin refused) \in BOOLEAN
  OBVIOUS
<1>2. Join(b, f, refused) = five
  BY DEF Join
<1>3. Kept(one) /\ Inside(one)
  BY AppendStrKeeps, <1>1 DEF Inside
<1> HIDE DEF one
<1>4. Kept(two) /\ Inside(two)
  BY AppendChrKeeps, <1>1, <1>3
<1> HIDE DEF two
<1>5. Kept(three) /\ (Size[f[2]] <= InitialCapacity => Inside(three))
  BY AppendStrKeeps, <1>1, <1>4
<1> HIDE DEF three
<1>6. Kept(four) /\ (Size[f[2]] <= InitialCapacity => Inside(four))
  BY AppendChrKeeps, <1>1, <1>5
<1> HIDE DEF four
<1>7. /\ Kept(five)
      /\ Size[f[2]] <= InitialCapacity /\ Size[f[3]] <= InitialCapacity => Inside(five)
  BY AppendStrKeeps, <1>1, <1>6
<1> QED
  BY <1>2, <1>7

\* A handler starts with an empty buffer.
LEMMA AcquiredIsInside ==
  ASSUME PoolKept, Sound, NEW refused, NEW b \in Acquired(refused)
  PROVE  Inside(b)
<1>1. CASE pool # {}
  <2>1. PICK c \in pool : b = OnInit(c)
    BY <1>1 DEF Acquired
  <2>2. Kept(c) /\ c.overrun = FALSE
    BY <2>1 DEF PoolKept, Sound, Kept
  <2> QED
    BY <2>1, <2>2, StringBufferAssumption DEF OnInit, Inside, Kept
<1>2. CASE pool = {}
  <2>1. b = OnInit(OnAlloc)
    BY <1>2 DEF Acquired
  <2> QED
    BY <2>1, StringBufferAssumption DEF OnInit, OnAlloc, Inside, Kept
<1> QED
  BY <1>1, <1>2

\* Sending a message preserves the invariant.
LEMMA SendsKeeps ==
  ASSUME PoolKept, Sound, NEW f, NEW refused, Sends(f, refused),
         f[1] \in Texts, f[2] \in Texts, f[3] \in Texts, Size[f[1]] <= InitialCapacity
  PROVE  IInv'
<1>1. CASE Acquired(refused) = {}
  <2>1. pool' = pool
    BY <1>1 DEF Sends
  <2> QED
    BY <2>1 DEF IInv, PoolKept, StaysInside, Sound
<1>2. CASE Acquired(refused) # {}
  <2>1. pool' = {Join(b, f, refused) : b \in Acquired(refused)}
    BY <1>2 DEF Sends
  <2>2. PoolKept'
    BY <2>1, AcquiredIsInside, JoinKeeps DEF PoolKept
  <2>3. f[2] \in Appended' /\ f[3] \in Appended'
    <3>1. PICK b \in Acquired(refused) : TRUE
      BY <1>2
    <3> DEFINE m == [fields |-> f, data |-> ToBinary(Join(b, f, refused)),
                     refused |-> refused # {}]
    <3>2. m \in sent'
      BY DEF Sends
    <3>3. m.fields = f
      OBVIOUS
    <3> HIDE DEF m
    <3> QED
      BY <3>2, <3>3 DEF Appended
  <2>4. ASSUME NEW c \in pool', c.overrun
        PROVE  \E text \in Appended' : Size[text] > InitialCapacity
    <3>1. PICK b \in Acquired(refused) : c = Join(b, f, refused)
      BY <2>1
    <3>2. ~(Size[f[2]] <= InitialCapacity /\ Size[f[3]] <= InitialCapacity)
      BY <2>4, <3>1, AcquiredIsInside, JoinKeeps DEF Inside
    <3>3. Size[f[2]] \in Nat /\ Size[f[3]] \in Nat
      BY StringBufferAssumption
    <3> QED
      BY <2>3, <3>2, <3>3, StringBufferAssumption
  <2> QED
    BY <2>2, <2>4 DEF IInv, StaysInside
<1> QED
  BY <1>1, <1>2

\* Handing over a description or a candidate preserves the invariant.
LEMMA HandsKeeps ==
  ASSUME PoolKept, Sound, NEW frame, NEW refused, Hands(frame, refused),
         Name(frame.body) \in Texts
  PROVE  IInv'
<1> DEFINE name == Name(frame.body)
           named(b) == AppendStr(b, name, 1 \notin refused)
           ended(b) == Terminated(named(b), 2 \notin refused)
<1>1. CASE Acquired(refused) = {}
  <2>1. pool' = pool
    BY <1>1 DEF Hands
  <2> QED
    BY <2>1 DEF IInv, PoolKept, StaysInside, Sound
<1>2. CASE Acquired(refused) # {}
  <2>1. pool' = {ended(b) : b \in Acquired(refused)}
    BY <1>2 DEF Hands
  <2>2. ASSUME NEW b \in Acquired(refused)
        PROVE  /\ Kept(ended(b))
               /\ Size[name] <= InitialCapacity => Inside(ended(b))
    <3>1. Inside(b) /\ Kept(b)
      BY AcquiredIsInside DEF Inside
    <3>2. (1 \notin refused) \in BOOLEAN /\ (2 \notin refused) \in BOOLEAN
      OBVIOUS
    <3>3. Kept(named(b)) /\ (Size[name] <= InitialCapacity => Inside(named(b)))
      BY <3>1, <3>2, AppendStrKeeps
    <3> HIDE DEF named
    <3> QED
      BY <3>2, <3>3, AppendChrKeeps
  <2>3. PoolKept'
    BY <2>1, <2>2 DEF PoolKept
  <2>4. name \in Appended'
    <3>1. PICK b \in Acquired(refused) : TRUE
      BY <1>2
    <3> DEFINE r == [of |-> frame, beyond |-> ~frame.text, refused |-> refused # {},
                     name |-> IF ToStringGives(named(b), 2 \notin refused)
                                THEN named(b).data ELSE None,
                     body |-> Rest(frame.body)]
    <3>2. r \in read'
      BY Zenon DEF Hands
    <3>3. r.of = frame
      OBVIOUS
    <3> HIDE DEF r
    <3> QED
      BY <3>2, <3>3 DEF Appended
  <2>5. ASSUME NEW c \in pool', c.overrun
        PROVE  \E text \in Appended' : Size[text] > InitialCapacity
    <3>1. PICK b \in Acquired(refused) : c = ended(b)
      BY <2>1
    <3>2. ~(Size[name] <= InitialCapacity)
      BY <2>5, <3>1, <2>2 DEF Inside
    <3>3. Size[name] \in Nat
      BY StringBufferAssumption
    <3> QED
      BY <2>4, <3>2, <3>3, StringBufferAssumption
  <2> QED
    BY <2>3, <2>5 DEF IInv, StaysInside
<1> QED
  BY <1>1, <1>2

\* A step that leaves the pool alone preserves the invariant.
LEMMA PoolUnchangedKeeps ==
  ASSUME PoolKept, Sound, UNCHANGED pool PROVE IInv'
BY DEF IInv, PoolKept, StaysInside, Sound

\* The invariant holds initially.
LEMMA IInvInit == Init => IInv
BY DEF Init, IInv, PoolKept, StaysInside

\* A step of a handler preserves the invariant.
LEMMA IInvStep == IInv /\ [Next]_vars => IInv'
<1> SUFFICES ASSUME IInv, [Next]_vars PROVE IInv'
  OBVIOUS
<1>1. PoolKept
  BY DEF IInv
<1>2. CASE Next
  <2>1. Sound
    BY <1>2 DEF Next, Runs
  <2>2. ASSUME NEW f, NEW refused, Sends(f, refused),
               f[1] \in {<<"DESC">>, <<"CAND">>, <<"AUTH", "|", "OK">>},
               f[2] \in Texts, f[3] \in Texts
        PROVE  IInv'
    <3>1. f[1] \in Texts /\ Size[f[1]] <= InitialCapacity
      <4>1. \A op \in {<<"DESC">>, <<"CAND">>, <<"AUTH", "|", "OK">>} : op \in Texts
        BY SignallingAssumption, Zenon DEF Opcodes
      <4>2. Size[<<"DESC">>] \in {4, 7} /\ Size[<<"CAND">>] \in {4, 7}
              /\ Size[<<"AUTH", "|", "OK">>] \in {4, 7}
        BY SignallingAssumption, Zenon
      <4>3. Size[f[1]] \in {4, 7}
        BY <2>2, <4>2, Zenon
      <4>4. \A n \in {4, 7} : n <= InitialCapacity
        BY SignallingAssumption, StringBufferAssumption
      <4> QED
        BY <2>2, <4>1, <4>3, <4>4, Zenon
    <3> QED
      BY <1>1, <2>1, <2>2, <3>1, SendsKeeps
  <2>3. ASSUME NEW name \in Names, NEW body \in Bodies, SendDescription(name, body)
        PROVE  IInv'
    <3>1. PICK refused \in Refusals(5) : Sends(<<<<"DESC">>, name, body>>, refused)
      BY <2>3 DEF SendDescription
    <3>2. name \in Texts /\ body \in Texts
      BY SignallingAssumption
    <3> QED
      BY <2>2, <3>1, <3>2
  <2>4. ASSUME NEW name \in Names, NEW body \in Bodies, SendCandidate(name, body)
        PROVE  IInv'
    <3>1. PICK refused \in Refusals(5) : Sends(<<<<"CAND">>, name, body>>, refused)
      BY <2>4 DEF SendCandidate
    <3>2. name \in Texts /\ body \in Texts
      BY SignallingAssumption
    <3> QED
      BY <2>2, <3>1, <3>2
  <2>5. ASSUME NEW frame \in Frames, Unauthenticated(frame) PROVE IInv'
    <3>1. CASE UNCHANGED pool
      BY <1>1, <2>1, <3>1, PoolUnchangedKeeps
    <3>2. CASE ~UNCHANGED pool
      <4>1. PICK id \in Numbers, time \in Numbers, refused \in Refusals(5) :
              SendAuthSuccess(id, time, refused)
        BY <2>5, <3>2 DEF Unauthenticated
      <4>2. Sends(<<<<"AUTH", "|", "OK">>, id, time>>, refused)
        BY <4>1 DEF SendAuthSuccess
      <4>3. id \in Texts /\ time \in Texts
        BY SignallingAssumption
      <4> QED
        BY <2>2, <4>2, <4>3
    <3> QED
      BY <3>1, <3>2
  <2>6. ASSUME NEW frame \in Frames, Authenticated(frame) PROVE IInv'
    <3>1. CASE UNCHANGED pool
      BY <1>1, <2>1, <3>1, PoolUnchangedKeeps
    <3>2. CASE ~UNCHANGED pool
      <4>1. Fields(frame)
        BY <2>6, <3>2 DEF Authenticated, Drops
      <4>2. frame.mark # <<>> /\ \E refused \in Refusals(2) : Hands(frame, refused)
        BY <3>2, <4>1 DEF Fields, ReadsBeyond, Drops
      <4>3. frame.body \in Heard
        BY <4>2 DEF Frames
      <4>4. Name(frame.body) \in Texts
        BY <4>3, SignallingAssumption
      <4> QED
        BY <1>1, <2>1, <4>2, <4>4, HandsKeeps
    <3> QED
      BY <3>1, <3>2
  <2>7. ASSUME NEW frame \in Frames, WsMessage(frame) PROVE IInv'
    BY <2>5, <2>6, <2>7 DEF WsMessage
  <2>8. ASSUME NEW label \in Labels, OnDataChannel(label) PROVE IInv'
    <3>1. UNCHANGED pool
      BY <2>8 DEF OnDataChannel
    <3> QED
      BY <1>1, <2>1, <3>1, PoolUnchangedKeeps
  <2> QED
    BY <1>2, <2>3, <2>4, <2>7, <2>8 DEF Next, Runs
<1>3. CASE UNCHANGED vars
  BY <1>3 DEF vars, IInv, PoolKept, StaysInside, Appended
<1> QED
  BY <1>2, <1>3

\* The string buffer is written past its capacity only by a text that is longer
\* than a new buffer (string-buffer.c:15), for any texts, capacities and
\* failures of the allocator, and however often the buffer is used.
THEOREM BufferIsBigEnough == Spec => []StaysInside
<1>1. IInv => StaysInside
  BY DEF IInv
<1> QED
  BY IInvInit, IInvStep, <1>1, PTL DEF Spec
-----------------------------------------------------------------------------
(***************************************************************************)
(* Induction and folds.                                                    *)
(***************************************************************************)
\* A set of numbers has a smallest one.
LEMMA SmallestOf ==
  ASSUME NEW T \in SUBSET Nat, T # {}
  PROVE  \E n \in T : \A m \in T : n <= m
<1> DEFINE R == OpToRel(<, Nat)
<1>1. IsWellFoundedOn(R, Nat)
  BY NatLessThanWellFounded
<1> HIDE DEF R
<1>2. PICK n \in T : \A m \in T : <<m, n>> \notin R
  BY <1>1, WFMin
<1>3. ASSUME NEW m \in T PROVE n <= m
  <2>1. <<m, n>> \notin R /\ m \in Nat /\ n \in Nat
    BY <1>2
  <2>2. <<m, n>> \in Nat \X Nat /\ <<m, n>>[1] = m /\ <<m, n>>[2] = n
    BY <2>1
  <2>3. ~(m < n)
    BY <2>1, <2>2 DEF R, OpToRel
  <2> QED
    BY <2>1, <2>3
<1> QED
  BY <1>3

\* A set that has zero and with a number its successor has all numbers.
LEMMA AllNumbers ==
  ASSUME NEW T, 0 \in T, \A n \in Nat : n \in T => n + 1 \in T
  PROVE  Nat \subseteq T
<1> SUFFICES ASSUME Nat \ T # {} PROVE FALSE
  OBVIOUS
<1>1. PICK n \in Nat \ T : \A m \in Nat \ T : n <= m
  BY SmallestOf
<1>2. n # 0 /\ n - 1 \in Nat /\ (n - 1) + 1 = n
  BY <1>1
<1>3. n - 1 \in T
  BY <1>1, <1>2
<1> QED
  BY <1>1, <1>2, <1>3

\* g folds h over the subsets of S, and takes the elements in the order c.
IsFold(g, S, h, c) ==
  /\ g \in [SUBSET S -> Nat]
  /\ \A t \in SUBSET S : g[t] = IF t = {} THEN 0 ELSE h[c[t]][g[t \ {c[t]}]]

\* The equation of a fold over a finite set has a solution, in whatever order c
\* takes the elements.
LEMMA FoldExists ==
  ASSUME NEW S, IsFiniteSet(S), NEW h \in [S -> [Nat -> Nat]], NEW c,
         \A t \in SUBSET S : t # {} => c[t] \in t
  PROVE  \E g : IsFold(g, S, h, c)
<1> DEFINE Fold(g) == [t \in SUBSET S |->
                         IF t = {} THEN 0 ELSE h[c[t]][g[t \ {c[t]}]]]
           Upto(g, k) == \A t \in SUBSET S : Cardinality(t) <= k => g[t] = Fold(g)[t]
           T == {k \in Nat : \E g \in [SUBSET S -> Nat] : Upto(g, k)}
<1>1. ASSUME NEW t \in SUBSET S PROVE IsFiniteSet(t) /\ Cardinality(t) \in Nat
  BY FS_Subset, FS_CardinalityType
<1>2. ASSUME NEW t \in SUBSET S, t # {}
      PROVE  /\ c[t] \in S /\ t \ {c[t]} \in SUBSET S
             /\ Cardinality(t \ {c[t]}) = Cardinality(t) - 1
  <2>1. c[t] \in t
    BY <1>2
  <2>2. Cardinality(t \ {c[t]}) = Cardinality(t) - 1
    BY <1>1, <2>1, FS_RemoveElement
  <2> QED
    BY <2>1, <2>2
<1>3. ASSUME NEW g \in [SUBSET S -> Nat] PROVE Fold(g) \in [SUBSET S -> Nat]
  <2>1. ASSUME NEW t \in SUBSET S, t # {} PROVE h[c[t]][g[t \ {c[t]}]] \in Nat
    BY <1>2, <2>1
  <2> QED
    BY <2>1
<1>4. 0 \in T
  <2> DEFINE g == [t \in SUBSET S |-> 0]
  <2>1. g \in [SUBSET S -> Nat]
    OBVIOUS
  <2>2. ASSUME NEW t \in SUBSET S, Cardinality(t) <= 0 PROVE g[t] = Fold(g)[t]
    <3>1. t = {}
      BY <1>1, <2>2, FS_EmptySet
    <3> QED
      BY <3>1
  <2> QED
    BY <2>1, <2>2
<1>5. ASSUME NEW k \in Nat, k \in T PROVE k + 1 \in T
  <2>1. PICK g \in [SUBSET S -> Nat] : Upto(g, k)
    BY <1>5
  <2> DEFINE f == Fold(g)
  <2>2. f \in [SUBSET S -> Nat]
    BY <1>3
  <2>3. ASSUME NEW t \in SUBSET S, Cardinality(t) <= k + 1 PROVE f[t] = Fold(f)[t]
    <3>1. CASE t = {}
      BY <3>1
    <3>2. CASE t # {}
      <4>1. t \ {c[t]} \in SUBSET S /\ Cardinality(t \ {c[t]}) <= k
        BY <1>1, <1>2, <2>3, <3>2
      <4>2. f[t \ {c[t]}] = g[t \ {c[t]}]
        BY <2>1, <4>1
      <4> QED
        BY <3>2, <4>2
    <3> QED
      BY <3>1, <3>2
  <2> HIDE DEF f
  <2>4. Upto(f, k + 1)
    BY <2>3
  <2> HIDE DEF Upto
  <2> QED
    BY <2>2, <2>4
<1> HIDE DEF T
<1>6. Nat \subseteq T
  BY <1>4, <1>5, AllNumbers
<1> USE DEF T
<1>7. PICK g \in [SUBSET S -> Nat] : Upto(g, Cardinality(S))
  <2>1. Cardinality(S) \in Nat
    BY <1>1
  <2> HIDE DEF Upto
  <2> QED
    BY <1>6, <2>1
<1>8. ASSUME NEW t \in SUBSET S PROVE g[t] = Fold(g)[t]
  <2>1. Cardinality(t) <= Cardinality(S)
    BY FS_Subset
  <2> QED
    BY <1>7, <2>1
<1> QED
  BY <1>8 DEF IsFold

\* The largest of a set of indexes, and what is below it.
LEMMA LargestOf ==
  ASSUME NEW n \in Nat
  PROVE  /\ \A t \in SUBSET (1 .. n) : t # {} => Max(t) \in t
         /\ n > 0 => Max(1 .. n) = n /\ (1 .. n) \ {n} = 1 .. n - 1
<1>1. ASSUME NEW t \in SUBSET (1 .. n), t # {} PROVE Max(t) \in t
  <2> DEFINE T == {n - k : k \in t}
  <2>1. T \in SUBSET Nat /\ T # {}
    <3>1. \A x \in t : x \in 1 .. n
      OBVIOUS
    <3>2. \A x \in 1 .. n : n - x \in Nat
      OBVIOUS
    <3>3. \A x \in t : n - x \in Nat
      BY <3>1, <3>2
    <3>4. T \in SUBSET Nat
      BY <3>3
    <3>5. T # {}
      BY <1>1
    <3> QED
      BY <3>4, <3>5
  <2>2. PICK m \in T : \A j \in T : m <= j
    BY <2>1, SmallestOf
  <2>3. PICK x \in t : m = n - x
    BY <2>2
  <2>4. \A y \in t : x >= y
    BY <2>2, <2>3
  <2> QED
    BY <2>4 DEF Max
<1>2. ASSUME n > 0 PROVE Max(1 .. n) = n
  <2>1. n \in 1 .. n /\ \A y \in 1 .. n : n >= y
    BY <1>2
  <2>2. \A x \in 1 .. n : (\A y \in 1 .. n : x >= y) => x = n
    BY <2>1
  <2> QED
    BY <2>1, <2>2 DEF Max
<1> QED
  BY <1>1, <1>2
-----------------------------------------------------------------------------
(***************************************************************************)
(* Numbers.                                                                *)
(***************************************************************************)
\* p goes from base in steps h.
IsSteps(p, base, h) ==
  p \in [Nat -> Nat] /\ p[0] = base /\ \A i \in Nat : p[i + 1] = h[i][p[i]]

\* There are numbers that go in any steps.
LEMMA StepsExist ==
  ASSUME NEW base \in Nat, NEW h, \A i, n \in Nat : h[i][n] \in Nat
  PROVE  \E p : IsSteps(p, base, h)
<1> DEFINE Upto(p, k) == p[0] = base /\ \A i \in Nat : i < k => p[i + 1] = h[i][p[i]]
           T == {k \in Nat : \E p \in [Nat -> Nat] : Upto(p, k)}
<1>1. 0 \in T
  <2> DEFINE p == [i \in Nat |-> base]
  <2>1. p \in [Nat -> Nat] /\ Upto(p, 0)
    OBVIOUS
  <2> HIDE DEF Upto, p
  <2> QED
    BY <2>1
<1>2. ASSUME NEW k \in Nat, k \in T PROVE k + 1 \in T
  <2>1. PICK p \in [Nat -> Nat] : Upto(p, k)
    BY <1>2
  <2> DEFINE q == [p EXCEPT ![k + 1] = h[k][p[k]]]
  <2>2. q \in [Nat -> Nat]
    OBVIOUS
  <2>3. \A i \in Nat : i <= k => q[i] = p[i]
    OBVIOUS
  <2>4. q[k + 1] = h[k][p[k]]
    OBVIOUS
  <2> HIDE DEF q
  <2>5. ASSUME NEW i \in Nat, i < k + 1 PROVE q[i + 1] = h[i][q[i]]
    <3>1. CASE i = k
      <4>1. q[k] = p[k]
        BY <2>3
      <4> QED
        BY <2>4, <3>1, <4>1, Zenon
    <3>2. CASE i < k
      <4>1. p[i + 1] = h[i][p[i]]
        BY <2>1, <3>2
      <4>2. i + 1 \in Nat /\ i + 1 <= k /\ i <= k
        BY <3>2
      <4>3. q[i + 1] = p[i + 1]
        BY <2>3, <4>2
      <4>4. q[i] = p[i]
        BY <2>3, <4>2
      <4> QED
        BY <4>1, <4>3, <4>4
    <3>3. i = k \/ i < k
      BY <2>5
    <3> QED
      BY <3>1, <3>2, <3>3, Zenon
  <2>6. q[0] = base
    BY <2>1, <2>3
  <2>7. Upto(q, k + 1)
    BY <2>5, <2>6
  <2>8. k + 1 \in Nat
    OBVIOUS
  <2> HIDE DEF Upto
  <2> QED
    BY <2>2, <2>7, <2>8, Zenon
<1> HIDE DEF T
<1>3. Nat \subseteq T
  BY <1>1, <1>2, AllNumbers
<1> USE DEF T
<1>4. ASSUME NEW j \in Nat, NEW k \in Nat, NEW p, NEW q, Upto(p, j), Upto(q, k)
      PROVE  \A i \in Nat : i <= j /\ i <= k => p[i] = q[i]
  <2> DEFINE E == {i \in Nat : i <= j /\ i <= k => p[i] = q[i]}
  <2>1. 0 \in E
    BY <1>4
  <2>2. ASSUME NEW i \in Nat, i \in E PROVE i + 1 \in E
    BY <1>4, <2>2
  <2> HIDE DEF E
  <2>3. Nat \subseteq E
    BY <2>1, <2>2, AllNumbers
  <2> QED
    BY <2>3 DEF E
<1> DEFINE W(k) == CHOOSE p \in [Nat -> Nat] : Upto(p, k)
           r == [i \in Nat |-> W(i)[i]]
<1>5. \A k \in Nat : W(k) \in [Nat -> Nat] /\ Upto(W(k), k)
  <2> HIDE DEF Upto
  <2> QED
    BY <1>3
<1> HIDE DEF W
<1>6. r \in [Nat -> Nat] /\ r[0] = base
  BY <1>5
<1>7. ASSUME NEW i \in Nat PROVE r[i + 1] = h[i][r[i]]
  <2>1. r[i + 1] = W(i + 1)[i + 1] /\ r[i] = W(i)[i]
    OBVIOUS
  <2>2. W(i + 1)[i + 1] = h[i][W(i + 1)[i]]
    BY <1>5
  <2>3. W(i + 1)[i] = W(i)[i]
    <3>1. Upto(W(i + 1), i + 1) /\ Upto(W(i), i) /\ i + 1 \in Nat
      BY <1>5
    <3> HIDE DEF Upto
    <3> QED
      BY <1>4, <3>1
  <2> QED
    BY <2>1, <2>2, <2>3
<1> QED
  BY <1>6, <1>7 DEF IsSteps

\* Powers.
LEMMA PowerForm ==
  ASSUME NEW b \in Nat
  PROVE  /\ Power(b, 0) = 1
         /\ \A k \in Nat : Power(b, k) \in Nat /\ Power(b, k + 1) = b * Power(b, k)
<1> DEFINE Def(p) == [i \in Nat |-> IF i = 0 THEN 1 ELSE b * p[i - 1]]
           power == CHOOSE p : p = Def(p)
           h == [i \in Nat |-> [n \in Nat |-> b * n]]
<1>1. /\ \A i, n \in Nat : h[i][n] \in Nat
      /\ \A i, n \in Nat : h[i][n] = b * n
  OBVIOUS
<1> HIDE DEF h
<1>2. PICK p \in [Nat -> Nat] : p[0] = 1 /\ \A i \in Nat : p[i + 1] = h[i][p[i]]
  <2>1. 1 \in Nat
    OBVIOUS
  <2>2. PICK p : IsSteps(p, 1, h)
    BY <1>1, <2>1, StepsExist
  <2> QED
    BY <2>2 DEF IsSteps
<1>3. \A i \in Nat : p[i + 1] = b * p[i]
  BY <1>1, <1>2
<1>4. p = Def(p)
  <2>1. ASSUME NEW i \in Nat PROVE p[i] = IF i = 0 THEN 1 ELSE b * p[i - 1]
    <3>1. CASE i = 0
      BY <1>2, <3>1
    <3>2. CASE i # 0
      <4>1. i - 1 \in Nat /\ (i - 1) + 1 = i
        BY <3>2
      <4> QED
        BY <1>3, <3>2, <4>1
    <3> QED
      BY <3>1, <3>2
  <2> QED
    BY <2>1
<1>5. power = Def(power)
  <2> HIDE DEF Def
  <2> QED
    BY <1>4
<1> HIDE DEF power
<1>6. power[0] = 1 /\ \A i \in Nat : power[i + 1] = b * power[i]
  <2>1. \A i \in Nat : power[i] = IF i = 0 THEN 1 ELSE b * power[i - 1]
    BY <1>5
  <2> QED
    BY <2>1
<1>7. \A i \in Nat : power[i] \in Nat
  <2> DEFINE T == {i \in Nat : power[i] \in Nat}
  <2>1. 0 \in T /\ \A i \in Nat : i \in T => i + 1 \in T
    BY <1>6
  <2> HIDE DEF T
  <2>2. Nat \subseteq T
    BY <2>1, AllNumbers
  <2> QED
    BY <2>2 DEF T
<1>8. \A k : Power(b, k) = power[k]
  BY DEF Power, power
<1> QED
  BY <1>6, <1>7, <1>8

\* There is one way to divide.
LEMMA DivisionIsUnique ==
  ASSUME NEW m \in Nat \ {0}, NEW q \in Nat, NEW r \in 0 .. m - 1
  PROVE  (m * q + r) \div m = q /\ (m * q + r) % m = r
OBVIOUS

\* A division and what it leaves.
LEMMA Division ==
  ASSUME NEW m \in Nat \ {0}, NEW x \in Nat
  PROVE  x \div m \in Nat /\ x % m \in 0 .. m - 1 /\ x = m * (x \div m) + (x % m)
OBVIOUS

\* The index that the characters of a label are read as.
LEMMA IndexInSteps ==
  ASSUME NEW s \in Seq(Nat)
  PROVE  \E r \in [Nat -> Nat] :
           /\ r[0] = 0
           /\ \A i \in Nat : i + 1 \in 1 .. Len(s) => r[i + 1] = (r[i] * 10 + s[i + 1]) % SizeValues
           /\ FoldLeft(LAMBDA index, digit : (index * 10 + digit) % SizeValues, 0, s) = r[Len(s)]
<1> DEFINE D == 1 .. Len(s)
           Def(g) == [t \in SUBSET D |-> IF t = {} THEN 0
                                         ELSE (g[t \ {Max(t)}] * 10 + s[Max(t)]) % SizeValues]
           G == CHOOSE g : g = Def(g)
           h == [x \in D |-> [n \in Nat |-> (n * 10 + s[x]) % SizeValues]]
           c == [t \in SUBSET D |-> Max(t)]
<1>0. \A x, y \in Nat : (x * 10 + y) % SizeValues \in Nat
  BY ChannelLabelAssumption
<1>1. Len(s) \in Nat /\ DOMAIN s = D /\ IsFiniteSet(D) /\ SizeValues \in Nat \ {0}
  BY FS_Interval, ChannelLabelAssumption
<1>2. FoldLeft(LAMBDA index, digit : (index * 10 + digit) % SizeValues, 0, s) = G[DOMAIN s]
  BY <1>1 DEF FoldLeft, MapThenFoldSet
<1>3. h \in [D -> [Nat -> Nat]]
  BY <1>0, <1>1
<1>4. \A t \in SUBSET D : t # {} => c[t] \in t
  BY <1>1, LargestOf
<1>5. PICK g \in [SUBSET D -> Nat] : \A t \in SUBSET D :
        g[t] = IF t = {} THEN 0 ELSE h[c[t]][g[t \ {c[t]}]]
  <2> HIDE DEF h, c, D
  <2>1. PICK g : IsFold(g, D, h, c)
    BY <1>1, <1>3, <1>4, FoldExists
  <2> QED
    BY <2>1 DEF IsFold
<1>6. g = Def(g)
  <2>1. ASSUME NEW t \in SUBSET D, t # {}
        PROVE  g[t] = (g[t \ {Max(t)}] * 10 + s[Max(t)]) % SizeValues
    BY <1>4, <1>5, <2>1
  <2> QED
    BY <1>5, <2>1
<1>7. G = Def(G)
  <2> HIDE DEF Def
  <2> QED
    BY <1>6
<1> HIDE DEF G
<1>8. G[{}] = 0
  BY <1>7
<1>9. ASSUME NEW i \in Nat, i + 1 \in D
      PROVE  G[1 .. i + 1] = (G[1 .. i] * 10 + s[i + 1]) % SizeValues
  <2>1. 1 .. i + 1 \in SUBSET D /\ 1 .. i + 1 # {}
    <3>1. i + 1 \in 1 .. i + 1 /\ \A x \in 1 .. i + 1 : x \in D
      BY <1>1, <1>9
    <3> QED
      BY <3>1
  <2>2. Max(1 .. i + 1) = i + 1 /\ (1 .. i + 1) \ {i + 1} = 1 .. i
    BY LargestOf
  <2> QED
    BY <1>7, <2>1, <2>2
<1> DEFINE r == [i \in Nat |-> IF i <= Len(s) THEN G[1 .. i] ELSE 0]
<1>10. r[0] = 0 /\ \A i \in Nat : i + 1 \in D => r[i + 1] = (r[i] * 10 + s[i + 1]) % SizeValues
  BY <1>1, <1>8, <1>9
<1>11. r[Len(s)] = G[DOMAIN s]
  BY <1>1
<1>12. \A i \in Nat : i > Len(s) => r[i] = 0
  BY <1>1
<1>13. DOMAIN r = Nat /\ r = [i \in Nat |-> r[i]]
  OBVIOUS
<1> HIDE DEF r
<1>14. \A i \in Nat : r[i] \in Nat
  <2> DEFINE T == {i \in Nat : r[i] \in Nat}
  <2>1. 0 \in T
    BY <1>10
  <2>2. ASSUME NEW i \in Nat, i \in T PROVE i + 1 \in T
    <3>1. CASE i + 1 \in D
      <4>1. s[i + 1] \in Nat /\ r[i] \in Nat
        BY <2>2, <3>1
      <4>2. (r[i] * 10 + s[i + 1]) % SizeValues \in Nat
        BY <1>0, <1>1, <4>1
      <4> QED
        BY <1>10, <3>1, <4>2
    <3>2. CASE i + 1 \notin D
      BY <1>1, <1>12, <3>2
    <3> QED
      BY <3>1, <3>2
  <2> HIDE DEF T
  <2>3. Nat \subseteq T
    BY <2>1, <2>2, AllNumbers
  <2> QED
    BY <2>3 DEF T
<1>15. r \in [Nat -> Nat]
  BY <1>13, <1>14
<1> QED
  BY <1>2, <1>10, <1>11, <1>15


\* Reading a number digit by digit.
LEMMA DigitsInSteps ==
  ASSUME NEW s \in Seq(Nat)
  PROVE  \E r \in [Nat -> Nat] :
           r[0] = 0 /\ \A i \in Nat : i + 1 \in 1 .. Len(s) => r[i + 1] = r[i] * 10 + s[i + 1]
<1> DEFINE digit(i) == IF i + 1 \in 1 .. Len(s) THEN s[i + 1] ELSE 0
           h == [i \in Nat |-> [n \in Nat |-> n * 10 + digit(i)]]
<1>1. \A i \in Nat : digit(i) \in Nat
  OBVIOUS
<1>2. \A i \in Nat : i + 1 \in 1 .. Len(s) => digit(i) = s[i + 1]
  OBVIOUS
<1> HIDE DEF digit
<1>3. /\ \A i, n \in Nat : h[i][n] \in Nat
      /\ \A i, n \in Nat : h[i][n] = n * 10 + digit(i)
  <2>1. \A i, n \in Nat : h[i][n] = n * 10 + digit(i)
    OBVIOUS
  <2> HIDE DEF h
  <2>2. ASSUME NEW i \in Nat, NEW n \in Nat PROVE h[i][n] \in Nat
    <3>1. digit(i) \in Nat /\ h[i][n] = n * 10 + digit(i)
      BY <1>1, <2>1
    <3> QED
      BY <3>1
  <2> QED
    BY <2>1, <2>2
<1> HIDE DEF h
<1>4. PICK r \in [Nat -> Nat] : r[0] = 0 /\ \A i \in Nat : r[i + 1] = h[i][r[i]]
  <2>1. PICK r : IsSteps(r, 0, h)
    BY <1>3, StepsExist
  <2> QED
    BY <2>1 DEF IsSteps
<1>5. ASSUME NEW i \in Nat, i + 1 \in 1 .. Len(s) PROVE r[i + 1] = r[i] * 10 + s[i + 1]
  <2>1. r[i + 1] = h[i][r[i]] /\ r[i] \in Nat
    BY <1>4
  <2>2. h[i][r[i]] = r[i] * 10 + digit(i)
    BY <1>3, <2>1
  <2> QED
    BY <1>2, <1>5, <2>1, <2>2
<1> QED
  BY <1>4, <1>5

\* That the index is cut to a size_t after each digit does not matter.
LEMMA CutEachTime ==
  ASSUME NEW a \in Nat, NEW d \in Nat
  PROVE  ((a % SizeValues) * 10 + d) % SizeValues = (a * 10 + d) % SizeValues
<1> DEFINE M == SizeValues
           q == a \div M
           r == a % M
           x == r * 10 + d
           p == x \div M
           u == x % M
<1>1. M \in Nat \ {0}
  BY ChannelLabelAssumption
<1>2. q \in Nat /\ r \in 0 .. M - 1 /\ a = M * q + r
  BY <1>1, Division
<1> HIDE DEF q, r
<1>3. x \in Nat
  BY <1>1, <1>2
<1>4. p \in Nat /\ u \in 0 .. M - 1 /\ x = M * p + u
  BY <1>1, <1>3, Division
<1>5. M * (q * 10 + p) = (M * q) * 10 + M * p
  <2>1. \A x1, x2, x3 \in Nat : x1 * (x2 * 10 + x3) = (x1 * x2) * 10 + x1 * x3
    OBVIOUS
  <2>2. M \in Nat /\ q \in Nat /\ p \in Nat
    BY <1>1, <1>2, <1>4
  <2> HIDE DEF M, p
  <2> QED
    BY <2>1, <2>2, Zenon
<1>6. a * 10 + d = (M * q) * 10 + x
  <2> DEFINE y == M * q
  <2>1. y \in Nat
    BY <1>1, <1>2
  <2> HIDE DEF y
  <2>2. a = y + r
    BY <1>2 DEF y
  <2>3. a * 10 + d = y * 10 + x
    BY <1>1, <1>2, <2>1, <2>2
  <2> QED
    BY <2>3 DEF y
<1> DEFINE z == q * 10 + p
<1>7. z \in Nat
  BY <1>2, <1>4
<1>8. a * 10 + d = M * z + u
  <2> DEFINE y == M * q
             w == M * p
  <2>1. y \in Nat /\ w \in Nat
    BY <1>1, <1>2, <1>4
  <2>2. a * 10 + d = y * 10 + x /\ x = w + u /\ M * z = y * 10 + w
    BY <1>4, <1>5, <1>6
  <2> HIDE DEF y, w, z, x, u, p
  <2> QED
    BY <1>1, <1>4, <2>1, <2>2
<1> HIDE DEF z, x, u, p
<1>9. (a * 10 + d) % M = u
  BY <1>1, <1>4, <1>7, <1>8, DivisionIsUnique
<1> QED
  BY <1>9 DEF u, x, r

\* The value of a sequence of digits, added up digit by digit.
LEMMA ValueInSteps ==
  ASSUME NEW s \in Seq(Nat)
  PROVE  \E z \in [Nat -> Nat] :
           /\ z[0] = 0
           /\ \A i \in Nat : i + 1 \in 1 .. Len(s) =>
                z[i + 1] = z[i] + s[i + 1] * Power(10, Len(s) - (i + 1))
           /\ MapThenSumSet(LAMBDA k : s[k] * Power(10, Len(s) - k), DOMAIN s) = z[Len(s)]
<1> DEFINE D == 1 .. Len(s)
           V(k) == s[k] * Power(10, Len(s) - k)
           C(t) == CHOOSE x \in t : TRUE
           Def(g) == [t \in SUBSET D |-> IF t = {} THEN 0 ELSE V(C(t)) + g[t \ {C(t)}]]
           G == CHOOSE g : g = Def(g)
           h == [x \in D |-> [n \in Nat |-> V(x) + n]]
           c == [t \in SUBSET D |-> C(t)]
<1>1. Len(s) \in Nat /\ DOMAIN s = D /\ IsFiniteSet(D)
  BY FS_Interval
<1>2. MapThenSumSet(LAMBDA k : s[k] * Power(10, Len(s) - k), DOMAIN s) = G[DOMAIN s]
  BY <1>1 DEF MapThenSumSet, MapThenFoldSet
<1>3. ASSUME NEW k \in D PROVE V(k) \in Nat
  <2>1. Len(s) - k \in Nat /\ s[k] \in Nat
    BY <1>1
  <2>2. Power(10, Len(s) - k) \in Nat
    BY <2>1, PowerForm
  <2>3. \A x, y \in Nat : x * y \in Nat
    OBVIOUS
  <2> QED
    BY <2>1, <2>2, <2>3
<1>4. \A t \in SUBSET D : t # {} => C(t) \in t
  OBVIOUS
<1> HIDE DEF V, C
<1>5. h \in [D -> [Nat -> Nat]]
  BY <1>3
<1>6. PICK g \in [SUBSET D -> Nat] : \A t \in SUBSET D :
        g[t] = IF t = {} THEN 0 ELSE h[c[t]][g[t \ {c[t]}]]
  <2>1. \A t \in SUBSET D : t # {} => c[t] \in t
    BY <1>4
  <2> HIDE DEF h, c, D
  <2>2. PICK g : IsFold(g, D, h, c)
    BY <1>1, <1>5, <2>1, FoldExists
  <2> QED
    BY <2>2 DEF IsFold
<1>7. g = Def(g)
  <2>1. ASSUME NEW t \in SUBSET D, t # {} PROVE g[t] = V(C(t)) + g[t \ {C(t)}]
    <3>1. C(t) \in D /\ c[t] = C(t) /\ g[t \ {C(t)}] \in Nat
      BY <1>4, <2>1
    <3>2. g[t] = h[C(t)][g[t \ {C(t)}]]
      BY <1>6, <2>1, <3>1
    <3> QED
      BY <3>1, <3>2
  <2> QED
    BY <1>6, <2>1
<1>8. G = Def(G)
  <2> HIDE DEF Def
  <2> QED
    BY <1>7
<1> HIDE DEF G
<1>9. G[{}] = 0 /\ \A t \in SUBSET D : t # {} => G[t] = V(C(t)) + G[t \ {C(t)}]
  BY <1>8
<1> HIDE DEF D
<1> DEFINE AnyFirst(t) == G[t] \in Nat /\ \A x \in t : G[t] = G[t \ {x}] + V(x)
           T == {k \in Nat : \A t \in SUBSET D : Cardinality(t) <= k => AnyFirst(t)}
<1>10. ASSUME NEW t \in SUBSET D
       PROVE  /\ IsFiniteSet(t) /\ Cardinality(t) \in Nat
              /\ \A x \in t : Cardinality(t \ {x}) = Cardinality(t) - 1
  <2>1. IsFiniteSet(t)
    BY <1>1, FS_Subset
  <2> QED
    BY <2>1, FS_CardinalityType, FS_RemoveElement
<1>11. 0 \in T
  <2>1. ASSUME NEW t \in SUBSET D, Cardinality(t) <= 0 PROVE AnyFirst(t)
    <3>1. t = {}
      BY <1>10, <2>1, FS_EmptySet
    <3> QED
      BY <1>9, <3>1
  <2> QED
    BY <2>1
<1>12. ASSUME NEW k \in Nat, k \in T PROVE k + 1 \in T
  <2>1. ASSUME NEW t \in SUBSET D, Cardinality(t) <= k + 1 PROVE AnyFirst(t)
    <3>1. CASE t = {}
      BY <1>9, <3>1
    <3>2. CASE t # {}
      <4>1. ASSUME NEW u \in SUBSET D, Cardinality(u) <= k
            PROVE  G[u] \in Nat /\ \A x \in u : G[u] = G[u \ {x}] + V(x)
        BY <1>12, <4>1
      <4>2. ASSUME NEW x \in t
            PROVE  /\ t \ {x} \in SUBSET D /\ Cardinality(t \ {x}) <= k
                   /\ G[t \ {x}] \in Nat /\ V(x) \in Nat
        <5>1. Cardinality(t \ {x}) <= k /\ t \ {x} \in SUBSET D
          BY <1>10, <2>1
        <5> QED
          BY <1>3, <4>1, <5>1
      <4> DEFINE m == C(t)
      <4>3. m \in t /\ G[t] = V(m) + G[t \ {m}]
        BY <1>4, <1>9, <3>2
      <4> HIDE DEF m
      <4>4. V(m) \in Nat /\ G[t \ {m}] \in Nat /\ G[t] \in Nat
        <5>1. V(m) \in Nat /\ G[t \ {m}] \in Nat
          BY <4>2, <4>3
        <5> QED
          BY <4>3, <5>1
      <4>5. ASSUME NEW x \in t PROVE G[t] = G[t \ {x}] + V(x)
        <5>1. CASE x = m
          BY <4>3, <4>4, <5>1
        <5>2. CASE x # m
          <6> DEFINE u == (t \ {m}) \ {x}
          <6>1. x \in t \ {m} /\ m \in t \ {x} /\ (t \ {x}) \ {m} = u
            BY <4>3, <5>2
          <6>2. G[t \ {m}] = G[u] + V(x)
            BY <4>1, <4>3, <4>2, <6>1
          <6>3. G[t \ {x}] = G[u] + V(m)
            BY <4>1, <4>2, <6>1
          <6>4. G[u] \in Nat
            <7>1. t \ {m} \in SUBSET D /\ Cardinality(t \ {m}) <= k
              BY <4>3, <4>2
            <7>2. Cardinality(u) = Cardinality(t \ {m}) - 1 /\ Cardinality(t \ {m}) \in Nat
              BY <1>10, <6>1, <7>1
            <7>3. Cardinality(u) <= k /\ u \in SUBSET D
              BY <7>1, <7>2
            <7> QED
              BY <4>1, <7>3
          <6>5. V(x) \in Nat /\ V(m) \in Nat
            BY <4>3, <4>2
          <6> HIDE DEF u
          <6> QED
            BY <4>3, <6>2, <6>3, <6>4, <6>5
        <5> QED
          BY <5>1, <5>2
      <4> QED
        BY <4>4, <4>5
    <3> QED
      BY <3>1, <3>2
  <2> QED
    BY <2>1
<1> HIDE DEF T
<1>13. Nat \subseteq T
  BY <1>11, <1>12, AllNumbers
<1>14. ASSUME NEW t \in SUBSET D PROVE AnyFirst(t)
  <2>1. Cardinality(t) \in T /\ Cardinality(t) \in Nat
    BY <1>10, <1>13
  <2> HIDE DEF AnyFirst
  <2> QED
    BY <2>1 DEF T
<1> DEFINE z == [i \in Nat |-> IF i <= Len(s) THEN G[1 .. i] ELSE 0]
<1>15. z \in [Nat -> Nat]
  <2>1. ASSUME NEW i \in Nat, i <= Len(s) PROVE G[1 .. i] \in Nat
    <3>1. 1 .. i \in SUBSET D
      BY <1>1, <2>1 DEF D
    <3> QED
      BY <1>14, <3>1
  <2> QED
    BY <2>1
<1>16. z[0] = 0
  BY <1>1, <1>9
<1>17. ASSUME NEW i \in Nat, i + 1 \in D PROVE z[i + 1] = z[i] + V(i + 1)
  <2>1. i + 1 <= Len(s) /\ i <= Len(s)
    BY <1>1, <1>17 DEF D
  <2>2. i + 1 \in 1 .. i + 1 /\ (1 .. i + 1) \ {i + 1} = 1 .. i
    OBVIOUS
  <2>3. 1 .. i + 1 \in SUBSET D
    <3>1. \A x \in 1 .. i + 1 : x \in D
      BY <1>1, <2>1 DEF D
    <3> QED
      BY <3>1
  <2>4. G[1 .. i + 1] = G[1 .. i] + V(i + 1)
    BY <1>14, <2>2, <2>3
  <2> QED
    BY <2>1, <2>4
<1>18. z[Len(s)] = G[DOMAIN s]
  BY <1>1 DEF D
<1> HIDE DEF z
<1>19. \A i \in Nat : i + 1 \in 1 .. Len(s) =>
         z[i + 1] = z[i] + s[i + 1] * Power(10, Len(s) - (i + 1))
  BY <1>17 DEF V, D
<1> QED
  BY <1>2, <1>15, <1>16, <1>18, <1>19

\* The index is the value of the characters, as far as a size_t goes.
LEMMA IndexIsValue ==
  ASSUME NEW s \in Seq(Nat)
  PROVE  FoldLeft(LAMBDA index, digit : (index * 10 + digit) % SizeValues, 0, s) =
           MapThenSumSet(LAMBDA k : s[k] * Power(10, Len(s) - k), DOMAIN s) % SizeValues
<1> DEFINE n == Len(s)
           P(i) == Power(10, i)
           index == FoldLeft(LAMBDA i, digit : (i * 10 + digit) % SizeValues, 0, s)
           value == MapThenSumSet(LAMBDA k : s[k] * P(n - k), DOMAIN s)
<1>1. n \in Nat /\ \A i \in 1 .. n : s[i] \in Nat
  OBVIOUS
<1>2. P(0) = 1 /\ \A i \in Nat : P(i) \in Nat /\ P(i + 1) = 10 * P(i)
  BY PowerForm
<1>3. PICK r \in [Nat -> Nat] :
        /\ r[0] = 0
        /\ \A i \in Nat : i + 1 \in 1 .. n => r[i + 1] = (r[i] * 10 + s[i + 1]) % SizeValues
        /\ index = r[n]
  BY IndexInSteps
<1>4. PICK g \in [Nat -> Nat] :
        g[0] = 0 /\ \A i \in Nat : i + 1 \in 1 .. n => g[i + 1] = g[i] * 10 + s[i + 1]
  BY DigitsInSteps
<1>5. PICK z \in [Nat -> Nat] :
        /\ z[0] = 0
        /\ \A i \in Nat : i + 1 \in 1 .. n => z[i + 1] = z[i] + s[i + 1] * P(n - (i + 1))
        /\ value = z[n]
  BY ValueInSteps
<1> HIDE DEF P, index, value, n
<1> DEFINE T == {i \in Nat : i <= n => r[i] = g[i] % SizeValues /\ z[i] = g[i] * P(n - i)}
<1>6. 0 \in T
  <2>1. 0 % SizeValues = 0
    <3>1. SizeValues \in Nat \ {0} /\ 0 = SizeValues * 0 + 0
      BY ChannelLabelAssumption
    <3> QED
      BY <3>1, DivisionIsUnique
  <2>2. P(n - 0) \in Nat
    <3>1. n - 0 \in Nat
      BY <1>1
    <3> QED
      BY <1>2, <3>1
  <2>3. 0 * P(n - 0) = 0
    BY <2>2
  <2> QED
    BY <1>3, <1>4, <1>5, <2>1, <2>3
<1>7. ASSUME NEW i \in Nat, i \in T PROVE i + 1 \in T
  <2>1. CASE i + 1 \in 1 .. n
    <3> DEFINE j == n - (i + 1)
               p == P(j)
               d == s[i + 1]
               a == g[i]
    <3>1. j \in Nat /\ n - i = j + 1 /\ i <= n
      BY <1>1, <2>1
    <3>2. p \in Nat /\ P(n - i) = 10 * p
      BY <1>2, <3>1
    <3>3. d \in Nat /\ a \in Nat
      BY <1>1, <1>4, <2>1
    <3>4. r[i] = a % SizeValues /\ z[i] = a * (10 * p)
      BY <1>7, <3>1, <3>2
    <3>5. g[i + 1] = a * 10 + d
      BY <1>4, <2>1
    <3>6. r[i + 1] = ((a % SizeValues) * 10 + d) % SizeValues
      BY <1>3, <2>1, <3>4
    <3>7. z[i + 1] = a * (10 * p) + d * p
      BY <1>5, <2>1, <3>4
    <3> HIDE DEF p, d, a
    <3>8. r[i + 1] = g[i + 1] % SizeValues
      BY <3>3, <3>5, <3>6, CutEachTime
    <3>9. \A x1, x2, x3 \in Nat : x1 * (10 * x3) + x2 * x3 = (x1 * 10 + x2) * x3
      OBVIOUS
    <3>10. z[i + 1] = g[i + 1] * p
      BY <3>2, <3>3, <3>5, <3>7, <3>9
    <3> QED
      BY <3>8, <3>10 DEF p
  <2>2. CASE i + 1 \notin 1 .. n
    BY <1>1, <2>2
  <2> QED
    BY <2>1, <2>2
<1> HIDE DEF T
<1>8. Nat \subseteq T
  BY <1>6, <1>7, AllNumbers
<1>9. r[n] = g[n] % SizeValues /\ z[n] = g[n] * P(n - n)
  BY <1>1, <1>8 DEF T
<1>10. z[n] = g[n]
  <2>1. n \in Nat
    BY <1>1
  <2>2. g[n] \in Nat
    BY <2>1
  <2>3. \A x \in Nat : x * 1 = x /\ x - x = 0
    OBVIOUS
  <2>4. z[n] = g[n] * 1
    BY <1>2, <1>9, <2>1, <2>3
  <2> QED
    BY <2>2, <2>3, <2>4
<1> QED
  BY <1>3, <1>5, <1>9, <1>10 DEF index, value, P, n
-----------------------------------------------------------------------------
(***************************************************************************)
(* Texts and their separators.                                             *)
(***************************************************************************)
\* The texts of messages are made of tokens.
LEMMA TextForm ==
  ASSUME NEW text \in Texts
  PROVE  /\ text \in Seq(Tokens) /\ Size[text] \in Nat
         /\ Size[text] = 0 => text = <<>>
<1>1. text \in Seq(Tokens)
  BY StringBufferAssumption
<1> QED
  BY <1>1, StringBufferAssumption

\* Where the first separator is.
LEMMA SeparatorForm ==
  ASSUME NEW text \in Seq(Tokens)
  PROVE  /\ Separator(text) \in 0 .. Len(text)
         /\ Separator(text) # 0 => text[Separator(text)] = "|"
         /\ Separator(text) # 0 => \A k \in 1 .. Separator(text) - 1 : text[k] # "|"
         /\ Separator(text) = 0 => \A k \in 1 .. Len(text) : text[k] # "|"
         /\ \A p \in 1 .. Len(text) :
              text[p] = "|" /\ (\A k \in 1 .. p - 1 : text[k] # "|") => Separator(text) = p
<1> DEFINE I == {k \in 1 .. Len(text) : text[k] = "|"}
<1>1. Separator(text) = IF I # {} THEN Min(I) ELSE 0
  BY DEF Separator, SelectInSeq
<1>2. CASE I = {}
  BY <1>1, <1>2
<1>3. CASE I # {}
  <2>1. PICK n \in I : \A m \in I : n <= m
    <3>1. I \in SUBSET Nat
      OBVIOUS
    <3> HIDE DEF I
    <3> QED
      BY <1>3, <3>1, SmallestOf
  <2>2. Min(I) \in I /\ \A m \in I : Min(I) <= m
    <3> HIDE DEF I
    <3> QED
      BY <2>1 DEF Min
  <2> DEFINE q == Separator(text)
  <2>3. q \in I /\ \A m \in I : q <= m
    BY <1>1, <1>3, <2>2
  <2> HIDE DEF q
  <2>4. q \in 1 .. Len(text) /\ text[q] = "|"
    BY <2>3
  <2>5. \A k \in 1 .. q - 1 : text[k] # "|"
    BY <2>3, <2>4
  <2>6. \A p \in 1 .. Len(text) :
          text[p] = "|" /\ (\A k \in 1 .. p - 1 : text[k] # "|") => q = p
    BY <2>3, <2>4
  <2> QED
    BY <2>4, <2>5, <2>6 DEF q
<1> QED
  BY <1>2, <1>3

\* Two texts with a separator between them.
LEMMA Between ==
  ASSUME NEW a \in Seq(Tokens), NEW b \in Seq(Tokens)
  PROVE  /\ a \o Sep \o b \in Seq(Tokens)
         /\ Len(a \o Sep \o b) = Len(a) + 1 + Len(b)
         /\ (a \o Sep \o b)[Len(a) + 1] = "|"
         /\ \A k \in 1 .. Len(a) : (a \o Sep \o b)[k] = a[k]
         /\ \A k \in 1 .. Len(b) : (a \o Sep \o b)[Len(a) + 1 + k] = b[k]
<1> DEFINE x == a \o Sep
           t == x \o b
<1>1. Sep \in Seq(Tokens) /\ Sep = <<"|">>
  BY SignallingAssumption, StringBufferAssumption DEF Sep
<1>2. /\ x \in Seq(Tokens) /\ Len(x) = Len(a) + 1 /\ x[Len(a) + 1] = "|"
      /\ \A k \in 1 .. Len(a) : x[k] = a[k]
  BY <1>1
<1> HIDE DEF x
<1>3. t \in Seq(Tokens) /\ Len(t) = Len(a) + 1 + Len(b)
  BY <1>2
<1>4. t[Len(a) + 1] = "|"
  BY <1>2
<1>5. \A k \in 1 .. Len(a) : t[k] = a[k]
  BY <1>2
<1>6. \A k \in 1 .. Len(b) : t[Len(a) + 1 + k] = b[k]
  BY <1>2
<1> HIDE DEF t
<1>7. /\ t \in Seq(Tokens) /\ Len(t) = Len(a) + 1 + Len(b) /\ t[Len(a) + 1] = "|"
      /\ \A k \in 1 .. Len(a) : t[k] = a[k]
      /\ \A k \in 1 .. Len(b) : t[Len(a) + 1 + k] = b[k]
  BY <1>3, <1>4, <1>5, <1>6
<1> QED
  BY <1>7, Zenon DEF t, x

\* A text with a separator is its name, the separator and the rest.
LEMMA TextIsSplit ==
  ASSUME NEW text \in Seq(Tokens), Separator(text) # 0
  PROVE  /\ Name(text) \in Seq(Tokens) /\ Rest(text) \in Seq(Tokens)
         /\ text = Name(text) \o Sep \o Rest(text)
         /\ \A k \in DOMAIN Name(text) : Name(text)[k] # "|"
<1> DEFINE p == Separator(text)
           a == Name(text)
           b == Rest(text)
<1>1. /\ p \in 1 .. Len(text) /\ text[p] = "|" /\ Len(text) \in Nat
      /\ \A k \in 1 .. p - 1 : text[k] # "|"
  BY SeparatorForm
<1>2. a = SubSeq(text, 1, p - 1) /\ b = SubSeq(text, p + 1, Len(text))
  BY DEF Name, Rest
<1> HIDE DEF p, a, b
<1>3. a \in Seq(Tokens) /\ Len(a) = p - 1 /\ \A k \in 1 .. p - 1 : a[k] = text[k]
  BY <1>1, <1>2
<1>4. /\ b \in Seq(Tokens) /\ Len(b) = Len(text) - p
      /\ \A k \in 1 .. Len(text) - p : b[k] = text[p + k]
  BY <1>1, <1>2
<1>5. text = a \o Sep \o b
  <2> DEFINE t == a \o Sep \o b
  <2>1. /\ t \in Seq(Tokens) /\ Len(t) = Len(a) + 1 + Len(b) /\ t[Len(a) + 1] = "|"
        /\ \A k \in 1 .. Len(a) : t[k] = a[k]
        /\ \A k \in 1 .. Len(b) : t[Len(a) + 1 + k] = b[k]
    BY <1>3, <1>4, Between
  <2> HIDE DEF t
  <2>2. ASSUME NEW k \in 1 .. Len(text) PROVE t[k] = text[k]
    <3>1. CASE k < p
      BY <1>1, <1>3, <2>1, <3>1
    <3>2. CASE k = p
      BY <1>1, <1>3, <2>1, <3>2
    <3>3. CASE k > p
      <4>1. k - p \in 1 .. Len(text) - p /\ p + (k - p) = k
        BY <1>1, <3>3
      <4>2. t[p + (k - p)] = b[k - p]
        BY <1>1, <1>3, <1>4, <2>1, <4>1
      <4> QED
        BY <1>4, <4>1, <4>2
    <3> QED
      BY <1>1, <3>1, <3>2, <3>3
  <2>3. t = text
    BY <1>1, <1>3, <1>4, <2>1, <2>2
  <2> QED
    BY <2>3 DEF t
<1>6. \A k \in DOMAIN a : a[k] # "|"
  BY <1>1, <1>3
<1> QED
  BY <1>3, <1>4, <1>5, <1>6 DEF a, b

\* Two texts with a separator between them are found again, when the first has
\* none.
LEMMA TextsAreFound ==
  ASSUME NEW a \in Seq(Tokens), NEW b \in Seq(Tokens), Separator(a) = 0
  PROVE  /\ a \o Sep \o b \in Seq(Tokens)
         /\ Name(a \o Sep \o b) = a /\ Rest(a \o Sep \o b) = b
<1> DEFINE t == a \o Sep \o b
           p == Len(a) + 1
<1>1. /\ t \in Seq(Tokens) /\ Len(t) = Len(a) + 1 + Len(b) /\ t[Len(a) + 1] = "|"
      /\ \A k \in 1 .. Len(a) : t[k] = a[k]
      /\ \A k \in 1 .. Len(b) : t[Len(a) + 1 + k] = b[k]
  BY Between
<1> HIDE DEF t
<1>2. Len(a) \in Nat /\ Len(b) \in Nat /\ p - 1 = Len(a) /\ p \in 1 .. Len(t)
  BY <1>1
<1>3. \A k \in 1 .. p - 1 : a[k] # "|"
  BY <1>2, SeparatorForm
<1>4. Separator(t) = p
  <2>1. t[p] = "|" /\ \A k \in 1 .. p - 1 : t[k] # "|"
    BY <1>1, <1>2, <1>3
  <2> HIDE DEF p
  <2> QED
    BY <1>1, <1>2, <2>1, SeparatorForm
<1>5. SubSeq(t, 1, p - 1) = a
  BY <1>1, <1>2
<1>6. SubSeq(t, p + 1, Len(t)) = b
  BY <1>1, <1>2
<1> QED
  BY <1>1, <1>4, <1>5, <1>6 DEF Name, Rest, t

\* Three texts joined by separators, the last two taken together.
LEMMA Regrouped ==
  ASSUME NEW op \in Seq(Tokens), NEW a \in Seq(Tokens), NEW b \in Seq(Tokens)
  PROVE  op \o Sep \o a \o Sep \o b = op \o Sep \o (a \o Sep \o b)
<1> DEFINE u == op \o Sep
           v == a \o Sep
<1>1. Sep \in Seq(Tokens)
  BY SignallingAssumption, StringBufferAssumption
<1>2. u \in Seq(Tokens) /\ v \in Seq(Tokens)
  BY <1>1
<1> HIDE DEF u
<1>3. u \o a \o Sep = u \o v
  BY <1>1, <1>2
<1> HIDE DEF v
<1>4. u \o v \o b = u \o (v \o b)
  BY <1>2
<1>5. u \o a \o Sep \o b = u \o (v \o b)
  BY <1>3, <1>4
<1> QED
  BY <1>5 DEF u, v

\* What is read back of two fields after an opcode.
LEMMA FieldsAreFound ==
  ASSUME NEW op \in Seq(Tokens), NEW a \in Seq(Tokens), NEW b \in Seq(Tokens),
         Separator(a) = 0
  PROVE  ReadBack(op \o Sep \o a \o Sep \o b, op) = <<op, a, b>>
<1> DEFINE x == a \o Sep \o b
           m == op \o Sep \o x
           p == Len(op) + 1
<1>1. x \in Seq(Tokens) /\ Name(x) = a /\ Rest(x) = b
  BY TextsAreFound
<1>2. op \o Sep \o a \o Sep \o b = m
  <2>1. op \o Sep \o a \o Sep \o b = op \o Sep \o (a \o Sep \o b)
    BY Regrouped
  <2> QED
    BY <2>1
<1> HIDE DEF x
<1>3. /\ m \in Seq(Tokens) /\ Len(m) = p + Len(x)
      /\ \A k \in 1 .. Len(x) : m[p + k] = x[k]
  <2>1. /\ m \in Seq(Tokens) /\ Len(m) = Len(op) + 1 + Len(x)
        /\ \A k \in 1 .. Len(x) : m[Len(op) + 1 + k] = x[k]
    <3>1. op \in Seq(Tokens) /\ x \in Seq(Tokens)
      BY <1>1
    <3> QED
      BY <3>1, Between
  <2> HIDE DEF m
  <2> QED
    BY <2>1
<1> HIDE DEF m
<1>4. SubSeq(m, Len(op) + 2, Len(m)) = x
  <2>1. Len(op) + 2 = p + 1 /\ p \in Nat
    OBVIOUS
  <2> HIDE DEF p
  <2>2. SubSeq(m, p + 1, Len(m)) = x
    BY <1>1, <1>3, <2>1
  <2> QED
    BY <2>1, <2>2
<1> QED
  BY <1>1, <1>2, <1>4 DEF ReadBack
-----------------------------------------------------------------------------
(***************************************************************************)
(* What a buffer holds.                                                    *)
(***************************************************************************)
\* Appending gives a buffer, and leaves nothing out when memory is granted and
\* there is room for it.
LEMMA AppendForm ==
  ASSUME NEW b \in Buffers, NEW text \in Seq(Tokens), NEW size \in Nat,
         NEW granted \in BOOLEAN
  PROVE  /\ AppendBin(b, text, size, granted) \in Buffers
         /\ granted = TRUE /\ b.position + size < MaxCapacity /\ (size = 0 => text = <<>>) =>
              /\ AppendBin(b, text, size, granted).position = b.position + size
              /\ AppendBin(b, text, size, granted).data = b.data \o text
<1> DEFINE need == b.position + size
           capacity == IF need < b.capacity THEN b.capacity ELSE Grown(b)
           over == b.overrun \/ need > capacity
           data == b.data \o text
           filled == [position |-> need, capacity |-> capacity, data |-> data,
                      overrun |-> over]
<1>1. need \in Nat /\ data \in Seq(Tokens)
  BY DEF Buffers
<1>2. capacity \in InitialCapacity .. MaxCapacity
  BY StringBufferAssumption DEF Buffers, Grown
<1>3. over \in BOOLEAN
  BY Zenon
<1>4. CASE size = 0 \/ ~Ensures(b, need, granted)
  <2>1. AppendBin(b, text, size, granted) = b
    BY <1>4 DEF AppendBin
  <2>2. ASSUME granted = TRUE, need < MaxCapacity, size = 0 => text = <<>>
        PROVE  b.position = need /\ b.data = data
    <3>1. size = 0
      BY <1>4, <2>2 DEF Ensures
    <3>2. b.position \in Nat /\ b.data \in Seq(Tokens)
      BY DEF Buffers
    <3> QED
      BY <2>2, <3>1, <3>2
  <2> QED
    BY <2>1, <2>2
<1>5. CASE size # 0 /\ Ensures(b, need, granted)
  <2>1. AppendBin(b, text, size, granted) = filled
    BY <1>5, Zenon DEF AppendBin
  <2> HIDE DEF need, capacity, over, data
  <2>2. filled \in Buffers
    BY <1>1, <1>2, <1>3 DEF Buffers
  <2>3. filled.position = need /\ filled.data = data
    OBVIOUS
  <2> QED
    BY <2>1, <2>2, <2>3 DEF need, data
<1> QED
  BY <1>4, <1>5

\* The same for append_str of a text.
LEMMA AppendStrForm ==
  ASSUME NEW b \in Buffers, NEW text \in Texts, NEW granted \in BOOLEAN
  PROVE  /\ AppendStr(b, text, granted) \in Buffers
         /\ granted = TRUE /\ b.position + Size[text] < MaxCapacity =>
              /\ AppendStr(b, text, granted).position = b.position + Size[text]
              /\ AppendStr(b, text, granted).data = b.data \o text
BY TextForm, AppendForm DEF AppendStr

\* The same for append_chr of a separator and to_string.
LEMMA AppendChrForm ==
  ASSUME NEW b \in Buffers, NEW granted \in BOOLEAN
  PROVE  /\ AppendChr(b, Sep, granted) \in Buffers /\ Terminated(b, granted) \in Buffers
         /\ granted = TRUE /\ b.position + 1 < MaxCapacity =>
              /\ AppendChr(b, Sep, granted).position = b.position + 1
              /\ AppendChr(b, Sep, granted).data = b.data \o Sep
<1>1. Sep \in Seq(Tokens) /\ <<>> \in Seq(Tokens)
  BY SignallingAssumption, StringBufferAssumption
<1>2. 1 \in Nat /\ 1 # 0
  OBVIOUS
<1> QED
  BY <1>1, <1>2, AppendForm DEF AppendChr, Terminated

\* The fields of a message are in the buffer, with the separators between them.
LEMMA JoinForm ==
  ASSUME NEW b \in Buffers, NEW f, NEW refused,
         f[1] \in Texts, f[2] \in Texts, f[3] \in Texts
  PROVE  /\ Join(b, f, refused) \in Buffers
         /\ /\ b.position = 0 /\ b.data = <<>>
            /\ refused = {} /\ CharactersOf(f) < MaxCapacity
            => Join(b, f, refused).data = f[1] \o Sep \o f[2] \o Sep \o f[3]
<1> DEFINE g1 == 1 \notin refused
           g2 == 2 \notin refused
           g3 == 3 \notin refused
           g4 == 4 \notin refused
           g5 == 5 \notin refused
           one   == AppendStr(b, f[1], g1)
           two   == AppendChr(one, Sep, g2)
           three == AppendStr(two, f[2], g3)
           four  == AppendChr(three, Sep, g4)
           five  == AppendStr(four, f[3], g5)
<1>1. /\ {g1, g2, g3, g4, g5} \subseteq BOOLEAN
      /\ refused = {} => /\ g1 = TRUE /\ g2 = TRUE /\ g3 = TRUE /\ g4 = TRUE /\ g5 = TRUE
  BY Zenon
<1>2. Join(b, f, refused) = five
  BY DEF Join
<1> HIDE DEF g1, g2, g3, g4, g5
<1>3. one \in Buffers /\ two \in Buffers /\ three \in Buffers /\ four \in Buffers
        /\ five \in Buffers
  <2>1. one \in Buffers
    BY AppendStrForm, <1>1
  <2>2. two \in Buffers
    BY AppendChrForm, <1>1, <2>1
  <2>3. three \in Buffers
    BY AppendStrForm, <1>1, <2>2
  <2>4. four \in Buffers
    BY AppendChrForm, <1>1, <2>3
  <2>5. five \in Buffers
    BY AppendStrForm, <1>1, <2>4
  <2> QED
    BY <2>1, <2>2, <2>3, <2>4, <2>5
<1>4. ASSUME b.position = 0, b.data = <<>>, refused = {}, CharactersOf(f) < MaxCapacity
      PROVE  five.data = f[1] \o Sep \o f[2] \o Sep \o f[3]
  <2>1. g1 = TRUE /\ g2 = TRUE /\ g3 = TRUE /\ g4 = TRUE /\ g5 = TRUE
    BY <1>1, <1>4
  <2>2. /\ Size[f[1]] \in Nat /\ Size[f[2]] \in Nat /\ Size[f[3]] \in Nat
        /\ Size[f[1]] + Size[f[2]] + Size[f[3]] + 2 < MaxCapacity
        /\ MaxCapacity \in Nat
    BY <1>4, TextForm, StringBufferAssumption DEF CharactersOf
  <2> DEFINE s1 == Size[f[1]]
             s2 == Size[f[2]]
             s3 == Size[f[3]]
  <2> HIDE DEF s1, s2, s3
  <2>3. s1 \in Nat /\ s2 \in Nat /\ s3 \in Nat /\ MaxCapacity \in Nat
    BY <2>2 DEF s1, s2, s3
  <2>4. /\ s1 < MaxCapacity /\ s1 + 1 < MaxCapacity /\ s1 + 1 + s2 < MaxCapacity
        /\ s1 + 1 + s2 + 1 < MaxCapacity /\ s1 + 1 + s2 + 1 + s3 < MaxCapacity
    <3>1. s1 + s2 + s3 + 2 < MaxCapacity
      BY <2>2 DEF s1, s2, s3
    <3> QED
      BY <2>3, <3>1
  <2>5. one.position = s1 /\ one.data = f[1]
    <3>1. b.position + Size[f[1]] < MaxCapacity /\ 0 + s1 = s1
      BY <1>4, <2>3, <2>4 DEF s1
    <3>2. one.position = b.position + Size[f[1]] /\ one.data = b.data \o f[1]
      BY <2>1, <3>1, AppendStrForm
    <3>3. <<>> \o f[1] = f[1]
      BY TextForm
    <3> QED
      BY <1>4, <3>1, <3>2, <3>3 DEF s1
  <2> HIDE DEF one
  <2>6. two.position = s1 + 1 /\ two.data = f[1] \o Sep
    <3>1. two.position = one.position + 1 /\ two.data = one.data \o Sep
      BY <1>3, <2>1, <2>4, <2>5, AppendChrForm
    <3> QED
      BY <2>5, <3>1
  <2> HIDE DEF two
  <2>7. three.position = s1 + 1 + s2 /\ three.data = f[1] \o Sep \o f[2]
    <3>1. two.position + Size[f[2]] < MaxCapacity
      BY <2>4, <2>6 DEF s2
    <3>2. three.position = two.position + Size[f[2]] /\ three.data = two.data \o f[2]
      BY <1>3, <2>1, <3>1, AppendStrForm
    <3> QED
      BY <2>6, <3>2 DEF s2
  <2> HIDE DEF three
  <2>8. four.position = s1 + 1 + s2 + 1 /\ four.data = f[1] \o Sep \o f[2] \o Sep
    <3>1. four.position = three.position + 1 /\ four.data = three.data \o Sep
      BY <1>3, <2>1, <2>4, <2>7, AppendChrForm
    <3> QED
      BY <2>7, <3>1
  <2> HIDE DEF four
  <2>9. five.data = four.data \o f[3]
    <3>1. four.position + Size[f[3]] < MaxCapacity
      BY <2>4, <2>8 DEF s3
    <3> QED
      BY <1>3, <2>1, <3>1, AppendStrForm
  <2> QED
    BY <2>8, <2>9
<1> QED
  BY <1>2, <1>3, <1>4
-----------------------------------------------------------------------------
(***************************************************************************)
(* What is sent, handed over and learned.                                  *)
(***************************************************************************)
Lone(S) == S = {} \/ \E x : S = {x}

PoolOK == pool \subseteq Buffers /\ Lone(pool)
SentOK == sent \subseteq Sent /\ Lone(sent) /\ SentIsWhole
ReadOK == read \subseteq Read /\ Lone(read) /\ FieldsAreRead
LearnedOK ==
  /\ learned \subseteq Authenticates \cup Indexes /\ Lone(learned)
  /\ TokenAuthenticates /\ LabelNamesIndex

WireInv == PoolOK /\ authenticated \in BOOLEAN /\ SentOK /\ ReadOK /\ LearnedOK

\* Nothing sent, read or learned is in order.
LEMMA NothingIsOK ==
  /\ sent' = {} => SentOK'
  /\ read' = {} => ReadOK'
  /\ learned' = {} => LearnedOK'
<1>1. sent' = {} => SentOK'
  BY DEF SentOK, SentIsWhole, Lone
<1>2. read' = {} => ReadOK'
  BY DEF ReadOK, FieldsAreRead, Lone
<1>3. learned' = {} => LearnedOK'
  BY DEF LearnedOK, TokenAuthenticates, LabelNamesIndex, Lone
<1> QED
  BY <1>1, <1>2, <1>3

\* A handler gets one empty buffer or none.
LEMMA AcquiredForm ==
  ASSUME PoolOK, NEW refused
  PROVE  /\ Lone(Acquired(refused))
         /\ \A b \in Acquired(refused) : b \in Buffers /\ b.position = 0 /\ b.data = <<>>
<1>1. ASSUME NEW b \in Buffers
      PROVE  OnInit(b) \in Buffers /\ OnInit(b).position = 0 /\ OnInit(b).data = <<>>
  <2>1. <<>> \in Seq(Tokens)
    OBVIOUS
  <2> QED
    BY <2>1 DEF Buffers, OnInit
<1>2. CASE pool = {}
  <2>1. OnAlloc \in Buffers
    <3>1. <<>> \in Seq(Tokens) /\ InitialCapacity \in InitialCapacity .. MaxCapacity
      BY StringBufferAssumption
    <3> QED
      BY <3>1 DEF OnAlloc, Buffers
  <2>2. Acquired(refused) = {} \/ Acquired(refused) = {OnInit(OnAlloc)}
    BY <1>2, Zenon DEF Acquired
  <2> QED
    BY <1>1, <2>1, <2>2 DEF Lone
<1>3. CASE pool # {}
  <2>1. PICK b : pool = {b}
    BY <1>3 DEF PoolOK, Lone
  <2>2. Acquired(refused) = {OnInit(b)}
    BY <1>3, <2>1 DEF Acquired
  <2>3. b \in Buffers
    BY <2>1 DEF PoolOK
  <2> QED
    BY <1>1, <2>2, <2>3 DEF Lone
<1> QED
  BY <1>2, <1>3

\* A message that is sent is whole, unless memory was refused or it is too long.
LEMMA SendsForm ==
  ASSUME PoolOK, NEW op \in Texts, NEW a \in Texts, NEW b \in Texts, NEW refused,
         Separator(a) = 0, Sends(<<op, a, b>>, refused)
  PROVE  PoolOK' /\ SentOK'
<1> DEFINE f == <<op, a, b>>
<1>1. f \in Seq(Texts) /\ f[1] = op /\ f[2] = a /\ f[3] = b
  OBVIOUS
<1> HIDE DEF f
<1>2. CASE Acquired(refused) = {}
  <2>1. pool' = pool /\ sent' = {}
    BY <1>2 DEF Sends
  <2>2. SentOK'
    BY <2>1, NothingIsOK
  <2> QED
    BY <2>1, <2>2 DEF PoolOK
<1>3. CASE Acquired(refused) # {}
  <2>1. PICK c : Acquired(refused) = {c} /\ c \in Buffers /\ c.position = 0 /\ c.data = <<>>
    BY <1>3, AcquiredForm DEF Lone
  <2> DEFINE j == Join(c, f, refused)
             m == [fields |-> f, data |-> ToBinary(j), refused |-> refused # {}]
  <2>2. Sends(f, refused)
    BY DEF f
  <2>3. sent' = {m} /\ pool' = {j}
    BY <2>1, <2>2, Zenon DEF Sends
  <2>4. /\ j \in Buffers
        /\ refused = {} /\ CharactersOf(f) < MaxCapacity =>
             j.data = op \o Sep \o a \o Sep \o b
    BY <1>1, <2>1, JoinForm
  <2> HIDE DEF j
  <2>5. PoolOK'
    BY <2>3, <2>4 DEF PoolOK, Lone
  <2>6. m \in Sent
    <3>1. ToBinary(j) \in Seq(Tokens)
      BY <2>4 DEF ToBinary, Buffers
    <3>2. (refused # {}) \in BOOLEAN
      OBVIOUS
    <3> QED
      BY <1>1, <3>1, <3>2 DEF Sent
  <2>7. m.fields = f /\ m.data = j.data /\ m.refused = (refused # {})
    BY DEF ToBinary
  <2> HIDE DEF m
  <2>8. ASSUME ~m.refused, CharactersOf(m.fields) < MaxCapacity
        PROVE  ReadBack(m.data, m.fields[1]) = m.fields
    <3>1. m.data = op \o Sep \o a \o Sep \o b
      BY <2>4, <2>7, <2>8
    <3>2. op \in Seq(Tokens) /\ a \in Seq(Tokens) /\ b \in Seq(Tokens)
      BY TextForm
    <3>3. ReadBack(m.data, op) = f
      BY <3>1, <3>2, FieldsAreFound DEF f
    <3> QED
      BY <1>1, <2>7, <3>3
  <2>9. SentIsWhole'
    BY <2>3, <2>8 DEF SentIsWhole
  <2> QED
    BY <2>3, <2>5, <2>6, <2>9 DEF SentOK, Lone
<1> QED
  BY <1>2, <1>3

\* The two fields that are handed over are the message with its separator.
LEMMA HandsForm ==
  ASSUME PoolOK, NEW frame \in Frames, NEW refused, frame.mark # <<>>,
         Separator(frame.body) # 0, Hands(frame, refused)
  PROVE  PoolOK' /\ ReadOK'
<1> DEFINE body == frame.body
           name == Name(body)
           g1 == 1 \notin refused
           g2 == 2 \notin refused
           named(b) == AppendStr(b, name, g1)
<1>1. body \in Heard /\ frame.op \in Opcodes /\ frame.mark \in {Sep, <<"x">>}
        /\ frame.text \in BOOLEAN
  BY DEF Frames
<1>2. /\ body \in Texts /\ name \in Texts /\ frame.op \in Texts /\ frame.mark \in Texts
      /\ Size[name] < Size[body]
  <2>1. frame.mark \in Texts /\ frame.op \in Texts
    BY <1>1, SignallingAssumption, Zenon
  <2> QED
    BY <1>1, <2>1, SignallingAssumption
<1>3. /\ Rest(body) \in Seq(Tokens)
      /\ body = name \o Sep \o Rest(body)
      /\ \A k \in DOMAIN name : name[k] # "|"
  BY <1>2, TextForm, TextIsSplit
<1>4. {g1, g2} \subseteq BOOLEAN /\ (refused = {} => g1 = TRUE /\ g2 = TRUE)
  BY Zenon
<1> HIDE DEF name, g1, g2
<1>5. CASE Acquired(refused) = {}
  <2>1. pool' = pool /\ read' = {}
    BY <1>5 DEF Hands
  <2>2. ReadOK'
    BY <2>1, NothingIsOK
  <2> QED
    BY <2>1, <2>2 DEF PoolOK
<1>6. CASE Acquired(refused) # {}
  <2>1. PICK c : Acquired(refused) = {c} /\ c \in Buffers /\ c.position = 0 /\ c.data = <<>>
    BY <1>6, AcquiredForm DEF Lone
  <2> DEFINE d == named(c)
             given == IF ToStringGives(d, g2) THEN d.data ELSE None
             r == [of |-> frame, beyond |-> ~frame.text, refused |-> refused # {},
                   name |-> given, body |-> Rest(body)]
  <2>2. read' = {r} /\ pool' = {Terminated(d, g2)}
    BY <2>1, Zenon DEF Hands, g1, g2, name
  <2>3. /\ d \in Buffers
        /\ refused = {} /\ Size[name] < MaxCapacity =>
             d.position = Size[name] /\ d.data = name
    <3>1. name \in Texts /\ g1 \in BOOLEAN
      BY <1>2, <1>4
    <3>2. /\ d \in Buffers
          /\ g1 = TRUE /\ c.position + Size[name] < MaxCapacity =>
               d.position = c.position + Size[name] /\ d.data = c.data \o name
      BY <2>1, <3>1, AppendStrForm
    <3>3. name \in Seq(Tokens) /\ Size[name] \in Nat
      BY <3>1, TextForm
    <3>4. 0 + Size[name] = Size[name] /\ <<>> \o name = name
      BY <3>3
    <3> HIDE DEF named
    <3> QED
      BY <1>4, <2>1, <3>2, <3>4
  <2> HIDE DEF d
  <2>4. PoolOK'
    BY <1>4, <2>2, <2>3, AppendChrForm DEF PoolOK, Lone
  <2>5. given \in Seq(Tokens) \cup {None}
    BY <2>3 DEF Buffers
  <2>6. ASSUME refused = {}, Characters(frame) < MaxCapacity PROVE given = name
    <3>1. Size[frame.op] \in Nat /\ Size[frame.mark] \in Nat /\ Size[body] \in Nat
            /\ Size[name] \in Nat /\ MaxCapacity \in Nat
      BY <1>2, TextForm, StringBufferAssumption
    <3>2. Size[name] + 1 < MaxCapacity /\ Size[name] < MaxCapacity
      BY <1>2, <2>6, <3>1 DEF Characters
    <3>3. d.position = Size[name] /\ d.data = name
      BY <2>3, <2>6, <3>2
    <3>4. ToStringGives(d, g2)
      BY <1>4, <2>6, <3>2, <3>3 DEF ToStringGives, Ensures
    <3> QED
      BY <3>3, <3>4
  <2> HIDE DEF given
  <2>7. r \in Read
    <3>1. (~frame.text) \in BOOLEAN /\ (refused # {}) \in BOOLEAN
      BY Zenon
    <3> QED
      BY <1>3, <2>5, <3>1 DEF Read
  <2>8. /\ r.of = frame /\ r.beyond = (~frame.text) /\ r.refused = (refused # {})
        /\ r.name = given /\ r.body = Rest(body)
    OBVIOUS
  <2> HIDE DEF r
  <2>9. FieldsAreRead'
    <3>1. ASSUME r.of.text PROVE ~r.beyond
      BY <2>8, <3>1
    <3>2. ASSUME ~r.refused, Characters(r.of) < MaxCapacity
          PROVE  /\ r.name # None /\ r.of.body = r.name \o Sep \o r.body
                 /\ \A k \in DOMAIN r.name : r.name[k] # "|"
      <4>1. r.name = name
        BY <2>6, <2>8, <3>2
      <4>2. name # None
        BY <1>2, SignallingAssumption
      <4> QED
        BY <1>3, <2>8, <4>1, <4>2
    <3> QED
      BY <2>2, <3>1, <3>2 DEF FieldsAreRead
  <2> QED
    BY <2>2, <2>4, <2>7, <2>9 DEF ReadOK, Lone
<1> QED
  BY <1>5, <1>6

\* A token authenticates when it is valid and the frame that brings it ends.
LEMMA TokenForm ==
  ASSUME NEW frame \in Frames, frame.op = <<"AUTH">>, Length(frame) > 5
  PROVE  TokenIsValid(frame) = (frame.text /\ frame.body \in ConnectTokens)
<1>1. /\ Size[<<"AUTH">>] = 4 /\ Size[Sep] = 1 /\ Size[<<"x">>] = 1 /\ Size[<<>>] = 0
      /\ \A token \in ConnectTokens : Size[token] \in TokenLengths
      /\ \A text \in Heard : Size[text] \in Nat
  BY SignallingAssumption, StringBufferAssumption
<1>2. frame.text \in BOOLEAN
  BY DEF Frames
<1>3. frame.mark \in {Sep, <<"x">>} /\ frame.body \in Heard
  <2>1. CASE frame.mark = <<>> /\ frame.body = <<>>
    <3>1. Characters(frame) = 4
      BY <1>1, <2>1 DEF Characters
    <3> QED
      BY <3>1 DEF Length
  <2> QED
    BY <2>1 DEF Frames
<1>4. Size[frame.body] \in Nat /\ Characters(frame) = 5 + Size[frame.body]
  BY <1>1, <1>3 DEF Characters
<1>5. CASE frame.text
  <2>1. Length(frame) - 5 = Size[frame.body]
    <3>1. Length(frame) = 5 + Size[frame.body]
      BY <1>4, <1>5 DEF Length
    <3> QED
      BY <1>4, <3>1
  <2> QED
    BY <1>1, <1>5, <2>1 DEF TokenIsValid
<1>6. CASE ~frame.text
  <2>1. Length(frame) - 5 # Size[frame.body]
    <3>1. Length(frame) = 5 + Size[frame.body] - 1
      BY <1>4, <1>6 DEF Length
    <3> QED
      BY <1>4, <3>1
  <2> QED
    BY <1>6, <2>1 DEF TokenIsValid
<1> QED
  BY <1>2, <1>5, <1>6

\* What is learned of a token and of a label is of two kinds.
LEMMA Kinds ==
  /\ \A x, y : [of |-> x, valid |-> y] \notin Indexes
  /\ \A x, y : [label |-> x, index |-> y] \notin Authenticates
<1>1. \A r \in Authenticates : DOMAIN r = {"of", "valid"}
  BY DEF Authenticates
<1>2. \A r \in Indexes : DOMAIN r = {"label", "index"}
  BY DEF Indexes
<1>3. ASSUME NEW x, NEW y
      PROVE  /\ DOMAIN [of |-> x, valid |-> y] = {"of", "valid"}
             /\ DOMAIN [label |-> x, index |-> y] = {"label", "index"}
  OBVIOUS
<1>4. "of" \notin {"label", "index"} /\ "label" \notin {"of", "valid"}
  OBVIOUS
<1> QED
  BY <1>1, <1>2, <1>3, <1>4

\* What is learned of an auth message is in order.
LEMMA TokenIsOK ==
  ASSUME NEW frame \in Frames, frame.op = <<"AUTH">>, Length(frame) > 5,
         learned' = {[of |-> frame, valid |-> TokenIsValid(frame)]}
  PROVE  LearnedOK'
<1> DEFINE valid == TokenIsValid(frame)
           a == [of |-> frame, valid |-> valid]
<1>1. valid = (frame.text /\ frame.body \in ConnectTokens)
  BY TokenForm
<1>2. valid \in BOOLEAN
  BY <1>1, Zenon
<1> HIDE DEF valid
<1>3. a \in Authenticates /\ a \notin Indexes
  BY <1>2, Kinds DEF Authenticates
<1>4. a.of = frame /\ a.valid = valid
  OBVIOUS
<1> HIDE DEF a
<1>5. learned' = {a}
  BY DEF a, valid
<1>6. TokenAuthenticates'
  BY <1>1, <1>4, <1>5 DEF TokenAuthenticates
<1> QED
  BY <1>3, <1>5, <1>6 DEF LearnedOK, LabelNamesIndex, Lone

\* The index of a label is the number it ends with.
LEMMA LabelForm ==
  ASSUME NEW label \in Labels
  PROVE  /\ LabelIndex(label) = Decimal(label.chars) % SizeValues
         /\ LabelIndex(label) \in Nat
<1> DEFINE chars == label.chars
           index == FoldLeft(LAMBDA i, digit : (i * 10 + digit) % SizeValues, 0, chars)
<1>1. chars \in Seq(Nat)
  BY SignallingAssumption
<1> HIDE DEF chars
<1>2. index = Decimal(chars) % SizeValues
  BY <1>1, IndexIsValue DEF Decimal
<1>3. index \in Nat
  <2>1. PICK r \in [Nat -> Nat] : index = r[Len(chars)]
    BY <1>1, IndexInSteps
  <2>2. Len(chars) \in Nat
    BY <1>1
  <2> HIDE DEF index
  <2> QED
    BY <2>1, <2>2
<1> QED
  BY <1>2, <1>3 DEF LabelIndex, chars

\* What is learned of a label is in order.
LEMMA LabelIsOK ==
  ASSUME NEW label \in Labels, OnDataChannel(label)
  PROVE  LearnedOK'
<1> DEFINE chars == label.chars
           named == label.prefix = "client-channel-" /\ chars # <<>>
                      /\ \A k \in DOMAIN chars : chars[k] < 10
           index == IF IsLabel(label) THEN LabelIndex(label) ELSE None
           l == [label |-> label, index |-> index]
<1>1. learned' = {l}
  BY DEF OnDataChannel
<1>2. LabelIndex(label) = Decimal(chars) % SizeValues /\ LabelIndex(label) \in Nat
  BY LabelForm
<1>3. IsLabel(label) <=> named
  <2>1. \A k \in DOMAIN chars : chars[k] \in Nat
    BY SignallingAssumption
  <2>2. \A n \in Nat : n \in Digits <=> n < 10
    BY DEF Digits
  <2> QED
    BY <2>1, <2>2 DEF IsLabel
<1>4. index = IF named THEN Decimal(chars) % SizeValues ELSE None
  BY <1>2, <1>3
<1>5. l \in Indexes /\ l \notin Authenticates
  <2>1. index \in Nat \cup {None}
    BY <1>2
  <2> HIDE DEF index
  <2> QED
    BY <2>1, Kinds DEF Indexes
<1>6. l.label = label /\ l.index = index
  OBVIOUS
<1> HIDE DEF l, index
<1>7. LabelNamesIndex'
  BY <1>1, <1>4, <1>6 DEF LabelNamesIndex
<1> QED
  BY <1>1, <1>5, <1>7 DEF LearnedOK, TokenAuthenticates, Lone

\* The invariant holds initially.
LEMMA WireInit == Init => WireInv
BY DEF Init, WireInv, PoolOK, SentOK, ReadOK, LearnedOK, Lone, SentIsWhole,
       FieldsAreRead, TokenAuthenticates, LabelNamesIndex

\* A message of the WebSocket preserves the invariant.
LEMMA WsMessageKeeps ==
  ASSUME WireInv, NEW frame \in Frames, WsMessage(frame)
  PROVE  WireInv'
<1>1. PoolOK /\ authenticated \in BOOLEAN
  BY DEF WireInv
<1>2. CASE Unauthenticated(frame)
  <2>1. ReadOK'
    BY <1>2, NothingIsOK DEF Unauthenticated
  <2>2. CASE learned' = {} /\ sent' = {} /\ UNCHANGED <<pool, authenticated>>
    BY <1>1, <2>1, <2>2, NothingIsOK DEF WireInv, PoolOK
  <2>3. CASE /\ frame.op = <<"AUTH">> /\ Length(frame) > 5
             /\ learned' = {[of |-> frame, valid |-> TokenIsValid(frame)]}
             /\ authenticated' = TokenIsValid(frame)
             /\ IF TokenIsValid(frame)
                  THEN \E id, time \in Numbers, refused \in Refusals(5) :
                         SendAuthSuccess(id, time, refused)
                  ELSE sent' = {} /\ UNCHANGED pool
    <3>1. LearnedOK'
      BY <2>3, TokenIsOK
    <3>2. authenticated' \in BOOLEAN
      <4>1. TokenIsValid(frame) \in BOOLEAN
        BY Zenon DEF TokenIsValid
      <4> QED
        BY <2>3, <4>1
    <3>3. PoolOK' /\ SentOK'
      <4>1. CASE TokenIsValid(frame)
        <5>1. PICK id \in Numbers, time \in Numbers, refused \in Refusals(5) :
                SendAuthSuccess(id, time, refused)
          BY <2>3, <4>1
        <5>2. Sends(<<<<"AUTH", "|", "OK">>, id, time>>, refused)
          BY <5>1 DEF SendAuthSuccess
        <5>3. /\ <<"AUTH", "|", "OK">> \in Texts /\ id \in Texts /\ time \in Texts
              /\ Separator(id) = 0
          BY SignallingAssumption, Zenon
        <5> QED
          BY <1>1, <5>2, <5>3, SendsForm
      <4>2. CASE ~TokenIsValid(frame)
        <5>1. sent' = {} /\ pool' = pool
          BY <2>3, <4>2
        <5> QED
          BY <1>1, <5>1, NothingIsOK DEF PoolOK
      <4> QED
        BY <4>1, <4>2
    <3> QED
      BY <2>1, <3>1, <3>2, <3>3 DEF WireInv
  <2> QED
    BY <1>2, <2>2, <2>3 DEF Unauthenticated
<1>3. CASE Authenticated(frame)
  <2>1. SentOK' /\ LearnedOK' /\ authenticated' \in BOOLEAN
    BY <1>1, <1>3, NothingIsOK DEF Authenticated
  <2>2. CASE Drops
    <3>1. PoolOK' /\ ReadOK'
      BY <1>1, <2>2, NothingIsOK DEF Drops, PoolOK
    <3> QED
      BY <2>1, <3>1 DEF WireInv
  <2>3. CASE ReadsBeyond(frame) /\ (frame.mark = <<>> \/ ~frame.text)
    <3> DEFINE r == [of |-> frame, beyond |-> TRUE, refused |-> FALSE, name |-> <<>>,
                     body |-> <<>>]
    <3>1. read' = {r} /\ pool' = pool
      BY <2>3 DEF ReadsBeyond
    <3>2. r \in Read /\ r.of = frame
      <4>1. <<>> \in Seq(Tokens)
        OBVIOUS
      <4> QED
        BY <4>1 DEF Read
    <3> HIDE DEF r
    <3>3. ReadOK'
      BY <2>3, <3>1, <3>2 DEF ReadOK, FieldsAreRead, Lone
    <3>4. PoolOK'
      BY <1>1, <3>1 DEF PoolOK
    <3> QED
      BY <2>1, <3>3, <3>4 DEF WireInv
  <2>4. CASE /\ frame.mark # <<>> /\ Separator(frame.body) # 0
             /\ \E refused \in Refusals(2) : Hands(frame, refused)
    <3>1. PoolOK' /\ ReadOK'
      BY <1>1, <2>4, HandsForm
    <3> QED
      BY <2>1, <3>1 DEF WireInv
  <2> QED
    BY <1>3, <2>2, <2>3, <2>4 DEF Authenticated, Fields
<1> QED
  BY <1>2, <1>3 DEF WsMessage

\* A step of a handler preserves the invariant.
LEMMA WireStep == WireInv /\ [Next]_vars => WireInv'
<1> SUFFICES ASSUME WireInv, [Next]_vars PROVE WireInv'
  OBVIOUS
<1>1. PoolOK /\ authenticated \in BOOLEAN
  BY DEF WireInv
<1>2. ASSUME NEW op \in {<<"DESC">>, <<"CAND">>}, NEW name \in Names, NEW body \in Bodies,
             NEW refused, Sends(<<op, name, body>>, refused),
             read' = {}, learned' = {}, UNCHANGED authenticated
      PROVE  WireInv'
  <2>1. op \in Texts /\ name \in Texts /\ body \in Texts /\ Separator(name) = 0
    <3>1. <<"DESC">> \in Texts /\ <<"CAND">> \in Texts
      BY SignallingAssumption, Zenon DEF Opcodes
    <3> QED
      BY <3>1, SignallingAssumption, Zenon
  <2>2. PoolOK' /\ SentOK'
    BY <1>1, <1>2, <2>1, SendsForm
  <2> QED
    BY <1>1, <1>2, <2>2, NothingIsOK DEF WireInv
<1>3. ASSUME NEW name \in Names, NEW body \in Bodies, SendDescription(name, body)
      PROVE  WireInv'
  <2>1. PICK refused \in Refusals(5) : Sends(<<<<"DESC">>, name, body>>, refused)
    BY <1>3 DEF SendDescription
  <2> QED
    BY <1>2, <1>3, <2>1 DEF SendDescription
<1>4. ASSUME NEW name \in Names, NEW body \in Bodies, SendCandidate(name, body)
      PROVE  WireInv'
  <2>1. PICK refused \in Refusals(5) : Sends(<<<<"CAND">>, name, body>>, refused)
    BY <1>4 DEF SendCandidate
  <2> QED
    BY <1>2, <1>4, <2>1 DEF SendCandidate
<1>5. ASSUME NEW frame \in Frames, WsMessage(frame) PROVE WireInv'
  BY <1>5, WsMessageKeeps
<1>6. ASSUME NEW label \in Labels, OnDataChannel(label) PROVE WireInv'
  <2>1. LearnedOK'
    BY <1>6, LabelIsOK
  <2>2. SentOK' /\ ReadOK' /\ PoolOK' /\ authenticated' \in BOOLEAN
    BY <1>1, <1>6, NothingIsOK DEF OnDataChannel, PoolOK
  <2> QED
    BY <2>1, <2>2 DEF WireInv
<1>7. CASE UNCHANGED vars
  BY <1>7 DEF vars, WireInv, PoolOK, SentOK, ReadOK, LearnedOK, SentIsWhole, Sound,
              FieldsAreRead, TokenAuthenticates, LabelNamesIndex
<1> QED
  BY <1>3, <1>4, <1>5, <1>6, <1>7 DEF Next, Runs

\* The invariant holds in every state.
LEMMA Wire == Spec => []WireInv
BY WireInit, WireStep, PTL DEF Spec

\* The plugin thread holds at most one string buffer, and a handler sends, hands
\* over and learns at most one thing, of the type that TypeOK says.
THEOREM SignallingTypes == Spec => []TypeOK
<1>1. \A S : Lone(S) => Cardinality(S) <= 1
  BY FS_EmptySet, FS_Singleton DEF Lone
<1>2. WireInv => TypeOK
  BY <1>1 DEF WireInv, PoolOK, SentOK, ReadOK, LearnedOK, TypeOK
<1> QED
  BY Wire, <1>2, PTL

\* Every message whose memory is granted and that is short enough is sent whole,
\* and read back by the plugin's own rule gives the fields that were meant
\* (session-ws.c:198-267, 385-418), for any texts and whatever the buffer was used for.
THEOREM MessagesAreWhole == Spec => []SentIsWhole
<1>1. WireInv => SentIsWhole
  BY DEF WireInv, SentOK
<1> QED
  BY Wire, <1>1, PTL

\* The name and the body that the plugin hands over are those of the client's
\* message (session-ws.c:501-573), for any texts that the client sends.
THEOREM FieldsAreHanded == Spec => []FieldsAreRead
<1>1. WireInv => FieldsAreRead
  BY DEF WireInv, ReadOK
<1> QED
  BY Wire, <1>1, PTL

\* A client is authenticated by a valid connect token in a text frame and by
\* nothing else (session-ws.c:303-360), whatever the two lengths are.
THEOREM TokensAuthenticate == Spec => []TokenAuthenticates
<1>1. WireInv => TokenAuthenticates
  BY DEF WireInv, LearnedOK
<1> QED
  BY Wire, <1>1, PTL

\* A label gives the number it ends with, cut to a size_t, and only a number
\* gives an index (session-pc.c:183-212), however long the label is.
THEOREM LabelsNameIndexes == Spec => []LabelNamesIndex
<1>1. WireInv => LabelNamesIndex
  BY DEF WireInv, LearnedOK
<1> QED
  BY Wire, <1>1, PTL
=============================================================================
