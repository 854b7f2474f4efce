---------------------------- MODULE QueueLemmas ----------------------------
(***************************************************************************)
(* A sequence used as a queue: its elements, those that occur once, and    *)
(* those that are followed by another.  The lemmas say what Append and     *)
(* Tail make of each; the proofs about the modules that keep a queue of    *)
(* tasks cite them.                                                        *)
(***************************************************************************)
EXTENDS Naturals, Sequences, FiniteSetTheorems, TLAPS

Has(s, x) == \E i \in 1 .. Len(s) : s[i] = x

Single(s, x) == \A i, j \in 1 .. Len(s) : s[i] = x /\ s[j] = x => i = j

\* After every x comes a y.
Follows(s, x, y) ==
  \A i \in 1 .. Len(s) : s[i] = x => \E j \in 1 .. Len(s) : j > i /\ s[j] = y

\* What appending does to the length and to the elements of a queue.
LEMMA AppendForm ==
  ASSUME NEW S, NEW s \in Seq(S), NEW t \in S
  PROVE  /\ Append(s, t) \in Seq(S) /\ Len(s) \in Nat
         /\ Len(Append(s, t)) = Len(s) + 1
         /\ \A i \in 1 .. Len(s) : Append(s, t)[i] = s[i]
         /\ Append(s, t)[Len(s) + 1] = t
  OBVIOUS

\* What taking the head does to the length of a queue.
LEMMA TailForm ==
  ASSUME NEW S, NEW s \in Seq(S), s # <<>>
  PROVE  /\ Tail(s) \in Seq(S) /\ Len(s) \in Nat /\ Len(s) > 0
         /\ Head(s) \in S /\ Head(s) = s[1]
         /\ Len(Tail(s)) = Len(s) - 1
         /\ \A i \in 1 .. Len(s) - 1 : Tail(s)[i] = s[i + 1]
  OBVIOUS

\* An appended element is there, and what was there is still.
LEMMA HasAppend ==
  ASSUME NEW S, NEW s \in Seq(S), NEW t \in S, NEW x
  PROVE  Has(Append(s, t), x) <=> Has(s, x) \/ x = t
<1>1. ASSUME Has(Append(s, t), x) PROVE Has(s, x) \/ x = t
  <2>1. PICK i \in 1 .. Len(Append(s, t)) : Append(s, t)[i] = x
    BY <1>1 DEF Has
  <2>2. CASE i = Len(s) + 1
    BY <2>1, <2>2, AppendForm
  <2>3. CASE i \in 1 .. Len(s)
    BY <2>1, <2>3, AppendForm DEF Has
  <2>4. QED
    BY <2>2, <2>3, AppendForm
<1>2. ASSUME Has(s, x) PROVE Has(Append(s, t), x)
  <2>1. PICK i \in 1 .. Len(s) : s[i] = x
    BY <1>2 DEF Has
  <2>2. i \in 1 .. Len(Append(s, t)) /\ Append(s, t)[i] = x
    BY <2>1, AppendForm
  <2>3. QED
    BY <2>2 DEF Has
<1>3. Has(Append(s, t), t)
  <2>1. Len(s) + 1 \in 1 .. Len(Append(s, t))
    BY AppendForm
  <2>2. QED
    BY <2>1, AppendForm DEF Has
<1>4. QED
  BY <1>1, <1>2, <1>3

\* The head is there, and so is what is in the tail.
LEMMA HasTail ==
  ASSUME NEW S, NEW s \in Seq(S), s # <<>>, NEW x
  PROVE  Has(s, x) <=> x = Head(s) \/ Has(Tail(s), x)
<1>1. ASSUME Has(s, x), x # Head(s) PROVE Has(Tail(s), x)
  <2>1. PICK i \in 1 .. Len(s) : s[i] = x
    BY <1>1 DEF Has
  <2>2. i - 1 \in 1 .. Len(Tail(s)) /\ Tail(s)[i - 1] = x
    BY <1>1, <2>1, TailForm
  <2>3. QED
    BY <2>2 DEF Has
<1>2. ASSUME Has(Tail(s), x) PROVE Has(s, x)
  <2>1. PICK i \in 1 .. Len(Tail(s)) : Tail(s)[i] = x
    BY <1>2 DEF Has
  <2>2. i + 1 \in 1 .. Len(s) /\ s[i + 1] = x
    BY <2>1, TailForm
  <2>3. QED
    BY <2>2 DEF Has
<1>3. Has(s, Head(s))
  <2>1. 1 \in 1 .. Len(s)
    BY TailForm
  <2>2. QED
    BY <2>1, TailForm DEF Has
<1>4. QED
  BY <1>1, <1>2, <1>3

\* An element stays single when another is appended, and a new one is single.
LEMMA SingleAppend ==
  ASSUME NEW S, NEW s \in Seq(S), NEW t \in S, NEW x, Single(s, x),
         x = t => ~Has(s, t)
  PROVE  Single(Append(s, t), x)
<1> SUFFICES ASSUME NEW i \in 1 .. Len(Append(s, t)),
                    NEW j \in 1 .. Len(Append(s, t)),
                    Append(s, t)[i] = x, Append(s, t)[j] = x
             PROVE  i = j
  BY DEF Single
<1>1. /\ Len(Append(s, t)) = Len(s) + 1 /\ Len(s) \in Nat
      /\ \A m \in 1 .. Len(s) : Append(s, t)[m] = s[m]
      /\ Append(s, t)[Len(s) + 1] = t
  BY AppendForm
<1>2. CASE x = t
  BY <1>1, <1>2 DEF Has
<1>3. CASE x # t
  <2>1. i \in 1 .. Len(s) /\ j \in 1 .. Len(s)
    BY <1>1, <1>3
  <2>2. QED
    BY <1>1, <2>1 DEF Single
<1>4. QED
  BY <1>2, <1>3

\* What is single is single in the tail; a single head is not in the tail.
LEMMA SingleTail ==
  ASSUME NEW S, NEW s \in Seq(S), s # <<>>, NEW x, Single(s, x)
  PROVE  /\ Single(Tail(s), x)
         /\ x = Head(s) => ~Has(Tail(s), x)
<1>1. /\ Len(Tail(s)) = Len(s) - 1 /\ Len(s) \in Nat /\ Len(s) > 0
      /\ Head(s) = s[1]
      /\ \A m \in 1 .. Len(s) - 1 : Tail(s)[m] = s[m + 1]
  BY TailForm
<1>2. ASSUME NEW i \in 1 .. Len(Tail(s)), NEW j \in 1 .. Len(Tail(s)),
             Tail(s)[i] = x, Tail(s)[j] = x
      PROVE  i = j
  <2>1. /\ i + 1 \in 1 .. Len(s) /\ s[i + 1] = x
        /\ j + 1 \in 1 .. Len(s) /\ s[j + 1] = x
    BY <1>1, <1>2
  <2>2. i + 1 = j + 1
    BY <2>1 DEF Single
  <2>3. QED
    BY <1>1, <2>2
<1>3. ASSUME x = Head(s), NEW i \in 1 .. Len(Tail(s)), Tail(s)[i] = x
      PROVE  FALSE
  <2>1. i + 1 \in 1 .. Len(s) /\ s[i + 1] = x /\ 1 \in 1 .. Len(s) /\ s[1] = x
    BY <1>1, <1>3
  <2>2. i + 1 = 1
    BY <2>1 DEF Single
  <2>3. QED
    BY <1>1, <2>2
<1>4. QED
  BY <1>2, <1>3 DEF Single, Has

\* What x is followed by does not change when something else is appended.
LEMMA FollowsAppend ==
  ASSUME NEW S, NEW s \in Seq(S), NEW t \in S, NEW x, NEW y, x # t
  PROVE  Follows(s, x, y) \/ y = t => Follows(Append(s, t), x, y)
<1>1. /\ Len(Append(s, t)) = Len(s) + 1 /\ Len(s) \in Nat
      /\ \A m \in 1 .. Len(s) : Append(s, t)[m] = s[m]
      /\ Append(s, t)[Len(s) + 1] = t
  BY AppendForm
<1> SUFFICES ASSUME Follows(s, x, y) \/ y = t,
                    NEW i \in 1 .. Len(Append(s, t)), Append(s, t)[i] = x
             PROVE  \E j \in 1 .. Len(Append(s, t)) : j > i /\ Append(s, t)[j] = y
  BY DEF Follows
<1>2. i \in 1 .. Len(s) /\ s[i] = x
  BY <1>1
<1>3. CASE y = t
  <2>1. Len(s) + 1 \in 1 .. Len(Append(s, t)) /\ Len(s) + 1 > i
    BY <1>1, <1>2
  <2>2. QED
    BY <1>1, <1>3, <2>1
<1>4. CASE Follows(s, x, y)
  <2>1. PICK j \in 1 .. Len(s) : j > i /\ s[j] = y
    BY <1>2, <1>4 DEF Follows
  <2>2. j \in 1 .. Len(Append(s, t)) /\ Append(s, t)[j] = y
    BY <1>1, <2>1
  <2>3. QED
    BY <2>1, <2>2
<1>5. QED
  BY <1>3, <1>4

\* What follows x is not taken before x; it is still there once x is taken.
LEMMA FollowsTail ==
  ASSUME NEW S, NEW s \in Seq(S), s # <<>>, NEW x, NEW y, Follows(s, x, y)
  PROVE  /\ Follows(Tail(s), x, y)
         /\ x = Head(s) => Has(Tail(s), y)
<1>1. /\ Len(Tail(s)) = Len(s) - 1 /\ Len(s) \in Nat /\ Len(s) > 0
      /\ Head(s) = s[1]
      /\ \A m \in 1 .. Len(s) - 1 : Tail(s)[m] = s[m + 1]
  BY TailForm
<1>2. ASSUME NEW i \in 1 .. Len(Tail(s)), Tail(s)[i] = x
      PROVE  \E j \in 1 .. Len(Tail(s)) : j > i /\ Tail(s)[j] = y
  <2>1. i + 1 \in 1 .. Len(s) /\ s[i + 1] = x
    BY <1>1, <1>2
  <2>2. PICK j \in 1 .. Len(s) : j > i + 1 /\ s[j] = y
    BY <2>1 DEF Follows
  <2>3. j - 1 \in 1 .. Len(Tail(s)) /\ j - 1 > i /\ Tail(s)[j - 1] = y
    BY <1>1, <2>2
  <2>4. QED
    BY <2>3
<1>3. ASSUME x = Head(s) PROVE Has(Tail(s), y)
  <2>1. 1 \in 1 .. Len(s) /\ s[1] = x
    BY <1>1, <1>3
  <2>2. PICK j \in 1 .. Len(s) : j > 1 /\ s[j] = y
    BY <2>1 DEF Follows
  <2>3. j - 1 \in 1 .. Len(Tail(s)) /\ Tail(s)[j - 1] = y
    BY <1>1, <2>2
  <2>4. QED
    BY <2>3 DEF Has
<1>4. QED
  BY <1>2, <1>3 DEF Follows

\* An element that is not in the queue is followed by whatever one likes.
LEMMA FollowsNone ==
  ASSUME NEW s, NEW x, NEW y, ~Has(s, x)
  PROVE  Follows(s, x, y)
  BY DEF Follows, Has

\* What follows an element of the queue is in the queue.
LEMMA FollowsHas ==
  ASSUME NEW s, NEW x, NEW y, Follows(s, x, y), Has(s, x)
  PROVE  Has(s, y)
  BY DEF Follows, Has

\* How many elements of the queue are in X.
Among(s, X) == Cardinality({i \in 1 .. Len(s) : s[i] \in X})

\* Before every x comes a y.
Leads(s, y, x) ==
  \A i \in 1 .. Len(s) : s[i] = x => \E j \in 1 .. Len(s) : j < i /\ s[j] = y

\* The elements of a queue that are among some values can be counted.
LEMMA AmongType ==
  ASSUME NEW S, NEW s \in Seq(S), NEW X
  PROVE  /\ IsFiniteSet({i \in 1 .. Len(s) : s[i] \in X})
         /\ Among(s, X) \in Nat
<1>1. IsFiniteSet(1 .. Len(s))
  BY FS_Interval
<1>2. IsFiniteSet({i \in 1 .. Len(s) : s[i] \in X})
  BY <1>1, FS_Subset
<1>3. QED
  BY <1>2, FS_CardinalityType DEF Among

\* Each appended element of X counts for one.
LEMMA AmongAppend ==
  ASSUME NEW S, NEW s \in Seq(S), NEW t \in S, NEW X
  PROVE  /\ t \in X => Among(Append(s, t), X) = Among(s, X) + 1
         /\ t \notin X => Among(Append(s, t), X) = Among(s, X)
<1> DEFINE A == {i \in 1 .. Len(s) : s[i] \in X}
           B == {i \in 1 .. Len(Append(s, t)) : Append(s, t)[i] \in X}
<1>1. IsFiniteSet(A)
  BY AmongType
<1>2. t \in X => B = A \cup {Len(s) + 1}
  BY AppendForm
<1>3. t \notin X => B = A
  BY AppendForm
<1>4. Len(s) + 1 \notin A
  BY AppendForm
<1> HIDE DEF A, B
<1>5. Cardinality(A \cup {Len(s) + 1}) = Cardinality(A) + 1
  BY <1>1, <1>4, FS_AddElement
<1>6. Among(s, X) = Cardinality(A) /\ Among(Append(s, t), X) = Cardinality(B)
  BY DEF Among, A, B
<1>7. QED
  BY <1>2, <1>3, <1>5, <1>6

\* Each element of X that is taken counted for one.
LEMMA AmongTail ==
  ASSUME NEW S, NEW s \in Seq(S), s # <<>>, NEW X
  PROVE  /\ Head(s) \in X => Among(s, X) = Among(Tail(s), X) + 1
         /\ Head(s) \notin X => Among(s, X) = Among(Tail(s), X)
<1> DEFINE A == {i \in 1 .. Len(Tail(s)) : Tail(s)[i] \in X}
           B == {i \in 1 .. Len(s) : s[i] \in X}
           C == {i \in 1 .. Len(s) : i # 1 /\ s[i] \in X}
           f == [i \in A |-> i + 1]
<1>0. /\ Len(Tail(s)) = Len(s) - 1 /\ Len(s) \in Nat /\ Len(s) > 0
      /\ Head(s) = s[1]
      /\ \A m \in 1 .. Len(s) - 1 : Tail(s)[m] = s[m + 1]
  BY TailForm
<1>1. IsFiniteSet(A)
  <2>1. Tail(s) \in Seq(S)
    BY TailForm
  <2>2. QED
    BY <2>1, AmongType, Zenon
<1>2. f \in Bijection(A, C)
  <2>1. \A i \in A : f[i] \in C
    BY <1>0
  <2>2. \A c \in C : c - 1 \in A /\ f[c - 1] = c
    BY <1>0
  <2>3. \A i, j \in A : f[i] = f[j] => i = j
    OBVIOUS
  <2>4. f \in [A -> C]
    BY <2>1
  <2> HIDE DEF f, A, C
  <2>5. QED
    BY <2>2, <2>3, <2>4 DEF Bijection, Injection, Surjection, IsInjective
<1>3. IsFiniteSet(C) /\ Cardinality(C) = Cardinality(A)
  <2> HIDE DEF A, C, f
  <2>1. ExistsBijection(A, C)
    BY <1>2 DEF ExistsBijection
  <2>2. QED
    BY <1>1, <2>1, FS_Bijection
<1>4. Head(s) \in X => B = C \cup {1}
  BY <1>0
<1>5. Head(s) \notin X => B = C
  BY <1>0
<1>6. 1 \notin C
  OBVIOUS
<1> HIDE DEF A, B, C
<1>7. Cardinality(C \cup {1}) = Cardinality(C) + 1
  BY <1>3, <1>6, FS_AddElement
<1>8. Among(s, X) = Cardinality(B) /\ Among(Tail(s), X) = Cardinality(A)
  BY DEF Among, A, B
<1>9. QED
  BY <1>3, <1>4, <1>5, <1>7, <1>8

\* What leads x stays before it; a new x is led by what is there.
LEMMA LeadsAppend ==
  ASSUME NEW S, NEW s \in Seq(S), NEW t \in S, NEW x, NEW y,
         Leads(s, y, x), x = t => Has(s, y)
  PROVE  Leads(Append(s, t), y, x)
<1>1. /\ Len(Append(s, t)) = Len(s) + 1 /\ Len(s) \in Nat
      /\ \A m \in 1 .. Len(s) : Append(s, t)[m] = s[m]
      /\ Append(s, t)[Len(s) + 1] = t
  BY AppendForm
<1> SUFFICES ASSUME NEW i \in 1 .. Len(Append(s, t)), Append(s, t)[i] = x
             PROVE  \E j \in 1 .. Len(Append(s, t)) : j < i /\ Append(s, t)[j] = y
  BY DEF Leads
<1>2. CASE i = Len(s) + 1
  <2>1. PICK j \in 1 .. Len(s) : s[j] = y
    BY <1>1, <1>2 DEF Has
  <2>2. QED
    BY <1>1, <1>2, <2>1
<1>3. CASE i \in 1 .. Len(s)
  <2>1. PICK j \in 1 .. Len(s) : j < i /\ s[j] = y
    BY <1>1, <1>3 DEF Leads
  <2>2. QED
    BY <1>1, <2>1
<1>4. QED
  BY <1>1, <1>2, <1>3

\* What is led by another is not the head, and is led until that is taken.
LEMMA LeadsTail ==
  ASSUME NEW S, NEW s \in Seq(S), s # <<>>, NEW x, NEW y, Leads(s, y, x)
  PROVE  /\ Head(s) # x
         /\ Head(s) # y => Leads(Tail(s), y, x)
<1>1. /\ Len(Tail(s)) = Len(s) - 1 /\ Len(s) \in Nat /\ Len(s) > 0
      /\ Head(s) = s[1]
      /\ \A m \in 1 .. Len(s) - 1 : Tail(s)[m] = s[m + 1]
  BY TailForm
<1>2. Head(s) # x
  BY <1>1 DEF Leads
<1>3. ASSUME Head(s) # y, NEW i \in 1 .. Len(Tail(s)), Tail(s)[i] = x
      PROVE  \E j \in 1 .. Len(Tail(s)) : j < i /\ Tail(s)[j] = y
  <2>1. i + 1 \in 1 .. Len(s) /\ s[i + 1] = x
    BY <1>1, <1>3
  <2>2. PICK j \in 1 .. Len(s) : j < i + 1 /\ s[j] = y
    BY <2>1 DEF Leads
  <2>3. j # 1
    BY <1>1, <1>3, <2>2
  <2>4. j - 1 \in 1 .. Len(Tail(s)) /\ j - 1 < i /\ Tail(s)[j - 1] = y
    BY <1>1, <2>2, <2>3
  <2>5. QED
    BY <2>4
<1>4. QED
  BY <1>2, <1>3 DEF Leads

\* What a single head follows is not in the queue.
LEMMA FollowsHead ==
  ASSUME NEW S, NEW s \in Seq(S), s # <<>>, NEW x, Follows(s, x, Head(s)),
         Single(s, Head(s))
  PROVE  ~Has(s, x)
<1>1. Len(s) \in Nat /\ Len(s) > 0 /\ Head(s) = s[1]
  BY TailForm
<1> SUFFICES ASSUME NEW i \in 1 .. Len(s), s[i] = x
             PROVE  FALSE
  BY DEF Has
<1>2. PICK j \in 1 .. Len(s) : j > i /\ s[j] = Head(s)
  BY DEF Follows
<1>3. j = 1
  BY <1>1, <1>2 DEF Single
<1>4. QED
  BY <1>1, <1>2, <1>3

\* What a sequence that is appended does to the length and to the elements.
LEMMA ConcatForm ==
  ASSUME NEW S, NEW s \in Seq(S), NEW r \in Seq(S)
  PROVE  /\ s \o r \in Seq(S) /\ Len(s) \in Nat /\ Len(r) \in Nat
         /\ Len(s \o r) = Len(s) + Len(r)
         /\ \A i \in 1 .. Len(s) : (s \o r)[i] = s[i]
         /\ \A i \in Len(s) + 1 .. Len(s) + Len(r) : (s \o r)[i] = r[i - Len(s)]
  OBVIOUS

\* The elements of both are there.
LEMMA HasConcat ==
  ASSUME NEW S, NEW s \in Seq(S), NEW r \in Seq(S), NEW x
  PROVE  Has(s \o r, x) <=> Has(s, x) \/ Has(r, x)
<1>0. /\ Len(s) \in Nat /\ Len(r) \in Nat /\ Len(s \o r) = Len(s) + Len(r)
      /\ \A i \in 1 .. Len(s) : (s \o r)[i] = s[i]
      /\ \A i \in Len(s) + 1 .. Len(s) + Len(r) : (s \o r)[i] = r[i - Len(s)]
  BY ConcatForm
<1>1. ASSUME NEW i \in 1 .. Len(s \o r), (s \o r)[i] = x
      PROVE  Has(s, x) \/ Has(r, x)
  <2>1. CASE i \in 1 .. Len(s)
    BY <1>0, <1>1, <2>1 DEF Has
  <2>2. CASE i \in Len(s) + 1 .. Len(s) + Len(r)
    <3>1. i - Len(s) \in 1 .. Len(r) /\ r[i - Len(s)] = x
      BY <1>0, <1>1, <2>2
    <3>2. QED
      BY <3>1 DEF Has
  <2>3. QED
    BY <1>0, <2>1, <2>2
<1>2. ASSUME NEW i \in 1 .. Len(s), s[i] = x PROVE Has(s \o r, x)
  <2>1. i \in 1 .. Len(s \o r) /\ (s \o r)[i] = x
    BY <1>0, <1>2
  <2>2. QED
    BY <2>1 DEF Has
<1>3. ASSUME NEW i \in 1 .. Len(r), r[i] = x PROVE Has(s \o r, x)
  <2>1. /\ i + Len(s) \in Len(s) + 1 .. Len(s) + Len(r)
        /\ i + Len(s) \in 1 .. Len(s \o r) /\ (i + Len(s)) - Len(s) = i
    BY <1>0
  <2>2. (s \o r)[i + Len(s)] = x
    BY <1>0, <1>3, <2>1
  <2>3. QED
    BY <2>1, <2>2 DEF Has
<1> HIDE DEF Has
<1>4. (\E i \in 1 .. Len(s) : s[i] = x) => Has(s \o r, x)
  BY <1>2
<1>5. (\E i \in 1 .. Len(r) : r[i] = x) => Has(s \o r, x)
  BY <1>3
<1>6. (\E i \in 1 .. Len(s \o r) : (s \o r)[i] = x) => Has(s, x) \/ Has(r, x)
  BY <1>1
<1>7. QED
  BY <1>4, <1>5, <1>6 DEF Has

\* What is not among the appended elements stays single.
LEMMA SingleConcat ==
  ASSUME NEW S, NEW s \in Seq(S), NEW r \in Seq(S), NEW x, Single(s, x), ~Has(r, x)
  PROVE  Single(s \o r, x)
<1>1. /\ Len(s) \in Nat /\ Len(r) \in Nat /\ Len(s \o r) = Len(s) + Len(r)
      /\ \A i \in 1 .. Len(s) : (s \o r)[i] = s[i]
      /\ \A i \in Len(s) + 1 .. Len(s) + Len(r) : (s \o r)[i] = r[i - Len(s)]
  BY ConcatForm
<1>2. ASSUME NEW i \in 1 .. Len(s \o r), (s \o r)[i] = x
      PROVE  i \in 1 .. Len(s) /\ s[i] = x
  <2>1. CASE i \in Len(s) + 1 .. Len(s) + Len(r)
    <3>1. i - Len(s) \in 1 .. Len(r) /\ r[i - Len(s)] = x
      BY <1>1, <1>2, <2>1
    <3>2. QED
      BY <3>1 DEF Has
  <2>2. QED
    BY <1>1, <1>2, <2>1
<1>3. QED
  BY <1>2 DEF Single

\* What x is followed by does not change when other elements are appended.
LEMMA FollowsConcat ==
  ASSUME NEW S, NEW s \in Seq(S), NEW r \in Seq(S), NEW x, NEW y, Follows(s, x, y),
         ~Has(r, x)
  PROVE  Follows(s \o r, x, y)
<1>1. /\ Len(s) \in Nat /\ Len(r) \in Nat /\ Len(s \o r) = Len(s) + Len(r)
      /\ \A i \in 1 .. Len(s) : (s \o r)[i] = s[i]
      /\ \A i \in Len(s) + 1 .. Len(s) + Len(r) : (s \o r)[i] = r[i - Len(s)]
  BY ConcatForm
<1> SUFFICES ASSUME NEW i \in 1 .. Len(s \o r), (s \o r)[i] = x
             PROVE  \E j \in 1 .. Len(s \o r) : j > i /\ (s \o r)[j] = y
  BY DEF Follows
<1>2. i \in 1 .. Len(s) /\ s[i] = x
  <2>1. CASE i \in Len(s) + 1 .. Len(s) + Len(r)
    <3>1. i - Len(s) \in 1 .. Len(r) /\ r[i - Len(s)] = x
      BY <1>1, <2>1
    <3>2. QED
      BY <3>1 DEF Has
  <2>2. QED
    BY <1>1, <2>1
<1>3. PICK j \in 1 .. Len(s) : j > i /\ s[j] = y
  BY <1>2 DEF Follows
<1>4. j \in 1 .. Len(s \o r) /\ (s \o r)[j] = y
  BY <1>1, <1>3
<1>5. QED
  BY <1>3, <1>4
=============================================================================
