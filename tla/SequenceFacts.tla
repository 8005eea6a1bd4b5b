--------------------------- MODULE SequenceFacts ---------------------------
(* Facts that the proofs about folds over sequences share: induction over  *)
(* the natural numbers for a set in place of a predicate, and sequences    *)
(* whose elements are of no particular set.                                *)
EXTENDS Integers, Sequences, FiniteSetTheorems, TLAPS

\* A set that contains 0 and with every number its successor contains all.  The
\* intervals 0..i-1 of the numbers i outside the set would otherwise have a least
\* one for set inclusion, which is well-founded on finite sets.
LEMMA NatSetInduction ==
  ASSUME NEW S, 0 \in S, \A n \in Nat : n \in S => n + 1 \in S
  PROVE  \A n \in Nat : n \in S
<1>1. SUFFICES ASSUME NEW k \in Nat, k \notin S PROVE FALSE
  OBVIOUS
<1> DEFINE T == {i \in Nat : i \notin S}
           F == {0 .. (i - 1) : i \in T}
<1>2. F \subseteq FiniteSubsetsOf(Nat) /\ F # {}
  <2>1. F # {}
    BY <1>1
  <2>2. ASSUME NEW i \in T PROVE 0 .. (i - 1) \in SUBSET Nat /\ IsFiniteSet(0 .. (i - 1))
    <3>1. i - 1 \in Int
      OBVIOUS
    <3>2. IsFiniteSet(0 .. (i - 1))
      BY <3>1, FS_Interval
    <3>3. 0 .. (i - 1) \in SUBSET Nat
      OBVIOUS
    <3>4. QED
      BY <3>2, <3>3
  <2>3. QED
    BY <2>1, <2>2 DEF FiniteSubsetsOf
<1>3. PICK X \in F : \A Y \in F : <<Y, X>> \notin StrictSubsetOrdering(Nat)
  BY <1>2, WFMin, FS_StrictSubsetOrderingWellFounded
<1>4. PICK i \in T : X = 0 .. (i - 1)
  BY <1>3
<1>5. i \in Nat /\ i # 0 /\ i - 1 \in Nat /\ i - 1 \notin S
  <2>1. i \in Nat /\ i \notin S
    BY <1>4
  <2>2. i # 0
    BY <2>1
  <2>3. i - 1 \in Nat /\ (i - 1) + 1 = i
    BY <2>1, <2>2
  <2>4. QED
    BY <2>1, <2>2, <2>3
<1> DEFINE Y == 0 .. ((i - 1) - 1)
<1>6. Y \in F
  BY <1>5
<1>7. Y \subseteq X /\ Y # X /\ X \subseteq Nat
  <2>1. i - 1 \in X /\ i - 1 \notin Y
    BY <1>4, <1>5
  <2>2. QED
    BY <2>1, <1>4, <1>5
<1>8. <<Y, X>> \in StrictSubsetOrdering(Nat)
  <2> HIDE DEF Y
  <2>1. Y \in SUBSET Nat /\ X \in SUBSET Nat
    BY <1>7
  <2>2. QED
    BY <2>1, <1>7 DEF StrictSubsetOrdering
<1>9. QED
  BY <1>3, <1>6, <1>8

\* s is a sequence, of whatever.
IsSeq(s) == \E T : s \in Seq(T)

\* A sequence is a function on 1..Len(s).
LEMMA SeqDomain ==
  ASSUME NEW s, IsSeq(s)
  PROVE  Len(s) \in Nat /\ DOMAIN s = 1 .. Len(s) /\ s \in Seq({s[i] : i \in DOMAIN s})
<1>1. PICK T : s \in Seq(T)
  BY DEF IsSeq
<1>2. Len(s) \in Nat /\ DOMAIN s = 1 .. Len(s)
  BY <1>1
<1> DEFINE R == {s[i] : i \in DOMAIN s}
<1>3. s = [i \in 1 .. Len(s) |-> s[i]]
  BY <1>1
<1>4. \A i \in 1 .. Len(s) : s[i] \in R
  BY <1>2
<1> HIDE DEF R
<1>5. s \in [1 .. Len(s) -> R]
  BY <1>3, <1>4
<1>6. s \in Seq(R)
  BY <1>2, <1>5
<1>7. QED
  BY <1>2, <1>6 DEF R

\* A function on 1..n is a sequence of length n.
LEMMA FcnIsSeq ==
  ASSUME NEW n \in Nat, NEW T, NEW s \in [1 .. n -> T]
  PROVE  IsSeq(s) /\ Len(s) = n
<1>1. s \in Seq(T) /\ Len(s) = n
  OBVIOUS
<1>2. QED
  BY <1>1 DEF IsSeq

\* The sequence with no element.
LEMMA SeqEmpty == IsSeq(<<>>)
<1>1. <<>> \in Seq({})
  OBVIOUS
<1>2. QED
  BY <1>1 DEF IsSeq

\* The sequence with one element.
LEMMA SeqSingle ==
  ASSUME NEW x
  PROVE  IsSeq(<<x>>) /\ Len(<<x>>) = 1 /\ <<x>>[1] = x
<1>1. <<x>> \in Seq({x}) /\ Len(<<x>>) = 1 /\ <<x>>[1] = x
  OBVIOUS
<1>2. QED
  BY <1>1 DEF IsSeq

\* Append keeps the elements in their places and adds one.
LEMMA SeqAppend ==
  ASSUME NEW s, IsSeq(s), NEW x
  PROVE  /\ IsSeq(Append(s, x)) /\ Len(Append(s, x)) = Len(s) + 1
         /\ \A i \in 1 .. Len(s) : Append(s, x)[i] = s[i]
         /\ Append(s, x)[Len(s) + 1] = x
<1>1. PICK T : s \in Seq(T)
  BY DEF IsSeq
<1>2. s \in Seq(T \cup {x}) /\ x \in T \cup {x}
  BY <1>1
<1> DEFINE U == T \cup {x}
<1> HIDE DEF U
<1>3. s \in Seq(U) /\ x \in U
  BY <1>2 DEF U
<1>4. /\ Append(s, x) \in Seq(U) /\ Len(Append(s, x)) = Len(s) + 1
      /\ \A i \in 1 .. Len(s) : Append(s, x)[i] = s[i]
      /\ Append(s, x)[Len(s) + 1] = x
  BY <1>3
<1>5. QED
  BY <1>4 DEF IsSeq

\* The concatenation has the elements of the first and then those of the second.
LEMMA SeqConcat ==
  ASSUME NEW s, IsSeq(s), NEW t, IsSeq(t)
  PROVE  /\ IsSeq(s \o t) /\ Len(s \o t) = Len(s) + Len(t)
         /\ \A i \in 1 .. Len(s) : (s \o t)[i] = s[i]
         /\ \A i \in 1 .. Len(t) : (s \o t)[Len(s) + i] = t[i]
<1>1. PICK S : s \in Seq(S)
  BY DEF IsSeq
<1>2. PICK T : t \in Seq(T)
  BY DEF IsSeq
<1> DEFINE U == S \cup T
<1>3. s \in Seq(U) /\ t \in Seq(U)
  BY <1>1, <1>2
<1> HIDE DEF U
<1>4. /\ s \o t \in Seq(U) /\ Len(s \o t) = Len(s) + Len(t)
      /\ \A i \in 1 .. Len(s) : (s \o t)[i] = s[i]
      /\ \A i \in 1 .. Len(t) : (s \o t)[Len(s) + i] = t[i]
  BY <1>3
<1>5. QED
  BY <1>4 DEF IsSeq

\* The tail is the sequence without its first element.
LEMMA SeqTail ==
  ASSUME NEW s, IsSeq(s), s # <<>>
  PROVE  /\ IsSeq(Tail(s)) /\ Len(s) >= 1 /\ Len(Tail(s)) = Len(s) - 1 /\ Head(s) = s[1]
         /\ \A i \in 1 .. Len(Tail(s)) : Tail(s)[i] = s[i + 1]
<1>1. PICK T : s \in Seq(T)
  BY DEF IsSeq
<1>2. /\ Tail(s) \in Seq(T) /\ Len(s) >= 1 /\ Len(Tail(s)) = Len(s) - 1 /\ Head(s) = s[1]
      /\ \A i \in 1 .. Len(Tail(s)) : Tail(s)[i] = s[i + 1]
  BY <1>1
<1>3. QED
  BY <1>2 DEF IsSeq

\* The elements of a sequence to which one was appended.
LEMMA AppendElements ==
  ASSUME NEW s, IsSeq(s), NEW x
  PROVE  /\ IsSeq(Append(s, x))
         /\ \A i \in DOMAIN Append(s, x) : (i \in DOMAIN s /\ Append(s, x)[i] = s[i]) \/ Append(s, x)[i] = x
<1> DEFINE t == Append(s, x)
<1>1. Len(s) \in Nat /\ DOMAIN s = 1 .. Len(s)
  BY SeqDomain
<1>2. /\ IsSeq(t) /\ Len(t) = Len(s) + 1
      /\ \A i \in 1 .. Len(s) : t[i] = s[i]
      /\ t[Len(s) + 1] = x
  BY SeqAppend
<1> HIDE DEF t
<1>3. DOMAIN t = 1 .. (Len(s) + 1)
  BY <1>2, SeqDomain
<1>4. ASSUME NEW i \in 1 .. (Len(s) + 1) PROVE i \in 1 .. Len(s) \/ i = Len(s) + 1
  BY <1>1
<1>5. QED
  BY <1>1, <1>2, <1>3, <1>4 DEF t

\* The elements of a concatenation.
LEMMA ConcatElements ==
  ASSUME NEW s, IsSeq(s), NEW t, IsSeq(t)
  PROVE  /\ IsSeq(s \o t)
         /\ \A i \in DOMAIN (s \o t) :
              \/ i \in DOMAIN s /\ (s \o t)[i] = s[i]
              \/ i \notin DOMAIN s /\ i - Len(s) \in DOMAIN t /\ (s \o t)[i] = t[i - Len(s)]
<1> DEFINE u == s \o t
<1>1. /\ Len(s) \in Nat /\ DOMAIN s = 1 .. Len(s)
      /\ Len(t) \in Nat /\ DOMAIN t = 1 .. Len(t)
  BY SeqDomain
<1>2. /\ IsSeq(u) /\ Len(u) = Len(s) + Len(t)
      /\ \A i \in 1 .. Len(s) : u[i] = s[i]
      /\ \A i \in 1 .. Len(t) : u[Len(s) + i] = t[i]
  BY SeqConcat
<1> HIDE DEF u
<1>3. DOMAIN u = 1 .. (Len(s) + Len(t))
  BY <1>2, SeqDomain
<1>4. ASSUME NEW i \in 1 .. (Len(s) + Len(t))
      PROVE  i \in 1 .. Len(s) \/ (i \notin 1 .. Len(s) /\ i - Len(s) \in 1 .. Len(t) /\ Len(s) + (i - Len(s)) = i)
  BY <1>1
<1>5. ASSUME NEW i \in DOMAIN u
      PROVE  \/ i \in DOMAIN s /\ u[i] = s[i]
             \/ i \notin DOMAIN s /\ i - Len(s) \in DOMAIN t /\ u[i] = t[i - Len(s)]
  BY <1>1, <1>2, <1>3, <1>4
<1>6. QED
  BY <1>2, <1>5 DEF u

\* What every element of two sequences has, every element of their concatenation
\* has.
LEMMA ConcatAll ==
  ASSUME NEW s, IsSeq(s), NEW t, IsSeq(t), NEW S,
         \A i \in DOMAIN s : s[i] \in S, \A i \in DOMAIN t : t[i] \in S
  PROVE  \A i \in DOMAIN (s \o t) : (s \o t)[i] \in S
BY ConcatElements

\* The elements of two sequences are elements of their concatenation.
LEMMA ConcatHolds ==
  ASSUME NEW s, IsSeq(s), NEW t, IsSeq(t)
  PROVE  /\ \A i \in DOMAIN s : i \in DOMAIN (s \o t) /\ (s \o t)[i] = s[i]
         /\ \A i \in DOMAIN t : \E k \in DOMAIN (s \o t) : (s \o t)[k] = t[i]
<1> DEFINE u == s \o t
<1>1. /\ Len(s) \in Nat /\ DOMAIN s = 1 .. Len(s)
      /\ Len(t) \in Nat /\ DOMAIN t = 1 .. Len(t)
  BY SeqDomain
<1>2. /\ IsSeq(u) /\ Len(u) = Len(s) + Len(t)
      /\ \A i \in 1 .. Len(s) : u[i] = s[i]
      /\ \A i \in 1 .. Len(t) : u[Len(s) + i] = t[i]
  BY SeqConcat
<1> HIDE DEF u
<1>3. DOMAIN u = 1 .. (Len(s) + Len(t))
  BY <1>2, SeqDomain
<1>4. /\ \A i \in 1 .. Len(s) : i \in 1 .. (Len(s) + Len(t))
      /\ \A i \in 1 .. Len(t) : Len(s) + i \in 1 .. (Len(s) + Len(t))
  BY <1>1
<1>5. QED
  BY <1>1, <1>2, <1>3, <1>4 DEF u

\* A set of numbers below a bound that is not empty has a largest one.
LEMMA LargestExists ==
  ASSUME NEW n \in Nat, NEW A \in SUBSET (1 .. n), A # {}
  PROVE  \E i \in A : \A j \in A : j <= i
<1> DEFINE S == {k \in Nat : \A B \in SUBSET (1 .. k) : B # {} => \E i \in B : \A j \in B : j <= i}
<1>1. 0 \in S
  <2>1. 1 .. 0 = {}
    OBVIOUS
  <2>2. \A B \in SUBSET (1 .. 0) : B = {}
    BY <2>1
  <2>3. QED
    BY <2>2
<1>2. ASSUME NEW k \in Nat, k \in S PROVE k + 1 \in S
  <2>1. SUFFICES ASSUME NEW B \in SUBSET (1 .. k + 1), B # {}
                 PROVE  \E i \in B : \A j \in B : j <= i
    OBVIOUS
  <2>2. CASE k + 1 \in B
    BY <2>1, <2>2
  <2>3. CASE k + 1 \notin B
    <3>1. B \in SUBSET (1 .. k)
      BY <2>1, <2>3
    <3>2. QED
      BY <1>2, <2>1, <3>1
  <2>4. QED
    BY <2>2, <2>3
<1> HIDE DEF S
<1>3. n \in S
  BY <1>1, <1>2, NatSetInduction
<1>4. QED
  BY <1>3 DEF S

\* A set of numbers from 1 to n that is closed downwards is an interval, whose end
\* is the number of its elements.
LEMMA PrefixCardinality ==
  ASSUME NEW n \in Nat, NEW A \in SUBSET (1 .. n), \A i \in A : \A j \in 1 .. i : j \in A
  PROVE  Cardinality(A) \in 0 .. n /\ A = 1 .. Cardinality(A)
<1>1. CASE A = {}
  BY <1>1, FS_EmptySet
<1>2. CASE A # {}
  <2>1. PICK i \in A : \A j \in A : j <= i
    BY <1>2, LargestExists
  <2>2. A = 1 .. i
    <3>1. \A j \in A : j \in 1 .. i
      BY <2>1
    <3>2. \A j \in 1 .. i : j \in A
      BY <2>1
    <3>3. QED
      BY <3>1, <3>2
  <2>3. i \in Int /\ i >= 1 /\ i <= n
    BY <2>1
  <2>4. Cardinality(1 .. i) = i
    BY <2>3, FS_Interval
  <2>5. QED
    BY <2>2, <2>3, <2>4
<1>3. QED
  BY <1>1, <1>2

\* The image of a finite set under a function is finite.
LEMMA ImageFinite ==
  ASSUME NEW S, IsFiniteSet(S), NEW f, f = [x \in S |-> f[x]]
  PROVE  IsFiniteSet({f[x] : x \in S})
<1> DEFINE T == {f[x] : x \in S}
<1>1. f \in [S -> T] /\ \A y \in T : \E x \in S : f[x] = y
  OBVIOUS
<1> HIDE DEF T
<1>2. f \in Surjection(S, T)
  BY <1>1 DEF Surjection
<1>3. IsFiniteSet(T)
  BY <1>2, FS_Surjection
<1>4. QED
  BY <1>3 DEF T
=============================================================================
