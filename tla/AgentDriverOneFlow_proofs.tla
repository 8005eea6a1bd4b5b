---------------------- MODULE AgentDriverOneFlow_proofs ----------------------
(* Proofs about the driver of the agent loop when one flow is under way at *)
(* a time: for any number of messages, tools, attempts, crashes and        *)
(* disturbances.                                                           *)
EXTENDS AgentDriver_proofs

-----------------------------------------------------------------------------
(* The fold of a log.                                                      *)

\* States that follow each other by the events are those of the fold.
LEMMA FoldUnique ==
  ASSUME NEW s, NEW es, IsSeq(es), NEW g, g[0] = s,
         \A k \in 1 .. Len(es) : g[k] = ApplyEvent(g[k - 1], es[k])
  PROVE  FoldEvents(s, es) = g[Len(es)]
<1>1. Len(es) \in Nat
  BY SeqDomain
<1>2. PICK h : LeadsTo(h, s, es)
  BY FoldStates
<1>3. /\ h[0] = s /\ FoldEvents(s, es) = h[Len(es)]
      /\ \A k \in 1 .. Len(es) : h[k] = ApplyEvent(h[k - 1], es[k])
  BY <1>2 DEF LeadsTo
<1> DEFINE S == {n \in Nat : n <= Len(es) => g[n] = h[n]}
<1>4. 0 \in S
  BY <1>3
<1>5. ASSUME NEW n \in Nat, n \in S PROVE n + 1 \in S
  <2>1. SUFFICES ASSUME n + 1 <= Len(es) PROVE g[n + 1] = h[n + 1]
    OBVIOUS
  <2>2. n + 1 \in 1 .. Len(es) /\ (n + 1) - 1 = n /\ g[n] = h[n]
    BY <1>1, <1>5, <2>1
  <2>3. g[n + 1] = ApplyEvent(g[n], es[n + 1]) /\ h[n + 1] = ApplyEvent(h[n], es[n + 1])
    BY <1>3, <2>2
  <2>4. QED
    BY <2>2, <2>3
<1> HIDE DEF S
<1>6. Len(es) \in S
  BY <1>1, <1>4, <1>5, NatSetInduction
<1>7. QED
  BY <1>1, <1>3, <1>6 DEF S

\* The fold over two sequences of events is the fold over the second from the
\* fold over the first.
LEMMA FoldConcat ==
  ASSUME NEW s, NEW a, IsSeq(a), NEW b, IsSeq(b)
  PROVE  FoldEvents(s, a \o b) = FoldEvents(FoldEvents(s, a), b)
<1>1. /\ Len(a) \in Nat /\ Len(b) \in Nat
      /\ IsSeq(a \o b) /\ Len(a \o b) = Len(a) + Len(b)
      /\ \A i \in 1 .. Len(a) : (a \o b)[i] = a[i]
      /\ \A i \in 1 .. Len(b) : (a \o b)[Len(a) + i] = b[i]
  BY SeqDomain, SeqConcat
<1> DEFINE c == a \o b
<1>2. PICK g : LeadsTo(g, s, c)
  BY <1>1, FoldStates
<1>3. /\ g[0] = s /\ FoldEvents(s, c) = g[Len(c)]
      /\ \A k \in 1 .. Len(c) : g[k] = ApplyEvent(g[k - 1], c[k])
  BY <1>2 DEF LeadsTo
<1> HIDE DEF c
<1>4. FoldEvents(s, a) = g[Len(a)]
  <2>1. \A k \in 1 .. Len(a) : k \in 1 .. Len(c) /\ c[k] = a[k]
    BY <1>1 DEF c
  <2>2. \A k \in 1 .. Len(a) : g[k] = ApplyEvent(g[k - 1], a[k])
    BY <1>3, <2>1
  <2>3. QED
    BY <1>3, <2>2, FoldUnique
<1> DEFINE h == [k \in 0 .. Len(b) |-> g[Len(a) + k]]
<1>5. h[0] = g[Len(a)] /\ h[Len(b)] = g[Len(a) + Len(b)]
  BY <1>1
<1>6. ASSUME NEW k \in 1 .. Len(b) PROVE h[k] = ApplyEvent(h[k - 1], b[k])
  <2>1. /\ Len(a) + k \in 1 .. Len(c) /\ c[Len(a) + k] = b[k]
        /\ (Len(a) + k) - 1 = Len(a) + (k - 1)
        /\ k \in 0 .. Len(b) /\ k - 1 \in 0 .. Len(b)
    BY <1>1 DEF c
  <2>2. g[Len(a) + k] = ApplyEvent(g[Len(a) + (k - 1)], b[k])
    BY <1>3, <2>1
  <2>3. QED
    BY <2>1, <2>2
<1> HIDE DEF h
<1>7. FoldEvents(g[Len(a)], b) = h[Len(b)]
  BY <1>5, <1>6, FoldUnique
<1>8. QED
  BY <1>1, <1>3, <1>4, <1>5, <1>7 DEF c

\* A fold over no event and over one.
LEMMA FoldOne ==
  ASSUME NEW s, NEW e
  PROVE  FoldEvents(s, <<>>) = s /\ FoldEvents(s, <<e>>) = ApplyEvent(s, e)
<1>1. FoldEvents(s, <<>>) = s
  <2> DEFINE g == [k \in 0 .. 0 |-> s]
  <2>1. g[0] = s /\ Len(<<>>) = 0
    OBVIOUS
  <2>2. \A k \in 1 .. Len(<<>>) : g[k] = ApplyEvent(g[k - 1], <<>>[k])
    BY <2>1
  <2> HIDE DEF g
  <2>3. QED
    BY <2>1, <2>2, SeqEmpty, FoldUnique
<1>2. FoldEvents(s, <<e>>) = ApplyEvent(s, e)
  <2> DEFINE g == [k \in 0 .. 1 |-> IF k = 0 THEN s ELSE ApplyEvent(s, e)]
             q == <<e>>
  <2>1. g[0] = s /\ g[1] = ApplyEvent(s, e) /\ IsSeq(q) /\ Len(q) = 1 /\ q[1] = e
    BY SeqSingle
  <2> HIDE DEF g, q
  <2>2. ASSUME NEW k \in 1 .. Len(q) PROVE g[k] = ApplyEvent(g[k - 1], q[k])
    <3>1. k = 1 /\ k - 1 = 0
      BY <2>1
    <3>2. QED
      BY <2>1, <3>1
  <2>3. FoldEvents(s, q) = g[Len(q)]
    BY <2>1, <2>2, FoldUnique
  <2>4. QED
    BY <2>1, <2>3 DEF q
<1>3. QED
  BY <1>1, <1>2

\* The first n events of a log, and the rest.
LEMMA LogSplits ==
  ASSUME NEW l, IsSeq(l), NEW n \in 0 .. Len(l)
  PROVE  /\ IsSeq(SubSeq(l, 1, n)) /\ Len(SubSeq(l, 1, n)) = n
         /\ \A i \in 1 .. n : SubSeq(l, 1, n)[i] = l[i]
         /\ IsSeq(SubSeq(l, n + 1, Len(l))) /\ Len(SubSeq(l, n + 1, Len(l))) = Len(l) - n
         /\ \A i \in 1 .. Len(l) - n : SubSeq(l, n + 1, Len(l))[i] = l[n + i]
         /\ SubSeq(l, 1, n) \o SubSeq(l, n + 1, Len(l)) = l
         /\ SubSeq(l, 1, Len(l)) = l
<1> DEFINE R == {l[i] : i \in DOMAIN l}
<1>1. Len(l) \in Nat /\ DOMAIN l = 1 .. Len(l) /\ l \in Seq(R)
  BY SeqDomain
<1> HIDE DEF R
<1> DEFINE a == SubSeq(l, 1, n)
           b == SubSeq(l, n + 1, Len(l))
           m == Len(l) - n
<1>n. Len(l) \in Nat /\ n \in Nat /\ n <= Len(l)
  BY <1>1
<1>m. m \in Nat /\ n + m = Len(l) /\ (n # Len(l) => n + 1 <= Len(l) /\ Len(l) - (n + 1) + 1 = m)
  BY <1>n
<1> HIDE DEF m
<1>2. a \in Seq(R) /\ Len(a) = n /\ \A i \in 1 .. n : a[i] = l[i]
  BY <1>1
<1>3. b \in Seq(R) /\ Len(b) = m /\ \A i \in 1 .. m : b[i] = l[n + i]
  <2>1. CASE n = Len(l)
    <3>1. b = <<>> /\ m = 0
      BY <1>1, <1>m, <2>1
    <3>2. QED
      BY <3>1
  <2>2. CASE n # Len(l)
    <3>1. n + 1 \in Nat /\ 1 <= n + 1 /\ n + 1 <= Len(l) /\ m \in Nat /\ m = Len(l) - (n + 1) + 1
      BY <1>n, <1>m, <2>2
    <3>2. b \in Seq(R) /\ Len(b) = Len(l) - (n + 1) + 1
      BY <1>1, <3>1
    <3>3. \A i \in 1 .. m : b[i] = l[(n + 1) + i - 1]
      BY <1>1, <3>1
    <3>4. \A i \in 1 .. m : (n + 1) + i - 1 = n + i
      BY <1>n, <3>1
    <3>5. QED
      BY <3>1, <3>2, <3>3, <3>4
  <2>3. QED
    BY <2>1, <2>2
<1>4. SubSeq(l, 1, Len(l)) = l
  BY <1>1
<1> HIDE DEF a, b
<1>5. IsSeq(a) /\ IsSeq(b)
  BY <1>2, <1>3 DEF IsSeq
<1>6. a \o b = l
  <2> DEFINE c == a \o b
  <2>1. /\ IsSeq(c) /\ Len(c) = n + m
        /\ \A i \in 1 .. n : c[i] = a[i]
        /\ \A i \in 1 .. m : c[n + i] = b[i]
    <3>1. /\ IsSeq(a \o b) /\ Len(a \o b) = Len(a) + Len(b)
          /\ \A i \in 1 .. Len(a) : (a \o b)[i] = a[i]
          /\ \A i \in 1 .. Len(b) : (a \o b)[Len(a) + i] = b[i]
      BY <1>5, SeqConcat
    <3>2. Len(a) = n /\ Len(b) = m
      BY <1>2, <1>3
    <3>3. QED
      BY <3>1, <3>2
  <2> HIDE DEF c
  <2>2. ASSUME NEW i \in 1 .. Len(l) PROVE c[i] = l[i]
    <3>1. CASE i <= n
      <4>1. i \in 1 .. n
        BY <1>n, <3>1
      <4>2. QED
        BY <1>2, <2>1, <4>1
    <3>2. CASE i > n
      <4>1. i - n \in 1 .. m /\ n + (i - n) = i
        BY <1>n, <1>m, <3>2
      <4>2. QED
        BY <1>3, <2>1, <4>1
    <3>3. QED
      BY <1>n, <3>1, <3>2
  <2>3. DOMAIN c = 1 .. Len(l) /\ c = [i \in DOMAIN c |-> c[i]] /\ l = [i \in DOMAIN l |-> l[i]]
    <3>1. ASSUME NEW q, IsSeq(q) PROVE DOMAIN q = 1 .. Len(q) /\ q = [i \in DOMAIN q |-> q[i]]
      <4>1. PICK T : q \in Seq(T)
        BY <3>1 DEF IsSeq
      <4>2. q \in [1 .. Len(q) -> T]
        BY <4>1
      <4>3. QED
        BY <4>2
    <3>2. QED
      BY <1>m, <2>1, <3>1
  <2>4. c = l
    BY <1>1, <2>2, <2>3
  <2>5. QED
    BY <2>4 DEF c
<1>7. QED
  BY <1>2, <1>3, <1>4, <1>5, <1>6 DEF a, b, m

\* Sequences with the same elements at the same places are the same.
LEMMA SameSequence ==
  ASSUME NEW p, IsSeq(p), NEW q, IsSeq(q), Len(p) = Len(q), \A i \in 1 .. Len(p) : p[i] = q[i]
  PROVE  p = q
<1>1. ASSUME NEW s, IsSeq(s) PROVE s = [i \in 1 .. Len(s) |-> s[i]]
  <2>1. PICK T : s \in Seq(T)
    BY <1>1 DEF IsSeq
  <2>2. s \in [1 .. Len(s) -> T]
    BY <2>1
  <2>3. QED
    BY <2>2
<1>2. p = [i \in 1 .. Len(p) |-> p[i]] /\ q = [i \in 1 .. Len(p) |-> q[i]]
  BY <1>1
<1>3. QED
  BY <1>2

\* Nothing before a sequence.
LEMMA EmptyConcat ==
  ASSUME NEW s, IsSeq(s)
  PROVE  <<>> \o s = s
<1> DEFINE c == <<>> \o s
<1>1. /\ IsSeq(c) /\ Len(c) = 0 + Len(s) /\ \A i \in 1 .. Len(s) : c[0 + i] = s[i]
  <2>1. /\ IsSeq(c) /\ Len(c) = Len(<<>>) + Len(s) /\ \A i \in 1 .. Len(s) : c[Len(<<>>) + i] = s[i]
    BY SeqEmpty, SeqConcat
  <2>2. Len(<<>>) = 0
    OBVIOUS
  <2> HIDE DEF c
  <2>3. QED
    BY <2>1, <2>2
<1>2. Len(s) \in Nat
  BY SeqDomain
<1> HIDE DEF c
<1>3. Len(c) = Len(s) /\ \A i \in 1 .. Len(s) : 0 + i = i
  BY <1>1, <1>2
<1>4. \A i \in 1 .. Len(c) : c[i] = s[i]
  BY <1>1, <1>3
<1>5. QED
  BY <1>1, <1>3, <1>4, SameSequence DEF c

\* Of items that were there and items that are new, After keeps the new ones.
LEMMA AfterNew ==
  ASSUME NEW n \in Nat, NEW a, IsSeq(a), \A i \in DOMAIN a : a[i].seq \in 1 .. n,
         NEW b, IsSeq(b), \A i \in DOMAIN b : b[i].seq = n + i
  PROVE  After(a \o b, n) = b
<1> DEFINE c == a \o b
           La == Len(a)
           Lb == Len(b)
<1>1. /\ La \in Nat /\ Lb \in Nat /\ DOMAIN a = 1 .. La /\ DOMAIN b = 1 .. Lb
      /\ IsSeq(c) /\ Len(c) = La + Lb
      /\ \A i \in 1 .. La : c[i] = a[i]
      /\ \A i \in 1 .. Lb : c[La + i] = b[i]
  BY SeqDomain, SeqConcat
<1> DEFINE K == {i \in DOMAIN c : c[i].seq > n}
           g == CHOOSE h : Keeps(h, c, K, Len(c))
<1>2. Len(c) \in Nat /\ DOMAIN c = 1 .. Len(c)
  <2>1. IsSeq(c)
    BY <1>1
  <2> HIDE DEF c
  <2>2. QED
    BY <2>1, SeqDomain
<1>3. Keeps(g, c, K, Len(c))
  BY <1>2, KeepExists
<1>4. After(c, n) = g[Len(c)]
  BY DEF After, Kept, Keeps
<1> HIDE DEF g, c
<1>k. \A k \in 1 .. Len(c) : k \in K <=> c[k].seq > n
  BY <1>2
<1> HIDE DEF K
<1>5. /\ g[0] = <<>>
      /\ \A k \in 1 .. Len(c) : g[k] = IF c[k].seq > n THEN Append(g[k - 1], c[k]) ELSE g[k - 1]
  <2>1. \A k \in 0 .. Len(c) :
          g[k] = IF k = 0 THEN <<>>
                 ELSE IF k \in K THEN Append(g[k - 1], c[k]) ELSE g[k - 1]
    BY <1>3 DEF Keeps
  <2>2. g[0] = <<>>
    BY <1>2, <2>1
  <2>3. \A k \in 1 .. Len(c) : k \in 0 .. Len(c) /\ k # 0
    BY <1>2
  <2>4. QED
    BY <1>k, <2>1, <2>2, <2>3
<1> HIDE DEF La, Lb
<1> DEFINE S == {k \in Nat : k <= La => g[k] = <<>>}
<1>6. La \in S
  <2>1. 0 \in S
    BY <1>5
  <2>2. ASSUME NEW k \in Nat, k \in S PROVE k + 1 \in S
    <3>1. SUFFICES ASSUME k + 1 <= La PROVE g[k + 1] = <<>>
      OBVIOUS
    <3>2. k + 1 \in 1 .. La /\ k + 1 \in 1 .. Len(c) /\ (k + 1) - 1 = k /\ g[k] = <<>>
      BY <1>1, <2>2, <3>1
    <3>3. c[k + 1].seq \in 1 .. n
      BY <1>1, <3>2
    <3>4. ~(c[k + 1].seq > n)
      BY <3>3
    <3>5. QED
      BY <1>5, <3>2, <3>4
  <2> HIDE DEF S
  <2>3. QED
    BY <1>1, <2>1, <2>2, NatSetInduction
<1> DEFINE Prefix(q, k) == IsSeq(q) /\ Len(q) = k /\ \A i \in 1 .. k : q[i] = b[i]
           R == {k \in Nat : k <= Lb => Prefix(g[La + k], k)}
<1>7. Lb \in R
  <2>1. 0 \in R
    <3>1. g[La + 0] = <<>> /\ Len(<<>>) = 0
      BY <1>1, <1>6
    <3>2. QED
      BY <3>1, SeqEmpty
  <2>2. ASSUME NEW k \in Nat, k \in R PROVE k + 1 \in R
    <3>1. SUFFICES ASSUME k + 1 <= Lb PROVE Prefix(g[La + (k + 1)], k + 1)
      OBVIOUS
    <3>2. /\ k + 1 \in 1 .. Lb /\ La + (k + 1) \in 1 .. Len(c) /\ (La + (k + 1)) - 1 = La + k
          /\ Prefix(g[La + k], k)
      BY <1>1, <2>2, <3>1
    <3> DEFINE p == g[La + k]
    <3>3. c[La + (k + 1)] = b[k + 1] /\ b[k + 1].seq = n + (k + 1)
      BY <1>1, <3>2
    <3>4. b[k + 1].seq > n
      BY <3>3
    <3>5. g[La + (k + 1)] = Append(p, b[k + 1])
      BY <1>5, <3>2, <3>3, <3>4
    <3> HIDE DEF p
    <3>6. IsSeq(p) /\ Len(p) = k /\ \A i \in 1 .. k : p[i] = b[i]
      BY <3>2 DEF p
    <3> DEFINE r == Append(p, b[k + 1])
    <3>7. IsSeq(r) /\ Len(r) = k + 1 /\ (\A i \in 1 .. k : r[i] = b[i]) /\ r[k + 1] = b[k + 1]
      <4>1. /\ IsSeq(r) /\ Len(r) = Len(p) + 1 /\ (\A i \in 1 .. Len(p) : r[i] = p[i])
            /\ r[Len(p) + 1] = b[k + 1]
        BY <3>6, SeqAppend
      <4> HIDE DEF r
      <4>2. QED
        BY <3>6, <4>1
    <3> HIDE DEF r
    <3>8. \A i \in 1 .. k + 1 : i \in 1 .. k \/ i = k + 1
      OBVIOUS
    <3>9. Prefix(r, k + 1)
      BY <3>7, <3>8
    <3> HIDE DEF Prefix
    <3>10. QED
      BY <3>5, <3>9 DEF r
  <2> HIDE DEF R
  <2>3. QED
    BY <1>1, <2>1, <2>2, NatSetInduction
<1>8. Prefix(g[La + Lb], Lb)
  BY <1>1, <1>7
<1> DEFINE z == g[La + Lb]
<1>9. IsSeq(z) /\ Len(z) = Lb /\ \A i \in 1 .. Lb : z[i] = b[i]
  BY <1>8
<1> HIDE DEF z, Prefix
<1>10. z = b
  <2>1. Len(z) = Len(b) /\ \A i \in 1 .. Len(z) : z[i] = b[i]
    BY <1>9 DEF Lb
  <2>2. QED
    BY <1>9, <2>1, SameSequence
<1>11. QED
  BY <1>1, <1>4, <1>10 DEF z, c

-----------------------------------------------------------------------------
(* The fold of a journal.                                                  *)

\* What a fold of the whole of a log gives; a state that is the fold of its first
\* events.
TruthOf(l) == FoldEvents(InitialState, l)
FaithfulTo(s, l) ==
  s.lastSeq \in 0 .. Len(l) /\ s = FoldEvents(InitialState, SubSeq(l, 1, s.lastSeq))

\* The fold of a journal is a state that ends with its last event.
LEMMA TruthIs ==
  ASSUME NEW l, IsLog(l)
  PROVE  IsState(TruthOf(l)) /\ TruthOf(l).lastSeq = Len(l)
<1>1. /\ IsSeq(l) /\ Len(l) \in Nat /\ DOMAIN l = 1 .. Len(l)
      /\ \A i \in 1 .. Len(l) : IsEnvelope(l[i]) /\ l[i].seq = i
  BY SeqDomain DEF IsLog
<1>2. PICK g : LeadsTo(g, InitialState, l)
  BY <1>1, FoldStates
<1>3. /\ g[0] = InitialState /\ TruthOf(l) = g[Len(l)]
      /\ \A k \in 1 .. Len(l) : g[k] = ApplyEvent(g[k - 1], l[k])
  BY <1>2 DEF LeadsTo, TruthOf
<1>4. IsState(InitialState) /\ InitialState.lastSeq = 0
  BY InitialGood DEF GoodState, InitialState
<1> DEFINE S == {n \in Nat : n <= Len(l) => IsState(g[n]) /\ g[n].lastSeq = n}
<1>5. 0 \in S
  BY <1>3, <1>4
<1>6. ASSUME NEW n \in Nat, n \in S PROVE n + 1 \in S
  <2>1. SUFFICES ASSUME n + 1 <= Len(l) PROVE IsState(g[n + 1]) /\ g[n + 1].lastSeq = n + 1
    OBVIOUS
  <2>2. n + 1 \in 1 .. Len(l) /\ (n + 1) - 1 = n /\ IsState(g[n])
    BY <1>1, <1>6, <2>1
  <2>3. IsEnvelope(l[n + 1]) /\ l[n + 1].seq = n + 1
    BY <1>1, <2>2
  <2>4. g[n + 1] = ApplyEvent(g[n], l[n + 1])
    BY <1>3, <2>2
  <2>5. Follows(g[n], l[n + 1], g[n + 1])
    BY <2>2, <2>3, <2>4, ApplyEventFollows
  <2>6. QED
    BY <2>3, <2>5 DEF Follows
<1> HIDE DEF S
<1>7. Len(l) \in S
  BY <1>1, <1>5, <1>6, NatSetInduction
<1>8. QED
  BY <1>1, <1>3, <1>7 DEF S

\* From a state that is faithful to a journal, the rest of it leads to its fold.
LEMMA FaithfulLeads ==
  ASSUME NEW l, IsSeq(l), NEW s, FaithfulTo(s, l)
  PROVE  /\ FoldEvents(s, SubSeq(l, s.lastSeq + 1, Len(l))) = TruthOf(l)
         /\ s.lastSeq = Len(l) => s = TruthOf(l)
<1> DEFINE n == s.lastSeq
           a == SubSeq(l, 1, n)
           b == SubSeq(l, n + 1, Len(l))
<1>1. n \in 0 .. Len(l) /\ s = FoldEvents(InitialState, a)
  BY DEF FaithfulTo
<1>2. IsSeq(a) /\ IsSeq(b) /\ a \o b = l /\ SubSeq(l, 1, Len(l)) = l
  BY <1>1, LogSplits
<1> HIDE DEF a, b
<1>3. FoldEvents(InitialState, a \o b) = FoldEvents(FoldEvents(InitialState, a), b)
  <2>1. IsSeq(a) /\ IsSeq(b)
    BY <1>2
  <2>2. QED
    BY <2>1, FoldConcat
<1>4. FoldEvents(s, b) = TruthOf(l)
  BY <1>1, <1>2, <1>3 DEF TruthOf
<1>5. s.lastSeq = Len(l) => s = TruthOf(l)
  BY <1>1, <1>2 DEF TruthOf, a
<1>6. QED
  BY <1>4, <1>5 DEF b

\* The fold of a journal is faithful to it, and so is the state before its first event.
LEMMA FaithfulStates ==
  ASSUME NEW l, IsLog(l)
  PROVE  FaithfulTo(TruthOf(l), l) /\ FaithfulTo(InitialState, l)
<1>1. IsSeq(l) /\ Len(l) \in Nat
  BY SeqDomain DEF IsLog
<1>2. 0 \in 0 .. Len(l) /\ Len(l) \in 0 .. Len(l)
  BY <1>1
<1>3. FaithfulTo(TruthOf(l), l)
  <2>1. SubSeq(l, 1, Len(l)) = l
    BY <1>1, <1>2, LogSplits
  <2>2. TruthOf(l).lastSeq = Len(l)
    BY TruthIs
  <2>3. QED
    BY <1>2, <2>1, <2>2 DEF FaithfulTo, TruthOf
<1>4. FaithfulTo(InitialState, l)
  <2> DEFINE a == SubSeq(l, 1, 0)
  <2>1. IsSeq(a) /\ Len(a) = 0
    BY <1>1, <1>2, LogSplits
  <2> HIDE DEF a
  <2>2. a = <<>>
    BY <2>1, SeqEmpty, SameSequence
  <2>3. FoldEvents(InitialState, a) = InitialState /\ InitialState.lastSeq = 0
    BY <2>2, FoldOne DEF InitialState
  <2>4. QED
    BY <1>2, <2>3 DEF FaithfulTo, a
<1>5. QED
  BY <1>3, <1>4

\* A state stays faithful to a journal that grows.
LEMMA FaithfulGrows ==
  ASSUME NEW l, IsSeq(l), NEW x, IsSeq(x), NEW s, FaithfulTo(s, l)
  PROVE  FaithfulTo(s, l \o x)
<1> DEFINE n == s.lastSeq
           c == l \o x
           p == SubSeq(l, 1, n)
           q == SubSeq(c, 1, n)
<1>1. n \in 0 .. Len(l) /\ s = FoldEvents(InitialState, p)
  BY DEF FaithfulTo
<1>2. /\ Len(l) \in Nat /\ Len(x) \in Nat /\ IsSeq(c) /\ Len(c) = Len(l) + Len(x)
      /\ \A i \in 1 .. Len(l) : c[i] = l[i]
  BY SeqDomain, SeqConcat
<1> HIDE DEF c
<1>3. n \in 0 .. Len(c) /\ n \in Nat /\ \A i \in 1 .. n : i \in 1 .. Len(l)
  BY <1>1, <1>2
<1>4. IsSeq(p) /\ Len(p) = n /\ \A i \in 1 .. n : p[i] = l[i]
  BY <1>1, LogSplits
<1>5. IsSeq(q) /\ Len(q) = n /\ \A i \in 1 .. n : q[i] = c[i]
  BY <1>2, <1>3, LogSplits
<1> HIDE DEF p, q
<1>6. \A i \in 1 .. Len(p) : p[i] = q[i]
  BY <1>2, <1>3, <1>4, <1>5
<1>7. p = q
  BY <1>4, <1>5, <1>6, SameSequence
<1>8. QED
  BY <1>1, <1>3, <1>7 DEF FaithfulTo, c, q

-----------------------------------------------------------------------------
(* The inductive invariant for one flow f.                                 *)

\* AppendError on the journal l.
ErrorOn(l, expected, items) ==
  LET at(id) == {i \in DOMAIN l : l[i].id = id}
      position(item) == CHOOSE i \in at(item.id) : TRUE
      p == Cardinality({n \in DOMAIN items : \A i \in 1..n : at(items[i].id) # {}})
  IN  IF \E i \in 1..p : [l[position(items[i])] EXCEPT !.seq = 0] # items[i] THEN "id-collision"
      ELSE IF \E i \in p+1..Len(items) : at(items[i].id) # {} THEN "replay-mismatch"
      ELSE IF p = 0 /\ expected # Len(l) THEN "head-conflict"
      ELSE IF p \in 1..Len(items)-1 /\ position(items[p]) # Len(l) THEN "replay-mismatch"
      ELSE None

\* A step that answers a journaled event; a step that has not been appended yet.
OfEvent(t) ==
  /\ t.kind = "step" /\ t.in.type = "event"
  /\ Acts(t) \in {"step", "send", "commit", "reply", "fold", "stale"}
Stepping(t) == t.kind = "step" /\ Acts(t) \in {"step", "send", "commit", "stale"}

\* The store is going to refuse what the step answers, however often it is asked.
Refused(in, l) ==
  LET out == Step(TruthOf(l), in) IN out # Empty /\ ErrorOn(l, Len(l), out.append) # None
Doomed(t, l) == Stepping(t) /\ Refused(t.in, l)

\* The tasks below the first one have not begun; they hold a loop only below steps
\* that answer events.
Unbegun == {"load", "step", "drop", "delete", "ack", "abort", "unschedule"}
LowerOK(q) ==
  \A k \in DOMAIN q : k > 1 =>
    q[k].do \in Unbegun /\ (q[k].loop # None => \A j \in 1 .. k - 1 : OfEvent(q[j]))

\* No task holds a loop that the map has given up, but the one that reloads.
SameLoop(q, map) ==
  \A k \in DOMAIN q : q[k].loop \in {None, map} \/ (k = 1 /\ q[k].do \in Loadings)

\* What the task under way knows of the journal l.
TopOK(t, map, l, states) ==
  /\ t.do \in Loadings \ {"load"} => map = None
  /\ t.do \in {"headreply", "commit"} => t.expected = Len(l)
  /\ t.do = "tail" => FoldEvents(t.state, SubSeq(l, t.state.lastSeq + 1, Len(l))) = TruthOf(l)
  /\ t.do = "tailreply" => t.state = TruthOf(l)
  /\ t.kind = "step" /\ t.do \in {"send", "commit", "stale"} =>
       t.items = Step(TruthOf(l), t.in).append /\ Step(TruthOf(l), t.in) # Empty
  /\ t.kind = "step" /\ t.do = "stale" => Refused(t.in, l)
  /\ t.do \in {"reply", "fold"} => t.loop # None
  /\ t.do = "reply" => FoldEvents(states[t.loop], After(t.envs, states[t.loop].lastSeq)) = TruthOf(l)
  /\ t.do = "fold" => FoldEvents(states[t.loop], t.envs) = TruthOf(l)

\* The envelopes of an append are not folded yet.
Folding(q) == q # <<>> /\ q[1].do \in {"reply", "fold"}

Held(i, q, map) == map = i \/ \E k \in DOMAIN q : q[k].loop = i

OneFlowOK(q, map, l, states) ==
  /\ LowerOK(q)
  /\ (q # <<>> /\ Doomed(q[1], l)) \/ SameLoop(q, map)
  /\ q # <<>> => TopOK(q[1], map, l, states)
  /\ ~Folding(q) => \A i \in DOMAIN states : states[i] = TruthOf(l)
  /\ \A i \in DOMAIN states : Held(i, q, map)

OneFlowInv(f) ==
  /\ cache # None => FaithfulTo(cache, log)
  /\ OneFlowOK(flows[f], live, log, loops)

\* What the store answers.
LEMMA ErrorIs ==
  ASSUME NEW expected, NEW items
  PROVE  AppendError(expected, items) = ErrorOn(log, expected, items)
BY DEF AppendError, ErrorOn, Replayed, SameContent, Position, Journaled, JournaledAt

\* The tasks below the one that is under way.
LEMMA BelowIs ==
  ASSUME NEW q, IsSeq(q), q # <<>>, LowerOK(q)
  PROVE  /\ IsSeq(Tail(q)) /\ 1 \in DOMAIN q /\ Head(q) = q[1]
         /\ \A k \in DOMAIN Tail(q) :
              /\ k \in Nat /\ k + 1 \in DOMAIN q /\ Tail(q)[k] = q[k + 1] /\ Tail(q)[k].do \in Unbegun
              /\ Tail(q)[k].loop # None => OfEvent(q[1]) /\ \A j \in 1 .. k - 1 : OfEvent(Tail(q)[j])
<1> DEFINE t == Tail(q)
<1>1. /\ IsSeq(t) /\ Len(q) >= 1 /\ Len(t) = Len(q) - 1 /\ Head(q) = q[1]
      /\ \A i \in 1 .. Len(t) : t[i] = q[i + 1]
  BY SeqTail
<1>2. Len(q) \in Nat /\ DOMAIN q = 1 .. Len(q) /\ DOMAIN t = 1 .. Len(t)
  BY <1>1, SeqDomain
<1> HIDE DEF t
<1>3. ASSUME NEW k \in DOMAIN t
      PROVE  /\ k \in Nat /\ k + 1 \in DOMAIN q /\ t[k] = q[k + 1] /\ t[k].do \in Unbegun
             /\ t[k].loop # None => OfEvent(q[1]) /\ \A j \in 1 .. k - 1 : OfEvent(t[j])
  <2>1. /\ k \in Nat /\ k + 1 \in 1 .. Len(q) /\ k + 1 > 1 /\ (k + 1) - 1 = k
        /\ 1 \in 1 .. k /\ \A j \in 1 .. k - 1 : j \in 1 .. Len(t) /\ j + 1 \in 1 .. k
    BY <1>1, <1>2
  <2>2. t[k] = q[k + 1] /\ \A j \in 1 .. k - 1 : t[j] = q[j + 1]
    BY <1>1, <1>2, <2>1
  <2>3. q[k + 1].do \in Unbegun /\ (q[k + 1].loop # None => \A j \in 1 .. k : OfEvent(q[j]))
    BY <1>2, <2>1 DEF LowerOK
  <2>4. QED
    BY <1>2, <2>1, <2>2, <2>3
<1>4. QED
  BY <1>1, <1>2, <1>3 DEF t

\* Other tasks come in the place of the one that was under way.
LEMMA ReplacedLower ==
  ASSUME NEW q, IsSeq(q), q # <<>>, LowerOK(q), NEW new, IsSeq(new), LowerOK(new),
         OfEvent(q[1]) => \A k \in DOMAIN new : OfEvent(new[k])
  PROVE  LowerOK(new \o Tail(q))
<1> DEFINE t == Tail(q)
           c == new \o t
<1>1. /\ IsSeq(t)
      /\ \A k \in DOMAIN t :
           /\ k \in Nat /\ t[k].do \in Unbegun
           /\ t[k].loop # None => OfEvent(q[1]) /\ \A j \in 1 .. k - 1 : OfEvent(t[j])
  BY BelowIs
<1> HIDE DEF t
<1> DEFINE n == Len(new)
<1>2. /\ n \in Nat /\ Len(t) \in Nat /\ DOMAIN new = 1 .. n /\ DOMAIN t = 1 .. Len(t)
      /\ IsSeq(c) /\ Len(c) = n + Len(t)
      /\ \A i \in 1 .. n : c[i] = new[i]
      /\ \A i \in 1 .. Len(t) : c[n + i] = t[i]
  BY <1>1, SeqDomain, SeqConcat
<1>3. DOMAIN c = 1 .. n + Len(t)
  BY <1>2, SeqDomain
<1> HIDE DEF c, n
<1>4. ASSUME NEW k \in DOMAIN c, k > 1
      PROVE  c[k].do \in Unbegun /\ (c[k].loop # None => \A j \in 1 .. k - 1 : OfEvent(c[j]))
  <2>1. CASE k <= n
    <3>1. k \in 1 .. n /\ \A j \in 1 .. k - 1 : j \in 1 .. n
      BY <1>2, <1>3, <2>1
    <3>2. c[k] = new[k] /\ \A j \in 1 .. k - 1 : c[j] = new[j]
      BY <1>2, <3>1
    <3>3. QED
      BY <1>2, <1>4, <3>1, <3>2 DEF LowerOK
  <2>2. CASE k > n
    <3> DEFINE i == k - n
    <3>1. i \in 1 .. Len(t) /\ n + i = k
      BY <1>2, <1>3, <2>2
    <3>2. c[k] = t[i] /\ i \in DOMAIN t
      BY <1>2, <3>1
    <3>3. ASSUME c[k].loop # None, NEW j \in 1 .. k - 1 PROVE OfEvent(c[j])
      <4>1. CASE j <= n
        <5>1. j \in 1 .. n
          BY <1>2, <1>3, <4>1
        <5>2. QED
          BY <1>1, <1>2, <3>2, <3>3, <5>1
      <4>2. CASE j > n
        <5>1. j - n \in 1 .. i - 1 /\ j - n \in 1 .. Len(t) /\ n + (j - n) = j
          BY <1>2, <1>3, <3>1, <4>2
        <5>2. c[j] = t[j - n] /\ OfEvent(t[j - n])
          BY <1>1, <1>2, <3>2, <3>3, <5>1
        <5>3. QED
          BY <5>2
      <4>3. QED
        BY <1>2, <1>3, <4>1, <4>2
    <3>4. QED
      BY <1>1, <3>2, <3>3
  <2>3. QED
    BY <1>2, <1>3, <2>1, <2>2
<1>5. QED
  BY <1>4 DEF LowerOK, c, t

\* The loops of tasks that follow others.
LEMMA ReplacedLoops ==
  ASSUME NEW new, IsSeq(new), NEW map, SameLoop(new, map), NEW t, IsSeq(t),
         \A k \in DOMAIN t : t[k].loop \in {None, map}
  PROVE  SameLoop(new \o t, map)
<1>1. \A i \in DOMAIN (new \o t) :
        \/ i \in DOMAIN new /\ (new \o t)[i] = new[i]
        \/ \E k \in DOMAIN t : (new \o t)[i] = t[k]
  BY ConcatElements
<1>2. QED
  BY <1>1 DEF SameLoop

-----------------------------------------------------------------------------
(* How the flow goes on.                                                   *)

\* Every loop that a task or the map holds is one of V.
HoldsIn(q, map, V) == map \in V \cup {None} /\ \A k \in DOMAIN q : q[k].loop \in V \cup {None}

\* The flow goes on with tasks that know the journal l.
LEMMA ProceedOne ==
  ASSUME NEW f \in Flow, Flow = {f}, flows = [g \in Flow |-> flows[g]],
         NEW todo, NEW instances, NEW map, Proceed(f, todo, instances, map),
         DOMAIN instances \subseteq Instance, HoldsIn(todo, map, DOMAIN instances),
         NEW l, l = log', cache' = None \/ FaithfulTo(cache', l),
         LowerOK(todo), (todo # <<>> /\ Doomed(todo[1], l)) \/ SameLoop(todo, map),
         todo # <<>> => 1 \in DOMAIN todo /\ TopOK(todo[1], map, l, instances),
         ~Folding(todo) => \A i \in DOMAIN instances : instances[i] = TruthOf(l)
  PROVE  OneFlowInv(f)'
<1> DEFINE todos == [flows EXCEPT ![f] = todo]
           D == {x \in Instance : Referenced(x, todos, map)}
           states == [i \in D |-> instances[i]]
<1>1. flows' = todos /\ live' = map /\ loops' = states
  BY DEF Proceed
<1>2. flows'[f] = todo
  BY <1>1
<1>3. \A x : Referenced(x, todos, map) <=> Held(x, todo, map)
  BY <1>1, <1>2 DEF Referenced, Held
<1> HIDE DEF todos
<1>4. \A i \in D : Held(i, todo, map) /\ i \in DOMAIN instances
  <2>1. SUFFICES ASSUME NEW i \in D PROVE Held(i, todo, map) /\ i \in DOMAIN instances
    OBVIOUS
  <2>2. Held(i, todo, map) /\ i \in Instance /\ i # None
    BY <1>3, <2>1, NoInstance
  <2>3. QED
    BY <2>2 DEF Held, HoldsIn
<1>5. \A i \in DOMAIN instances : Held(i, todo, map) => i \in D
  BY <1>3
<1>6. DOMAIN states = D /\ \A i \in D : states[i] = instances[i]
  OBVIOUS
<1> HIDE DEF D, states
<1>7. todo # <<>> => TopOK(todo[1], map, l, states)
  <2>1. SUFFICES ASSUME todo # <<>> PROVE TopOK(todo[1], map, l, states)
    OBVIOUS
  <2> DEFINE t == todo[1]
  <2>2. TopOK(t, map, l, instances) /\ 1 \in DOMAIN todo
    BY <2>1
  <2>3. t.do \in {"reply", "fold"} => states[t.loop] = instances[t.loop]
    <3>1. SUFFICES ASSUME t.do \in {"reply", "fold"} PROVE states[t.loop] = instances[t.loop]
      OBVIOUS
    <3>2. t.loop # None
      BY <2>2, <3>1 DEF TopOK
    <3>3. t.loop \in DOMAIN instances /\ Held(t.loop, todo, map)
      BY <2>2, <3>2 DEF HoldsIn, Held
    <3>4. QED
      BY <1>5, <1>6, <3>3
  <2> HIDE DEF t
  <2>4. TopOK(t, map, l, states)
    BY <2>2, <2>3 DEF TopOK
  <2>5. QED
    BY <2>4 DEF t
<1>8. ~Folding(todo) => \A i \in DOMAIN states : states[i] = TruthOf(l)
  BY <1>4, <1>6
<1>9. \A i \in DOMAIN states : Held(i, todo, map)
  BY <1>4, <1>6
<1>10. OneFlowOK(todo, map, l, states)
  BY <1>7, <1>8, <1>9 DEF OneFlowOK
<1>11. OneFlowOK(flows'[f], live', log', loops')
  BY <1>1, <1>2, <1>10
<1>12. QED
  BY <1>11 DEF OneFlowInv

\* What the invariants say of the flow.
LEMMA FlowIs ==
  ASSUME NEW f \in Flow, DriverInv, OneFlowInv(f)
  PROVE  /\ IsLog(log) /\ IsState(TruthOf(log)) /\ TruthOf(log).lastSeq = Len(log)
         /\ flows = [g \in Flow |-> flows[g]] /\ IsSeq(flows[f])
         /\ DOMAIN loops \subseteq Instance /\ HoldsIn(flows[f], live, DOMAIN loops)
         /\ cache = None \/ FaithfulTo(cache, log)
         /\ flows[f] # <<>> => Current(f) = flows[f][1] /\ 1 \in DOMAIN flows[f]
<1>1. IsLog(log) /\ FlowsInv(IdsOf(log))
  BY DEF DriverInv, DurableInv
<1>2. /\ DOMAIN loops \subseteq Instance /\ live \in DOMAIN loops \cup {None}
      /\ flows = [g \in Flow |-> flows[g]] /\ IsStack(flows[f], IdsOf(log), DOMAIN loops)
  BY <1>1 DEF FlowsInv
<1>3. IsSeq(flows[f]) /\ \A k \in DOMAIN flows[f] : flows[f][k].loop \in DOMAIN loops \cup {None}
  BY <1>2 DEF IsStack, IsTask
<1>4. flows[f] # <<>> => Current(f) = flows[f][1] /\ 1 \in DOMAIN flows[f]
  BY <1>3, BelowIs DEF Current, OneFlowInv, OneFlowOK
<1>5. IsState(TruthOf(log)) /\ TruthOf(log).lastSeq = Len(log)
  BY <1>1, TruthIs
<1>6. QED
  BY <1>1, <1>2, <1>3, <1>4, <1>5 DEF HoldsIn, OneFlowInv

\* Other tasks come in the place of the one that was under way.
LEMMA ReplaceOne ==
  ASSUME NEW f \in Flow, Flow = {f}, DriverInv, OneFlowInv(f), flows[f] # <<>>,
         NEW new, IsSeq(new), NEW instances, NEW map, Proceed(f, new \o Tail(flows[f]), instances, map),
         DOMAIN loops \subseteq DOMAIN instances, DOMAIN instances \subseteq Instance,
         HoldsIn(new, map, DOMAIN instances),
         NEW l, l = log', cache' = None \/ FaithfulTo(cache', l),
         LowerOK(new), OfEvent(Current(f)) => \A k \in DOMAIN new : OfEvent(new[k]),
         \/ new # <<>> /\ Doomed(new[1], l)
         \/ /\ SameLoop(new, map)
            /\ \A k \in DOMAIN Tail(flows[f]) : Tail(flows[f])[k].loop \in {None, map},
         new # <<>> => TopOK(new[1], map, l, instances),
         Folding(new) \/ \A i \in DOMAIN instances : instances[i] = TruthOf(l)
  PROVE  OneFlowInv(f)'
<1> DEFINE q == flows[f]
           t == Tail(q)
           todo == new \o t
<1>1. /\ flows = [g \in Flow |-> flows[g]] /\ IsSeq(q) /\ HoldsIn(q, live, DOMAIN loops)
      /\ Current(f) = q[1] /\ LowerOK(q)
  BY FlowIs DEF OneFlowInv, OneFlowOK
<1>2. /\ IsSeq(t)
      /\ \A k \in DOMAIN t : k + 1 \in DOMAIN q /\ t[k] = q[k + 1] /\ t[k].do \in Unbegun
  BY <1>1, BelowIs
<1>3. LowerOK(todo)
  BY <1>1, ReplacedLower
<1> HIDE DEF t
<1>4. \A i \in DOMAIN todo :
        \/ i \in DOMAIN new /\ todo[i] = new[i]
        \/ \E k \in DOMAIN t : todo[i] = t[k]
  BY <1>2, ConcatElements
<1>5. IsSeq(todo)
  BY <1>2, ConcatElements
<1>6. HoldsIn(todo, map, DOMAIN instances)
  <2>1. \A k \in DOMAIN t : t[k].loop \in DOMAIN instances \cup {None}
    BY <1>1, <1>2 DEF HoldsIn
  <2>2. \A k \in DOMAIN new : new[k].loop \in DOMAIN instances \cup {None}
    BY DEF HoldsIn
  <2> HIDE DEF todo
  <2>3. \A i \in DOMAIN todo : todo[i].loop \in DOMAIN instances \cup {None}
    BY <1>4, <2>1, <2>2
  <2>4. QED
    BY <2>3 DEF HoldsIn
<1>7. CASE new # <<>>
  <2>1. todo # <<>> /\ 1 \in DOMAIN todo /\ todo[1] = new[1]
    <3>1. Len(new) \in Nat /\ Len(new) # 0 /\ Len(t) \in Nat
      BY <1>2, <1>7, SeqDomain, SeqEmpty, SameSequence
    <3>2. /\ Len(todo) = Len(new) + Len(t) /\ \A i \in 1 .. Len(new) : todo[i] = new[i]
          /\ DOMAIN todo = 1 .. Len(todo)
      BY <1>2, <1>5, SeqConcat, SeqDomain
    <3> HIDE DEF todo
    <3>3. 1 \in 1 .. Len(new) /\ 1 \in 1 .. Len(todo)
      BY <3>1, <3>2
    <3>4. todo # <<>>
      BY <3>2, <3>3
    <3>5. QED
      BY <3>2, <3>3, <3>4
  <2>2. Folding(todo) <=> Folding(new)
    BY <1>7, <2>1 DEF Folding
  <2>3. Doomed(todo[1], l) \/ SameLoop(todo, map)
    <3>1. CASE Doomed(new[1], l)
      BY <2>1, <3>1
    <3>2. CASE SameLoop(new, map) /\ \A k \in DOMAIN t : t[k].loop \in {None, map}
      BY <1>2, <3>2, ReplacedLoops
    <3>3. QED
      BY <3>1, <3>2 DEF t
  <2>4. Proceed(f, todo, instances, map)
    BY DEF t
  <2> HIDE DEF todo
  <2>5. TopOK(todo[1], map, l, instances)
    BY <1>7, <2>1
  <2>6. ~Folding(todo) => \A i \in DOMAIN instances : instances[i] = TruthOf(l)
    BY <2>2
  <2>7. QED
    BY <1>1, <1>3, <1>6, <2>1, <2>3, <2>4, <2>5, <2>6, ProceedOne
<1>8. CASE new = <<>>
  <2>1. todo = t
    BY <1>2, <1>8, EmptyConcat
  <2>2. Proceed(f, t, instances, map) /\ LowerOK(t) /\ HoldsIn(t, map, DOMAIN instances)
    BY <1>3, <1>6, <2>1 DEF t
  <2>3. SameLoop(t, map)
    BY <1>8 DEF SameLoop, t
  <2>4. t # <<>> => 1 \in DOMAIN t /\ t[1].do \in Unbegun
    <3>1. SUFFICES ASSUME t # <<>> PROVE 1 \in DOMAIN t
      BY <1>2
    <3>2. QED
      BY <1>2, <3>1, SeqTail, SeqDomain
  <2>5. t # <<>> => 1 \in DOMAIN t /\ TopOK(t[1], map, l, instances)
    BY <2>4 DEF TopOK, Unbegun, Loadings
  <2>6. ~Folding(t)
    BY <2>4 DEF Folding, Unbegun
  <2>7. ~Folding(new)
    BY <1>8 DEF Folding
  <2>8. QED
    BY <1>1, <2>2, <2>3, <2>5, <2>6, <2>7, ProceedOne
<1>9. QED
  BY <1>7, <1>8

\* The task that is under way.
LEMMA AtOne ==
  ASSUME NEW f \in Flow, DriverInv, OneFlowInv(f), NEW do, At(f, do)
  PROVE  LET q == flows[f]
             t == Current(f)
         IN  /\ q # <<>> /\ t = q[1] /\ t.do = do
             /\ IsTask(t, IdsOf(log), DOMAIN loops) /\ t.loop \in DOMAIN loops \cup {None}
             /\ do \in WithLoop => t.loop \in DOMAIN loops
             /\ do \in WithLoop \ {"reply", "fold"} => State(f) = TruthOf(log)
             /\ TopOK(t, live, log, loops) /\ LowerOK(q)
             /\ Doomed(t, log) \/ SameLoop(q, live)
             /\ do \notin {"reply", "fold"} => ~Folding(q)
<1> DEFINE q == flows[f]
           t == Current(f)
<1>1. /\ FlowsInv(IdsOf(log)) /\ q # <<>> /\ t.do = do /\ IsTask(t, IdsOf(log), DOMAIN loops)
      /\ do \in WithLoop => t.loop \in DOMAIN loops
  BY AtTask
<1>2. t = q[1]
  BY <1>1, FlowIs
<1>3. t.loop \in DOMAIN loops \cup {None}
  BY <1>1 DEF IsTask
<1>4. /\ TopOK(t, live, log, loops) /\ LowerOK(q) /\ (Doomed(t, log) \/ SameLoop(q, live))
      /\ do \notin {"reply", "fold"} => \A i \in DOMAIN loops : loops[i] = TruthOf(log)
  BY <1>1, <1>2 DEF OneFlowInv, OneFlowOK, Folding
<1>5. do \in WithLoop \ {"reply", "fold"} => State(f) = TruthOf(log)
  BY <1>1, <1>4 DEF State
<1>6. do \notin {"reply", "fold"} => ~Folding(q)
  BY <1>1, <1>2 DEF Folding
<1>7. QED
  BY <1>1, <1>2, <1>3, <1>4, <1>5, <1>6

\* Below a task that is no step for an event, no task holds a loop; below one that
\* the store does not refuse, they hold that of the map.
LEMMA LoopsBelow ==
  ASSUME NEW q, IsSeq(q), q # <<>>, LowerOK(q), NEW map
  PROVE  /\ ~OfEvent(q[1]) => \A k \in DOMAIN Tail(q) : Tail(q)[k].loop = None
         /\ SameLoop(q, map) => \A k \in DOMAIN Tail(q) : Tail(q)[k].loop \in {None, map}
<1>1. \A k \in DOMAIN Tail(q) :
        /\ k \in Nat /\ k + 1 \in DOMAIN q /\ Tail(q)[k] = q[k + 1]
        /\ Tail(q)[k].loop # None => OfEvent(q[1])
  BY BelowIs
<1>2. \A k \in Nat : k + 1 # 1 \/ k = 0
  OBVIOUS
<1>3. \A k \in DOMAIN Tail(q) : k # 0
  BY BelowIs, SeqDomain
<1>4. QED
  BY <1>1, <1>2, <1>3 DEF SameLoop

\* A single task.
LEMMA SingleTask ==
  ASSUME NEW u
  PROVE  LET new == <<u>>
         IN  /\ IsSeq(new) /\ new # <<>> /\ DOMAIN new = {1} /\ new[1] = u /\ LowerOK(new)
             /\ \A map : u.loop \in {None, map} \/ u.do \in Loadings => SameLoop(new, map)
             /\ \A map, V : map \in V \cup {None} /\ u.loop \in V \cup {None} => HoldsIn(new, map, V)
             /\ Folding(new) <=> u.do \in {"reply", "fold"}
<1> DEFINE new == <<u>>
<1>1. IsSeq(new) /\ Len(new) = 1 /\ new[1] = u
  BY SeqSingle
<1>2. DOMAIN new = {1}
  BY <1>1, SeqDomain
<1>3. new # <<>>
  BY <1>1
<1> HIDE DEF new
<1>4. LowerOK(new)
  BY <1>2 DEF LowerOK
<1>5. QED
  BY <1>1, <1>2, <1>3, <1>4 DEF SameLoop, HoldsIn, Folding, new

\* The task that is under way goes on as another, on the same journal.
LEMMA BecomeOne ==
  ASSUME NEW f \in Flow, Flow = {f}, DriverInv, OneFlowInv(f), NEW do, At(f, do),
         NEW u, Become(f, u), log' = log, cache' = cache,
         u.loop \in DOMAIN loops \cup {None},
         OfEvent(Current(f)) => OfEvent(u), Doomed(Current(f), log) => Doomed(u, log),
         u.do \in Loadings \/ u.loop = live \/ (u.loop = Current(f).loop /\ do \notin Loadings),
         TopOK(u, live, log, loops), do \in {"reply", "fold"} => u.do \in {"reply", "fold"}
  PROVE  OneFlowInv(f)'
<1> DEFINE q == flows[f]
           t == Current(f)
           new == <<u>>
<1>1. /\ q # <<>> /\ t = q[1] /\ t.do = do /\ LowerOK(q) /\ (Doomed(t, log) \/ SameLoop(q, live))
      /\ do \notin {"reply", "fold"} => ~Folding(q)
  BY AtOne
<1>2. /\ IsSeq(q) /\ DOMAIN loops \subseteq Instance /\ live \in DOMAIN loops \cup {None}
      /\ cache = None \/ FaithfulTo(cache, log)
      /\ 1 \in DOMAIN q
  BY <1>1, FlowIs DEF HoldsIn
<1>3. /\ IsSeq(new) /\ new # <<>> /\ DOMAIN new = {1} /\ new[1] = u /\ LowerOK(new)
      /\ u.loop \in {None, live} \/ u.do \in Loadings => SameLoop(new, live)
      /\ HoldsIn(new, live, DOMAIN loops) /\ (Folding(new) <=> u.do \in {"reply", "fold"})
  BY <1>2, SingleTask
<1>4. Proceed(f, new \o Tail(flows[f]), loops, live)
  BY DEF Become
<1> HIDE DEF new
<1>5. Doomed(new[1], log) \/ (SameLoop(new, live) /\ \A k \in DOMAIN Tail(q) : Tail(q)[k].loop \in {None, live})
  <2>1. CASE Doomed(t, log)
    BY <1>3, <2>1
  <2>2. CASE SameLoop(q, live)
    <3>1. u.loop \in {None, live} \/ u.do \in Loadings
      BY <1>1, <1>2, <2>2 DEF SameLoop
    <3>2. QED
      BY <1>1, <1>2, <1>3, <2>2, <3>1, LoopsBelow
  <2>3. QED
    BY <1>1, <2>1, <2>2
<1>6. Folding(new) \/ \A i \in DOMAIN loops : loops[i] = TruthOf(log)
  BY <1>1, <1>3 DEF OneFlowInv, OneFlowOK
<1>7. /\ log = log' /\ (cache' = None \/ FaithfulTo(cache', log))
      /\ OfEvent(t) => \A k \in DOMAIN new : OfEvent(new[k])
      /\ TopOK(new[1], live, log, loops)
  BY <1>2, <1>3
<1>8. QED
  BY <1>1, <1>2, <1>3, <1>4, <1>5, <1>6, <1>7, ReplaceOne

\* The task that is under way is done, on the same journal.
LEMMA PopOne ==
  ASSUME NEW f \in Flow, Flow = {f}, DriverInv, OneFlowInv(f), NEW do, At(f, do),
         NEW map, Proceed(f, Tail(flows[f]), loops, map), log' = log, cache' = cache,
         do \notin {"reply", "fold"},
         (map = live /\ ~Doomed(Current(f), log)) \/ (map \in {live, None} /\ ~OfEvent(Current(f)))
  PROVE  OneFlowInv(f)'
<1> DEFINE q == flows[f]
           t == Current(f)
           new == <<>>
<1>1. /\ q # <<>> /\ t = q[1] /\ t.do = do /\ LowerOK(q) /\ (Doomed(t, log) \/ SameLoop(q, live))
      /\ ~Folding(q)
  BY AtOne
<1>2. /\ IsSeq(q) /\ DOMAIN loops \subseteq Instance /\ live \in DOMAIN loops \cup {None}
      /\ cache = None \/ FaithfulTo(cache, log)
  BY FlowIs DEF HoldsIn
<1>3. IsSeq(new) /\ DOMAIN new = {} /\ LowerOK(new) /\ SameLoop(new, map) /\ HoldsIn(new, map, DOMAIN loops)
  BY <1>2, SeqEmpty DEF LowerOK, SameLoop, HoldsIn
<1>4. IsSeq(Tail(q))
  BY <1>1, <1>2, SeqTail
<1>5. new \o Tail(q) = Tail(q)
  BY <1>4, EmptyConcat
<1>6. \A k \in DOMAIN Tail(q) : Tail(q)[k].loop \in {None, map}
  BY <1>1, <1>2, LoopsBelow
<1>7. \A i \in DOMAIN loops : loops[i] = TruthOf(log)
  BY <1>1 DEF OneFlowInv, OneFlowOK
<1>8. Proceed(f, new \o Tail(flows[f]), loops, map)
  BY <1>5
<1> HIDE DEF new
<1>9. new = <<>> /\ log = log' /\ (cache' = None \/ FaithfulTo(cache', log))
  BY <1>2 DEF new
<1>10. QED
  BY <1>1, <1>2, <1>3, <1>6, <1>7, <1>8, <1>9, ReplaceOne

\* Tasks that hold no loop yet.
Fresh(todo) == IsSeq(todo) /\ \A k \in DOMAIN todo : todo[k].do \in Unbegun /\ todo[k].loop = None

\* The flow is given fresh tasks in place of all that it had.
LEMMA FreshOne ==
  ASSUME NEW f \in Flow, Flow = {f}, DriverInv, OneFlowInv(f), ~Folding(flows[f]),
         NEW todo, Fresh(todo), Proceed(f, todo, loops, live), log' = log, cache' = cache
  PROVE  OneFlowInv(f)'
<1>1. /\ flows = [g \in Flow |-> flows[g]] /\ DOMAIN loops \subseteq Instance
      /\ live \in DOMAIN loops \cup {None} /\ (cache = None \/ FaithfulTo(cache, log))
  BY FlowIs DEF HoldsIn
<1>2. LowerOK(todo) /\ SameLoop(todo, live) /\ HoldsIn(todo, live, DOMAIN loops)
  BY <1>1 DEF Fresh, LowerOK, SameLoop, HoldsIn
<1>3. todo # <<>> => 1 \in DOMAIN todo
  <2>1. SUFFICES ASSUME todo # <<>> PROVE 1 \in DOMAIN todo
    OBVIOUS
  <2>2. QED
    BY <2>1, SeqTail, SeqDomain DEF Fresh
<1>4. todo # <<>> => TopOK(todo[1], live, log, loops)
  BY <1>3 DEF Fresh, Unbegun, TopOK, Loadings
<1>5. \A i \in DOMAIN loops : loops[i] = TruthOf(log)
  BY DEF OneFlowInv, OneFlowOK
<1>6. log = log' /\ (cache' = None \/ FaithfulTo(cache', log))
  BY <1>1
<1>7. QED
  BY <1>1, <1>2, <1>3, <1>4, <1>5, <1>6, ProceedOne

-----------------------------------------------------------------------------
(* Loading a loop.                                                         *)

\* A task that does the same later on.
LEMMA SameActs ==
  ASSUME NEW t, NEW u, u.kind = t.kind, u.in = t.in, Acts(u) = Acts(t), NEW l
  PROVE  (OfEvent(t) => OfEvent(u)) /\ (Doomed(t, l) => Doomed(u, l))
BY DEF OfEvent, Doomed, Stepping

\* A task whose loop is loaded knows nothing of the journal yet.
LEMMA LoadedTop ==
  ASSUME NEW E, NEW V, NEW t, IsTask(t, E, V), t.do \in Loadings,
         NEW u, u.do = t.then, u.kind = t.kind, u.in = t.in, NEW map, NEW l, NEW states
  PROVE  /\ Acts(u) = Acts(t) /\ u.do \notin {"reply", "fold"} /\ TopOK(u, map, l, states)
<1>1. u.do \in Loadable /\ u.do \notin Loadings /\ Acts(t) = t.then
  BY DEF IsTask, Loadable, Loadings, Acts
<1>2. Acts(u) = Acts(t)
  BY <1>1 DEF Acts
<1>3. t.then = "send" => t.kind # "step"
  BY <1>1 DEF IsTask, Appending
<1>4. QED
  BY <1>1, <1>2, <1>3 DEF TopOK, Loadable, Loadings

\* The loop of the map is taken.
LEMMA LoadLiveOne ==
  ASSUME NEW f \in Flow, Flow = {f}, DriverInv, OneFlowInv(f), LoadLive(f)
  PROVE  OneFlowInv(f)'
<1> DEFINE t == Current(f)
           u == [t EXCEPT !.do = t.then, !.then = None, !.loop = live]
<1>1. At(f, "load") /\ live # None /\ Become(f, u) /\ log' = log /\ cache' = cache
  BY DEF LoadLive, durable
<1>2. t.do = "load" /\ IsTask(t, IdsOf(log), DOMAIN loops)
  BY <1>1, AtOne
<1>3. u.do = t.then /\ u.kind = t.kind /\ u.in = t.in /\ u.loop = live
  BY <1>2 DEF IsTask, TaskFields
<1>4. live \in DOMAIN loops \cup {None}
  BY FlowIs DEF HoldsIn
<1> HIDE DEF u
<1>5. t.do \in Loadings
  BY <1>2 DEF Loadings
<1>6. Acts(u) = Acts(t) /\ TopOK(u, live, log, loops)
  BY <1>2, <1>3, <1>5, LoadedTop
<1>7. (OfEvent(t) => OfEvent(u)) /\ (Doomed(t, log) => Doomed(u, log))
  BY <1>3, <1>6, SameActs
<1>8. QED
  BY <1>1, <1>3, <1>4, <1>6, <1>7, BecomeOne

\* A load goes on, while the map holds no loop.
LEMMA LoadingOne ==
  ASSUME NEW f \in Flow, Flow = {f}, DriverInv, OneFlowInv(f), NEW do \in Loadings, At(f, do),
         NEW u, Become(f, u), log' = log, cache' = cache, u.do \in Loadings \ {"load"}, live = None,
         u.then = Current(f).then, u.kind = Current(f).kind, u.in = Current(f).in,
         u.loop = Current(f).loop,
         u.do = "headreply" => u.expected = Len(log),
         u.do = "tail" =>
           FoldEvents(u.state, SubSeq(log, u.state.lastSeq + 1, Len(log))) = TruthOf(log),
         u.do = "tailreply" => u.state = TruthOf(log)
  PROVE  OneFlowInv(f)'
<1> DEFINE t == Current(f)
<1>1. t.do = do /\ t.loop \in DOMAIN loops \cup {None}
  BY AtOne
<1>2. Acts(u) = Acts(t)
  BY <1>1 DEF Acts
<1>3. (OfEvent(t) => OfEvent(u)) /\ (Doomed(t, log) => Doomed(u, log))
  BY <1>2, SameActs
<1>4. TopOK(u, live, log, loops)
  BY DEF TopOK, Loadings
<1>5. u.do \in Loadings /\ do \notin {"reply", "fold"}
  BY DEF Loadings
<1>6. QED
  BY <1>1, <1>3, <1>4, <1>5, BecomeOne

\* No loop is in the map.
LEMMA LoadColdOne ==
  ASSUME NEW f \in Flow, Flow = {f}, DriverInv, OneFlowInv(f), LoadCold(f)
  PROVE  OneFlowInv(f)'
<1> DEFINE t == Current(f)
           u == [t EXCEPT !.do = "head"]
<1>1. At(f, "load") /\ live = None /\ Become(f, u) /\ log' = log /\ cache' = cache
  BY DEF LoadCold, durable
<1>2. IsTask(t, IdsOf(log), DOMAIN loops)
  BY <1>1, AtOne
<1>3. u.do = "head" /\ u.then = t.then /\ u.kind = t.kind /\ u.in = t.in /\ u.loop = t.loop
  BY <1>2 DEF IsTask, TaskFields
<1> HIDE DEF u
<1>4. "load" \in Loadings /\ u.do \in Loadings \ {"load"}
  BY <1>3 DEF Loadings
<1>5. QED
  BY <1>1, <1>3, <1>4, LoadingOne

\* The store answers getLogHead.
LEMMA GetLogHeadOne ==
  ASSUME NEW f \in Flow, Flow = {f}, DriverInv, OneFlowInv(f), GetLogHead(f)
  PROVE  OneFlowInv(f)'
<1> DEFINE t == Current(f)
           u == [t EXCEPT !.do = "headreply", !.expected = Len(log)]
<1>1. At(f, "head") /\ Become(f, u) /\ log' = log /\ cache' = cache
  BY DEF GetLogHead, durable
<1>2. IsTask(t, IdsOf(log), DOMAIN loops) /\ TopOK(t, live, log, loops) /\ t.do = "head"
  BY <1>1, AtOne
<1>3. /\ u.do = "headreply" /\ u.then = t.then /\ u.kind = t.kind /\ u.in = t.in /\ u.loop = t.loop
      /\ u.expected = Len(log)
  BY <1>2 DEF IsTask, TaskFields
<1> HIDE DEF u
<1>4. "head" \in Loadings /\ u.do \in Loadings \ {"load"} /\ live = None
  BY <1>2, <1>3 DEF Loadings, TopOK
<1>5. QED
  BY <1>1, <1>3, <1>4, LoadingOne

\* A new instance with the fold of the journal takes the place in the map.
LEMMA InstallOne ==
  ASSUME NEW f \in Flow, Flow = {f}, DriverInv, OneFlowInv(f), NEW do \in {"headreply", "tailreply"},
         At(f, do), NEW s, s = TruthOf(log), Install(f, s), log' = log,
         cache' = None \/ FaithfulTo(cache', log)
  PROVE  OneFlowInv(f)'
<1> DEFINE q == flows[f]
           t == Current(f)
           i == CHOOSE x \in Instance : ~Referenced(x, flows, live)
           done == [t EXCEPT !.do = t.then, !.then = None, !.loop = i, !.state = None, !.expected = 0]
           instances == [x \in DOMAIN loops \cup {i} |-> IF x = i THEN s ELSE loops[x]]
           new == <<done>>
<1>1. /\ \E x \in Instance : ~Referenced(x, flows, live)
      /\ Proceed(f, new \o Tail(flows[f]), instances, i)
  BY DEF Install
<1>2. i \in Instance
  BY <1>1
<1> HIDE DEF i
<1>3. /\ q # <<>> /\ t = q[1] /\ t.do = do /\ IsTask(t, IdsOf(log), DOMAIN loops)
      /\ TopOK(t, live, log, loops) /\ LowerOK(q) /\ (Doomed(t, log) \/ SameLoop(q, live)) /\ ~Folding(q)
  BY AtOne
<1>4. t.do \in Loadings /\ live = None
  BY <1>3 DEF TopOK, Loadings
<1>5. IsSeq(q) /\ DOMAIN loops \subseteq Instance
  BY FlowIs
<1>6. done.do = t.then /\ done.kind = t.kind /\ done.in = t.in /\ done.loop = i
  BY <1>3 DEF IsTask, TaskFields
<1> HIDE DEF done
<1>7. Acts(done) = Acts(t) /\ done.do \notin {"reply", "fold"} /\ TopOK(done, i, log, instances)
  BY <1>3, <1>4, <1>6, LoadedTop
<1>8. (OfEvent(t) => OfEvent(done)) /\ (Doomed(t, log) => Doomed(done, log))
  BY <1>6, <1>7, SameActs
<1>9. /\ DOMAIN instances = DOMAIN loops \cup {i}
      /\ \A x \in DOMAIN instances : instances[x] = s \/ (x \in DOMAIN loops /\ instances[x] = loops[x])
  OBVIOUS
<1> HIDE DEF instances
<1>10. \A x \in DOMAIN instances : instances[x] = TruthOf(log)
  BY <1>3, <1>9 DEF OneFlowInv, OneFlowOK
<1>11. /\ IsSeq(new) /\ new # <<>> /\ DOMAIN new = {1} /\ new[1] = done /\ LowerOK(new)
       /\ SameLoop(new, i) /\ HoldsIn(new, i, DOMAIN instances)
  BY <1>6, <1>9, SingleTask
<1> HIDE DEF new
<1>12. \/ Doomed(new[1], log)
       \/ SameLoop(new, i) /\ \A k \in DOMAIN Tail(q) : Tail(q)[k].loop \in {None, i}
  <2>1. CASE Doomed(t, log)
    BY <1>8, <1>11, <2>1
  <2>2. CASE SameLoop(q, None)
    BY <1>3, <1>5, <1>11, <2>2, LoopsBelow
  <2>3. QED
    BY <1>3, <1>4, <2>1, <2>2
<1>13. /\ DOMAIN loops \subseteq DOMAIN instances /\ DOMAIN instances \subseteq Instance
       /\ OfEvent(t) => \A k \in DOMAIN new : OfEvent(new[k])
       /\ TopOK(new[1], i, log, instances) /\ log = log'
  BY <1>2, <1>5, <1>7, <1>8, <1>9, <1>11
<1>14. QED
  BY <1>1, <1>3, <1>10, <1>11, <1>12, <1>13, ReplaceOne

\* The cached state is the head's, or precedes it, or is of no use.
LEMMA CompareHeadOne ==
  ASSUME NEW f \in Flow, Flow = {f}, DriverInv, OneFlowInv(f), CompareHead(f)
  PROVE  OneFlowInv(f)'
<1> DEFINE t == Current(f)
           base == IF CachedThrough(t.expected) = None THEN InitialState ELSE cache
           u == [t EXCEPT !.do = "tail", !.state = base]
<1>1. /\ At(f, "headreply") /\ log' = log /\ cache' = cache
      /\ (base.lastSeq = t.expected /\ Install(f, base)) \/ Become(f, u)
  BY DEF CompareHead, durable
<1>2. IsTask(t, IdsOf(log), DOMAIN loops) /\ TopOK(t, live, log, loops) /\ t.do = "headreply"
  BY <1>1, AtOne
<1>3. live = None /\ t.expected = Len(log)
  BY <1>2 DEF TopOK, Loadings
<1>4. IsLog(log) /\ IsSeq(log) /\ (cache = None \/ FaithfulTo(cache, log))
  BY FlowIs DEF IsLog
<1>5. FaithfulTo(base, log)
  <2>1. FaithfulTo(InitialState, log)
    BY <1>4, FaithfulStates
  <2>2. CachedThrough(t.expected) # None => cache # None
    BY DEF CachedThrough
  <2>3. QED
    BY <1>4, <2>1, <2>2
<1> HIDE DEF base
<1>6. CASE base.lastSeq = t.expected /\ Install(f, base)
  <2>1. base = TruthOf(log)
    BY <1>3, <1>4, <1>5, <1>6, FaithfulLeads
  <2>2. cache' = None \/ FaithfulTo(cache', log)
    BY <1>1, <1>4
  <2>3. QED
    BY <1>1, <1>6, <2>1, <2>2, InstallOne
<1>7. CASE Become(f, u)
  <2>1. /\ u.do = "tail" /\ u.then = t.then /\ u.kind = t.kind /\ u.in = t.in /\ u.loop = t.loop
        /\ u.state = base
    BY <1>2 DEF IsTask, TaskFields
  <2> HIDE DEF u
  <2>2. "headreply" \in Loadings /\ u.do \in Loadings \ {"load"}
    BY <2>1 DEF Loadings
  <2>3. FoldEvents(u.state, SubSeq(log, u.state.lastSeq + 1, Len(log))) = TruthOf(log)
    BY <1>4, <1>5, <2>1, FaithfulLeads
  <2>4. QED
    BY <1>1, <1>3, <1>7, <2>1, <2>2, <2>3, LoadingOne
<1>8. QED
  BY <1>1, <1>6, <1>7

\* The store answers readLog.
LEMMA ReadTailOne ==
  ASSUME NEW f \in Flow, Flow = {f}, DriverInv, OneFlowInv(f), ReadTail(f)
  PROVE  OneFlowInv(f)'
<1> DEFINE t == Current(f)
           s == FoldEvents(t.state, SubSeq(log, t.state.lastSeq + 1, Len(log)))
           u == [t EXCEPT !.do = "tailreply", !.state = s]
<1>1. At(f, "tail") /\ log' = log /\ cache' = cache
  BY DEF ReadTail, durable
<1>2. IsTask(t, IdsOf(log), DOMAIN loops) /\ TopOK(t, live, log, loops) /\ t.do = "tail"
  BY <1>1, AtOne
<1>3. Become(f, u)
  BY <1>2 DEF ReadTail, IsTask, TaskFields
<1>4. live = None /\ s = TruthOf(log)
  BY <1>2 DEF TopOK, Loadings
<1> HIDE DEF s
<1>5. /\ u.do = "tailreply" /\ u.then = t.then /\ u.kind = t.kind /\ u.in = t.in /\ u.loop = t.loop
      /\ u.state = s
  BY <1>2 DEF IsTask, TaskFields
<1> HIDE DEF u
<1>6. "tail" \in Loadings /\ u.do \in Loadings \ {"load"}
  BY <1>5 DEF Loadings
<1>7. QED
  BY <1>1, <1>3, <1>4, <1>5, <1>6, LoadingOne

\* The tail is folded and the state cached.
LEMMA LoadTailOne ==
  ASSUME NEW f \in Flow, Flow = {f}, DriverInv, OneFlowInv(f), LoadTail(f)
  PROVE  OneFlowInv(f)'
<1> DEFINE s == Current(f).state
<1>1. At(f, "tailreply") /\ Install(f, s) /\ cache' = s /\ log' = log
  BY DEF LoadTail
<1>2. s = TruthOf(log)
  BY <1>1, AtOne DEF TopOK
<1>3. FaithfulTo(cache', log)
  BY <1>1, <1>2, FlowIs, FaithfulStates
<1> HIDE DEF s
<1>4. QED
  BY <1>1, <1>2, <1>3, InstallOne

-----------------------------------------------------------------------------
(* runStep and append.                                                     *)

\* A step is run on the fold of the journal.
LEMMA RunStepOne ==
  ASSUME NEW f \in Flow, Flow = {f}, DriverInv, OneFlowInv(f), RunStep(f)
  PROVE  OneFlowInv(f)'
<1> DEFINE t == Current(f)
           out == Step(State(f), t.in)
           u == [t EXCEPT !.do = "send", !.items = out.append, !.effects = out.effects]
<1>1. /\ At(f, "step") /\ log' = log /\ cache' = cache
      /\ (out = Empty /\ Proceed(f, Tail(flows[f]), loops, live)) \/ (out # Empty /\ Become(f, u))
  BY DEF RunStep, Pop, durable
<1>2. /\ t.do = "step" /\ IsTask(t, IdsOf(log), DOMAIN loops) /\ t.loop \in DOMAIN loops
      /\ State(f) = TruthOf(log)
  BY <1>1, AtOne DEF WithLoop
<1>3. out = Step(TruthOf(log), t.in) /\ Acts(t) = "step" /\ t.kind = "step"
  BY <1>2 DEF IsTask, Acts, Loadings
<1> HIDE DEF out
<1>4. CASE out = Empty /\ Proceed(f, Tail(flows[f]), loops, live)
  <2>1. ~Doomed(t, log)
    BY <1>3, <1>4 DEF Doomed, Refused
  <2>2. QED
    BY <1>1, <1>4, <2>1, PopOne
<1>5. CASE out # Empty /\ Become(f, u)
  <2>1. u.do = "send" /\ u.kind = t.kind /\ u.in = t.in /\ u.loop = t.loop /\ u.items = out.append
    BY <1>2 DEF IsTask, TaskFields
  <2> HIDE DEF u
  <2>2. Acts(u) = "send"
    BY <2>1 DEF Acts, Loadings
  <2>3. (OfEvent(t) => OfEvent(u)) /\ (Doomed(t, log) => Doomed(u, log))
    BY <1>3, <2>1, <2>2 DEF OfEvent, Doomed, Stepping
  <2>4. TopOK(u, live, log, loops)
    BY <1>3, <1>5, <2>1 DEF TopOK, Loadings
  <2>5. "step" \notin Loadings
    BY DEF Loadings
  <2>6. QED
    BY <1>1, <1>2, <1>5, <2>1, <2>3, <2>4, <2>5, BecomeOne
<1>6. QED
  BY <1>1, <1>4, <1>5

\* The head that is expected is the journal's.
LEMMA SendOne ==
  ASSUME NEW f \in Flow, Flow = {f}, DriverInv, OneFlowInv(f), Send(f)
  PROVE  OneFlowInv(f)'
<1> DEFINE t == Current(f)
           u == [t EXCEPT !.do = "commit", !.expected = State(f).lastSeq]
<1>1. At(f, "send") /\ log' = log /\ cache' = cache /\ Become(f, u)
  BY DEF Send, durable
<1>2. /\ t.do = "send" /\ IsTask(t, IdsOf(log), DOMAIN loops) /\ t.loop \in DOMAIN loops
      /\ State(f) = TruthOf(log) /\ TopOK(t, live, log, loops)
  BY <1>1, AtOne DEF WithLoop
<1>3. State(f).lastSeq = Len(log)
  BY <1>2, FlowIs
<1>4. /\ u.do = "commit" /\ u.kind = t.kind /\ u.in = t.in /\ u.loop = t.loop /\ u.items = t.items
      /\ u.expected = Len(log)
  BY <1>2, <1>3 DEF IsTask, TaskFields
<1> HIDE DEF u
<1>5. Acts(u) = "commit" /\ Acts(t) = "send"
  BY <1>2, <1>4 DEF Acts, Loadings
<1>6. (OfEvent(t) => OfEvent(u)) /\ (Doomed(t, log) => Doomed(u, log))
  BY <1>4, <1>5 DEF OfEvent, Doomed, Stepping
<1>7. TopOK(u, live, log, loops)
  BY <1>2, <1>4 DEF TopOK, Loadings
<1>8. "send" \notin Loadings
  BY DEF Loadings
<1>9. QED
  BY <1>1, <1>2, <1>4, <1>6, <1>7, <1>8, BecomeOne

\* Of the envelopes of an append, those after the journal are the ones it inserts.
LEMMA NewEnvelopes ==
  ASSUME IsLog(log), NEW items, NEW tags, Batch(items, tags), NEW expected,
         AppendError(expected, items) = None
  PROVE  IsSeq(Inserted(items)) /\ After(Envelopes(items), Len(log)) = Inserted(items)
<1> DEFINE p == Replayed(items)
           new == Inserted(items)
           old == [i \in 1 .. p |-> log[Position(items[i])]]
<1>1. IsSeq(items) /\ IsSeq(log)
  BY DEF Batch, IsLog
<1>2. p \in Nat /\ \A i \in 1 .. p : Journaled(items[i].id)
  BY <1>1, ReplayedPrefix, SeqDomain
<1>3. IsSeq(new) /\ \A i \in DOMAIN new : new[i].seq = Len(log) + i
  BY InsertedItems
<1>4. Len(log) \in Nat /\ DOMAIN log = 1 .. Len(log)
  BY <1>1, SeqDomain
<1>5. Envelopes(items) = old \o new
  BY DEF Envelopes
<1> HIDE DEF p, new
<1>6. \A i \in 1 .. p : log[Position(items[i])].seq \in 1 .. Len(log)
  <2>1. \A i \in 1 .. p : Position(items[i]) \in DOMAIN log
    BY <1>2 DEF Position, Journaled, JournaledAt
  <2>2. \A j \in DOMAIN log : log[j].seq = j
    BY DEF IsLog
  <2>3. QED
    BY <1>4, <2>1, <2>2
<1>7. IsSeq(old) /\ \A i \in DOMAIN old : old[i].seq \in 1 .. Len(log)
  <2>1. old \in [1 .. p -> {old[i] : i \in 1 .. p}] /\ DOMAIN old = 1 .. p
    OBVIOUS
  <2>2. IsSeq(old)
    BY <1>2, <2>1, FcnIsSeq
  <2>3. \A i \in 1 .. p : old[i] = log[Position(items[i])]
    OBVIOUS
  <2> HIDE DEF old
  <2>4. QED
    BY <1>6, <2>1, <2>2, <2>3
<1> HIDE DEF old
<1>8. After(old \o new, Len(log)) = new
  BY <1>3, <1>4, <1>7, AfterNew
<1>9. QED
  BY <1>3, <1>5, <1>8 DEF new

\* Below a task that the store does not refuse there is one loop.
LEMMA OneLoop ==
  ASSUME NEW f \in Flow, DriverInv, OneFlowInv(f), NEW do \in WithLoop, At(f, do),
         ~Doomed(Current(f), log)
  PROVE  /\ SameLoop(flows[f], live) /\ Current(f).loop = live
         /\ \A i \in DOMAIN loops : i = live
         /\ \A k \in DOMAIN Tail(flows[f]) : Tail(flows[f])[k].loop \in {None, live}
<1> DEFINE q == flows[f]
           t == Current(f)
<1>1. /\ q # <<>> /\ t = q[1] /\ t.do = do /\ t.loop \in DOMAIN loops /\ LowerOK(q) /\ SameLoop(q, live)
  BY AtOne
<1>2. IsSeq(q) /\ 1 \in DOMAIN q /\ DOMAIN loops \subseteq Instance
  BY <1>1, FlowIs
<1>3. do \notin Loadings
  BY DEF Loadings, WithLoop
<1>4. \A k \in DOMAIN q : q[k].loop \in {None, live}
  BY <1>1, <1>3 DEF SameLoop
<1>5. \A i \in DOMAIN loops : i = live
  <2>1. SUFFICES ASSUME NEW i \in DOMAIN loops PROVE i = live
    OBVIOUS
  <2>2. Held(i, q, live) /\ i # None
    BY <1>2, NoInstance DEF OneFlowInv, OneFlowOK
  <2>3. QED
    BY <1>4, <2>2 DEF Held
<1>6. \A k \in DOMAIN Tail(q) : Tail(q)[k].loop \in {None, live}
  BY <1>1, <1>2, LoopsBelow
<1>7. QED
  BY <1>1, <1>5, <1>6

\* The store appends the batch, or refuses it.
LEMMA CommitOne ==
  ASSUME NEW f \in Flow, Flow = {f}, DriverInv, OneFlowInv(f), Commit(f)
  PROVE  OneFlowInv(f)'
<1> DEFINE q == flows[f]
           t == Current(f)
           error == AppendError(t.expected, t.items)
           l == log \o Inserted(t.items)
           u == [t EXCEPT !.do = "reply", !.envs = Envelopes(t.items)]
           w == [t EXCEPT !.do = "stale", !.code = error]
<1>1. /\ At(f, "commit") /\ cache' = cache
      /\ \/ error = None /\ log' = l /\ Proceed(f, <<u>> \o Tail(flows[f]), loops, live)
         \/ error # None /\ Become(f, w) /\ log' = log
  BY DEF Commit, Become
<1>2. /\ q # <<>> /\ t = q[1] /\ t.do = "commit" /\ IsTask(t, IdsOf(log), DOMAIN loops)
      /\ t.loop \in DOMAIN loops /\ State(f) = TruthOf(log) /\ TopOK(t, live, log, loops)
  BY <1>1, AtOne DEF WithLoop
<1>3. /\ Acts(t) = "commit" /\ t.expected = Len(log)
      /\ t.kind = "step" => t.items = Step(TruthOf(log), t.in).append /\ Step(TruthOf(log), t.in) # Empty
  BY <1>2 DEF Acts, Loadings, TopOK
<1>4. error = ErrorOn(log, Len(log), t.items)
  BY <1>3, ErrorIs
<1>5. CASE error = None /\ log' = l /\ Proceed(f, <<u>> \o Tail(flows[f]), loops, live)
  <2>1. ~Doomed(t, log)
    BY <1>3, <1>4, <1>5 DEF Doomed, Stepping, Refused
  <2>2. /\ t.loop = live /\ \A k \in DOMAIN Tail(q) : Tail(q)[k].loop \in {None, live}
    BY <1>1, <2>1, OneLoop DEF WithLoop
  <2>3. PICK tags : Batch(t.items, tags)
    BY <1>2, <1>3 DEF IsTask, Appending
  <2>4. /\ IsLog(log) /\ IsSeq(log) /\ TruthOf(log).lastSeq = Len(log)
        /\ DOMAIN loops \subseteq Instance /\ live \in DOMAIN loops \cup {None}
        /\ cache = None \/ FaithfulTo(cache, log)
    BY FlowIs DEF IsLog, HoldsIn
  <2>5. IsSeq(Inserted(t.items)) /\ After(Envelopes(t.items), Len(log)) = Inserted(t.items)
    BY <1>5, <2>3, <2>4, NewEnvelopes
  <2>6. FoldEvents(TruthOf(log), Inserted(t.items)) = TruthOf(l)
    BY <2>4, <2>5, FoldConcat DEF TruthOf
  <2>7. cache' = None \/ FaithfulTo(cache', l)
    BY <1>1, <2>4, <2>5, FaithfulGrows
  <2>8. /\ u.do = "reply" /\ u.kind = t.kind /\ u.in = t.in /\ u.loop = t.loop
        /\ u.envs = Envelopes(t.items)
    BY <1>2 DEF IsTask, TaskFields
  <2> HIDE DEF u, l
  <2>9. OfEvent(t) => OfEvent(u)
    BY <1>3, <2>8 DEF OfEvent, Acts, Loadings
  <2>10. loops[t.loop] = TruthOf(log) /\ t.loop # None
    BY <1>2, <2>4, NoInstance DEF State
  <2>11. TopOK(u, live, l, loops)
    <3>1. FoldEvents(loops[u.loop], After(u.envs, loops[u.loop].lastSeq)) = TruthOf(l)
      BY <2>4, <2>5, <2>6, <2>8, <2>10
    <3>2. QED
      BY <2>8, <2>10, <3>1 DEF TopOK, Loadings
  <2> DEFINE new == <<u>>
  <2>12. /\ IsSeq(new) /\ new # <<>> /\ DOMAIN new = {1} /\ new[1] = u /\ LowerOK(new)
         /\ SameLoop(new, live) /\ HoldsIn(new, live, DOMAIN loops) /\ Folding(new)
    BY <1>2, <2>2, <2>4, <2>8, SingleTask
  <2>13. Proceed(f, new \o Tail(flows[f]), loops, live) /\ l = log'
    BY <1>5
  <2> HIDE DEF new
  <2>14. /\ OfEvent(t) => \A k \in DOMAIN new : OfEvent(new[k])
         /\ TopOK(new[1], live, l, loops) /\ DOMAIN loops \subseteq DOMAIN loops
    BY <2>9, <2>11, <2>12
  <2>15. QED
    BY <1>2, <2>2, <2>4, <2>7, <2>12, <2>13, <2>14, ReplaceOne
<1>6. CASE error # None /\ Become(f, w) /\ log' = log
  <2>1. t.kind = "step" => Refused(t.in, log)
    BY <1>3, <1>4, <1>6 DEF Refused
  <2> HIDE DEF error
  <2>2. w.do = "stale" /\ w.kind = t.kind /\ w.in = t.in /\ w.items = t.items /\ w.loop = t.loop
    BY <1>2 DEF IsTask, TaskFields
  <2> HIDE DEF w
  <2>3. Acts(w) = "stale"
    BY <2>2 DEF Acts, Loadings
  <2>4. (OfEvent(t) => OfEvent(w)) /\ (Doomed(t, log) => Doomed(w, log))
    BY <1>3, <2>2, <2>3 DEF OfEvent, Doomed, Stepping
  <2>5. TopOK(w, live, log, loops)
    BY <1>3, <2>1, <2>2 DEF TopOK, Loadings
  <2>6. "commit" \notin Loadings
    BY DEF Loadings
  <2>7. QED
    BY <1>1, <1>2, <1>6, <2>2, <2>4, <2>5, <2>6, BecomeOne
<1>7. QED
  BY <1>1, <1>5, <1>6

\* The envelopes that are new to the loop's state are kept.
LEMMA ReplyOne ==
  ASSUME NEW f \in Flow, Flow = {f}, DriverInv, OneFlowInv(f), Reply(f)
  PROVE  OneFlowInv(f)'
<1> DEFINE t == Current(f)
           envs == After(t.envs, State(f).lastSeq)
           u == [t EXCEPT !.do = "fold", !.envs = envs]
<1>1. At(f, "reply") /\ log' = log /\ cache' = cache /\ Become(f, u)
  BY DEF Reply, durable
<1>2. /\ t.do = "reply" /\ IsTask(t, IdsOf(log), DOMAIN loops) /\ t.loop \in DOMAIN loops
      /\ TopOK(t, live, log, loops)
  BY <1>1, AtOne DEF WithLoop
<1>3. FoldEvents(loops[t.loop], envs) = TruthOf(log) /\ t.loop # None
  BY <1>2 DEF TopOK, State
<1> HIDE DEF envs
<1>4. u.do = "fold" /\ u.kind = t.kind /\ u.in = t.in /\ u.loop = t.loop /\ u.envs = envs
  BY <1>2 DEF IsTask, TaskFields
<1> HIDE DEF u
<1>5. Acts(u) = "fold" /\ Acts(t) = "reply"
  BY <1>2, <1>4 DEF Acts, Loadings
<1>6. (OfEvent(t) => OfEvent(u)) /\ (Doomed(t, log) => Doomed(u, log))
  BY <1>4, <1>5 DEF OfEvent, Doomed, Stepping
<1>7. TopOK(u, live, log, loops)
  BY <1>3, <1>4 DEF TopOK, Loadings
<1>8. "reply" \notin Loadings
  BY DEF Loadings
<1>9. QED
  BY <1>1, <1>2, <1>4, <1>6, <1>7, <1>8, BecomeOne

\* The cascade of envelopes: steps that answer events.
LEMMA CascadeOne ==
  ASSUME NEW envs, IsSeq(envs), NEW retries, NEW loop
  PROVE  LET q == Cascade(loop, envs, retries)
         IN  /\ IsSeq(q)
             /\ \A k \in DOMAIN q :
                  q[k].do = "step" /\ q[k].kind = "step" /\ q[k].loop = loop /\ OfEvent(q[k])
<1> DEFINE q == Cascade(loop, envs, retries)
<1>1. Len(envs) \in Nat /\ DOMAIN envs = 1 .. Len(envs)
  BY SeqDomain
<1>2. q = [i \in DOMAIN envs |-> [StepTask(Incoming("event", envs[i]), retries) EXCEPT !.loop = loop]]
  BY DEF Cascade
<1> HIDE DEF q
<1>3. IsSeq(q)
  <2>1. q \in [1 .. Len(envs) -> {q[i] : i \in 1 .. Len(envs)}]
    BY <1>1, <1>2
  <2>2. QED
    BY <1>1, <2>1, FcnIsSeq
<1>4. ASSUME NEW k \in DOMAIN q
      PROVE  q[k].do = "step" /\ q[k].kind = "step" /\ q[k].loop = loop /\ OfEvent(q[k])
  <2> DEFINE in == Incoming("event", envs[k])
             t == StepTask(in, retries)
  <2>1. in.type = "event"
    BY DEF Incoming
  <2>2. q[k] = [t EXCEPT !.loop = loop]
    BY <1>2
  <2> HIDE DEF in
  <2>3. t = [x \in TaskFields |-> t[x]] /\ t.do = "step" /\ t.kind = "step" /\ t.in = in
    BY StepTaskIs
  <2> HIDE DEF t
  <2>4. q[k].do = "step" /\ q[k].kind = "step" /\ q[k].in = in /\ q[k].loop = loop
    BY <2>2, <2>3 DEF TaskFields
  <2>5. QED
    BY <2>1, <2>4 DEF OfEvent, Acts, Loadings
<1>5. QED
  BY <1>3, <1>4 DEF q

\* The envelopes are folded: the loop's state is the fold of the journal again.
LEMMA FoldOneFlow ==
  ASSUME NEW f \in Flow, Flow = {f}, DriverInv, OneFlowInv(f), Fold(f)
  PROVE  OneFlowInv(f)'
<1> DEFINE q == flows[f]
           t == Current(f)
           s == FoldEvents(State(f), t.envs)
           next == CASE t.kind = "step" -> Cascade(t.loop, t.envs, t.retries)
                     [] t.kind = "outcome" -> Cascade(t.loop, t.envs, AppendRetries)
                     [] t.kind \in {"suspend", "stranded"} -> <<>>
           instances == [loops EXCEPT ![t.loop] = s]
<1>1. /\ At(f, "fold") /\ Proceed(f, next \o Tail(flows[f]), instances, live)
      /\ cache' = s /\ log' = log
  BY DEF Fold
<1>2. /\ q # <<>> /\ t = q[1] /\ t.do = "fold" /\ IsTask(t, IdsOf(log), DOMAIN loops)
      /\ t.loop \in DOMAIN loops /\ TopOK(t, live, log, loops)
  BY <1>1, AtOne DEF WithLoop
<1>3. /\ Acts(t) = "fold" /\ IsSeq(t.envs) /\ t.kind \in {"step", "outcome", "suspend", "stranded"}
      /\ s = TruthOf(log)
  BY <1>2 DEF IsTask, Acts, Loadings, Appending, GoodEvents, TopOK, State
<1>4. ~Doomed(t, log)
  BY <1>3 DEF Doomed, Stepping
<1>5. /\ t.loop = live /\ (\A i \in DOMAIN loops : i = live)
      /\ \A k \in DOMAIN Tail(q) : Tail(q)[k].loop \in {None, live}
  BY <1>1, <1>4, OneLoop DEF WithLoop
<1>6. DOMAIN instances = DOMAIN loops /\ \A i \in DOMAIN loops : i = t.loop => instances[i] = s
  OBVIOUS
<1> HIDE DEF s, instances
<1>7. \A i \in DOMAIN instances : instances[i] = TruthOf(log)
  BY <1>3, <1>5, <1>6
<1>8. /\ IsSeq(next)
      /\ \A k \in DOMAIN next :
           next[k].do = "step" /\ next[k].kind = "step" /\ next[k].loop = live /\ OfEvent(next[k])
  <2>1. \A r : LET c == Cascade(t.loop, t.envs, r)
               IN  /\ IsSeq(c)
                   /\ \A k \in DOMAIN c :
                        c[k].do = "step" /\ c[k].kind = "step" /\ c[k].loop = live /\ OfEvent(c[k])
    BY <1>3, <1>5, CascadeOne
  <2>2. \/ next = Cascade(t.loop, t.envs, t.retries) \/ next = Cascade(t.loop, t.envs, AppendRetries)
        \/ next = <<>>
    BY <1>3
  <2> HIDE DEF next
  <2>3. QED
    BY <2>1, <2>2, SeqEmpty
<1> HIDE DEF next
<1>9. IsLog(log) /\ DOMAIN loops \subseteq Instance
  BY FlowIs
<1>10. LowerOK(next) /\ SameLoop(next, live) /\ HoldsIn(next, live, DOMAIN instances)
  <2>1. \A k \in DOMAIN next : \A j \in 1 .. k - 1 : j \in DOMAIN next
    BY <1>8, SeqDomain
  <2>2. QED
    BY <1>2, <1>5, <1>6, <1>8, <2>1 DEF LowerOK, SameLoop, HoldsIn, Unbegun
<1>11. next # <<>> => TopOK(next[1], live, log, instances)
  <2>1. SUFFICES ASSUME next # <<>> PROVE TopOK(next[1], live, log, instances)
    OBVIOUS
  <2>2. 1 \in DOMAIN next
    BY <1>8, <2>1, SeqTail, SeqDomain
  <2>3. next[1].do = "step"
    BY <1>8, <2>2
  <2>4. QED
    BY <2>3 DEF TopOK, Loadings
<1>12. FaithfulTo(cache', log)
  BY <1>1, <1>3, <1>9, FaithfulStates
<1>13. /\ log = log' /\ DOMAIN loops \subseteq DOMAIN instances /\ DOMAIN instances \subseteq Instance
       /\ OfEvent(t) => \A k \in DOMAIN next : OfEvent(next[k])
  BY <1>1, <1>6, <1>8, <1>9
<1>14. QED
  BY <1>1, <1>2, <1>5, <1>7, <1>8, <1>10, <1>11, <1>12, <1>13, ReplaceOne

-----------------------------------------------------------------------------
(* An append that is refused.                                              *)

\* A step whose append is refused is refused again, or the flow gives it up.
LEMMA StaleStepOne ==
  ASSUME NEW f \in Flow, Flow = {f}, DriverInv, OneFlowInv(f), StaleStep(f)
  PROVE  OneFlowInv(f)'
<1> DEFINE q == flows[f]
           t == Current(f)
           a == StepTask(t.in, t.retries - 1)
           again == [a EXCEPT !.loop = None]
           u == Loading(again)
           new == <<u>>
<1>1. /\ At(f, "stale") /\ t.kind = "step" /\ log' = log /\ cache' = cache
      /\ \/ Proceed(f, new \o Tail(flows[f]), loops, None)
         \/ t.in.type = "prompt" /\ Proceed(f, Tail(flows[f]), loops, live)
         \/ Proceed(f, <<>>, loops, live)
  BY DEF StaleStep, Pop, Throw, durable
<1>2. /\ q # <<>> /\ t = q[1] /\ t.do = "stale" /\ TopOK(t, live, log, loops) /\ ~Folding(q)
  BY <1>1, AtOne
<1>3. Refused(t.in, log) /\ Acts(t) = "stale"
  BY <1>1, <1>2 DEF TopOK, Acts, Loadings
<1>4. CASE Proceed(f, new \o Tail(flows[f]), loops, None)
  <2>1. /\ a = [x \in TaskFields |-> a[x]] /\ a.do = "step" /\ a.kind = "step" /\ a.loop = None
        /\ a.in = t.in
    BY StepTaskIs
  <2> HIDE DEF a
  <2>2. /\ again = [x \in TaskFields |-> again[x]] /\ again.do = "step" /\ again.kind = "step"
        /\ again.loop = None /\ again.in = t.in
    BY <2>1 DEF TaskFields
  <2> HIDE DEF again
  <2>3. u.do = "load" /\ u.then = "step" /\ u.kind = "step" /\ u.loop = None /\ u.in = t.in
    BY <2>2, LoadingIs
  <2> HIDE DEF u
  <2>4. Acts(u) = "step"
    BY <2>3 DEF Acts, Loadings
  <2>5. Doomed(u, log) /\ (OfEvent(t) => OfEvent(u))
    BY <1>1, <1>3, <2>3, <2>4 DEF Doomed, Stepping, OfEvent
  <2>6. TopOK(u, None, log, loops)
    BY <2>3 DEF TopOK, Loadings
  <2>7. /\ IsSeq(new) /\ new # <<>> /\ DOMAIN new = {1} /\ new[1] = u /\ LowerOK(new)
        /\ HoldsIn(new, None, DOMAIN loops)
    BY <2>3, SingleTask
  <2> HIDE DEF new
  <2>8. /\ DOMAIN loops \subseteq Instance /\ (cache' = None \/ FaithfulTo(cache', log))
        /\ \A i \in DOMAIN loops : loops[i] = TruthOf(log)
    BY <1>1, <1>2, FlowIs DEF OneFlowInv, OneFlowOK
  <2>9. /\ Doomed(new[1], log) /\ (OfEvent(t) => \A k \in DOMAIN new : OfEvent(new[k]))
        /\ TopOK(new[1], None, log, loops) /\ log = log' /\ DOMAIN loops \subseteq DOMAIN loops
    BY <1>1, <2>5, <2>6, <2>7
  <2>10. QED
    BY <1>2, <1>4, <2>7, <2>8, <2>9, ReplaceOne
<1>5. CASE t.in.type = "prompt" /\ Proceed(f, Tail(flows[f]), loops, live)
  <2>1. ~OfEvent(t)
    BY <1>5 DEF OfEvent
  <2>2. QED
    BY <1>1, <1>5, <2>1, PopOne
<1>6. CASE Proceed(f, <<>>, loops, live)
  <2>1. Fresh(<<>>)
    BY SeqEmpty DEF Fresh
  <2>2. QED
    BY <1>1, <1>2, <1>6, <2>1, FreshOne
<1>7. QED
  BY <1>1, <1>4, <1>5, <1>6

\* A task that is no step for an event gives up the loop and starts over.
LEMMA RestartOne ==
  ASSUME NEW f \in Flow, Flow = {f}, DriverInv, OneFlowInv(f), NEW do, At(f, do),
         do \notin {"reply", "fold"}, ~OfEvent(Current(f)),
         NEW u, Proceed(f, <<u>> \o Tail(flows[f]), loops, None), log' = log, cache' = cache,
         u.do = "load", u.loop \in DOMAIN loops \cup {None}
  PROVE  OneFlowInv(f)'
<1> DEFINE q == flows[f]
           t == Current(f)
           new == <<u>>
<1>1. q # <<>> /\ t = q[1] /\ LowerOK(q) /\ ~Folding(q)
  BY AtOne
<1>2. u.do \in Loadings /\ TopOK(u, None, log, loops)
  BY DEF TopOK, Loadings
<1>3. /\ IsSeq(new) /\ new # <<>> /\ DOMAIN new = {1} /\ new[1] = u /\ LowerOK(new)
      /\ SameLoop(new, None) /\ HoldsIn(new, None, DOMAIN loops)
  BY <1>2, SingleTask
<1>4. Proceed(f, new \o Tail(flows[f]), loops, None)
  OBVIOUS
<1> HIDE DEF new
<1>5. /\ IsSeq(q) /\ DOMAIN loops \subseteq Instance /\ (cache' = None \/ FaithfulTo(cache', log))
      /\ \A i \in DOMAIN loops : loops[i] = TruthOf(log)
  BY <1>1, FlowIs DEF OneFlowInv, OneFlowOK
<1>6. \A k \in DOMAIN Tail(q) : Tail(q)[k].loop \in {None, None}
  BY <1>1, <1>5, LoopsBelow
<1>7. TopOK(new[1], None, log, loops) /\ log = log' /\ DOMAIN loops \subseteq DOMAIN loops
  BY <1>2, <1>3
<1>8. QED
  BY <1>1, <1>3, <1>4, <1>5, <1>6, <1>7, ReplaceOne

\* applyOutcome.
LEMMA StaleOutcomeOne ==
  ASSUME NEW f \in Flow, Flow = {f}, DriverInv, OneFlowInv(f), StaleOutcome(f)
  PROVE  OneFlowInv(f)'
<1> DEFINE t == Current(f)
           a == OutcomeTask(t.row, t.items)
           again == [a EXCEPT !.retries = t.retries - 1]
           u == Loading(again)
<1>1. /\ At(f, "stale") /\ t.kind = "outcome" /\ log' = log /\ cache' = cache
      /\ \/ Proceed(f, <<u>> \o Tail(flows[f]), loops, None)
         \/ Proceed(f, <<>>, loops, live)
         \/ Proceed(f, Tail(flows[f]), loops, None)
  BY DEF StaleOutcome, Throw
<1>2. ~Folding(flows[f]) /\ ~OfEvent(t)
  BY <1>1, AtOne DEF OfEvent
<1>3. CASE Proceed(f, <<u>> \o Tail(flows[f]), loops, None)
  <2>1. again = [x \in TaskFields |-> again[x]] /\ again.loop = None
    BY DEF OutcomeTask, Task, TaskFields
  <2> HIDE DEF again
  <2>2. u.do = "load" /\ u.loop = None
    BY <2>1, LoadingIs
  <2> HIDE DEF u
  <2>3. QED
    BY <1>1, <1>2, <1>3, <2>2, RestartOne
<1>4. CASE Proceed(f, <<>>, loops, live)
  BY <1>1, <1>2, <1>4, SeqEmpty, FreshOne DEF Fresh
<1>5. CASE Proceed(f, Tail(flows[f]), loops, None)
  BY <1>1, <1>2, <1>5, PopOne
<1>6. QED
  BY <1>1, <1>3, <1>4, <1>5

\* settle loads the loop.
LEMMA SettleIs == Settle.do = "load" /\ Settle.loop = None
<1> DEFINE t == Task("reconcile")
<1>1. t = [x \in TaskFields |-> t[x]] /\ t.loop = None
  BY TaskIs
<1> HIDE DEF t
<1>2. Loading(t).do = "load" /\ Loading(t).loop = None
  BY <1>1, LoadingIs
<1>3. QED
  BY <1>2 DEF Settle, t

\* suspendOnCredential.
LEMMA StaleSuspendOne ==
  ASSUME NEW f \in Flow, Flow = {f}, DriverInv, OneFlowInv(f), StaleSuspend(f)
  PROVE  OneFlowInv(f)'
<1>1. /\ At(f, "stale") /\ Current(f).kind = "suspend" /\ log' = log /\ cache' = cache
      /\ Proceed(f, <<Settle>> \o Tail(flows[f]), loops, None)
  BY DEF StaleSuspend
<1>2. ~OfEvent(Current(f))
  BY <1>1 DEF OfEvent
<1>3. QED
  BY <1>1, <1>2, SettleIs, RestartOne

\* appendStrandedOpenTurnFailure.
LEMMA StaleStrandedOne ==
  ASSUME NEW f \in Flow, Flow = {f}, DriverInv, OneFlowInv(f), StaleStranded(f)
  PROVE  OneFlowInv(f)'
<1> DEFINE t == Current(f)
           again == [t EXCEPT !.do = "restrand", !.retries = 0]
           u == Loading(again)
<1>1. /\ At(f, "stale") /\ t.kind = "stranded" /\ log' = log /\ cache' = cache
      /\ \/ Proceed(f, <<u>> \o Tail(flows[f]), loops, None)
         \/ Proceed(f, <<>>, loops, live)
  BY DEF StaleStranded, Throw, durable
<1>2. /\ ~Folding(flows[f]) /\ ~OfEvent(t) /\ IsTask(t, IdsOf(log), DOMAIN loops)
      /\ t.loop \in DOMAIN loops \cup {None}
  BY <1>1, AtOne DEF OfEvent
<1>3. CASE Proceed(f, <<u>> \o Tail(flows[f]), loops, None)
  <2>1. again = [x \in TaskFields |-> again[x]] /\ again.loop = t.loop
    BY <1>2 DEF IsTask, TaskFields
  <2> HIDE DEF again
  <2>2. u.do = "load" /\ u.loop = t.loop
    BY <2>1, LoadingIs
  <2> HIDE DEF u
  <2>3. QED
    BY <1>1, <1>2, <1>3, <2>2, RestartOne
<1>4. CASE Proceed(f, <<>>, loops, live)
  BY <1>1, <1>2, <1>4, SeqEmpty, FreshOne DEF Fresh
<1>5. QED
  BY <1>1, <1>3, <1>4

\* A stranded turn is looked at again after the reload.
LEMMA RetryStrandedOne ==
  ASSUME NEW f \in Flow, Flow = {f}, DriverInv, OneFlowInv(f), RetryStranded(f)
  PROVE  OneFlowInv(f)'
<1> DEFINE t == Current(f)
           u == [t EXCEPT !.do = "send"]
<1>1. /\ At(f, "restrand") /\ log' = log /\ cache' = cache
      /\ Become(f, u) \/ Proceed(f, Tail(flows[f]), loops, live)
  BY DEF RetryStranded, Pop, durable
<1>2. t.do = "restrand" /\ IsTask(t, IdsOf(log), DOMAIN loops) /\ t.loop \in DOMAIN loops
  BY <1>1, AtOne DEF WithLoop
<1>3. Acts(t) = "restrand" /\ t.kind # "step"
  BY <1>2 DEF IsTask, Acts, Loadings, Appending
<1>4. ~OfEvent(t) /\ ~Doomed(t, log)
  BY <1>3 DEF OfEvent, Doomed, Stepping
<1>5. CASE Become(f, u)
  <2>1. u.do = "send" /\ u.kind = t.kind /\ u.loop = t.loop
    BY <1>2 DEF IsTask, TaskFields
  <2> HIDE DEF u
  <2>2. TopOK(u, live, log, loops) /\ "restrand" \notin Loadings
    BY <1>3, <2>1 DEF TopOK, Loadings
  <2>3. QED
    BY <1>1, <1>2, <1>4, <1>5, <2>1, <2>2, BecomeOne
<1>6. CASE Proceed(f, Tail(flows[f]), loops, live)
  BY <1>1, <1>4, <1>6, PopOne
<1>7. QED
  BY <1>1, <1>5, <1>6

-----------------------------------------------------------------------------
(* settle, wake and recovery; what is done in one go.                      *)

\* A task that is no step is done.
LEMMA DoneOne ==
  ASSUME NEW f \in Flow, Flow = {f}, DriverInv, OneFlowInv(f), NEW do, At(f, do),
         do \notin Loadings \cup {"step", "send", "commit", "reply", "fold", "stale"},
         NEW map \in {live, None}, Proceed(f, Tail(flows[f]), loops, map), log' = log, cache' = cache
  PROVE  OneFlowInv(f)'
<1>1. Current(f).do = do
  BY AtOne
<1>2. ~OfEvent(Current(f))
  BY <1>1 DEF OfEvent, Acts
<1>3. QED
  BY <1>2, PopOne

\* The actions that end with a task that is done.
LEMMA DoneActions ==
  ASSUME NEW f \in Flow, Flow = {f}, DriverInv, OneFlowInv(f),
         \/ ReconcileLoop(f) \/ DropLoop(f) \/ Execute(f) \/ DeleteRow(f) \/ Acknowledge(f)
         \/ AbortChannel(f) \/ ScheduleLoop(f) \/ Unschedule(f)
  PROVE  OneFlowInv(f)'
<1>1. PICK do \in {"reconcile", "drop", "execute", "delete", "ack", "abort", "schedule", "unschedule"} :
        At(f, do)
  BY DEF ReconcileLoop, DropLoop, Execute, DeleteRow, Acknowledge, AbortChannel, ScheduleLoop, Unschedule
<1>2. log' = log /\ cache' = cache /\ \E map \in {live, None} : Proceed(f, Tail(flows[f]), loops, map)
  BY DEF ReconcileLoop, DropLoop, Execute, DeleteRow, Acknowledge, AbortChannel, ScheduleLoop,
         Unschedule, Pop, durable
<1>3. do \notin Loadings \cup {"step", "send", "commit", "reply", "fold", "stale"}
  BY <1>1 DEF Loadings
<1>4. QED
  BY <1>1, <1>2, <1>3, DoneOne

\* The call that is in flight is taken up, unless somebody has it.
LEMMA WakeLoopOne ==
  ASSUME NEW f \in Flow, Flow = {f}, DriverInv, OneFlowInv(f), WakeLoop(f)
  PROVE  OneFlowInv(f)'
<1> DEFINE t == Current(f)
           a == StepTask(Incoming("wake", None), AppendRetries)
           u == [a EXCEPT !.loop = t.loop]
<1>1. /\ At(f, "wake") /\ log' = log /\ cache' = cache
      /\ Become(f, u) \/ Proceed(f, Tail(flows[f]), loops, live)
  BY DEF WakeLoop, Pop, durable
<1>2. t.do = "wake" /\ t.loop \in DOMAIN loops
  BY <1>1, AtOne DEF WithLoop
<1>3. "wake" \notin Loadings /\ Acts(t) = "wake"
  BY <1>2 DEF Acts, Loadings
<1>4. ~OfEvent(t) /\ ~Doomed(t, log)
  BY <1>3 DEF OfEvent, Doomed, Stepping
<1>5. CASE Become(f, u)
  <2>1. a = [x \in TaskFields |-> a[x]] /\ a.do = "step"
    BY StepTaskIs
  <2> HIDE DEF a
  <2>2. u.do = "step" /\ u.loop = t.loop
    BY <2>1 DEF TaskFields
  <2> HIDE DEF u
  <2>3. TopOK(u, live, log, loops)
    BY <2>2 DEF TopOK, Loadings
  <2>4. QED
    BY <1>1, <1>2, <1>3, <1>4, <1>5, <2>2, <2>3, BecomeOne
<1>6. CASE Proceed(f, Tail(flows[f]), loops, live)
  BY <1>1, <1>4, <1>6, PopOne
<1>7. QED
  BY <1>1, <1>5, <1>6

\* suspendOnCredential.
LEMMA SuspendOne ==
  ASSUME NEW f \in Flow, Flow = {f}, DriverInv, OneFlowInv(f), Suspend(f)
  PROVE  OneFlowInv(f)'
<1> DEFINE t == Current(f)
<1>1. /\ At(f, "suspend") /\ log' = log /\ cache' = cache
      /\ \E items : Become(f, [t EXCEPT !.do = "send", !.kind = "suspend", !.items = items])
  BY DEF Suspend, durable
<1>2. PICK items : Become(f, [t EXCEPT !.do = "send", !.kind = "suspend", !.items = items])
  BY <1>1
<1> DEFINE u == [t EXCEPT !.do = "send", !.kind = "suspend", !.items = items]
<1>3. t.do = "suspend" /\ t.loop \in DOMAIN loops /\ IsTask(t, IdsOf(log), DOMAIN loops)
  BY <1>1, AtOne DEF WithLoop
<1>4. "suspend" \notin Loadings /\ Acts(t) = "suspend"
  BY <1>3 DEF Acts, Loadings
<1>5. ~OfEvent(t) /\ ~Doomed(t, log)
  BY <1>4 DEF OfEvent, Doomed, Stepping
<1>6. u.do = "send" /\ u.kind = "suspend" /\ u.loop = t.loop
  BY <1>3 DEF IsTask, TaskFields
<1>7. Become(f, u)
  BY <1>2
<1> HIDE DEF u
<1>8. TopOK(u, live, log, loops)
  BY <1>6 DEF TopOK, Loadings
<1>9. QED
  BY <1>1, <1>3, <1>4, <1>5, <1>6, <1>7, <1>8, BecomeOne

\* A task that is no step is followed by others.
LEMMA GiveOne ==
  ASSUME NEW f \in Flow, Flow = {f}, DriverInv, OneFlowInv(f), NEW do, At(f, do),
         do \notin {"reply", "fold"}, ~OfEvent(Current(f)), ~Doomed(Current(f), log),
         NEW new, IsSeq(new), new # <<>>, LowerOK(new), \A k \in DOMAIN new : new[k].loop \in {None, live},
         TopOK(new[1], live, log, loops), Proceed(f, new \o Tail(flows[f]), loops, live),
         log' = log, cache' = cache
  PROVE  OneFlowInv(f)'
<1> DEFINE q == flows[f]
<1>1. q # <<>> /\ Current(f) = q[1] /\ LowerOK(q) /\ SameLoop(q, live) /\ ~Folding(q)
  BY AtOne
<1>2. /\ IsSeq(q) /\ DOMAIN loops \subseteq Instance /\ live \in DOMAIN loops \cup {None}
      /\ cache' = None \/ FaithfulTo(cache', log)
      /\ \A i \in DOMAIN loops : loops[i] = TruthOf(log)
  BY <1>1, FlowIs DEF OneFlowInv, OneFlowOK, HoldsIn
<1>3. SameLoop(new, live) /\ HoldsIn(new, live, DOMAIN loops)
  BY <1>2 DEF SameLoop, HoldsIn
<1>4. \A k \in DOMAIN Tail(q) : Tail(q)[k].loop \in {None, live}
  BY <1>1, <1>2, LoopsBelow
<1>5. log = log' /\ DOMAIN loops \subseteq DOMAIN loops
  OBVIOUS
<1>6. QED
  BY <1>1, <1>2, <1>3, <1>4, <1>5, ReplaceOne

\* A few fresh tasks.
LEMMA FreshFew ==
  /\ Fresh(<<>>)
  /\ \A u : u.do \in Unbegun /\ u.loop = None => Fresh(<<u>>)
  /\ \A u, w : u.do \in Unbegun /\ u.loop = None /\ w.do \in Unbegun /\ w.loop = None =>
       Fresh(<<u, w>>)
<1>1. Fresh(<<>>)
  BY SeqEmpty DEF Fresh
<1>2. ASSUME NEW u, u.do \in Unbegun, u.loop = None PROVE Fresh(<<u>>)
  BY <1>2, SingleTask DEF Fresh
<1>3. ASSUME NEW u, u.do \in Unbegun, u.loop = None, NEW w, w.do \in Unbegun, w.loop = None
      PROVE  Fresh(<<u, w>>)
  <2> DEFINE q == <<u, w>>
  <2>1. q \in Seq({u, w}) /\ DOMAIN q = 1 .. 2 /\ q[1] = u /\ q[2] = w
    OBVIOUS
  <2>2. IsSeq(q)
    BY <2>1 DEF IsSeq
  <2> HIDE DEF q
  <2>3. \A k \in 1 .. 2 : k = 1 \/ k = 2
    OBVIOUS
  <2>4. Fresh(q)
    BY <1>3, <2>1, <2>2, <2>3 DEF Fresh
  <2>5. QED
    BY <2>4 DEF q
<1>4. QED
  BY <1>1, <1>2, <1>3

\* Fresh tasks after fresh tasks.
LEMMA FreshConcat ==
  ASSUME NEW a, Fresh(a), NEW b, Fresh(b)
  PROVE  Fresh(a \o b)
<1>1. IsSeq(a) /\ IsSeq(b)
  BY DEF Fresh
<1>2. /\ IsSeq(a \o b)
      /\ \A i \in DOMAIN (a \o b) :
           (i \in DOMAIN a /\ (a \o b)[i] = a[i]) \/ \E k \in DOMAIN b : (a \o b)[i] = b[k]
  BY <1>1, ConcatElements
<1>3. QED
  BY <1>2 DEF Fresh

\* A task that loads its loop, and a task that needs none.
LEMMA FreshTask ==
  ASSUME NEW t, t = [x \in TaskFields |-> t[x]], t.loop = None
  PROVE  Loading(t).do \in Unbegun /\ Loading(t).loop = None
<1>1. Loading(t).do = "load" /\ Loading(t).loop = t.loop
  BY LoadingIs
<1>2. QED
  BY <1>1 DEF Unbegun

\* handleIncoming, fail, applyOutcome and wake.
LEMMA FreshEntries ==
  /\ Settle.do \in Unbegun /\ Settle.loop = None
  /\ \A in : Fresh(HandleIncoming(in))
  /\ \A row, why : Fresh(FailEffect(row, why))
  /\ \A row, items : Fresh(ApplyOutcome(row, items))
  /\ Fresh(WakeTasks)
<1>1. Settle.do \in Unbegun /\ Settle.loop = None
  BY SettleIs DEF Unbegun
<1>2. ASSUME NEW in PROVE Fresh(HandleIncoming(in))
  <2> DEFINE t == StepTask(in, AppendRetries)
  <2>1. t = [x \in TaskFields |-> t[x]] /\ t.loop = None
    BY StepTaskIs
  <2> HIDE DEF t
  <2>2. Loading(t).do \in Unbegun /\ Loading(t).loop = None
    BY <2>1, FreshTask
  <2>3. Fresh(<<Loading(t), Settle>>)
    BY <1>1, <2>2, FreshFew
  <2>4. QED
    BY <2>3 DEF HandleIncoming, t
<1>3. ASSUME NEW row, NEW why PROVE Fresh(FailEffect(row, why))
  <2> DEFINE u == [Task("delete") EXCEPT !.row = row]
             in == Incoming("failed", [effect |-> row.effect.id, why |-> why])
  <2>1. u.do \in Unbegun /\ u.loop = None
    BY DEF Task, Unbegun
  <2>2. FailEffect(row, why) = HandleIncoming(in) \o <<u>>
    BY DEF FailEffect
  <2> HIDE DEF u, in
  <2>3. Fresh(<<u>>)
    BY <2>1, FreshFew
  <2>4. QED
    BY <1>2, <2>2, <2>3, FreshConcat
<1>4. ASSUME NEW row, NEW items PROVE Fresh(ApplyOutcome(row, items))
  <2> DEFINE t == OutcomeTask(row, items)
  <2>1. t = [x \in TaskFields |-> t[x]] /\ t.loop = None
    BY DEF OutcomeTask, Task, TaskFields
  <2> HIDE DEF t
  <2>2. Loading(t).do \in Unbegun /\ Loading(t).loop = None
    BY <2>1, FreshTask
  <2>3. Fresh(<<Loading(t), Settle>>)
    BY <1>1, <2>2, FreshFew
  <2>4. QED
    BY <2>3 DEF ApplyOutcome, t
<1>5. Fresh(WakeTasks)
  <2>1. \A do : Task(do) = [x \in TaskFields |-> Task(do)[x]] /\ Task(do).loop = None /\ Task(do).do = do
    BY TaskIs
  <2> DEFINE d == Task("drop")
             w == Loading(Task("wake"))
             r == Loading(Task("recover"))
             q == <<d, w, Settle, r>>
  <2>2. /\ d.do \in Unbegun /\ d.loop = None /\ w.do \in Unbegun /\ w.loop = None
        /\ r.do \in Unbegun /\ r.loop = None
    BY <2>1, FreshTask DEF Unbegun
  <2>3. WakeTasks = q
    BY DEF WakeTasks
  <2> HIDE DEF d, w, r
  <2>4. q \in Seq({d, w, Settle, r}) /\ DOMAIN q = 1 .. 4 /\ \A k \in 1 .. 4 : q[k] \in {d, w, Settle, r}
    OBVIOUS
  <2> HIDE DEF q
  <2>5. QED
    BY <1>1, <2>2, <2>3, <2>4 DEF Fresh, IsSeq
<1>6. QED
  BY <1>1, <1>2, <1>3, <1>4, <1>5

\* recoverOpenTurnAfterReplay.
LEMMA RecoverTurnOne ==
  ASSUME NEW f \in Flow, Flow = {f}, DriverInv, OneFlowInv(f), RecoverTurn(f)
  PROVE  OneFlowInv(f)'
<1> DEFINE q == flows[f]
           t == Current(f)
           s == State(f)
           latest == log[CHOOSE i \in CascadesOf(s) : \A j \in CascadesOf(s) : j <= i]
           refeed == Cascade(t.loop, <<latest>>, AppendRetries)
           again == Loading([Task("recover") EXCEPT !.code = "fed"])
           failure == [Task("send") EXCEPT !.kind = "stranded", !.loop = t.loop, !.retries = 1,
                                           !.items = StrandedFailure(s.turn.id)]
           first == refeed \o <<Settle, again>>
           second == <<failure, Settle>>
<1>1. /\ At(f, "recover") /\ log' = log /\ cache' = cache
      /\ \/ Proceed(f, Tail(q), loops, live)
         \/ Proceed(f, first \o Tail(q), loops, live)
         \/ Proceed(f, second \o Tail(q), loops, live)
  BY DEF RecoverTurn, Pop, durable
<1>2. t.do = "recover"
  BY <1>1, AtOne
<1>3. Acts(t) = "recover"
  BY <1>2 DEF Acts, Loadings
<1>4. ~OfEvent(t) /\ ~Doomed(t, log)
  BY <1>3 DEF OfEvent, Doomed, Stepping
<1>5. t.loop = live
  BY <1>1, <1>4, OneLoop DEF WithLoop
<1>6. Settle.do \in Unbegun /\ Settle.loop = None
  BY FreshEntries
<1>7. CASE Proceed(f, Tail(q), loops, live)
  BY <1>1, <1>4, <1>7, PopOne
<1>8. CASE Proceed(f, first \o Tail(q), loops, live)
  <2> DEFINE a == [Task("recover") EXCEPT !.code = "fed"]
             b == <<Settle, again>>
  <2>1. a = [x \in TaskFields |-> a[x]] /\ a.loop = None
    BY DEF Task, TaskFields
  <2> HIDE DEF a
  <2>2. again.do \in Unbegun /\ again.loop = None
    BY <2>1, FreshTask DEF a
  <2>3. IsSeq(<<latest>>) /\ Len(<<latest>>) = 1
    BY SeqSingle
  <2>4. /\ IsSeq(refeed) /\ DOMAIN refeed = 1 .. 1
        /\ \A k \in DOMAIN refeed : refeed[k].do = "step" /\ refeed[k].loop = live /\ OfEvent(refeed[k])
    <3> DEFINE envs == <<latest>>
               fed(l) == Cascade(l, envs, AppendRetries)
    <3> HIDE DEF latest, envs
    <3>1. IsSeq(envs) /\ DOMAIN envs = 1 .. 1
      BY <2>3, SeqDomain DEF envs
    <3>2. ASSUME NEW l
          PROVE  /\ IsSeq(fed(l)) /\ DOMAIN fed(l) = 1 .. 1
                 /\ \A k \in DOMAIN fed(l) :
                      fed(l)[k].do = "step" /\ fed(l)[k].loop = l /\ OfEvent(fed(l)[k])
      <4>1. DOMAIN fed(l) = 1 .. 1
        BY <3>1 DEF Cascade
      <4>2. QED
        BY <3>1, <4>1, CascadeOne
    <3>3. refeed = fed(live)
      BY <1>5 DEF envs
    <3> HIDE DEF refeed, fed
    <3>4. QED
      BY <3>2, <3>3
  <2>5. DOMAIN refeed = 1 .. 1
    BY <2>4
  <2> HIDE DEF latest, refeed, again
  <2>6. Fresh(b)
    BY <1>6, <2>2, FreshFew
  <2> HIDE DEF b
  <2>7. IsSeq(b) /\ \A k \in DOMAIN b : b[k].do \in Unbegun /\ b[k].loop = None
    BY <2>6 DEF Fresh
  <2>8. first = refeed \o b
    BY DEF b
  <2> HIDE DEF first
  <2>9. /\ IsSeq(first)
        /\ \A i \in DOMAIN first :
             \/ i \in DOMAIN refeed /\ first[i] = refeed[i]
             \/ \E k \in DOMAIN b : first[i] = b[k]
    BY <2>4, <2>7, <2>8, ConcatElements
  <2>10. first # <<>> /\ first[1] = refeed[1] /\ 1 \in DOMAIN refeed
    <3>1. /\ Len(refeed) = 1 /\ Len(first) = Len(refeed) + Len(b) /\ Len(b) \in Nat
          /\ \A i \in 1 .. Len(refeed) : first[i] = refeed[i]
      BY <2>4, <2>5, <2>7, <2>8, SeqConcat, SeqDomain
    <3>2. Len(first) # 0 /\ 1 \in 1 .. Len(refeed)
      BY <3>1
    <3>3. QED
      BY <2>5, <3>1, <3>2
  <2>11. LowerOK(first)
    <3>1. ASSUME NEW k \in DOMAIN first, k > 1 PROVE first[k].do \in Unbegun /\ first[k].loop = None
      <4>1. k \notin DOMAIN refeed
        BY <2>5, <3>1
      <4>2. QED
        BY <2>7, <2>9, <4>1
    <3>2. QED
      BY <3>1 DEF LowerOK
  <2>12. \A k \in DOMAIN first : first[k].loop \in {None, live}
    BY <2>4, <2>7, <2>9
  <2>13. TopOK(first[1], live, log, loops)
    BY <2>4, <2>10 DEF TopOK, Loadings
  <2>14. QED
    BY <1>1, <1>4, <1>8, <2>9, <2>10, <2>11, <2>12, <2>13, GiveOne
<1>9. CASE Proceed(f, second \o Tail(q), loops, live)
  <2>1. failure.do = "send" /\ failure.kind = "stranded" /\ failure.loop = live
    BY <1>5 DEF Task
  <2> HIDE DEF failure
  <2>2. /\ second \in Seq({failure, Settle}) /\ DOMAIN second = 1 .. 2 /\ second[1] = failure
        /\ second[2] = Settle /\ second # <<>>
    OBVIOUS
  <2> HIDE DEF second
  <2>3. IsSeq(second) /\ \A k \in 1 .. 2 : k = 1 \/ k = 2
    BY <2>2 DEF IsSeq
  <2>4. LowerOK(second)
    BY <1>6, <2>2, <2>3 DEF LowerOK
  <2>5. \A k \in DOMAIN second : second[k].loop \in {None, live}
    BY <1>6, <2>1, <2>2, <2>3
  <2>6. TopOK(second[1], live, log, loops)
    BY <2>1, <2>2 DEF TopOK, Loadings
  <2>7. QED
    BY <1>1, <1>4, <1>9, <2>2, <2>3, <2>4, <2>5, <2>6, GiveOne
<1>10. QED
  BY <1>1, <1>7, <1>8, <1>9

\* flushDeferred.
LEMMA FlushLoopOne ==
  ASSUME NEW f \in Flow, Flow = {f}, DriverInv, OneFlowInv(f), FlushLoop(f)
  PROVE  OneFlowInv(f)'
<1> DEFINE a == HandleIncoming(Incoming("flush", None))
           b == IF State(f).call = None THEN <<>> ELSE <<Task("abort")>>
<1>1. At(f, "flush") /\ log' = log /\ cache' = cache /\ Proceed(f, a \o b, loops, live)
  BY DEF FlushLoop, durable
<1>2. Task("abort").do \in Unbegun /\ Task("abort").loop = None
  BY DEF Task, Unbegun
<1>3. Fresh(b)
  BY <1>2, FreshFew
<1>4. Fresh(a)
  BY FreshEntries
<1> HIDE DEF a, b
<1>5. Fresh(a \o b)
  BY <1>3, <1>4, FreshConcat
<1>6. ~Folding(flows[f])
  BY <1>1, AtOne
<1>7. QED
  BY <1>1, <1>5, <1>6, FreshOne

\* An entry point of the driver is called.
LEMMA EntryOne ==
  ASSUME NEW f \in Flow, Flow = {f}, DriverInv, OneFlowInv(f), Free(f),
         NEW todo, Fresh(todo), Proceed(f, todo, loops, live), log' = log, cache' = cache
  PROVE  OneFlowInv(f)'
<1>1. ~Folding(flows[f])
  BY DEF Free, Idle, Folding
<1>2. QED
  BY <1>1, FreshOne

\* One task that loads its loop.
LEMMA FreshLoading ==
  ASSUME NEW t, t = [x \in TaskFields |-> t[x]], t.loop = None
  PROVE  Fresh(<<Loading(t)>>)
<1>1. Loading(t).do \in Unbegun /\ Loading(t).loop = None
  BY FreshTask
<1>2. QED
  BY <1>1, FreshFew

\* The tasks of recordFailure.
LEMMA RetryOne ==
  ASSUME NEW f \in Flow, NEW r, FinishRetry(f, r)
  PROVE  (\E todo : Fresh(todo) /\ Proceed(f, todo, loops, live)) /\ log' = log /\ cache' = cache
<1>1. PICK why : Proceed(f, IF HasRow(outbox, r.effect.id)
                               /\ RowOf(outbox, r.effect.id).attempts + 1 >= MaxAttempts
                            THEN FailEffect(RowOf(outbox, r.effect.id), why) ELSE <<>>, loops, live)
  BY DEF FinishRetry
<1>2. Proceed(f, FailEffect(RowOf(outbox, r.effect.id), why), loops, live)
      \/ Proceed(f, <<>>, loops, live)
  BY <1>1
<1>3. Fresh(FailEffect(RowOf(outbox, r.effect.id), why)) /\ Fresh(<<>>)
  BY FreshEntries, FreshFew
<1>4. log' = log /\ cache' = cache
  BY DEF FinishRetry
<1>5. QED
  BY <1>2, <1>3, <1>4

\* Every entry point starts with fresh tasks.
LEMMA BeginIsFresh ==
  ASSUME NEW f \in Flow, Begin(f)
  PROVE  /\ Free(f) /\ log' = log /\ cache' = cache
         /\ \E todo : Fresh(todo) /\ Proceed(f, todo, loops, live)
<1> DEFINE ok == /\ Free(f) /\ log' = log /\ cache' = cache
                 /\ \E todo : Fresh(todo) /\ Proceed(f, todo, loops, live)
<1>1. ASSUME Dispatch(f) PROVE ok
  <2>1. PICK row : /\ Free(f) /\ log' = log /\ cache' = cache
                   /\ Proceed(f, <<Loading([Task("execute") EXCEPT !.row = row])>>, loops, live)
    BY <1>1 DEF Dispatch
  <2> DEFINE t == [Task("execute") EXCEPT !.row = row]
  <2>2. t = [x \in TaskFields |-> t[x]] /\ t.loop = None
    BY DEF Task, TaskFields
  <2> HIDE DEF t
  <2>3. Fresh(<<Loading(t)>>)
    BY <2>2, FreshLoading
  <2>4. QED
    BY <2>1, <2>3 DEF t
<1>2. ASSUME ExpireWait(f) PROVE ok
  BY <1>2, FreshEntries DEF ExpireWait
<1>3. ASSUME NEW r, NEW items, Free(f), Finish(f, r, items) PROVE ok
  BY <1>3, FreshEntries DEF Finish, durable
<1>4. ASSUME FinishModel(f) PROVE ok
  <2>1. PICK r : /\ Free(f)
                 /\ \/ \E items : Finish(f, r, items)
                    \/ FinishRetry(f, r)
                    \/ /\ Proceed(f, <<Loading([Task("suspend") EXCEPT !.row = r.row])>>, loops, live)
                       /\ log' = log /\ cache' = cache
    BY <1>4 DEF FinishModel, durable
  <2> DEFINE t == [Task("suspend") EXCEPT !.row = r.row]
  <2>2. t = [x \in TaskFields |-> t[x]] /\ t.loop = None
    BY DEF Task, TaskFields
  <2> HIDE DEF t
  <2>3. Fresh(<<Loading(t)>>)
    BY <2>2, FreshLoading
  <2>4. CASE \E items : Finish(f, r, items)
    BY <1>3, <2>1, <2>4
  <2>5. CASE FinishRetry(f, r)
    BY <2>1, <2>5, RetryOne
  <2>6. CASE /\ Proceed(f, <<Loading(t)>>, loops, live) /\ log' = log /\ cache' = cache
    BY <2>1, <2>3, <2>6
  <2>7. QED
    BY <2>1, <2>4, <2>5, <2>6 DEF t
<1>5. ASSUME FinishTool(f) PROVE ok
  <2>1. PICK r : Free(f) /\ ((\E items : Finish(f, r, items)) \/ FinishRetry(f, r))
    BY <1>5 DEF FinishTool
  <2>2. QED
    BY <1>3, <2>1, RetryOne
<1>6. ASSUME DeliverResult(f) PROVE ok
  <2>1. PICK row : /\ Free(f) /\ log' = log /\ cache' = cache
                   /\ \E a, b : Proceed(f, ApplyOutcome(row, a), loops, live)
                                  \/ Proceed(f, ApplyOutcome(row, b) \o WakeTasks, loops, live)
    BY <1>6 DEF DeliverResult, durable
  <2>2. \A a : Fresh(ApplyOutcome(row, a)) /\ Fresh(ApplyOutcome(row, a) \o WakeTasks)
    BY FreshEntries, FreshConcat
  <2>3. QED
    BY <2>1, <2>2
<1>7. ASSUME NEW m \in Message, Deliver(f, m) PROVE ok
  <2> DEFINE u == [Task("ack") EXCEPT !.in = m]
             a == HandleIncoming(Incoming("prompt", m))
  <2>1. u.do \in Unbegun /\ u.loop = None
    BY DEF Task, Unbegun
  <2>2. Free(f) /\ log' = log /\ cache' = cache /\ Proceed(f, a \o <<u>>, loops, live)
    BY <1>7 DEF Deliver, durable
  <2> HIDE DEF u
  <2>3. Fresh(<<u>>) /\ Fresh(a)
    BY <2>1, FreshFew, FreshEntries
  <2> HIDE DEF a
  <2>4. Fresh(a \o <<u>>)
    BY <2>3, FreshConcat
  <2>5. QED
    BY <2>2, <2>4
<1>8. ASSUME Pause(f) PROVE ok
  BY <1>8, FreshEntries DEF Pause, durable
<1>9. ASSUME SendNow(f) PROVE ok
  <2>1. Free(f) /\ log' = log /\ cache' = cache /\ Proceed(f, <<Loading(Task("flush"))>>, loops, live)
    BY <1>9 DEF SendNow, durable
  <2>2. Task("flush") = [x \in TaskFields |-> Task("flush")[x]] /\ Task("flush").loop = None
    BY TaskIs
  <2>3. Fresh(<<Loading(Task("flush"))>>)
    BY <2>2, FreshLoading
  <2>4. QED
    BY <2>1, <2>3
<1>10. ASSUME ScheduleResume(f) PROVE ok
  <2>1. PICK i : /\ Free(f) /\ log' = log /\ cache' = cache
                 /\ Proceed(f, <<Loading([Task("schedule") EXCEPT !.in = log[i].about])>>, loops, live)
    BY <1>10 DEF ScheduleResume, durable
  <2> DEFINE t == [Task("schedule") EXCEPT !.in = log[i].about]
  <2>2. t = [x \in TaskFields |-> t[x]] /\ t.loop = None
    BY DEF Task, TaskFields
  <2> HIDE DEF t
  <2>3. Fresh(<<Loading(t)>>)
    BY <2>2, FreshLoading
  <2>4. QED
    BY <2>1, <2>3 DEF t
<1>11. ASSUME ResumeAtReset(f) PROVE ok
  <2>1. PICK msg : /\ Free(f) /\ log' = log /\ cache' = cache
                   /\ Proceed(f, HandleIncoming(Incoming("resume", msg))
                                   \o <<[Task("unschedule") EXCEPT !.in = msg]>>, loops, live)
    BY <1>11 DEF ResumeAtReset, durable
  <2> DEFINE u == [Task("unschedule") EXCEPT !.in = msg]
             a == HandleIncoming(Incoming("resume", msg))
  <2>2. u.do \in Unbegun /\ u.loop = None
    BY DEF Task, Unbegun
  <2>3. Proceed(f, a \o <<u>>, loops, live)
    BY <2>1
  <2> HIDE DEF u
  <2>4. Fresh(<<u>>) /\ Fresh(a)
    BY <2>2, FreshFew, FreshEntries
  <2> HIDE DEF a
  <2>5. Fresh(a \o <<u>>)
    BY <2>4, FreshConcat
  <2>6. QED
    BY <2>1, <2>3, <2>5
<1>12. ASSUME Wake(f) PROVE ok
  BY <1>12, FreshEntries DEF Wake, durable
<1>13. QED
  BY <1>1, <1>2, <1>4, <1>5, <1>6, <1>7, <1>8, <1>9, <1>10, <1>11, <1>12 DEF Begin

\* A step of the flow that is under way.
LEMMA ContinueOne ==
  ASSUME NEW f \in Flow, Flow = {f}, DriverInv, OneFlowInv(f), Continue(f), DriverInv'
  PROVE  OneFlowInv(f)'
BY LoadLiveOne, LoadColdOne, GetLogHeadOne, CompareHeadOne, ReadTailOne, LoadTailOne, RunStepOne, SendOne,
   CommitOne, ReplyOne, FoldOneFlow, StaleStepOne, StaleOutcomeOne, StaleSuspendOne, StaleStrandedOne,
   RetryStrandedOne, DoneActions, WakeLoopOne, RecoverTurnOne, SuspendOne, FlushLoopOne
   DEF Continue

\* No loop and no task is left, and the journal and the cache are as they were.
LEMMA NothingHeld ==
  ASSUME NEW f, NEW q, q = <<>>, NEW states, DOMAIN states = {}, NEW l
  PROVE  OneFlowOK(q, None, l, states)
<1>1. DOMAIN q = {}
  OBVIOUS
<1>2. QED
  BY <1>1 DEF OneFlowOK, LowerOK, SameLoop, Held

\* The agent starts with an empty journal.
LEMMA OneFlowInit ==
  ASSUME NEW f, Flow = {f}, Init
  PROVE  OneFlowInv(f)
<1>1. f \in Flow
  OBVIOUS
<1>2. cache = None /\ flows[f] = <<>> /\ live = None /\ DOMAIN loops = {}
  BY <1>1 DEF Init
<1>3. QED
  BY <1>2, NothingHeld DEF OneFlowInv

\* Every step keeps the fold of the flow and of the cache.
LEMMA OneFlowStep ==
  ASSUME NEW f, Flow = {f}, DriverInv, OneFlowInv(f), [Next]_vars
  PROVE  OneFlowInv(f)'
<1>0. f \in Flow /\ (\A g \in Flow : g = f) /\ DriverInv'
  BY DriverStep
<1>1. CASE \E g \in Flow : Continue(g)
  BY <1>0, <1>1, ContinueOne
<1>2. CASE \E g \in Flow : Begin(g)
  <2>1. Begin(f)
    BY <1>0, <1>2
  <2>2. /\ Free(f) /\ log' = log /\ cache' = cache
        /\ \E todo : Fresh(todo) /\ Proceed(f, todo, loops, live)
    BY <1>0, <2>1, BeginIsFresh
  <2>3. QED
    BY <1>0, <2>2, EntryOne
<1>3. CASE log' = log /\ cache' = cache /\ flows' = flows /\ loops' = loops /\ live' = live
  BY <1>3 DEF OneFlowInv
<1>4. CASE Crash
  <2>1. /\ log' = log /\ cache' = cache /\ flows'[f] = <<>> /\ live' = None /\ DOMAIN loops' = {}
    BY <1>0, <1>4 DEF Crash, durable
  <2>2. OneFlowOK(flows'[f], None, log', loops')
    BY <2>1, NothingHeld
  <2>3. cache' # None => FaithfulTo(cache', log')
    BY <2>1 DEF OneFlowInv
  <2>4. QED
    BY <2>1, <2>2, <2>3 DEF OneFlowInv
<1>5. CASE FinishDeferred \/ LeaseExpires \/ UNCHANGED vars
  <2>1. log' = log /\ cache' = cache /\ flows' = flows /\ loops' = loops /\ live' = live
    BY <1>5 DEF FinishDeferred, LeaseExpires, vars
  <2>2. QED
    BY <1>3, <2>1
<1>6. QED
  BY <1>1, <1>2, <1>4, <1>5 DEF Next

\* "fold of the log through folded_seq": while the entry points of an agent are
\* served one after the other, the cached fold is what a cold refold of the
\* journal gives, whatever crash, reload, retry or replayed append came before.
\* (With two flows under way it is not: the run OverlapFold.)
THEOREM CacheIsFold ==
  ASSUME NEW f, Flow = {f}
  PROVE  Spec => []FoldFaithful
<1>1. Init => OneFlowInv(f)
  BY OneFlowInit
<1>2. DriverInv /\ OneFlowInv(f) /\ [Next]_vars => OneFlowInv(f)'
  BY OneFlowStep
<1>3. OneFlowInv(f) => FoldFaithful
  BY DEF OneFlowInv, FaithfulTo, FoldFaithful
<1>4. QED
  BY <1>1, <1>2, <1>3, DriverInvariant, PTL DEF Spec

-----------------------------------------------------------------------------
(* What a step appends, in the order in which it appends it.               *)

\* Events that leave the open turn as it is.
Keeping == {"user", "message.failed", "resume"}

\* The id of a message that is received, or received again.
IsReceipt(e) == e.id[2] = e.src /\ (e.id[1] = "promoted" \/ e.id = RecvId(e.src))

\* What a batch of the state s may begin with: a message that is received again
\* comes first, when no turn is open, and is the one that was deferred first.
Receipts(s, items) ==
  \A j \in DOMAIN items : items[j].kind = "user" =>
    /\ IsReceipt(items[j])
    /\ items[j].id[1] = "promoted" =>
         j = 1 /\ s.turn = None /\ s.deferred # <<>> /\ s.deferred[1].src = items[j].src
Lead(s, items) ==
  IsSeq(items) /\ (\A j \in DOMAIN items : items[j].kind \in Keeping) /\ Receipts(s, items)

\* A turn is opened when none is open, and a model call is started in the turn that
\* is open and not interrupted, or in the one that was just opened.
Orderly(s, items) ==
  /\ \A j \in DOMAIN items : items[j].kind = "turn.opened" =>
       s.turn = None /\ \A i \in 1 .. j - 1 : items[i].kind \in Keeping
  /\ \A j \in DOMAIN items : items[j].kind = "message.started" =>
       \/ ~s.turn.interrupted /\ \A i \in 1 .. j - 1 : items[i].kind \in Keeping
       \/ j > 1 /\ items[j - 1].kind = "turn.opened"
  /\ Receipts(s, items)

Quiet(items) == IsSeq(items) /\ Settles(items)

\* Batches that open nothing.
LEMMA QuietParts ==
  /\ Quiet(<<>>)
  /\ \A e : e.kind \notin {"user", "turn.opened", "message.started"} => Quiet(<<e>>)
  /\ \A a, b : Quiet(a) /\ Quiet(b) => Quiet(a \o b)
<1>1. Quiet(<<>>)
  BY SeqEmpty DEF Quiet, Settles
<1>2. ASSUME NEW e, e.kind \notin {"user", "turn.opened", "message.started"} PROVE Quiet(<<e>>)
  BY <1>2, SeqSingle, SettlesOne DEF Quiet
<1>3. ASSUME NEW a, NEW b, Quiet(a), Quiet(b) PROVE Quiet(a \o b)
  BY <1>3, ConcatElements, SettlesConcat DEF Quiet
<1>4. QED
  BY <1>1, <1>2, <1>3

\* The events of a set that open nothing.
LEMMA QuietSet ==
  ASSUME NEW X, IsFiniteSet(X), \A x \in X : x.kind \notin {"user", "turn.opened", "message.started"}
  PROVE  Quiet(SetToSeq(X))
<1> DEFINE q == SetToSeq(X)
<1>1. Cardinality(X) \in Nat /\ \E g : g \in Bijection(1 .. Cardinality(X), X)
  BY FS_CardinalityType DEF ExistsBijection
<1>2. \E g \in [1 .. Cardinality(X) -> X] : IsInjective(g)
  <2>1. PICK g : g \in Bijection(1 .. Cardinality(X), X)
    BY <1>1
  <2>2. QED
    BY <2>1 DEF Bijection, Injection, IsInjective
<1>3. q \in [1 .. Cardinality(X) -> X]
  BY <1>2 DEF SetToSeq
<1> HIDE DEF q
<1>4. IsSeq(q) /\ \A i \in DOMAIN q : q[i] \in X
  BY <1>1, <1>3, FcnIsSeq
<1>5. QED
  BY <1>4 DEF Quiet, Settles, q

\* The kinds of the events.
LEMMA Kinds ==
  ASSUME NEW a, NEW b, NEW c
  PROVE  /\ Recv(a).kind = "user" /\ Recv(a).id[1] = "recv"
         /\ PromotedRecv(a, b).kind = "user" /\ PromotedRecv(a, b).src = a.src
         /\ TurnOpened(a).kind = "turn.opened" /\ TurnClosed(a).kind = "turn.closed"
         /\ TurnWaiting(a, b).kind = "turn.waiting" /\ MessageStarted(a, b, c).kind = "message.started"
         /\ MessageFailed(a, b).kind = "message.failed" /\ Diagnostic(a, b).kind = "message.completed"
         /\ InvocationStarted(a, b).kind = "invocation.started"
         /\ InvocationTerminal(a, b, c).kind = "invocation.terminal"
         /\ WaitResolved(a, b, c).kind = "wait.resolved" /\ WaitExpired(a, b).kind = "wait.expired"
         /\ Interrupt(a).kind = "interrupt" /\ FlushSteers(a, b).kind = "flush"
         /\ ResumeDue(a, b, c).kind = "resume"
BY DEF Event, Recv, RecvId, PromotedRecv, TurnOpened, TurnClosed, TurnWaiting, MessageStarted, MessageFailed,
       Diagnostic, InvocationStarted, InvocationTerminal, WaitResolved, WaitExpired, Interrupt, FlushSteers,
       ResumeDue

\* A beginning of one event.
LEMMA LeadOne ==
  ASSUME NEW s, NEW e, e.kind \in Keeping,
         e.kind = "user" => IsReceipt(e),
         e.kind = "user" /\ e.id[1] = "promoted" =>
           s.turn = None /\ s.deferred # <<>> /\ s.deferred[1].src = e.src
  PROVE  Lead(s, <<e>>)
<1> DEFINE q == <<e>>
<1>1. IsSeq(q) /\ DOMAIN q = {1} /\ q[1] = e
  BY SeqSingle
<1> HIDE DEF q
<1>2. Lead(s, q)
  BY <1>1 DEF Lead, Receipts
<1>3. QED
  BY <1>2 DEF q

\* A terminal of a call, or a resume that is due.
LEMMA LeadEvent ==
  ASSUME NEW s, NEW e, e.kind \in {"message.failed", "resume"}
  PROVE  Lead(s, <<e>>)
BY LeadOne DEF Keeping

\* No event, a message that is received, and a message that is received again.
LEMMA LeadIs ==
  ASSUME NEW s
  PROVE  /\ Lead(s, <<>>)
         /\ \A m : Lead(s, <<Recv(m)>>)
         /\ \A n : s.turn = None /\ s.deferred # <<>> => Lead(s, <<PromotedRecv(s.deferred[1], n)>>)
<1>1. Lead(s, <<>>)
  BY SeqEmpty DEF Lead, Receipts
<1>2. ASSUME NEW m PROVE Lead(s, <<Recv(m)>>)
  <2> DEFINE e == Recv(m)
  <2>1. e.kind = "user" /\ e.id[1] = "recv"
    BY Kinds
  <2>r. IsReceipt(e)
    BY DEF IsReceipt, Recv, RecvId, Event
  <2> HIDE DEF e
  <2>2. Lead(s, <<e>>)
    BY <2>1, <2>r, LeadOne DEF Keeping
  <2>3. QED
    BY <2>2 DEF e
<1>3. ASSUME NEW n, s.turn = None, s.deferred # <<>> PROVE Lead(s, <<PromotedRecv(s.deferred[1], n)>>)
  <2> DEFINE e == PromotedRecv(s.deferred[1], n)
  <2>1. e.kind = "user" /\ e.src = s.deferred[1].src
    BY DEF PromotedRecv, Event
  <2>r. IsReceipt(e)
    BY DEF IsReceipt, PromotedRecv, PromotedId, Event
  <2> HIDE DEF e
  <2>2. Lead(s, <<e>>)
    BY <1>3, <2>1, <2>r, LeadOne DEF Keeping
  <2>3. QED
    BY <2>2 DEF e
<1>4. QED
  BY <1>1, <1>2, <1>3

\* A beginning, and events that open nothing.
LEMMA OrderlyQuiet ==
  ASSUME NEW s, NEW a, Lead(s, a), NEW b, Quiet(b)
  PROVE  Orderly(s, a \o b)
<1> DEFINE q == a \o b
<1>1. \A i \in DOMAIN q : (i \in DOMAIN a /\ q[i] = a[i]) \/ \E k \in DOMAIN b : q[i] = b[k]
  BY ConcatElements DEF Lead, Quiet
<1> HIDE DEF q
<1>2. ASSUME NEW j \in DOMAIN q PROVE q[j].kind \notin {"turn.opened", "message.started"}
  BY <1>1 DEF Lead, Keeping, Quiet, Settles
<1>3. ASSUME NEW j \in DOMAIN q, q[j].kind = "user" PROVE j \in DOMAIN a /\ q[j] = a[j]
  BY <1>1, <1>3 DEF Quiet, Settles
<1>4. Receipts(s, q)
  BY <1>3 DEF Receipts, Lead
<1>5. Orderly(s, q)
  BY <1>2, <1>4 DEF Orderly
<1>6. QED
  BY <1>5 DEF q

\* A beginning, and a model call in the open turn.
LEMMA OrderlyCall ==
  ASSUME NEW s, ~s.turn.interrupted, NEW a, Lead(s, a), NEW e, e.kind = "message.started"
  PROVE  Orderly(s, a \o <<e>>)
<1> DEFINE b == <<e>>
           q == a \o b
           n == Len(a)
<1>1. IsSeq(a) /\ IsSeq(b) /\ Len(b) = 1 /\ b[1] = e /\ n \in Nat /\ DOMAIN a = 1 .. n
  BY SeqSingle, SeqDomain DEF Lead
<1> HIDE DEF b
<1>2. IsSeq(q) /\ Len(q) = n + 1 /\ (\A i \in 1 .. n : q[i] = a[i]) /\ q[n + 1] = e
  <2>0. IsSeq(a) /\ IsSeq(b)
    BY <1>1
  <2>1. /\ IsSeq(a \o b) /\ Len(a \o b) = Len(a) + Len(b)
        /\ \A i \in 1 .. Len(a) : (a \o b)[i] = a[i]
        /\ \A i \in 1 .. Len(b) : (a \o b)[Len(a) + i] = b[i]
    BY <2>0, SeqConcat
  <2>2. 1 \in 1 .. Len(b)
    BY <1>1
  <2>3. /\ IsSeq(q) /\ Len(q) = n + Len(b) /\ (\A i \in 1 .. n : q[i] = a[i])
        /\ \A i \in 1 .. Len(b) : q[n + i] = b[i]
    BY <2>1
  <2> HIDE DEF q, n
  <2>4. QED
    BY <1>1, <2>2, <2>3
<1> HIDE DEF q, n
<1>3. DOMAIN q = 1 .. n + 1
  BY <1>2, SeqDomain
<1>4. \A j \in 1 .. n + 1 : (j \in 1 .. n \/ j = n + 1) /\ \A i \in 1 .. j - 1 : i \in 1 .. n
  BY <1>1
<1>5. \A i \in 1 .. n : q[i].kind \in Keeping
  BY <1>1, <1>2 DEF Lead
<1>6. Receipts(s, q)
  BY <1>1, <1>2, <1>3, <1>4 DEF Receipts, Lead
<1>7. Orderly(s, q)
  BY <1>2, <1>3, <1>4, <1>5, <1>6 DEF Orderly, Keeping
<1>8. QED
  BY <1>7 DEF q, b

\* A beginning, and a turn with its first model call.
LEMMA OrderlyTurn ==
  ASSUME NEW s, s.turn = None, NEW a, Lead(s, a), NEW o, o.kind = "turn.opened",
         NEW e, e.kind = "message.started"
  PROVE  Orderly(s, Append(a, o) \o <<e>>)
<1> DEFINE b == <<e>>
           c == Append(a, o)
           q == c \o b
           n == Len(a)
<1>1. IsSeq(a) /\ IsSeq(b) /\ Len(b) = 1 /\ b[1] = e /\ n \in Nat /\ DOMAIN a = 1 .. n
  BY SeqSingle, SeqDomain DEF Lead
<1> HIDE DEF b
<1>2. IsSeq(c) /\ Len(c) = n + 1 /\ (\A i \in 1 .. n : c[i] = a[i]) /\ c[n + 1] = o
  BY <1>1, SeqAppend
<1> HIDE DEF c
<1>3. IsSeq(q) /\ Len(q) = n + 2 /\ (\A i \in 1 .. n + 1 : q[i] = c[i]) /\ q[n + 2] = e
  <2>0. IsSeq(c) /\ IsSeq(b)
    BY <1>1, <1>2
  <2>1. /\ IsSeq(c \o b) /\ Len(c \o b) = Len(c) + Len(b)
        /\ \A i \in 1 .. Len(c) : (c \o b)[i] = c[i]
        /\ \A i \in 1 .. Len(b) : (c \o b)[Len(c) + i] = b[i]
    BY <2>0, SeqConcat
  <2>2. 1 \in 1 .. Len(b) /\ Len(c) + 1 = n + 2 /\ Len(c) + Len(b) = n + 2
    BY <1>1, <1>2
  <2>3. /\ IsSeq(q) /\ Len(q) = Len(c) + Len(b) /\ (\A i \in 1 .. Len(c) : q[i] = c[i])
        /\ \A i \in 1 .. Len(b) : q[Len(c) + i] = b[i]
    BY <2>1
  <2> HIDE DEF q
  <2>4. QED
    BY <1>1, <1>2, <2>2, <2>3
<1> HIDE DEF q, n
<1>4. DOMAIN q = 1 .. n + 2
  BY <1>3, SeqDomain
<1>5. /\ \A j \in 1 .. n + 2 : j \in 1 .. n \/ j = n + 1 \/ j = n + 2
      /\ \A i \in 1 .. n : i \in 1 .. n + 1
      /\ n + 1 \in 1 .. n + 1 /\ (n + 1) - 1 = n /\ (n + 2) - 1 = n + 1 /\ n + 2 > 1
  BY <1>1
<1>6. \A i \in 1 .. n : q[i] = a[i] /\ a[i].kind \in Keeping
  BY <1>1, <1>2, <1>3, <1>5 DEF Lead
<1>7. q[n + 1] = o /\ q[n + 2] = e
  BY <1>2, <1>3, <1>5
<1>8. Receipts(s, q)
  BY <1>1, <1>4, <1>5, <1>6, <1>7 DEF Receipts, Lead
<1>9. Orderly(s, q)
  BY <1>4, <1>5, <1>6, <1>7, <1>8 DEF Orderly, Keeping
<1>10. QED
  BY <1>9 DEF q, c, b

\* Settling what is pending opens nothing.
LEMMA QuietCleanup ==
  ASSUME NEW s, IsState(s)
  PROVE  Quiet(InterruptCleanup(s))
<1> DEFINE g == [i \in s.pending |-> InvocationTerminal(i.turn, i.inv, "cancelled")]
           X == {g[i] : i \in s.pending}
           w == WaitResolved(s.wait.turn, s.wait.at, "cancelled")
           b == IF s.wait = None THEN <<>> ELSE <<w>>
           d == TurnClosed(s.turn.id)
           c == IF s.turn = None THEN <<>> ELSE <<d>>
<1>1. X = {InvocationTerminal(i.turn, i.inv, "cancelled") : i \in s.pending}
  OBVIOUS
<1>2. InterruptCleanup(s) = (SetToSeq(X) \o b) \o c
  BY <1>1 DEF InterruptCleanup, CancelPending
<1>3. \A i \in s.pending : g[i].kind = "invocation.terminal"
  BY DEF InvocationTerminal, Event
<1>4. w.kind = "wait.resolved" /\ d.kind = "turn.closed"
  BY DEF WaitResolved, TurnClosed, Event
<1>5. g = [i \in s.pending |-> g[i]] /\ IsFiniteSet(s.pending)
  BY DEF IsState, Shaped
<1>6. b \in {<<>>, <<w>>} /\ c \in {<<>>, <<d>>}
  OBVIOUS
<1> HIDE DEF g, b, c, d, w
<1>7. IsFiniteSet(X)
  BY <1>5, ImageFinite
<1>8. \A x \in X : x.kind = "invocation.terminal"
  BY <1>3
<1> HIDE DEF X
<1>9. Quiet(SetToSeq(X))
  BY <1>7, <1>8, QuietSet
<1>10. Quiet(b) /\ Quiet(c)
  BY <1>4, <1>6, QuietParts
<1>11. QED
  BY <1>2, <1>9, <1>10, QuietParts

\* Starting invocations opens no turn and no call.
LEMMA QuietExpand ==
  ASSUME NEW turn, NEW tools, IsFiniteSet(tools)
  PROVE  Quiet(ExpandToolCalls(turn, tools).append)
<1> DEFINE g == [inv \in tools |-> InvocationStarted(turn, inv)]
           X == {g[inv] : inv \in tools}
<1>1. X = {InvocationStarted(turn, inv) : inv \in tools}
  OBVIOUS
<1>2. ExpandToolCalls(turn, tools).append = SetToSeq(X)
  BY <1>1 DEF ExpandToolCalls, Output
<1>3. \A inv \in tools : g[inv].kind = "invocation.started"
  BY DEF InvocationStarted, Event
<1>4. g = [inv \in tools |-> g[inv]]
  OBVIOUS
<1> HIDE DEF g
<1>5. IsFiniteSet(X)
  BY <1>4, ImageFinite
<1>6. \A x \in X : x.kind = "invocation.started"
  BY <1>3
<1> HIDE DEF X
<1>7. QED
  BY <1>2, <1>5, <1>6, QuietSet

\* A beginning alone, and events that open nothing alone.
LEMMA OrderlyAlone ==
  ASSUME NEW s
  PROVE  /\ \A a : Lead(s, a) => Orderly(s, a)
         /\ \A b : Quiet(b) => Orderly(s, b)
<1>1. ASSUME NEW a, Lead(s, a) PROVE Orderly(s, a)
  BY <1>1 DEF Lead, Orderly, Keeping
<1>2. ASSUME NEW b, Quiet(b) PROVE Orderly(s, b)
  BY <1>2 DEF Quiet, Settles, Orderly, Receipts
<1>3. QED
  BY <1>1, <1>2

\* nextModelCall after a beginning: another call, or the close of the turn.
LEMMA OrderlyNext ==
  ASSUME NEW s, NEW t, ~s.turn.interrupted, NEW before, NEW a, Lead(s, a)
  PROVE  Orderly(s, a \o NextModelCall(t, before).append)
<1> DEFINE d == Diagnostic(t.turn.id, <<"max-calls">>)
           c == TurnClosed(t.turn.id)
           e == MessageStarted(t.turn.id, MessageId(t.turn.id, t.turn.calls), t.lastSeq + before)
<1>1. NextModelCall(t, before).append = <<d, c>> \/ NextModelCall(t, before).append = <<e>>
  BY DEF NextModelCall, ModelStart, Output
<1>2. d.kind = "message.completed" /\ c.kind = "turn.closed" /\ e.kind = "message.started"
  BY DEF Diagnostic, TurnClosed, MessageStarted, Event
<1> HIDE DEF c, d, e
<1>3. Quiet(<<d, c>>)
  <2>1. Settles(<<d, c>>)
    BY <1>2, SettlesOne, SettlesPair
  <2>2. <<d, c>> \in Seq({d, c})
    OBVIOUS
  <2>3. QED
    BY <2>1, <2>2 DEF Quiet, IsSeq
<1>4. Orderly(s, a \o <<d, c>>)
  BY <1>3, OrderlyQuiet
<1>5. Orderly(s, a \o <<e>>)
  BY <1>2, OrderlyCall
<1>6. QED
  BY <1>1, <1>4, <1>5

\* nextModelCall alone.
LEMMA OrderlyNextAlone ==
  ASSUME NEW s, ~s.turn.interrupted
  PROVE  Orderly(s, NextModelCall(s, 0).append)
<1>1. IsSeq(NextModelCall(s, 0).append)
  BY NextModelCallOutput DEF IsOutput, Batch
<1>2. Orderly(s, <<>> \o NextModelCall(s, 0).append)
  BY LeadIs, OrderlyNext
<1>3. QED
  BY <1>1, <1>2, EmptyConcat

\* A turn is opened for a message that is journaled.
LEMMA OrderlyOpen ==
  ASSUME NEW s, s.turn = None, NEW t, NEW trigger, NEW first, Lead(s, first)
  PROVE  Orderly(s, OpenTurnFor(t, trigger, first).append)
<1> DEFINE turn == TurnId(trigger)
           opened == [t EXCEPT !.turn = OpenTurn(turn, t.lastSeq + 1)]
           o == TurnOpened(turn)
           e == MessageStarted(turn, MessageId(turn, 0), opened.lastSeq + 1)
<1>1. OpenTurnFor(t, trigger, first).append = Append(first, o) \o <<e>>
  BY DEF OpenTurnFor, Then, ModelStart, Output
<1>2. o.kind = "turn.opened" /\ e.kind = "message.started"
  BY DEF TurnOpened, MessageStarted, Event
<1> HIDE DEF o, e
<1>3. QED
  BY <1>1, <1>2, OrderlyTurn

\* The next message that waits opens a turn when the turn before it is closed.
LEMMA OrderlyPromotions ==
  ASSUME NEW s, s.turn = None
  PROVE  /\ Orderly(s, PromoteSteersAsTurn(s).append)
         /\ s.deferred # <<>> => Orderly(s, PromoteDeferred(s).append)
<1>1. Orderly(s, PromoteSteersAsTurn(s).append)
  BY LeadIs, OrderlyOpen DEF PromoteSteersAsTurn
<1>2. ASSUME s.deferred # <<>> PROVE Orderly(s, PromoteDeferred(s).append)
  <2> DEFINE recv == PromotedRecv(s.deferred[1], s.lastSeq)
             t == ProjectAppend(s, <<recv>>)
  <2>1. Lead(s, <<recv>>)
    BY <1>2, LeadIs
  <2>2. PromoteDeferred(s) = OpenTurnFor(t, t.prompt.id, <<recv>>)
    BY DEF PromoteDeferred, PromotePendingPrompt
  <2> HIDE DEF t, recv
  <2>3. QED
    BY <2>1, <2>2, OrderlyOpen
<1>3. QED
  BY <1>1, <1>2

\* The prompt command.
LEMMA OrderlyPrompt ==
  ASSUME NEW s, IsState(s), NEW m
  PROVE  Orderly(s, PromptStep(s, m).append)
<1> DEFINE turn == TurnId(<<"src", m>>)
           opened == [s EXCEPT !.turn = OpenTurn(turn, s.lastSeq + 2)]
           e == Recv(m)
           o == TurnOpened(turn)
           c == MessageStarted(turn, MessageId(turn, 0), opened.lastSeq + 2)
           n == NextModelCall(s, 1)
           out == PromptStep(s, m)
<1>1. \/ out.append = <<>>
      \/ s.turn = None /\ out.append = <<e, o>> \o <<c>>
      \/ ~s.turn.interrupted /\ out.append = <<e>> \o n.append
      \/ out.append = <<e>>
  BY DEF PromptStep, Then, Output, Empty, ModelStart
<1>2. o.kind = "turn.opened" /\ c.kind = "message.started"
  BY DEF TurnOpened, MessageStarted, Event
<1>3. Lead(s, <<e>>)
  BY LeadIs
<1> HIDE DEF o, c, e, out
<1>4. <<e, o>> = Append(<<e>>, o)
  OBVIOUS
<1>5. CASE out.append = <<>>
  BY <1>5, QuietParts, OrderlyAlone DEF out
<1>6. CASE s.turn = None /\ out.append = <<e, o>> \o <<c>>
  <2>1. Orderly(s, Append(<<e>>, o) \o <<c>>)
    BY <1>2, <1>3, <1>6, OrderlyTurn
  <2>2. QED
    BY <1>4, <1>6, <2>1 DEF out
<1>7. CASE ~s.turn.interrupted /\ out.append = <<e>> \o n.append
  BY <1>3, <1>7, OrderlyNext DEF out
<1>8. CASE out.append = <<e>>
  BY <1>3, <1>8, OrderlyAlone DEF out
<1>9. QED
  BY <1>1, <1>5, <1>6, <1>7, <1>8

\* The interrupt command.
LEMMA OrderlyInterrupt ==
  ASSUME NEW s, IsState(s)
  PROVE  Orderly(s, InterruptStep(s).append)
<1> DEFINE e == Interrupt(s.turn.id)
           t == ProjectAppend(s, <<e>>)
           c == InterruptCleanup(t)
<1>1. InterruptStep(s).append \in {<<>>, <<e>>, <<e>> \o c}
  BY DEF InterruptStep, Empty, Output
<1>2. ASSUME NEW x PROVE IsEvent(Interrupt(x)) /\ Interrupt(x).kind = "interrupt"
  BY EventsAreEvents DEF Interrupt, Event
<1>3. IsEvent(e) /\ e.kind = "interrupt"
  BY <1>2
<1> HIDE DEF e
<1>4. IsSeq(<<e>>) /\ \A i \in DOMAIN <<e>> : IsEvent(<<e>>[i])
  BY <1>3, BatchSingle DEF Batch
<1>5. IsState(t)
  BY <1>4, ProjectIsState
<1> HIDE DEF t
<1>6. Quiet(c) /\ Quiet(<<e>>) /\ Quiet(<<>>)
  BY <1>3, <1>5, QuietCleanup, QuietParts
<1> HIDE DEF c
<1>7. Quiet(<<e>> \o c)
  BY <1>6, QuietParts
<1>8. QED
  BY <1>1, <1>6, <1>7, OrderlyAlone

\* One event that opens nothing.
LEMMA OrderlyEvent ==
  ASSUME NEW s, NEW x, NEW y
  PROVE  /\ Orderly(s, Empty.append)
         /\ Orderly(s, Output(<<TurnClosed(x)>>, {}).append)
         /\ Orderly(s, Output(<<Interrupt(x)>>, {}).append)
         /\ Orderly(s, Output(<<FlushSteers(x, y)>>, {}).append)
         /\ Orderly(s, Output(<<TurnWaiting(x, y)>>, {}).append)
<1>1. /\ Quiet(<<>>) /\ Quiet(<<TurnClosed(x)>>) /\ Quiet(<<Interrupt(x)>>)
      /\ Quiet(<<FlushSteers(x, y)>>) /\ Quiet(<<TurnWaiting(x, y)>>)
  <2>1. /\ TurnClosed(x).kind = "turn.closed" /\ Interrupt(x).kind = "interrupt"
        /\ FlushSteers(x, y).kind = "flush" /\ TurnWaiting(x, y).kind = "turn.waiting"
    BY DEF TurnClosed, Interrupt, FlushSteers, TurnWaiting, Event
  <2>2. QED
    BY <2>1, QuietParts
<1>2. \A b : Output(b, {}).append = b
  BY DEF Output
<1>3. Empty.append = <<>>
  BY DEF Empty, Output
<1>4. QED
  BY <1>1, <1>2, <1>3, OrderlyAlone

\* One step of "send now".
LEMMA OrderlyFlush ==
  ASSUME NEW s, IsState(s), s.steering # <<>> \/ s.deferred # <<>>
  PROVE  Orderly(s, FlushStep(s).append)
<1>1. Orderly(s, Output(InterruptCleanup(s), {}).append)
  BY QuietCleanup, OrderlyAlone DEF Output
<1>2. \/ s.turn = None /\ FlushStep(s) = PromoteSteersAsTurn(s)
      \/ s.turn = None /\ s.deferred # <<>> /\ FlushStep(s) = PromoteDeferred(s)
      \/ ~s.turn.interrupted /\ FlushStep(s) = NextModelCall(s, 0)
      \/ FlushStep(s) \in {Output(<<FlushSteers(s.turn.id, s.lastSeq)>>, {}),
                           Output(InterruptCleanup(s), {}), Output(<<Interrupt(s.turn.id)>>, {})}
  BY DEF FlushStep
<1>3. /\ Orderly(s, Output(<<FlushSteers(s.turn.id, s.lastSeq)>>, {}).append)
      /\ Orderly(s, Output(<<Interrupt(s.turn.id)>>, {}).append)
  BY OrderlyEvent
<1>4. QED
  BY <1>1, <1>2, <1>3, OrderlyPromotions, OrderlyNextAlone

\* The resume after a reset.
LEMMA OrderlyResume ==
  ASSUME NEW s, NEW msg
  PROVE  Orderly(s, ResumeStep(s, msg).append)
<1> DEFINE e == ResumeDue(s.turn.id, msg, s.lastSeq)
           n == NextModelCall(s, 1)
<1>1. \/ ResumeStep(s, msg) = Empty
      \/ ~s.turn.interrupted /\ ResumeStep(s, msg).append = <<e>> \o n.append
  BY DEF ResumeStep, Then, Output
<1>2. e.kind = "resume"
  BY DEF ResumeDue, Event
<1> HIDE DEF e
<1>3. Lead(s, <<e>>)
  BY <1>2, LeadEvent
<1>4. QED
  BY <1>1, <1>3, OrderlyEvent, OrderlyNext

\* The cascade of an event.
LEMMA OrderlyCascade ==
  ASSUME NEW s, IsState(s), NEW e, IsEvent(e)
  PROVE  Orderly(s, EventStep(s, e).append)
<1> DEFINE x == ExpandToolCalls(s.turn.id, e.tools)
           quiet == {Empty, Output(InterruptCleanup(s), {}), Output(<<TurnClosed(s.turn.id)>>, {}),
                     Output(<<TurnWaiting(s.turn.id, s.turn.waits)>>, {}), x}
           next == NextModelCall(s, 0)
<1>1. Orderly(s, Output(InterruptCleanup(s), {}).append) /\ Orderly(s, x.append)
  BY QuietCleanup, QuietExpand, OrderlyAlone DEF Output, IsEvent
<1>2. /\ Orderly(s, Empty.append) /\ Orderly(s, Output(<<TurnClosed(s.turn.id)>>, {}).append)
      /\ Orderly(s, Output(<<TurnWaiting(s.turn.id, s.turn.waits)>>, {}).append)
  BY OrderlyEvent
<1>3. \A out \in quiet : Orderly(s, out.append)
  BY <1>1, <1>2
<1>4. AnswerStep(s, e) \in quiet \/ (~s.turn.interrupted /\ AnswerStep(s, e) = next)
  BY DEF AnswerStep
<1>5. FailedStep(s, e) \in quiet \/ (~s.turn.interrupted /\ FailedStep(s, e) = next)
  BY DEF FailedStep
<1>6. /\ ToolStep(s) \in quiet \/ (~s.turn.interrupted /\ ToolStep(s) = next)
      /\ ResolvedStep(s) \in quiet \/ (~s.turn.interrupted /\ ResolvedStep(s) = next)
  BY DEF ToolStep, ResolvedStep
<1>7. \/ ClosedStep(s) \in quiet
      \/ s.turn = None /\ ClosedStep(s) = PromoteSteersAsTurn(s)
      \/ s.turn = None /\ s.deferred # <<>> /\ ClosedStep(s) = PromoteDeferred(s)
  BY DEF ClosedStep
<1>8. /\ Output(InterruptCleanup(s), {}) \in quiet /\ Empty \in quiet
      /\ EventStep(s, e) \in {AnswerStep(s, e), ClosedStep(s), FailedStep(s, e), ToolStep(s),
                              ResolvedStep(s), Output(InterruptCleanup(s), {}), Empty}
  BY DEF EventStep
<1>9. ~s.turn.interrupted => Orderly(s, next.append)
  BY OrderlyNextAlone
<1>10. Orderly(s, ClosedStep(s).append)
  BY <1>3, <1>7, OrderlyPromotions
<1> HIDE DEF quiet, next
<1>11. QED
  BY <1>3, <1>4, <1>5, <1>6, <1>8, <1>9, <1>10

\* An event of a beginning leaves the open turn as it is.
LEMMA KeepingTurn ==
  ASSUME NEW s, IsState(s), NEW e, e.kind \in Keeping
  PROVE  ApplyEvent(s, e).turn = s.turn
<1> DEFINE t == [s EXCEPT !.lastSeq = e.seq]
<1>1. t = [x \in StateFields |-> t[x]] /\ t.turn = s.turn
  BY DEF IsState, StateFields
<1>2. ApplyEvent(s, e) = IF e.kind = "user" THEN OnUserMessage(t, e)
                         ELSE IF e.kind = "message.failed" THEN OnMessageTerminal(t, e) ELSE t
  BY DEF ApplyEvent, Keeping
<1> HIDE DEF t
<1>3. OnUserMessage(t, e).turn = t.turn
  <2> DEFINE item == [src |-> e.src, id |-> e.id, seq |-> e.seq]
             kept == Without(t.deferred, e.src)
             added == Append(t.entries, [kind |-> "user", id |-> e.id, tools |-> {}])
             waits == Append(t.deferred, item)
             steers == Append(t.steering, item)
  <2>1. \/ OnUserMessage(t, e) = [t EXCEPT !.deferred = waits]
        \/ OnUserMessage(t, e) = [t EXCEPT !.deferred = kept, !.entries = added, !.steering = steers]
        \/ OnUserMessage(t, e) = [t EXCEPT !.deferred = kept, !.entries = added, !.prompt = item]
    <3> DEFINE read == [t EXCEPT !.deferred = kept, !.entries = added]
    <3>1. OnUserMessage(t, e) = IF e.after /\ t.turn # None THEN [t EXCEPT !.deferred = waits]
                                ELSE IF t.turn # None THEN [read EXCEPT !.steering = Append(@, item)]
                                ELSE [read EXCEPT !.prompt = item]
      BY DEF OnUserMessage
    <3> HIDE DEF item, kept, added, waits
    <3>2. /\ [read EXCEPT !.steering = Append(@, item)]
               = [t EXCEPT !.deferred = kept, !.entries = added, !.steering = steers]
          /\ [read EXCEPT !.prompt = item] = [t EXCEPT !.deferred = kept, !.entries = added, !.prompt = item]
      BY <1>1 DEF StateFields
    <3> HIDE DEF read, steers
    <3>3. QED
      BY <3>1, <3>2
  <2> HIDE DEF item, kept, added, waits, steers
  <2>2. QED
    BY <1>1, <2>1 DEF StateFields
<1>4. OnMessageTerminal(t, e).turn = t.turn
  BY <1>1 DEF OnMessageTerminal, StateFields
<1>5. QED
  BY <1>1, <1>2, <1>3, <1>4

\* An event that opens a turn.
LEMMA OpeningTurn ==
  ASSUME NEW s, IsState(s), NEW e, e.kind = "turn.opened"
  PROVE  ~ApplyEvent(s, e).turn.interrupted
<1> DEFINE t == [s EXCEPT !.lastSeq = e.seq]
<1>1. t = [x \in StateFields |-> t[x]]
  BY DEF IsState, StateFields
<1>2. ApplyEvent(s, e) = OnTurnOpened(t, e)
  BY DEF ApplyEvent
<1> HIDE DEF t
<1>3. OnTurnOpened(t, e).turn = OpenTurn(e.turn, e.seq)
  BY <1>1 DEF OnTurnOpened, StateFields
<1>4. QED
  BY <1>2, <1>3 DEF OpenTurn

\* The state after none or one event of a beginning.
LEMMA ProjectedTurn ==
  ASSUME NEW s, IsState(s), NEW e, IsEvent(e), e.kind \in Keeping, NEW q, q \in {<<>>, <<e>>}
  PROVE  ProjectAppend(s, q).turn = s.turn
<1> DEFINE es == [i \in DOMAIN q |-> [q[i] EXCEPT !.seq = s.lastSeq + i]]
           d == [e EXCEPT !.seq = s.lastSeq + 1]
<1>1. ProjectAppend(s, q) = FoldEvents(s, es)
  BY DEF ProjectAppend
<1>2. CASE q = <<>>
  <2>1. es = <<>>
    BY <1>2
  <2>2. QED
    BY <1>1, <2>1, FoldOne
<1>3. CASE q = <<e>>
  <2>1. es = <<d>>
    BY <1>3
  <2>2. d.kind \in Keeping
    BY DEF IsEvent, EventFields
  <2> HIDE DEF d, es
  <2>3. FoldEvents(s, <<d>>) = ApplyEvent(s, d)
    BY FoldOne
  <2>4. QED
    BY <1>1, <2>1, <2>2, <2>3, KeepingTurn
<1>4. QED
  BY <1>2, <1>3

\* The wake command.
LEMMA OrderlyWake ==
  ASSUME NEW s, IsState(s)
  PROVE  Orderly(s, WakeStep(s).append)
<1> DEFINE e == MessageFailed(s.call.msg, "recoverable")
           orphan == IF s.call = None THEN <<>> ELSE <<e>>
           t == ProjectAppend(s, orphan)
           c == InterruptCleanup(t)
           x == ExpandToolCalls(t.turn.id, Unprocessed(t))
           n == NextModelCall(t, Len(orphan))
           o == OpenTurnFor(t, t.prompt.id, orphan)
<1>1. \/ WakeStep(s).append = orphan \o c
      \/ WakeStep(s).append = orphan \o x.append
      \/ ~t.turn.interrupted /\ WakeStep(s).append = orphan \o n.append
      \/ t.turn = None /\ WakeStep(s) = o
      \/ WakeStep(s).append = orphan
  <2>1. \/ WakeStep(s) = Output(orphan \o c, {})
        \/ WakeStep(s) = Then(orphan, x)
        \/ ~t.turn.interrupted /\ WakeStep(s) = Then(orphan, n)
        \/ t.turn = None /\ WakeStep(s) = o
        \/ WakeStep(s) = Output(orphan, {})
    BY DEF WakeStep, PromotePendingPrompt
  <2> HIDE DEF e, orphan, t, c, x, n, o
  <2>2. QED
    BY <2>1 DEF Then, Output
<1>2. ASSUME NEW a, NEW b PROVE IsEvent(MessageFailed(a, b)) /\ MessageFailed(a, b).kind = "message.failed"
  BY EventsAreEvents DEF MessageFailed, Event
<1>3. IsEvent(e) /\ e.kind = "message.failed" /\ orphan \in {<<>>, <<e>>}
  BY <1>2
<1> HIDE DEF e, orphan
<1>4. Batch(orphan, {e.id[1]})
  BY <1>3, BatchOptional
<1>5. Lead(s, orphan)
  <2>1. Lead(s, <<e>>)
    BY <1>3, LeadEvent
  <2>2. Lead(s, <<>>)
    BY LeadIs
  <2>3. QED
    BY <1>3, <2>1, <2>2
<1>6. IsState(t)
  BY <1>4, ProjectIsState DEF Batch
<1>7. t.turn = s.turn
  <2>1. e.kind \in Keeping
    BY <1>3 DEF Keeping
  <2>2. QED
    BY <1>3, <2>1, ProjectedTurn
<1> HIDE DEF t
<1>8. Quiet(c) /\ Quiet(x.append)
  BY <1>6, QuietCleanup, UnprocessedFinite, QuietExpand
<1>9. Orderly(s, orphan \o c) /\ Orderly(s, orphan \o x.append)
  BY <1>5, <1>8, OrderlyQuiet
<1>10. ~t.turn.interrupted => Orderly(s, orphan \o n.append)
  BY <1>5, <1>7, OrderlyNext
<1>11. t.turn = None => Orderly(s, o.append)
  BY <1>5, <1>7, OrderlyOpen
<1>12. Orderly(s, orphan)
  BY <1>5, OrderlyAlone
<1> HIDE DEF c, x, n, o
<1>13. QED
  BY <1>1, <1>9, <1>10, <1>11, <1>12

\* An effect that ran out of attempts.
LEMMA OrderlyFailure ==
  ASSUME NEW s, IsState(s), NEW effect, effect[1] \in {"model", "inv", "cred"}, NEW why
  PROVE  Orderly(s, EffectFailedStep(s, effect, why).append)
<1>1. Quiet(ModelFailedStep(s, effect, why).append)
  <2> DEFINE e == MessageFailed(s.call.msg, why)
             a == IF s.call = None THEN <<>> ELSE <<e>>
             d == Diagnostic(s.turn.id, effect)
             c == TurnClosed(s.turn.id)
             b == IF s.turn = None \/ why = "reset" THEN <<>> ELSE <<d, c>>
  <2>1. ModelFailedStep(s, effect, why).append = a \o b
    BY DEF ModelFailedStep, Output
  <2>2. e.kind = "message.failed" /\ d.kind = "message.completed" /\ c.kind = "turn.closed"
    BY DEF MessageFailed, Diagnostic, TurnClosed, Event
  <2>3. a \in {<<>>, <<e>>} /\ b \in {<<>>, <<d, c>>}
    OBVIOUS
  <2> HIDE DEF a, b, c, d, e
  <2>4. Quiet(<<>>) /\ Quiet(<<e>>) /\ Quiet(<<d, c>>)
    <3>1. Settles(<<d, c>>)
      BY <2>2, SettlesOne, SettlesPair
    <3>2. <<d, c>> \in Seq({d, c})
      OBVIOUS
    <3>3. QED
      BY <2>2, <3>1, <3>2, QuietParts DEF Quiet, IsSeq
  <2>5. Quiet(a) /\ Quiet(b)
    BY <2>3, <2>4, QuietParts
  <2>6. QED
    BY <2>1, <2>5, QuietParts
<1>2. Quiet(WaitFailedStep(s).append)
  <2> DEFINE e == WaitExpired(s.wait.turn, s.wait.at)
             a == IF s.wait = None THEN <<>> ELSE <<e>>
             c == TurnClosed(s.turn.id)
             b == IF s.turn = None THEN <<>> ELSE <<c>>
  <2>1. WaitFailedStep(s).append = a \o b
    BY DEF WaitFailedStep, Output
  <2>2. e.kind = "wait.expired" /\ c.kind = "turn.closed"
    BY DEF WaitExpired, TurnClosed, Event
  <2>3. a \in {<<>>, <<e>>} /\ b \in {<<>>, <<c>>}
    OBVIOUS
  <2> HIDE DEF a, b, c, e
  <2>4. Quiet(a) /\ Quiet(b)
    BY <2>2, <2>3, QuietParts
  <2>5. QED
    BY <2>1, <2>4, QuietParts
<1>3. Quiet(InvocationFailedStep(s, effect[2]).append)
  <2> DEFINE P == {p \in s.pending : p.inv = effect[2]}
             g == [i \in P |-> InvocationTerminal(i.turn, i.inv, "failed")]
             X == {g[i] : i \in P}
  <2>1. X = {InvocationTerminal(i.turn, i.inv, "failed") : i \in P}
    OBVIOUS
  <2>2. InvocationFailedStep(s, effect[2]).append = SetToSeq(X)
    BY <2>1 DEF InvocationFailedStep, Output
  <2>3. IsFiniteSet(P) /\ g = [i \in P |-> g[i]]
    BY FS_Subset DEF IsState, Shaped
  <2>4. \A i \in P : g[i].kind = "invocation.terminal"
    BY DEF InvocationTerminal, Event
  <2> HIDE DEF g, P
  <2>5. IsFiniteSet(X)
    BY <2>3, ImageFinite
  <2>6. \A x \in X : x.kind = "invocation.terminal"
    BY <2>4
  <2> HIDE DEF X
  <2>7. QED
    BY <2>2, <2>5, <2>6, QuietSet
<1>4. EffectFailedStep(s, effect, why) \in {ModelFailedStep(s, effect, why), WaitFailedStep(s),
                                            InvocationFailedStep(s, effect[2])}
  BY DEF EffectFailedStep
<1>5. QED
  BY <1>1, <1>2, <1>3, <1>4, OrderlyAlone

\* Whatever reaches the loop, its answer is in order.
LEMMA StepIsOrderly ==
  ASSUME NEW s, IsState(s), NEW in, IsIncoming(in)
  PROVE  Orderly(s, Step(s, in).append)
<1>1. CASE in.type = "prompt"
  BY <1>1, OrderlyPrompt DEF Step
<1>2. CASE in.type = "interrupt"
  BY <1>2, OrderlyInterrupt DEF Step
<1>3. CASE in.type = "flush"
  BY <1>3, OrderlyFlush, OrderlyInterrupt DEF Step
<1>4. CASE in.type = "wake"
  BY <1>4, OrderlyWake DEF Step
<1>5. CASE in.type = "resume"
  BY <1>5, OrderlyResume DEF Step
<1>6. CASE in.type = "event"
  BY <1>6, OrderlyCascade DEF Step, IsIncoming
<1>7. CASE in.type = "failed"
  BY <1>7, OrderlyFailure DEF Step, IsIncoming
<1>8. QED
  BY <1>1, <1>2, <1>3, <1>4, <1>5, <1>6, <1>7 DEF IsIncoming

-----------------------------------------------------------------------------
(* What an append adds to the journal, and the state it adds it to.        *)

\* The state of the journal l before its event at i.
Before(l, i) == FoldEvents(InitialState, SubSeq(l, 1, i - 1))

\* What the event e may be in the state s.
InOrder(s, e) ==
  /\ e.kind = "turn.opened" => s.turn = None
  /\ e.kind = "message.started" => ~s.turn.interrupted
  /\ e.kind = "user" =>
       /\ IsReceipt(e)
       /\ e.id[1] = "promoted" => s.turn = None /\ s.deferred # <<>> /\ s.deferred[1].src = e.src

\* Every event that a step adds to the journal is in order where it is added.
AddsInOrder == \A i \in Len(log) + 1 .. Len(log') : InOrder(Before(log', i), log'[i])

\* The states of a journal to which events are added.
LEMMA BeforeAdded ==
  ASSUME NEW l, IsSeq(l), NEW x, IsSeq(x), NEW g, LeadsTo(g, TruthOf(l), x), NEW j \in 1 .. Len(x)
  PROVE  Before(l \o x, Len(l) + j) = g[j - 1]
<1> DEFINE c == l \o x
           y == SubSeq(x, 1, j - 1)
           n == Len(l) + (j - 1)
           a == SubSeq(c, 1, n)
           b == l \o y
<1>1. Len(l) \in Nat /\ Len(x) \in Nat
  BY SeqDomain
<1>2. /\ j - 1 \in 0 .. Len(x) /\ j - 1 \in Nat /\ n \in Nat /\ (Len(l) + j) - 1 = n
      /\ \A k \in 1 .. j - 1 : k \in 1 .. Len(x)
  BY <1>1
<1>3. /\ IsSeq(c) /\ Len(c) = Len(l) + Len(x)
      /\ \A k \in 1 .. Len(l) : c[k] = l[k]
      /\ \A k \in 1 .. Len(x) : c[Len(l) + k] = x[k]
  BY SeqConcat
<1>4. IsSeq(y) /\ Len(y) = j - 1 /\ \A k \in 1 .. j - 1 : y[k] = x[k]
  BY <1>2, LogSplits
<1> HIDE DEF y
<1>5. /\ IsSeq(b) /\ Len(b) = Len(l) + Len(y)
      /\ \A k \in 1 .. Len(l) : b[k] = l[k]
      /\ \A k \in 1 .. Len(y) : b[Len(l) + k] = y[k]
  <2>1. IsSeq(y)
    BY <1>4
  <2>2. QED
    BY <2>1, SeqConcat
<1> HIDE DEF b, c
<1>6. n \in 0 .. Len(c)
  BY <1>1, <1>2, <1>3
<1>7. IsSeq(a) /\ Len(a) = n /\ \A k \in 1 .. n : a[k] = c[k]
  BY <1>3, <1>6, LogSplits
<1> HIDE DEF a
<1>8. ASSUME NEW k \in 1 .. n PROVE c[k] = b[k]
  <2>1. CASE k \in 1 .. Len(l)
    BY <1>3, <1>5, <2>1
  <2>2. CASE k \notin 1 .. Len(l)
    <3>1. k - Len(l) \in 1 .. j - 1 /\ Len(l) + (k - Len(l)) = k
      BY <1>1, <1>2, <2>2
    <3> DEFINE d == k - Len(l)
    <3>2. d \in 1 .. j - 1 /\ d \in 1 .. Len(x) /\ d \in 1 .. Len(y) /\ Len(l) + d = k
      BY <1>2, <1>4, <3>1
    <3> HIDE DEF d
    <3>3. c[Len(l) + d] = x[d] /\ b[Len(l) + d] = y[d] /\ y[d] = x[d]
      BY <1>3, <1>4, <1>5, <3>2
    <3>4. QED
      BY <3>2, <3>3
  <2>3. QED
    BY <2>1, <2>2
<1>9. a = b
  <2>1. Len(a) = Len(b) /\ \A k \in 1 .. Len(a) : a[k] = b[k]
    BY <1>4, <1>5, <1>7, <1>8
  <2>2. QED
    BY <1>5, <1>7, <2>1, SameSequence
<1>10. FoldEvents(InitialState, b) = FoldEvents(TruthOf(l), y)
  <2>1. IsSeq(y)
    BY <1>4
  <2>2. QED
    BY <2>1, FoldConcat DEF b, TruthOf
<1>11. FoldEvents(TruthOf(l), y) = g[j - 1]
  <2>1. g[0] = TruthOf(l) /\ \A k \in 1 .. Len(x) : g[k] = ApplyEvent(g[k - 1], x[k])
    BY DEF LeadsTo
  <2>2. \A k \in 1 .. Len(y) : g[k] = ApplyEvent(g[k - 1], y[k])
    BY <1>2, <1>4, <2>1
  <2>3. QED
    BY <1>4, <2>1, <2>2, FoldUnique
<1>12. QED
  BY <1>2, <1>9, <1>10, <1>11 DEF Before, a, c

\* The states that events lead to; the turn is the same after a beginning.
LEMMA TurnKept ==
  ASSUME NEW s, IsState(s), NEW x, IsSeq(x), \A i \in DOMAIN x : IsEnvelope(x[i]),
         NEW g, LeadsTo(g, s, x), NEW n \in 0 .. Len(x)
  PROVE  /\ IsState(g[n])
         /\ (\A i \in 1 .. n : x[i].kind \in Keeping) => g[n].turn = s.turn
<1>1. Len(x) \in Nat /\ DOMAIN x = 1 .. Len(x)
  BY SeqDomain
<1>2. g[0] = s /\ \A k \in 1 .. Len(x) : g[k] = ApplyEvent(g[k - 1], x[k])
  BY DEF LeadsTo
<1> DEFINE Leads(m) == \A i \in 1 .. m : x[i].kind \in Keeping
           S == {m \in Nat : m <= Len(x) => IsState(g[m]) /\ (Leads(m) => g[m].turn = s.turn)}
<1>3. 0 \in S
  BY <1>2
<1>4. ASSUME NEW m \in Nat, m \in S PROVE m + 1 \in S
  <2>1. SUFFICES ASSUME m + 1 <= Len(x)
                 PROVE  IsState(g[m + 1]) /\ (Leads(m + 1) => g[m + 1].turn = s.turn)
    OBVIOUS
  <2>2. m + 1 \in 1 .. Len(x) /\ (m + 1) - 1 = m /\ m <= Len(x)
    BY <1>1, <2>1
  <2>3. IsState(g[m]) /\ (Leads(m) => g[m].turn = s.turn)
    BY <1>4, <2>2
  <2>4. Leads(m + 1) => Leads(m) /\ x[m + 1].kind \in Keeping
    <3>1. m + 1 \in 1 .. m + 1 /\ \A i \in 1 .. m : i \in 1 .. m + 1
      OBVIOUS
    <3>2. QED
      BY <3>1
  <2>5. g[m + 1] = ApplyEvent(g[m], x[m + 1])
    BY <1>2, <2>2
  <2> HIDE DEF Leads
  <2>6. IsState(g[m + 1])
    <3>1. IsEnvelope(x[m + 1])
      BY <1>1, <2>2
    <3>2. Follows(g[m], x[m + 1], g[m + 1])
      BY <2>3, <2>5, <3>1, ApplyEventFollows
    <3>3. QED
      BY <3>2 DEF Follows
  <2>7. ASSUME Leads(m + 1) PROVE g[m + 1].turn = s.turn
    BY <2>3, <2>4, <2>5, <2>7, KeepingTurn
  <2>8. QED
    BY <2>6, <2>7
<1> HIDE DEF S
<1>5. n \in Nat /\ n <= Len(x)
  BY <1>1
<1>6. n \in S
  BY <1>3, <1>4, <1>5, NatSetInduction
<1>7. QED
  BY <1>5, <1>6 DEF S

\* What the store inserts is what is new in the batch.
LEMMA InsertedIs ==
  ASSUME IsLog(log), NEW items, NEW tags, Batch(items, tags), NEW expected,
         AppendError(expected, items) = None, NEW i \in DOMAIN Inserted(items)
  PROVE  LET p == Replayed(items)
             e == Inserted(items)[i]
         IN  /\ p \in Nat /\ i \in Nat \ {0} /\ p + i \in DOMAIN items
             /\ IsEnvelope(e) /\ e.id = items[p + i].id
             /\ e.kind = items[p + i].kind /\ e.src = items[p + i].src
<1> DEFINE p == Replayed(items)
           new == Inserted(items)
<1>1. /\ p \in Nat /\ IsSeq(new) /\ i \in Nat /\ p + i \in DOMAIN items
      /\ IsEnvelope(new[i]) /\ new[i].id = items[p + i].id
  BY InsertedItems
<1>2. IsEvent(items[p + i])
  BY <1>1 DEF Batch
<1>3. new[i] = [items[p + i] EXCEPT !.seq = Len(log) + i] /\ i \in 1 .. Len(items) - p
  BY DEF Inserted
<1>4. DOMAIN new = 1 .. Len(new) /\ Len(new) \in Nat
  BY <1>1, SeqDomain
<1> HIDE DEF p, new
<1>5. new[i].kind = items[p + i].kind /\ new[i].src = items[p + i].src
  BY <1>2, <1>3 DEF IsEvent, EventFields
<1>6. i # 0
  BY <1>4 DEF new
<1>7. QED
  BY <1>1, <1>5, <1>6 DEF p, new

\* When the batch goes on where the journal ends with a turn that was opened, that
\* turn is not interrupted.
LEMMA ReplayedOpening ==
  ASSUME IsLog(log), NEW items, NEW tags, Batch(items, tags), NEW expected,
         AppendError(expected, items) = None,
         Replayed(items) \in 1 .. Len(items) - 1, items[Replayed(items)].kind = "turn.opened"
  PROVE  ~TruthOf(log).turn.interrupted
<1> DEFINE p == Replayed(items)
           n == Len(log)
<1>1. IsSeq(items) /\ IsSeq(log) /\ n \in Nat /\ DOMAIN log = 1 .. n /\ Len(items) \in Nat
  BY SeqDomain DEF Batch, IsLog
<1>2. p \in 1 .. p /\ p \in 1 .. Len(items) - 1
  BY <1>1
<1>3. Journaled(items[p].id)
  BY <1>1, <1>2, ReplayedPrefix
<1>4. Position(items[p]) = n /\ SameContent(items[p])
  BY <1>2, NoError DEF AppendError
<1> HIDE DEF p
<1>5. n \in DOMAIN log
  BY <1>3, <1>4 DEF Position, Journaled, JournaledAt
<1>6. [log[n] EXCEPT !.seq = 0] = items[p] /\ IsEnvelope(log[n])
  BY <1>4, <1>5 DEF SameContent, IsLog
<1>7. log[n].kind = "turn.opened"
  <2>1. [log[n] EXCEPT !.seq = 0].kind = log[n].kind
    BY <1>6 DEF IsEnvelope, IsEvent, EventFields
  <2>2. QED
    BY <1>6, <2>1 DEF p
<1>8. PICK g : LeadsTo(g, InitialState, log)
  BY <1>1, FoldStates
<1>9. n \in 1 .. n /\ n - 1 \in 0 .. n
  BY <1>1, <1>5
<1>10. TruthOf(log) = g[n] /\ g[n] = ApplyEvent(g[n - 1], log[n])
  BY <1>8, <1>9 DEF LeadsTo, TruthOf
<1>11. IsState(g[n - 1])
  <2>1. IsState(InitialState) /\ \A i \in DOMAIN log : IsEnvelope(log[i])
    BY InitialGood DEF GoodState, IsLog
  <2>2. QED
    BY <1>1, <1>8, <1>9, <2>1, TurnKept
<1>12. QED
  BY <1>7, <1>10, <1>11, OpeningTurn

\* A batch that is in order is added in order.
LEMMA BatchInOrder ==
  ASSUME IsLog(log), NEW items, NEW tags, Batch(items, tags), NEW expected,
         AppendError(expected, items) = None, Orderly(TruthOf(log), items),
         NEW g, LeadsTo(g, TruthOf(log), Inserted(items)), NEW j \in DOMAIN Inserted(items)
  PROVE  InOrder(g[j - 1], Inserted(items)[j])
<1> DEFINE p == Replayed(items)
           new == Inserted(items)
           s == TruthOf(log)
           e == new[j]
<1>1. /\ p \in Nat /\ j \in Nat \ {0} /\ p + j \in DOMAIN items
      /\ e.id = items[p + j].id /\ e.kind = items[p + j].kind /\ e.src = items[p + j].src
  BY InsertedIs
<1>2. /\ IsSeq(new) /\ \A i \in DOMAIN new :
           /\ i \in Nat \ {0} /\ IsEnvelope(new[i]) /\ new[i].kind = items[p + i].kind
  BY InsertedItems, InsertedIs
<1>3. /\ DOMAIN new = 1 .. Len(new) /\ Len(new) \in Nat
      /\ Len(items) \in Nat /\ DOMAIN items = 1 .. Len(items)
  <2>1. IsSeq(items)
    BY DEF Batch
  <2>2. QED
    BY <1>2, <2>1, SeqDomain
<1>4. IsState(s)
  BY TruthIs
<1>5. LeadsTo(g, s, new)
  OBVIOUS
<1>e. e = new[j] /\ j \in DOMAIN new
  OBVIOUS
<1>o. Orderly(s, items)
  OBVIOUS
<1>6. (p \in 1 .. Len(items) - 1 /\ items[p].kind = "turn.opened") => ~s.turn.interrupted
  BY ReplayedOpening
<1> HIDE DEF p, new, s, e
<1>7. /\ j - 1 \in 0 .. Len(new) /\ \A i \in 1 .. j - 1 : i \in DOMAIN new /\ p + i \in 1 .. (p + j) - 1
  BY <1>1, <1>3, <1>e
<1>8. g[0] = s /\ \A k \in 1 .. Len(new) : g[k] = ApplyEvent(g[k - 1], new[k])
  BY <1>5 DEF LeadsTo
<1>9. ASSUME \A i \in 1 .. (p + j) - 1 : items[i].kind \in Keeping PROVE g[j - 1].turn = s.turn
  <2>1. \A i \in 1 .. j - 1 : new[i].kind \in Keeping
    BY <1>2, <1>7, <1>9
  <2>2. QED
    BY <1>2, <1>4, <1>5, <1>7, <2>1, TurnKept
<1>10. e.kind = "turn.opened" => g[j - 1].turn = None
  BY <1>1, <1>9, <1>o DEF Orderly
<1>11. ASSUME e.kind = "message.started" PROVE ~g[j - 1].turn.interrupted
  <2>1. \/ ~s.turn.interrupted /\ \A i \in 1 .. (p + j) - 1 : items[i].kind \in Keeping
        \/ p + j > 1 /\ items[(p + j) - 1].kind = "turn.opened"
    BY <1>1, <1>11, <1>o DEF Orderly
  <2>2. CASE ~s.turn.interrupted /\ \A i \in 1 .. (p + j) - 1 : items[i].kind \in Keeping
    BY <1>9, <2>2
  <2>3. CASE p + j > 1 /\ items[(p + j) - 1].kind = "turn.opened" /\ j = 1
    <3>1. (p + j) - 1 = p /\ p \in 1 .. Len(items) - 1 /\ j - 1 = 0
      BY <1>1, <1>3, <2>3
    <3>2. QED
      BY <1>6, <1>8, <2>3, <3>1
  <2>4. CASE p + j > 1 /\ items[(p + j) - 1].kind = "turn.opened" /\ j # 1
    <3> DEFINE k == j - 1
    <3>1. k \in 1 .. Len(new) /\ p + k = (p + j) - 1 /\ k - 1 \in 0 .. Len(new)
      BY <1>1, <1>3, <1>7, <2>4
    <3> HIDE DEF k
    <3>2. new[k].kind = "turn.opened" /\ g[k] = ApplyEvent(g[k - 1], new[k])
      BY <1>2, <1>3, <1>8, <2>4, <3>1
    <3>3. IsState(g[k - 1])
      BY <1>2, <1>4, <1>5, <3>1, TurnKept
    <3>4. ~g[k].turn.interrupted
      BY <3>2, <3>3, OpeningTurn
    <3>5. QED
      BY <3>4 DEF k
  <2>5. QED
    BY <2>1, <2>2, <2>3, <2>4
<1>12. ASSUME e.kind = "user" /\ e.id[1] = "promoted"
       PROVE  g[j - 1].turn = None /\ g[j - 1].deferred # <<>> /\ g[j - 1].deferred[1].src = e.src
  <2>1. p + j = 1 /\ s.turn = None /\ s.deferred # <<>> /\ s.deferred[1].src = e.src
    BY <1>1, <1>12, <1>o DEF Orderly, Receipts
  <2>2. j - 1 = 0
    BY <1>1, <2>1
  <2>3. QED
    BY <1>8, <2>1, <2>2
<1>r. e.kind = "user" => IsReceipt(e)
  BY <1>1, <1>o DEF Orderly, Receipts, IsReceipt
<1>13. InOrder(g[j - 1], e)
  BY <1>10, <1>11, <1>12, <1>r DEF InOrder
<1>14. QED
  BY <1>13, <1>e DEF new

\* Only an append changes the journal.
LEMMA OnlyCommit ==
  ASSUME NEW f, Flow = {f}, [Next]_vars, ~Commit(f)
  PROVE  log' = log
<1>0. f \in Flow /\ \A h \in Flow : h = f
  OBVIOUS
<1>1. CASE \/ LoadLive(f) \/ LoadCold(f) \/ GetLogHead(f) \/ CompareHead(f) \/ ReadTail(f) \/ LoadTail(f)
  BY <1>1 DEF LoadLive, LoadCold, GetLogHead, CompareHead, ReadTail, LoadTail, Install, durable
<1>2. CASE \/ RunStep(f) \/ Send(f) \/ Reply(f) \/ Fold(f)
  BY <1>2 DEF RunStep, Send, Reply, Fold, durable
<1>3. CASE \/ StaleStep(f) \/ StaleOutcome(f) \/ StaleSuspend(f) \/ StaleStranded(f) \/ RetryStranded(f)
  BY <1>3 DEF StaleStep, StaleOutcome, StaleSuspend, StaleStranded, RetryStranded, durable
<1>4. CASE \/ ReconcileLoop(f) \/ DropLoop(f) \/ WakeLoop(f) \/ RecoverTurn(f) \/ Execute(f) \/ Suspend(f)
  BY <1>4 DEF ReconcileLoop, DropLoop, WakeLoop, RecoverTurn, Execute, Suspend, durable
<1>5. CASE \/ DeleteRow(f) \/ Acknowledge(f) \/ FlushLoop(f) \/ AbortChannel(f) \/ ScheduleLoop(f) \/ Unschedule(f)
  BY <1>5 DEF DeleteRow, Acknowledge, FlushLoop, AbortChannel, ScheduleLoop, Unschedule, durable
<1>6. CASE Begin(f)
  BY <1>0, <1>6, BeginIsFresh
<1>7. CASE FinishDeferred \/ LeaseExpires \/ Crash \/ UNCHANGED vars
  BY <1>7 DEF FinishDeferred, LeaseExpires, Crash, durable, vars
<1>8. QED
  BY <1>0, <1>1, <1>2, <1>3, <1>4, <1>5, <1>6, <1>7 DEF Next, Continue

\* What the flow appends is in order for the journal that it is appended to.
LEMMA CommitInOrder ==
  ASSUME NEW f, Flow = {f}, DriverInv, OneFlowInv(f), Commit(f)
  PROVE  AddsInOrder
<1> DEFINE t == Current(f)
           error == AppendError(t.expected, t.items)
           new == Inserted(t.items)
<1>1. /\ f \in Flow /\ At(f, "commit")
      /\ (error = None /\ log' = log \o new) \/ log' = log
  BY DEF Commit
<1>2. /\ t.do = "commit" /\ IsTask(t, IdsOf(log), DOMAIN loops) /\ TopOK(t, live, log, loops)
  BY <1>1, AtOne DEF WithLoop
<1>3. IsLog(log) /\ IsSeq(log) /\ Len(log) \in Nat
  BY SeqDomain DEF DriverInv, DurableInv, IsLog
<1>4. CASE log' = log
  BY <1>3, <1>4 DEF AddsInOrder
<1>5. CASE error = None /\ log' = log \o new
  <2>1. Acts(t) = "commit" /\ Acts(t) \in Appending
    BY <1>2 DEF Acts, Loadings, Appending
  <2>2. /\ \E tags : Batch(t.items, tags)
        /\ t.kind = "step" => IsIncoming(t.in)
        /\ t.kind # "step" => Settles(t.items)
    BY <1>2, <2>1 DEF IsTask
  <2>3. PICK tags : Batch(t.items, tags)
    BY <2>2
  <2>4. IsSeq(t.items)
    BY <2>3 DEF Batch
  <2>5. Orderly(TruthOf(log), t.items)
    <3>1. CASE t.kind = "step"
      <4>1. t.items = Step(TruthOf(log), t.in).append /\ IsIncoming(t.in) /\ IsState(TruthOf(log))
        BY <1>2, <1>3, <2>2, <3>1, TruthIs DEF TopOK
      <4>2. QED
        BY <4>1, StepIsOrderly
    <3>2. CASE t.kind # "step"
      BY <2>2, <3>2 DEF Orderly, Receipts, Settles
    <3>3. QED
      BY <3>1, <3>2
  <2>6. IsSeq(new)
    BY <1>3, <1>5, <2>3, NewEnvelopes
  <2>7. PICK g : LeadsTo(g, TruthOf(log), new)
    BY <2>6, FoldStates
  <2>8. ASSUME NEW j \in DOMAIN new PROVE InOrder(g[j - 1], new[j])
    BY <1>3, <1>5, <2>3, <2>5, <2>7, BatchInOrder
  <2> HIDE DEF new
  <2>9. /\ Len(new) \in Nat /\ DOMAIN new = 1 .. Len(new) /\ Len(log \o new) = Len(log) + Len(new)
        /\ \A k \in 1 .. Len(new) : (log \o new)[Len(log) + k] = new[k]
    <3>1. IsSeq(log) /\ IsSeq(new)
      BY <1>3, <2>6
    <3>2. QED
      BY <3>1, SeqDomain, SeqConcat
  <2>10. ASSUME NEW i \in Len(log) + 1 .. Len(log') PROVE InOrder(Before(log', i), log'[i])
    <3> DEFINE j == i - Len(log)
    <3>1. j \in 1 .. Len(new) /\ i = Len(log) + j
      BY <1>3, <1>5, <2>9
    <3> HIDE DEF j
    <3>2. Before(log \o new, Len(log) + j) = g[j - 1]
      BY <1>3, <2>6, <2>7, <3>1, BeforeAdded
    <3>3. InOrder(g[j - 1], new[j]) /\ (log \o new)[Len(log) + j] = new[j]
      BY <2>8, <2>9, <3>1
    <3>4. QED
      BY <1>5, <3>1, <3>2, <3>3
  <2>11. QED
    BY <2>10 DEF AddsInOrder
<1>6. QED
  BY <1>1, <1>4, <1>5

\* Every step of the driver adds to the journal in order.
LEMMA NextInOrder ==
  ASSUME NEW f, Flow = {f}, DriverInv, OneFlowInv(f), [Next]_vars
  PROVE  AddsInOrder
<1>1. CASE Commit(f)
  BY <1>1, CommitInOrder
<1>2. CASE ~Commit(f)
  <2>1. log' = log
    BY <1>2, OnlyCommit
  <2>2. Len(log) \in Nat
    BY SeqDomain DEF DriverInv, DurableInv, IsLog
  <2>3. QED
    BY <2>1, <2>2 DEF AddsInOrder
<1>3. QED
  BY <1>1, <1>2

\* While one flow is under way at a time, both invariants hold throughout.
LEMMA OneFlowAlways ==
  ASSUME NEW f, Flow = {f}
  PROVE  Spec => [](DriverInv /\ OneFlowInv(f)) /\ [][Next]_vars
<1>1. Init => OneFlowInv(f)
  BY OneFlowInit
<1>2. DriverInv /\ OneFlowInv(f) /\ [Next]_vars => OneFlowInv(f)'
  BY OneFlowStep
<1>3. QED
  BY <1>1, <1>2, DriverInvariant, PTL DEF Spec

\* There is one open turn: whatever is retried, replayed or reloaded, the event
\* that opens a turn reaches the journal only when it has no open turn.
THEOREM OneTurn ==
  ASSUME NEW f, Flow = {f}
  PROVE  Spec => OneTurnOpen
<1> DEFINE A == Appends(LAMBDA s, e : e.kind = "turn.opened" => s.turn = None)
<1>1. AddsInOrder => A
  BY DEF AddsInOrder, InOrder, Before, Appends
<1>2. DriverInv /\ OneFlowInv(f) /\ [Next]_vars => [A]_vars
  BY <1>1, NextInOrder
<1>3. QED
  BY <1>2, OneFlowAlways, PTL DEF OneTurnOpen

\* A stop holds: once the journal has the interrupt marker of a turn, no model
\* call starts in that turn, also when the call was decided on before the stop.
THEOREM InterruptHolds ==
  ASSUME NEW f, Flow = {f}
  PROVE  Spec => InterruptGates
<1> DEFINE A == Appends(LAMBDA s, e : e.kind = "message.started" => ~s.turn.interrupted)
<1>1. AddsInOrder => A
  BY DEF AddsInOrder, InOrder, Before, Appends
<1>2. DriverInv /\ OneFlowInv(f) /\ [Next]_vars => [A]_vars
  BY <1>1, NextInOrder
<1>3. QED
  BY <1>2, OneFlowAlways, PTL DEF InterruptGates

\* Messages that wait for the end of the turn are received again in the order in
\* which they came, each when no turn is open.
THEOREM PromotedInOrder ==
  ASSUME NEW f, Flow = {f}
  PROVE  Spec => DeferredInOrder
<1> DEFINE A == Appends(LAMBDA s, e : e.kind = "user" /\ e.id[1] = "promoted" =>
                  s.turn = None /\ s.deferred # <<>> /\ s.deferred[1].src = e.src)
<1>1. AddsInOrder => A
  BY DEF AddsInOrder, InOrder, Before, Appends
<1>2. DriverInv /\ OneFlowInv(f) /\ [Next]_vars => [A]_vars
  BY <1>1, NextInOrder
<1>3. QED
  BY <1>2, OneFlowAlways, PTL DEF DeferredInOrder

-----------------------------------------------------------------------------
(* A message is read once.                                                 *)

\* The journal was written in order.
WrittenInOrder(l) == \A i \in DOMAIN l : InOrder(Before(l, i), l[i])

\* Among the ids E: every message was read once, and none that waits was read.
Users(entries) == {i \in DOMAIN entries : entries[i].kind = "user"}
ReadOK(entries, deferred, E) ==
  /\ IsSeq(entries) /\ IsSeq(deferred)
  /\ \A i, j \in Users(entries) : entries[i].id[2] = entries[j].id[2] => i = j
  /\ \A i \in Users(entries) : RecvId(entries[i].id[2]) \in E
  /\ \A d \in DOMAIN deferred : RecvId(deferred[d].src) \in E
  /\ \A d \in DOMAIN deferred : \A i \in Users(entries) : entries[i].id[2] # deferred[d].src

\* An entry that is no message of a user.
LEMMA ReadOther ==
  ASSUME NEW entries, NEW deferred, NEW E, ReadOK(entries, deferred, E), NEW D, E \subseteq D,
         NEW x, x.kind # "user"
  PROVE  ReadOK(entries, deferred, D) /\ ReadOK(Append(entries, x), deferred, D)
<1>1. ReadOK(entries, deferred, D)
  BY DEF ReadOK
<1> DEFINE q == Append(entries, x)
<1>2. /\ IsSeq(q)
      /\ \A i \in DOMAIN q : (i \in DOMAIN entries /\ q[i] = entries[i]) \/ q[i] = x
  BY AppendElements DEF ReadOK
<1> HIDE DEF q
<1>3. \A i \in Users(q) : i \in Users(entries) /\ q[i] = entries[i]
  BY <1>2 DEF Users
<1>4. ReadOK(q, deferred, D)
  BY <1>1, <1>2, <1>3 DEF ReadOK
<1>5. QED
  BY <1>1, <1>4 DEF q

\* A message that is read: it was not read before, and no longer waits.
LEMMA ReadUser ==
  ASSUME NEW entries, NEW deferred, NEW E, ReadOK(entries, deferred, E), NEW D, E \subseteq D,
         NEW x, NEW src, x.id[2] = src, RecvId(src) \in D,
         \A i \in Users(entries) : entries[i].id[2] # src
  PROVE  ReadOK(Append(entries, x), Without(deferred, src), D)
<1> DEFINE q == Append(entries, x)
           w == Without(deferred, src)
<1>1. IsSeq(entries) /\ IsSeq(deferred)
  BY DEF ReadOK
<1>2. /\ IsSeq(q) /\ Len(entries) \in Nat
      /\ \A i \in DOMAIN q : (i \in DOMAIN entries /\ q[i] = entries[i]) \/ (i = Len(entries) + 1 /\ q[i] = x)
  <2>1. /\ IsSeq(q) /\ Len(q) = Len(entries) + 1 /\ (\A i \in 1 .. Len(entries) : q[i] = entries[i])
        /\ q[Len(entries) + 1] = x
    BY <1>1, SeqAppend
  <2> HIDE DEF q
  <2>2. Len(entries) \in Nat /\ DOMAIN entries = 1 .. Len(entries) /\ DOMAIN q = 1 .. Len(q)
    BY <1>1, <2>1, SeqDomain
  <2>3. QED
    BY <2>1, <2>2
<1>3. IsSeq(w) /\ \A d \in DOMAIN w : \E c \in DOMAIN deferred : w[d] = deferred[c] /\ deferred[c].src # src
  BY <1>1, WithoutKeeps
<1> HIDE DEF q, w
<1>4. \A i \in Users(q) : (i \in Users(entries) /\ q[i] = entries[i]) \/ (i = Len(entries) + 1 /\ q[i] = x)
  BY <1>2 DEF Users
<1>5. \A i, j \in Users(q) : q[i].id[2] = q[j].id[2] => i = j
  <2>1. SUFFICES ASSUME NEW i \in Users(q), NEW j \in Users(q), q[i].id[2] = q[j].id[2] PROVE i = j
    OBVIOUS
  <2>2. CASE i \in Users(entries) /\ q[i] = entries[i] /\ j \in Users(entries) /\ q[j] = entries[j]
    BY <2>1, <2>2 DEF ReadOK
  <2>3. QED
    BY <1>4, <2>1, <2>2
<1>6. \A i \in Users(q) : RecvId(q[i].id[2]) \in D
  BY <1>4 DEF ReadOK
<1>7. \A d \in DOMAIN w : RecvId(w[d].src) \in D
  BY <1>3 DEF ReadOK
<1>8. \A d \in DOMAIN w : \A i \in Users(q) : q[i].id[2] # w[d].src
  BY <1>3, <1>4 DEF ReadOK
<1>9. ReadOK(q, w, D)
  BY <1>2, <1>3, <1>5, <1>6, <1>7, <1>8 DEF ReadOK
<1>10. QED
  BY <1>9 DEF q, w

\* A message that is deferred.
LEMMA ReadLater ==
  ASSUME NEW entries, NEW deferred, NEW E, ReadOK(entries, deferred, E), NEW D, E \subseteq D,
         NEW x, RecvId(x.src) \in D, \A i \in Users(entries) : entries[i].id[2] # x.src
  PROVE  ReadOK(entries, Append(deferred, x), D)
<1> DEFINE w == Append(deferred, x)
<1>1. IsSeq(w) /\ \A d \in DOMAIN w : (d \in DOMAIN deferred /\ w[d] = deferred[d]) \/ w[d] = x
  BY AppendElements DEF ReadOK
<1> HIDE DEF w
<1>2. ReadOK(entries, w, D)
  BY <1>1 DEF ReadOK
<1>3. QED
  BY <1>2 DEF w

\* What events of other kinds do to the entries and to the messages that wait.
LEMMA OtherEvents ==
  ASSUME NEW s, IsState(s), NEW e, e.kind # "user"
  PROVE  LET t == ApplyEvent(s, e)
         IN  /\ t.deferred = s.deferred
             /\ t.entries = s.entries \/ \E x : x.kind # "user" /\ t.entries = Append(s.entries, x)
<1> DEFINE p == [s EXCEPT !.lastSeq = e.seq]
           t == ApplyEvent(s, e)
           OK(u) == /\ u.deferred = p.deferred
                    /\ u.entries = p.entries \/ \E x : x.kind # "user" /\ u.entries = Append(p.entries, x)
<1>1. p = [x \in StateFields |-> p[x]] /\ p.deferred = s.deferred /\ p.entries = s.entries
  BY DEF IsState, StateFields
<1>2. \/ t = OnTurnOpened(p, e) \/ t = OnTurnClosed(p, e) \/ t = OnTurnWaiting(p, e)
      \/ t = OnMessageStarted(p, e) \/ t = OnMessageTerminal(p, e)
      \/ t = OnInvocationStarted(p, e) \/ t = OnInvocationTerminal(p, e) \/ t = OnWaitStarted(p, e)
      \/ t \in {p, [p EXCEPT !.wait = None], [p EXCEPT !.turn.interrupted = TRUE], [p EXCEPT !.turn.flush = TRUE]}
  BY DEF ApplyEvent
<1> HIDE DEF p, t
<1>3. OK(OnTurnOpened(p, e)) /\ OK(OnTurnClosed(p, e)) /\ OK(OnTurnWaiting(p, e))
  BY <1>1 DEF OnTurnOpened, OnTurnClosed, OnTurnWaiting, StateFields
<1>4. OK(OnInvocationStarted(p, e)) /\ OK(OnWaitStarted(p, e))
  BY <1>1 DEF OnInvocationStarted, OnWaitStarted, StateFields
<1>5. OK(OnMessageStarted(p, e))
  BY <1>1 DEF OnMessageStarted, StateFields
<1>6. OK(OnMessageTerminal(p, e))
  <2> DEFINE x == [kind |-> "assistant", id |-> e.about, tools |-> e.tools]
             add == Append(p.entries, x)
  <2>1. x.kind # "user"
    OBVIOUS
  <2>2. \/ OnMessageTerminal(p, e) = p
        \/ OnMessageTerminal(p, e) = [p EXCEPT !.call = None]
        \/ OnMessageTerminal(p, e) = [p EXCEPT !.call = None, !.entries = add]
    <3>1. [p EXCEPT !.call = None, !.entries = @] = [p EXCEPT !.call = None]
      BY <1>1 DEF StateFields
    <3> HIDE DEF x
    <3>2. QED
      BY <3>1 DEF OnMessageTerminal, x
  <2> HIDE DEF x
  <2>3. QED
    BY <1>1, <2>1, <2>2 DEF StateFields
<1>7. OK(OnInvocationTerminal(p, e))
  <2> DEFINE x == [kind |-> "tool-result", id |-> e.about, tools |-> {}]
             left == {i \in p.pending : i.inv # e.about}
             add == Append(p.entries, x)
  <2>1. x.kind # "user"
    OBVIOUS
  <2>2. \/ OnInvocationTerminal(p, e) = p
        \/ OnInvocationTerminal(p, e) = [p EXCEPT !.pending = left, !.entries = add]
    BY DEF OnInvocationTerminal
  <2> HIDE DEF x, left
  <2>3. QED
    BY <1>1, <2>1, <2>2 DEF StateFields
<1>8. ASSUME NEW u \in {p, [p EXCEPT !.wait = None], [p EXCEPT !.turn.interrupted = TRUE], [p EXCEPT !.turn.flush = TRUE]}
      PROVE  OK(u)
  BY <1>1 DEF StateFields
<1> HIDE DEF OK
<1>9. OK(t)
  BY <1>2, <1>3, <1>4, <1>5, <1>6, <1>7, <1>8
<1>10. QED
  BY <1>1, <1>9 DEF OK, t

\* What a message of a user does to the entries and to the messages that wait.
LEMMA UserEvents ==
  ASSUME NEW s, IsState(s), NEW e, e.kind = "user"
  PROVE  LET t == ApplyEvent(s, e)
         IN  \/ /\ \E x : x.src = e.src /\ t.deferred = Append(s.deferred, x)
                /\ t.entries = s.entries
             \/ /\ t.deferred = Without(s.deferred, e.src)
                /\ \E x : x.id = e.id /\ t.entries = Append(s.entries, x)
<1> DEFINE p == [s EXCEPT !.lastSeq = e.seq]
           item == [src |-> e.src, id |-> e.id, seq |-> e.seq]
           x == [kind |-> "user", id |-> e.id, tools |-> {}]
           kept == Without(p.deferred, e.src)
           added == Append(p.entries, x)
           waits == Append(p.deferred, item)
           steers == Append(p.steering, item)
           t == ApplyEvent(s, e)
<1>1. p = [y \in StateFields |-> p[y]] /\ p.deferred = s.deferred /\ p.entries = s.entries
  BY DEF IsState, StateFields
<1>2. t = OnUserMessage(p, e)
  BY DEF ApplyEvent
<1>3. item.src = e.src /\ x.id = e.id
  OBVIOUS
<1> HIDE DEF p, t
<1>4. \/ t = [p EXCEPT !.deferred = waits]
      \/ t = [p EXCEPT !.deferred = kept, !.entries = added, !.steering = steers]
      \/ t = [p EXCEPT !.deferred = kept, !.entries = added, !.prompt = item]
  <2> DEFINE read == [p EXCEPT !.deferred = kept, !.entries = added]
  <2>1. t = IF e.after /\ p.turn # None THEN [p EXCEPT !.deferred = waits]
            ELSE IF p.turn # None THEN [read EXCEPT !.steering = Append(@, item)]
            ELSE [read EXCEPT !.prompt = item]
    BY <1>2 DEF OnUserMessage
  <2> HIDE DEF item, kept, added, waits
  <2>2. /\ [read EXCEPT !.steering = Append(@, item)]
             = [p EXCEPT !.deferred = kept, !.entries = added, !.steering = steers]
        /\ [read EXCEPT !.prompt = item] = [p EXCEPT !.deferred = kept, !.entries = added, !.prompt = item]
    BY <1>1 DEF StateFields
  <2> HIDE DEF read, steers
  <2>3. QED
    BY <2>1, <2>2
<1> HIDE DEF item, x, kept, added, waits, steers
<1>5. \/ t.deferred = waits /\ t.entries = p.entries
      \/ t.deferred = kept /\ t.entries = added
  BY <1>1, <1>4 DEF StateFields
<1>6. QED
  BY <1>1, <1>3, <1>5 DEF kept, added, waits, t

\* An event that is new and in order.
LEMMA ReadStep ==
  ASSUME NEW s, IsState(s), NEW E, ReadOK(s.entries, s.deferred, E), NEW e, e.id \notin E, InOrder(s, e),
         NEW D, D = E \cup {e.id}
  PROVE  ReadOK(ApplyEvent(s, e).entries, ApplyEvent(s, e).deferred, D)
<1> DEFINE t == ApplyEvent(s, e)
<1>1. CASE e.kind # "user"
  <2>1. /\ t.deferred = s.deferred
        /\ t.entries = s.entries \/ \E x : x.kind # "user" /\ t.entries = Append(s.entries, x)
    BY <1>1, OtherEvents
  <2> HIDE DEF t
  <2>2. E \subseteq D
    OBVIOUS
  <2>3. ReadOK(t.entries, t.deferred, D)
    <3>1. CASE t.entries = s.entries
      <4> DEFINE x == [kind |-> "other"]
      <4>1. x.kind # "user"
        OBVIOUS
      <4> HIDE DEF x
      <4>2. ReadOK(s.entries, s.deferred, D)
        BY <2>2, <4>1, ReadOther
      <4>3. QED
        BY <2>1, <3>1, <4>2
    <3>2. CASE \E x : x.kind # "user" /\ t.entries = Append(s.entries, x)
      <4>1. PICK x : x.kind # "user" /\ t.entries = Append(s.entries, x)
        BY <3>2
      <4>2. ReadOK(Append(s.entries, x), s.deferred, D)
        BY <2>2, <4>1, ReadOther
      <4>3. QED
        BY <2>1, <4>1, <4>2
    <3>3. QED
      BY <2>1, <3>1, <3>2
  <2>4. QED
    BY <2>3 DEF t
<1>2. CASE e.kind = "user"
  <2>1. IsReceipt(e) /\ (e.id[1] = "promoted" => s.deferred # <<>> /\ s.deferred[1].src = e.src)
    BY <1>2 DEF InOrder
  <2>2. RecvId(e.src) \in D /\ \A i \in Users(s.entries) : s.entries[i].id[2] # e.src
    <3>1. CASE e.id[1] = "promoted"
      <4>1. IsSeq(s.deferred) /\ s.deferred # <<>>
        BY <2>1, <3>1 DEF ReadOK
      <4>2. 1 \in DOMAIN s.deferred
        <5>1. Len(s.deferred) \in Nat /\ DOMAIN s.deferred = 1 .. Len(s.deferred) /\ Len(s.deferred) >= 1
          BY <4>1, SeqDomain, SeqTail
        <5>2. QED
          BY <5>1
      <4>3. QED
        BY <2>1, <3>1, <4>2 DEF ReadOK
    <3>2. CASE e.id[1] # "promoted"
      <4>1. e.id = RecvId(e.src)
        BY <2>1, <3>2 DEF IsReceipt
      <4>2. QED
        BY <4>1 DEF ReadOK
    <3>3. QED
      BY <3>1, <3>2
  <2>3. e.id[2] = e.src /\ E \subseteq D
    BY <2>1 DEF IsReceipt
  <2>4. \/ /\ \E x : x.src = e.src /\ t.deferred = Append(s.deferred, x)
           /\ t.entries = s.entries
        \/ /\ t.deferred = Without(s.deferred, e.src)
           /\ \E x : x.id = e.id /\ t.entries = Append(s.entries, x)
    BY <1>2, UserEvents
  <2> HIDE DEF t
  <2>5. CASE (\E x : x.src = e.src /\ t.deferred = Append(s.deferred, x)) /\ t.entries = s.entries
    <3>1. PICK x : x.src = e.src /\ t.deferred = Append(s.deferred, x)
      BY <2>5
    <3>2. ReadOK(s.entries, Append(s.deferred, x), D)
      BY <2>2, <2>3, <3>1, ReadLater
    <3>3. QED
      BY <2>5, <3>1, <3>2 DEF t
  <2>6. CASE t.deferred = Without(s.deferred, e.src) /\ \E x : x.id = e.id /\ t.entries = Append(s.entries, x)
    <3>1. PICK x : x.id = e.id /\ t.entries = Append(s.entries, x)
      BY <2>6
    <3>2. ReadOK(Append(s.entries, x), Without(s.deferred, e.src), D)
      BY <2>2, <2>3, <3>1, ReadUser
    <3>3. QED
      BY <2>6, <3>1, <3>2 DEF t
  <2>7. QED
    BY <2>4, <2>5, <2>6
<1>3. QED
  BY <1>1, <1>2

\* The states of a journal from its beginning.
LEMMA BeforeIs ==
  ASSUME NEW l, IsSeq(l), NEW g, LeadsTo(g, InitialState, l), NEW i \in 1 .. Len(l)
  PROVE  Before(l, i) = g[i - 1]
<1>1. IsSeq(<<>>) /\ Len(<<>>) = 0 /\ <<>> \o l = l /\ TruthOf(<<>>) = InitialState
  BY SeqEmpty, EmptyConcat, FoldOne DEF TruthOf
<1> DEFINE a == <<>>
<1>2. IsSeq(a) /\ Len(a) + i = i /\ a \o l = l /\ TruthOf(a) = InitialState
  BY <1>1, SeqDomain
<1> HIDE DEF a
<1>3. LeadsTo(g, TruthOf(a), l)
  BY <1>2
<1>4. Before(a \o l, Len(a) + i) = g[i - 1]
  <2>1. IsSeq(a)
    BY <1>2
  <2>2. QED
    BY <1>3, <2>1, BeforeAdded
<1>5. QED
  BY <1>2, <1>4

\* A journal that was written in order was read once.
LEMMA ReadFromOrder ==
  ASSUME NEW l, IsLog(l), WrittenInOrder(l)
  PROVE  ReadOK(TruthOf(l).entries, TruthOf(l).deferred, IdsOf(l))
<1>1. /\ IsSeq(l) /\ Len(l) \in Nat /\ DOMAIN l = 1 .. Len(l)
      /\ \A i \in DOMAIN l : IsEnvelope(l[i])
  BY SeqDomain DEF IsLog
<1>2. PICK g : LeadsTo(g, InitialState, l)
  BY <1>1, FoldStates
<1>3. /\ g[0] = InitialState /\ TruthOf(l) = g[Len(l)]
      /\ \A k \in 1 .. Len(l) : g[k] = ApplyEvent(g[k - 1], l[k])
  BY <1>2 DEF LeadsTo, TruthOf
<1>4. \A n \in 0 .. Len(l) : IsState(g[n])
  <2>1. IsState(InitialState)
    BY InitialGood DEF GoodState
  <2>2. QED
    BY <1>1, <1>2, <2>1, TurnKept
<1> DEFINE ids(n) == {l[i].id : i \in 1 .. n}
           S == {n \in Nat : n <= Len(l) => ReadOK(g[n].entries, g[n].deferred, ids(n))}
<1>5. 0 \in S
  <2>1. InitialState.entries = <<>> /\ InitialState.deferred = <<>>
    BY DEF InitialState
  <2>2. ReadOK(<<>>, <<>>, ids(0))
    BY SeqEmpty DEF ReadOK, Users
  <2>3. QED
    BY <1>3, <2>1, <2>2
<1>6. ASSUME NEW n \in Nat, n \in S PROVE n + 1 \in S
  <2>1. SUFFICES ASSUME n + 1 <= Len(l) PROVE ReadOK(g[n + 1].entries, g[n + 1].deferred, ids(n + 1))
    OBVIOUS
  <2>2. n + 1 \in 1 .. Len(l) /\ (n + 1) - 1 = n /\ n \in 0 .. Len(l)
    BY <1>1, <2>1
  <2>3. ReadOK(g[n].entries, g[n].deferred, ids(n)) /\ IsState(g[n])
    BY <1>4, <1>6, <2>2
  <2>4. g[n + 1] = ApplyEvent(g[n], l[n + 1]) /\ Before(l, n + 1) = g[n]
    BY <1>1, <1>2, <1>3, <2>2, BeforeIs
  <2>5. InOrder(g[n], l[n + 1])
    BY <1>1, <2>2, <2>4 DEF WrittenInOrder
  <2>6. l[n + 1].id \notin ids(n)
    <3>1. \A i \in 1 .. n : i \in DOMAIN l /\ n + 1 \in DOMAIN l /\ i # n + 1
      BY <1>1, <2>2
    <3>2. QED
      BY <3>1 DEF IsLog
  <2>7. ids(n + 1) = ids(n) \cup {l[n + 1].id}
    <3>1. \A i : i \in 1 .. n + 1 <=> (i \in 1 .. n \/ i = n + 1)
      OBVIOUS
    <3>2. QED
      BY <3>1
  <2> HIDE DEF ids
  <2>8. QED
    BY <2>3, <2>4, <2>5, <2>6, <2>7, ReadStep
<1> HIDE DEF S
<1>7. Len(l) \in S
  BY <1>1, <1>5, <1>6, NatSetInduction
<1>8. ids(Len(l)) = IdsOf(l)
  BY <1>1 DEF IdsOf
<1>9. ReadOK(g[Len(l)].entries, g[Len(l)].deferred, ids(Len(l)))
  BY <1>1, <1>7 DEF S
<1> HIDE DEF ids
<1>10. QED
  BY <1>3, <1>8, <1>9

\* A journal only grows at its end.
LEMMA LogGrows ==
  ASSUME NEW f, Flow = {f}, DriverInv, OneFlowInv(f), [Next]_vars
  PROVE  \E x : IsSeq(x) /\ log' = log \o x
<1>1. CASE log' = log
  <2>1. IsSeq(<<>>) /\ log \o <<>> = log
    <3>1. IsSeq(log)
      BY DEF DriverInv, DurableInv, IsLog
    <3>2. PICK T : log \in Seq(T)
      BY <3>1 DEF IsSeq
    <3>3. QED
      BY <3>2, SeqEmpty
  <2>2. QED
    BY <1>1, <2>1
<1>2. CASE Commit(f) /\ log' # log
  <2> DEFINE t == Current(f)
             new == Inserted(t.items)
  <2>1. /\ f \in Flow /\ At(f, "commit") /\ AppendError(t.expected, t.items) = None /\ log' = log \o new
    BY <1>2 DEF Commit
  <2>2. t.do = "commit" /\ IsTask(t, IdsOf(log), DOMAIN loops)
    BY <2>1, AtOne DEF WithLoop
  <2>3. Acts(t) \in Appending
    BY <2>2 DEF Acts, Loadings, Appending
  <2>4. PICK tags : Batch(t.items, tags)
    BY <2>2, <2>3 DEF IsTask
  <2>5. IsLog(log)
    BY DEF DriverInv, DurableInv
  <2>6. IsSeq(new)
    BY <2>1, <2>4, <2>5, NewEnvelopes
  <2>7. QED
    BY <2>1, <2>6
<1>3. QED
  BY <1>1, <1>2, OnlyCommit

\* The journal is written in order.
LEMMA OrderStep ==
  ASSUME NEW f, Flow = {f}, DriverInv, OneFlowInv(f), WrittenInOrder(log), [Next]_vars
  PROVE  WrittenInOrder(log)'
<1>1. PICK x : IsSeq(x) /\ log' = log \o x
  BY LogGrows
<1>2. IsSeq(log) /\ Len(log) \in Nat /\ DOMAIN log = 1 .. Len(log)
  BY SeqDomain DEF DriverInv, DurableInv, IsLog
<1>3. /\ IsSeq(log') /\ Len(log') = Len(log) + Len(x) /\ Len(x) \in Nat
      /\ \A i \in 1 .. Len(log) : log'[i] = log[i]
  BY <1>1, <1>2, SeqConcat, SeqDomain
<1>4. DOMAIN log' = 1 .. Len(log')
  BY <1>3, SeqDomain
<1>5. ASSUME NEW i \in DOMAIN log' PROVE InOrder(Before(log', i), log'[i])
  <2>1. CASE i \in 1 .. Len(log)
    <3>1. Before(log', i) = Before(log, i)
      <4> DEFINE p == SubSeq(log, 1, i - 1)
                 q == SubSeq(log', 1, i - 1)
      <4>1. i - 1 \in 0 .. Len(log) /\ i - 1 \in 0 .. Len(log') /\ \A k \in 1 .. i - 1 : k \in 1 .. Len(log)
        BY <1>2, <1>3, <2>1
      <4>2. IsSeq(p) /\ Len(p) = i - 1 /\ \A k \in 1 .. i - 1 : p[k] = log[k]
        BY <1>2, <4>1, LogSplits
      <4>3. IsSeq(q) /\ Len(q) = i - 1 /\ \A k \in 1 .. i - 1 : q[k] = log'[k]
        BY <1>3, <4>1, LogSplits
      <4> HIDE DEF p, q
      <4>4. Len(p) = Len(q) /\ \A k \in 1 .. Len(p) : p[k] = q[k]
        BY <1>3, <4>1, <4>2, <4>3
      <4>5. p = q
        BY <4>2, <4>3, <4>4, SameSequence
      <4>6. QED
        BY <4>5 DEF p, q, Before
    <3>2. QED
      BY <1>2, <1>3, <2>1, <3>1 DEF WrittenInOrder
  <2>2. CASE i \notin 1 .. Len(log)
    <3>1. i \in Len(log) + 1 .. Len(log')
      BY <1>2, <1>3, <1>4, <2>2
    <3>2. QED
      BY <3>1, NextInOrder DEF AddsInOrder
  <2>3. QED
    BY <2>1, <2>2
<1>6. QED
  BY <1>5 DEF WrittenInOrder

\* A message of a user is read once: whatever is delivered again, deferred, promoted
\* after a crash or appended again, the context of the model has it at one place.
THEOREM MessagesReadOnce ==
  ASSUME NEW f, Flow = {f}
  PROVE  Spec => []ReadOnce
<1>1. Init => WrittenInOrder(log)
  BY DEF Init, WrittenInOrder
<1>2. DriverInv /\ OneFlowInv(f) /\ WrittenInOrder(log) /\ [Next]_vars => WrittenInOrder(log)'
  BY OrderStep
<1>3. DriverInv /\ WrittenInOrder(log) => ReadOnce
  <2>1. SUFFICES ASSUME DriverInv, WrittenInOrder(log) PROVE ReadOnce
    OBVIOUS
  <2>2. IsLog(log)
    BY <2>1 DEF DriverInv, DurableInv
  <2>3. ReadOK(Truth.entries, Truth.deferred, IdsOf(log))
    BY <2>1, <2>2, ReadFromOrder DEF Truth, TruthOf
  <2>4. QED
    BY <2>3 DEF ReadOK, Users, ReadOnce
<1>4. QED
  BY <1>1, <1>2, <1>3, OneFlowAlways, PTL DEF Spec
=============================================================================
