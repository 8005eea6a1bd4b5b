-------------------------- MODULE UnifiedLog_proofs --------------------------
(* Proofs about the unified log, for any number of logs, events, forks and *)
(* seqs: first what one head holds, then what heads read through their     *)
(* ancestors.                                                              *)
EXTENDS UnifiedLog, FiniteSetTheorems, TLAPS

\* The positions inserted into a log are positions of the batch: a finite set.
LEMMA InsertsFinite ==
  ASSUME NEW reads, NEW k, NEW batch \in Batch, NEW j
  PROVE  /\ Inserts(reads, k, batch, j) \subseteq DOMAIN batch
         /\ Inserts(reads, k, batch, j) \in SUBSET Nat
         /\ IsFiniteSet(Inserts(reads, k, batch, j))
         /\ Cardinality(Inserts(reads, k, batch, j)) \in Nat
         /\ \A i : Cardinality(InsertsThrough(reads, k, batch, j, i)) \in Nat
<1> DEFINE I == Inserts(reads, k, batch, j)
<1>1. I \subseteq DOMAIN batch
  BY DEF Inserts, Remaining
<1>2. IsFiniteSet(DOMAIN batch) /\ DOMAIN batch \subseteq Nat
  <2>1. batch \in Seq(Event)
    BY BatchType
  <2>2. DOMAIN batch = 1..Len(batch) /\ Len(batch) \in Nat
    BY <2>1
  <2>3. QED
    BY <2>2, FS_Interval
<1>3. IsFiniteSet(I) /\ \A i : IsFiniteSet(InsertsThrough(reads, k, batch, j, i))
  BY <1>1, <1>2, FS_Subset DEF InsertsThrough
<1>4. QED
  BY <1>1, <1>2, <1>3, FS_CardinalityType

\* An inserted event has an id and a content of the right kind, provided only
\* trajectories publish.
LEMMA InsertTypes ==
  ASSUME NEW reads, NEW k \in Key, NEW batch \in Batch, NEW j \in Key,
         NEW i \in Inserts(reads, k, batch, j),
         k \in Trajectory \/ \A n \in DOMAIN batch : batch[n].publish = {}
  PROVE  /\ InsertId(k, batch, j, i) \in Id
         /\ InsertSem(k, batch, j, i) \in Content
<1>1. i \in DOMAIN batch /\ batch[i] \in Event
  <2>1. batch \in Seq(Event)
    BY BatchType
  <2>2. i \in DOMAIN batch
    BY DEF Inserts, Remaining
  <2>3. QED
    BY <2>1, <2>2
<1>2. CASE j = k
  BY <1>1, <1>2 DEF InsertId, InsertSem, Id, Content, Event
<1>3. CASE j # k
  <2>1. j \in batch[i].publish
    BY <1>3 DEF Inserts
  <2>2. k \in Trajectory /\ j \in Channel
    BY <1>1, <2>1 DEF Event
  <2>3. QED
    BY <1>1, <1>3, <2>2 DEF InsertId, InsertSem, PubId, PubSem, Id, Content, Event
<1>4. QED
  BY <1>2, <1>3

\* Head pointers are well typed, also of logs that do not exist yet.
LEMMA HeadPointerType ==
  ASSUME TypeOK, NEW j \in Key
  PROVE  /\ HeadPointer(j).seq \in Nat /\ HeadPointer(j).hash \in Hash
         /\ Parent(j) \in Key \cup {NoKey}
         /\ Exists(j) => heads[j] \in HeadRow
BY DEF TypeOK, HeadPointer, Parent, Exists, HeadRow, Genesis, Hash

\* An accepted append, of an agent or of a channel, leaves both tables typed.
LEMMA AppendType ==
  ASSUME TypeOK, NEW k \in Key, NEW batch \in Batch, NEW expected, NEW mode,
         k \in Trajectory \/ \A n \in DOMAIN batch : batch[n].publish = {},
         AppendLogEvent(Reads, k, batch, expected, mode)
  PROVE  /\ TypeOK'
         /\ \A j \in Key : AdvancedHead(Reads, k, batch, j) \in HeadRow
<1> DEFINE reads == Reads
<1>0. batch \in Seq(Event) /\ DOMAIN batch \subseteq Nat
  BY BatchType
<1>a. \A j \in Key : HeadPointer(j).seq \in Nat
  BY HeadPointerType
<1>b. \A j \in Key : Cardinality(Inserts(reads, k, batch, j)) \in Nat
  BY InsertsFinite
<1>c. \A j \in Key, i \in Nat : Cardinality(InsertsThrough(reads, k, batch, j, i)) \in Nat
  BY InsertsFinite
<1>d. \A j \in Key, i \in Nat : InsertSeq(reads, k, batch, j, i) \in Nat
  BY <1>a, <1>c DEF InsertSeq
<1>1. ASSUME NEW j \in Key, NEW i \in Inserts(reads, k, batch, j)
      PROVE  InsertCell(reads, k, batch, j, i) \in Cell
  <2>1. i \in Nat
    BY <1>0, <1>1, InsertsFinite
  <2>2. InsertSeq(reads, k, batch, j, i) \in Nat
    BY <1>d, <2>1
  <2>3. QED
    BY <1>1, <2>2, InsertTypes DEF InsertCell, Cell
<1>2. ASSUME NEW j \in Key, NEW i \in Inserts(reads, k, batch, j)
      PROVE  InsertRow(reads, k, batch, j, i) \in Row
  <2>1. i \in Nat
    BY <1>0, <1>2, InsertsFinite
  <2>2. InsertSeq(reads, k, batch, j, i) \in Nat
    BY <1>d, <2>1
  <2>3. InsertPrevHash(reads, k, batch, j, i) \in Hash
    BY <1>1, HeadPointerType DEF InsertPrevHash, Hash
  <2>4. EnvelopeHash(j, InsertSeq(reads, k, batch, j, i), InsertPrevHash(reads, k, batch, j, i),
                     InsertId(k, batch, j, i), InsertSem(k, batch, j, i)) \in Hash
    BY <1>1, <2>3, <1>2 DEF EnvelopeHash, Hash, InsertCell
  <2>5. QED
    BY <1>2, <2>2, <2>3, <2>4, InsertTypes DEF InsertRow, Row
<1>3. ASSUME NEW j \in Key
      PROVE  AdvancedHead(reads, k, batch, j) \in HeadRow
  <2>1. HeadPointer(j).seq + Cardinality(Inserts(reads, k, batch, j)) \in Nat
    BY <1>a, <1>b
  <2>2. HeadPointer(j).hash \cup {InsertCell(reads, k, batch, j, m) : m \in Inserts(reads, k, batch, j)}
          \in Hash
    BY <1>1, <1>3, HeadPointerType DEF Hash
  <2>3. QED
    BY <1>3, <2>1, <2>2, HeadPointerType DEF AdvancedHead, HeadRow, Genesis, Hash
<1>4. rows' \in SUBSET Row
  BY <1>2 DEF AppendLogEvent, TypeOK
<1>5. heads' \in [Key -> HeadRow \cup {NoHead}]
  BY <1>3 DEF AppendLogEvent, TypeOK
<1>6. QED
  BY <1>3, <1>4, <1>5 DEF TypeOK

\* A fork leaves both tables typed.
LEMMA ForkType ==
  ASSUME TypeOK, NEW from \in Key, NEW to \in Key, NEW atSeq \in 0..MaxSeq, ForkLog(from, to, atSeq)
  PROVE  TypeOK' /\ \E forkHash \in Hash :
           heads' = [heads EXCEPT ![to] = [parent |-> from, forkSeq |-> atSeq, forkHash |-> forkHash,
                                           seq |-> atSeq, hash |-> forkHash]]
<1>1. PICK forkHash \in IF atSeq = 0 THEN {Genesis}
                        ELSE {r.hash : r \in {q \in View(Reads, from) : q.seq = atSeq}} :
         heads' = [heads EXCEPT ![to] =
                     [parent |-> from, forkSeq |-> atSeq, forkHash |-> forkHash,
                      seq |-> atSeq, hash |-> forkHash]]
  BY DEF ForkLog
<1>2. forkHash \in Hash
  BY DEF TypeOK, View, Row, Genesis, Hash
<1>3. [parent |-> from, forkSeq |-> atSeq, forkHash |-> forkHash,
       seq |-> atSeq, hash |-> forkHash] \in HeadRow
  BY <1>2, MaxSeqType DEF HeadRow
<1>4. TypeOK'
  BY <1>1, <1>3 DEF ForkLog, TypeOK
<1>5. QED
  BY <1>1, <1>2, <1>4

\* The two tables of the log keep their types under every append and fork.
THEOREM UnifiedLogTypeOK == Spec => []TypeOK
<1>1. Init => TypeOK
  BY DEF Init, TypeOK
<1>2. TypeOK /\ [Next]_vars => TypeOK'
  <2> SUFFICES ASSUME TypeOK, [Next]_vars PROVE TypeOK'
    OBVIOUS
  <2>1. ASSUME NEW k \in Trajectory, NEW batch \in Batch, AgentAppend(k, batch)
        PROVE  TypeOK'
    BY <2>1, AppendType DEF AgentAppend, Key
  <2>2. ASSUME NEW c \in Channel, NEW batch \in Batch, ChannelAppend(c, batch)
        PROVE  TypeOK'
    BY <2>2, AppendType DEF ChannelAppend, Key
  <2>3. ASSUME NEW from \in Key, NEW to \in Key, NEW atSeq \in 0..MaxSeq, ForkLog(from, to, atSeq)
        PROVE  TypeOK'
    BY <2>3, ForkType
  <2>4. CASE UNCHANGED vars
    BY <2>4 DEF vars, TypeOK
  <2>5. QED
    BY <2>1, <2>2, <2>3, <2>4 DEF Next
<1>3. QED
  BY <1>1, <1>2, PTL DEF Spec

-----------------------------------------------------------------------------
\* Counting: numbering the elements of a finite set of naturals by how many are
\* at most as large gives 1..n, in order and without repetition.
LEMMA Ranks ==
  ASSUME NEW I \in SUBSET Nat, IsFiniteSet(I)
  PROVE  /\ \A i, j \in I : i < j => Cardinality({m \in I : m <= i}) < Cardinality({m \in I : m <= j})
         /\ {Cardinality({m \in I : m <= i}) : i \in I} = 1..Cardinality(I)
<1> DEFINE Upto(i) == {m \in I : m <= i}
           rank == [i \in I |-> Cardinality(Upto(i))]
           n == Cardinality(I)
<1>1. n \in Nat /\ \A i \in I : IsFiniteSet(Upto(i)) /\ rank[i] \in Nat /\ rank[i] <= n
  BY FS_Subset, FS_CardinalityType
<1>2. \A i \in I : rank[i] # 0
  <2>1. \A i \in I : Upto(i) # {}
    OBVIOUS
  <2>2. QED
    BY <1>1, <2>1, FS_EmptySet
<1>3. ASSUME NEW i \in I, NEW j \in I, i < j
      PROVE  rank[i] < rank[j]
  <2>0. i \in Nat /\ j \in Nat /\ \A m \in I : m \in Nat
    OBVIOUS
  <2>a. \A m \in I : m <= i => m <= j
    BY <1>3, <2>0
  <2>b. j <= j /\ ~(j <= i)
    BY <1>3, <2>0
  <2>1. Upto(i) \in SUBSET Upto(j) /\ j \in Upto(j) /\ j \notin Upto(i)
    BY <2>a, <2>b
  <2>2. rank[i] <= rank[j] /\ rank[i] # rank[j]
    BY <1>1, <2>1, FS_Subset
  <2>3. QED
    BY <1>1, <2>2
<1>4. rank \in Injection(I, 1..n)
  <2>1. rank \in [I -> 1..n]
    BY <1>1, <1>2
  <2>2. \A i, j \in I : rank[i] = rank[j] => i = j
    <3>1. SUFFICES ASSUME NEW i \in I, NEW j \in I, i # j PROVE rank[i] # rank[j]
      OBVIOUS
    <3>2. i < j \/ j < i
      BY <3>1
    <3>3. QED
      BY <1>1, <1>3, <3>2
  <2>3. QED
    BY <2>1, <2>2 DEF Injection, IsInjective
<1>5. rank \in Surjection(I, 1..n)
  <2>1. IsFiniteSet(1..n) /\ Cardinality(1..n) = n
    BY <1>1, FS_Interval
  <2>2. QED
    BY <1>4, <2>1, FS_Injection
<1>6. {rank[i] : i \in I} = 1..n
  BY <1>5 DEF Surjection
<1>7. QED
  BY <1>3, <1>6

\* The predecessor in that numbering is the predecessor in the order.
LEMMA RankSteps ==
  ASSUME NEW I \in SUBSET Nat, IsFiniteSet(I), NEW i \in I
  PROVE  /\ Cardinality({m \in I : m <= i}) = 1 => {m \in I : m < i} = {}
         /\ \A p \in I : Cardinality({m \in I : m <= p}) = Cardinality({m \in I : m <= i}) - 1
              => {m \in I : m < i} = {m \in I : m < p} \cup {p}
         /\ Cardinality({m \in I : m <= i}) = Cardinality(I) => I = {m \in I : m < i} \cup {i}
<1> DEFINE rank(m) == Cardinality({q \in I : q <= m})
<1>1. \A m \in I : rank(m) \in 1..Cardinality(I)
  BY Ranks
<1>2. Cardinality(I) \in Nat
  BY FS_CardinalityType
<1>3. \A m, q \in I : m < q => rank(m) < rank(q)
  BY Ranks
<1>4. \A m \in I : rank(m) \in Nat /\ 1 <= rank(m) /\ rank(m) <= Cardinality(I)
  BY <1>1, <1>2
<1> HIDE DEF rank
<1>0. \A m \in I : m \in Nat
  OBVIOUS
<1>5. ASSUME rank(i) = 1 PROVE {m \in I : m < i} = {}
  <2>1. \A m \in I : ~(m < i)
    BY <1>3, <1>4, <1>5
  <2>2. QED
    BY <2>1
<1>6. ASSUME NEW p \in I, rank(p) = rank(i) - 1
      PROVE  {m \in I : m < i} = {m \in I : m < p} \cup {p}
  <2>1. p < i
    <3>1. p = i \/ i < p \/ p < i
      BY <1>0
    <3>2. QED
      BY <1>3, <1>4, <1>6, <3>1
  <2>2. \A m \in I : ~(p < m /\ m < i)
    BY <1>3, <1>4, <1>6
  <2>3. \A m \in I : m < i <=> (m < p \/ m = p)
    BY <1>0, <2>1, <2>2
  <2>4. QED
    BY <2>3
<1>7. ASSUME rank(i) = Cardinality(I) PROVE I = {m \in I : m < i} \cup {i}
  <2>1. \A m \in I : ~(i < m)
    BY <1>2, <1>3, <1>4, <1>7
  <2>2. \A m \in I : m < i \/ m = i
    BY <1>0, <2>1
  <2>3. QED
    BY <2>2
<1>8. QED
  BY <1>5, <1>6, <1>7 DEF rank

-----------------------------------------------------------------------------
\* The strengthening that makes ChainIntact inductive: a head never points
\* before its fork, so that its next seq is never below it.
ForkBelowHead == \A k \in Key : Exists(k) => heads[k].forkSeq <= heads[k].seq
ChainInv == TypeOK /\ ForkBelowHead /\ ChainIntact

\* What the head of j and its own rows are before an append, whether or not
\* the log exists: numbered from the fork to the head pointer, the last of
\* them carrying its hash.
LEMMA HeadBefore ==
  ASSUME ChainInv, NEW j \in Key
  PROVE  LET f == IF Exists(j) THEN heads[j].forkSeq ELSE 0
             g == IF Exists(j) THEN heads[j].forkHash ELSE Genesis
             p == HeadPointer(j)
         IN  /\ f \in Nat /\ p.seq \in Nat /\ f <= p.seq
             /\ \A r \in OwnRows(j) : r.seq \in (f + 1)..p.seq
             /\ \A n \in (f + 1)..p.seq : \E r \in OwnRows(j) : r.seq = n
             /\ \A r, q \in OwnRows(j) : r.seq = q.seq => r = q
             /\ \A r \in OwnRows(j) : Exists(j) /\ RowVerifies(r) /\ RowLinks(r)
             /\ OwnRows(j) = {} => p.hash = g
             /\ \A r \in OwnRows(j) : r.seq = p.seq => r.hash = p.hash
<1>1. HeadIntact(j)
  BY DEF ChainInv, ChainIntact
<1>2. CASE Exists(j)
  <2>1. heads[j].forkSeq \in Nat /\ heads[j].seq \in Nat /\ heads[j].forkSeq <= heads[j].seq
    BY <1>2, HeadPointerType DEF ChainInv, ForkBelowHead, HeadRow
  <2>2. {r.seq : r \in OwnRows(j)} = (heads[j].forkSeq + 1)..heads[j].seq
    BY <1>1, <1>2 DEF HeadIntact
  <2>3. \A r \in OwnRows(j) : r.seq \in (heads[j].forkSeq + 1)..heads[j].seq
    BY <2>2
  <2>4. \A n \in (heads[j].forkSeq + 1)..heads[j].seq : \E r \in OwnRows(j) : r.seq = n
    BY <2>2
  <2>5. HeadPointer(j).seq = heads[j].seq /\ HeadPointer(j).hash = heads[j].hash
    BY <1>2 DEF HeadPointer
  <2>6. QED
    BY <1>1, <1>2, <2>1, <2>3, <2>4, <2>5 DEF HeadIntact
<1>3. CASE ~Exists(j)
  <2>1. HeadPointer(j).seq = 0 /\ HeadPointer(j).hash = Genesis
    BY <1>3 DEF HeadPointer
  <2>2. OwnRows(j) = {}
    BY <1>1, <1>3 DEF HeadIntact
  <2>3. (0 + 1)..0 = {}
    OBVIOUS
  <2>4. QED
    BY <1>3, <2>1, <2>2, <2>3
<1>4. QED
  BY <1>2, <1>3

\* A row that was linked stays linked while rows are only added and the fork of
\* its head stays where it is.
LEMMA LinksStay ==
  ASSUME NEW r, RowLinks(r), rows \subseteq rows',
         heads'[r.key].forkSeq = heads[r.key].forkSeq,
         heads'[r.key].forkHash = heads[r.key].forkHash
  PROVE  RowLinks(r)'
BY DEF RowLinks

\* An append leaves the chain of every log intact, the one it was made to and
\* the channels it publishes to.
LEMMA AppendChain ==
  ASSUME ChainInv, NEW k \in Key, NEW batch \in Batch, NEW expected, NEW mode,
         k \in Trajectory \/ \A n \in DOMAIN batch : batch[n].publish = {},
         AppendLogEvent(Reads, k, batch, expected, mode), NEW j \in Key
  PROVE  /\ HeadIntact(j)'
         /\ Exists(j)' => heads'[j].forkSeq <= heads'[j].seq
<1> DEFINE reads == Reads
           I == Inserts(reads, k, batch, j)
           n == Cardinality(I)
           p == HeadPointer(j)
           f == IF Exists(j) THEN heads[j].forkSeq ELSE 0
           g == IF Exists(j) THEN heads[j].forkHash ELSE Genesis
           R(i) == InsertRow(reads, k, batch, j, i)
           C(i) == InsertCell(reads, k, batch, j, i)
           rank(i) == Cardinality({m \in I : m <= i})
           below(i) == {m \in I : m < i}
           new == {R(i) : i \in I}
<1>1. /\ f \in Nat /\ p.seq \in Nat /\ f <= p.seq
      /\ \A r \in OwnRows(j) : r.seq \in (f + 1)..p.seq
      /\ \A m \in (f + 1)..p.seq : \E r \in OwnRows(j) : r.seq = m
      /\ \A r, q \in OwnRows(j) : r.seq = q.seq => r = q
      /\ \A r \in OwnRows(j) : Exists(j) /\ RowVerifies(r) /\ RowLinks(r)
      /\ OwnRows(j) = {} => p.hash = g
      /\ \A r \in OwnRows(j) : r.seq = p.seq => r.hash = p.hash
  BY HeadBefore
<1>2. I \in SUBSET Nat /\ IsFiniteSet(I) /\ n \in Nat
  BY InsertsFinite
<1>3. \A i \in I : /\ R(i).key = j /\ R(i).seq = p.seq + rank(i)
                   /\ R(i).prevHash = p.hash \cup {C(m) : m \in below(i)}
                   /\ R(i).hash = R(i).prevHash \cup {C(i)}
                   /\ RowVerifies(R(i))
  BY DEF InsertRow, InsertSeq, InsertsThrough, InsertPrevHash, EnvelopeHash, InsertCell, RowVerifies
<1>4. OwnRows(j)' = OwnRows(j) \cup new
  <2>1. rows' = rows \cup UNION {{InsertRow(reads, k, batch, l, i) : i \in Inserts(reads, k, batch, l)} : l \in Key}
    BY DEF AppendLogEvent
  <2>2. \A l, i : InsertRow(reads, k, batch, l, i).key = l
    BY DEF InsertRow
  <2>3. QED
    BY <2>1, <2>2 DEF OwnRows
<1>5. /\ I = {} => heads'[j] = heads[j]
      /\ I # {} => heads'[j] = AdvancedHead(reads, k, batch, j)
      /\ rows \subseteq rows'
  BY DEF AppendLogEvent
<1>6. CASE I = {}
  <2>1. OwnRows(j)' = OwnRows(j) /\ heads'[j] = heads[j]
    BY <1>4, <1>5, <1>6
  <2>2. \A r \in OwnRows(j) : r.key = j
    BY DEF OwnRows
  <2>3. \A r \in OwnRows(j) : RowLinks(r)'
    BY <1>1, <1>5, <2>1, <2>2, LinksStay
  <2>4. HeadIntact(j) /\ (Exists(j) => heads[j].forkSeq <= heads[j].seq)
    BY DEF ChainInv, ChainIntact, ForkBelowHead
  <2>5. QED
    BY <2>1, <2>3, <2>4 DEF HeadIntact, Exists, RowVerifies
<1>7. CASE I # {}
  <2>1. /\ heads'[j].forkSeq = f /\ heads'[j].forkHash = g
        /\ heads'[j].seq = p.seq + n
        /\ heads'[j].hash = p.hash \cup {C(m) : m \in I}
    BY <1>5, <1>7 DEF AdvancedHead
  <2>2. Exists(j)'
    <3>1. heads'[j] \in HeadRow
      BY <1>5, <1>7, AppendType DEF ChainInv
    <3>2. QED
      BY <3>1, NoHeadType DEF Exists
  <2>3. \A i, m \in I : i < m => rank(i) < rank(m)
    BY <1>2, Ranks
  <2>4. {rank(i) : i \in I} = 1..n
    BY <1>2, Ranks
  <2>5. \A i \in I : rank(i) \in 1..n
    BY <2>4
  <2>6. \A m \in 1..n : \E i \in I : rank(i) = m
    BY <2>4
  <2>7. \A i \in I : /\ rank(i) = 1 => below(i) = {}
                     /\ \A q \in I : rank(q) = rank(i) - 1 => below(i) = below(q) \cup {q}
                     /\ rank(i) = n => I = below(i) \cup {i}
    BY <1>2, RankSteps
  <2> HIDE DEF I, n, p, f, g, R, C, rank, below
  <2>e. n >= 1 /\ \A i \in I : rank(i) \in Nat
    <3>1. n # 0
      BY <1>2, <1>7, FS_EmptySet DEF n
    <3>2. n >= 1
      BY <1>2, <3>1
    <3>3. \A m \in 1..n : m \in Nat
      BY <1>2
    <3>4. QED
      BY <2>5, <3>2, <3>3
  <2>8. \A r \in OwnRows(j)' : r.seq \in (f + 1)..(p.seq + n)
    BY <1>1, <1>2, <1>3, <1>4, <2>5
  <2>9. \A m \in (f + 1)..(p.seq + n) : \E r \in OwnRows(j)' : r.seq = m
    <3>1. SUFFICES ASSUME NEW m \in (f + 1)..(p.seq + n) PROVE \E r \in OwnRows(j)' : r.seq = m
      OBVIOUS
    <3>2. CASE m <= p.seq
      BY <1>1, <1>4, <3>2
    <3>3. CASE ~(m <= p.seq)
      <4>1. m - p.seq \in 1..n
        BY <1>1, <1>2, <3>3
      <4>2. PICK i \in I : rank(i) = m - p.seq
        BY <2>6, <4>1
      <4>3. R(i).seq = m
        BY <1>1, <1>3, <4>2
      <4>4. QED
        BY <1>4, <4>3
    <3>4. QED
      BY <3>2, <3>3
  <2>10. \A r, q \in OwnRows(j)' : r.seq = q.seq => r = q
    <3>1. \A r \in OwnRows(j), i \in I : r.seq # R(i).seq
      BY <1>1, <1>3, <2>5
    <3>2. \A i, m \in I : R(i).seq = R(m).seq => i = m
      <4>1. SUFFICES ASSUME NEW i \in I, NEW m \in I, R(i).seq = R(m).seq PROVE i = m
        OBVIOUS
      <4>2. rank(i) = rank(m)
        BY <1>1, <1>3, <2>5, <4>1
      <4>3. i \in Nat /\ m \in Nat
        BY <1>2
      <4>4. QED
        BY <2>3, <2>5, <4>2, <4>3
    <3>3. QED
      BY <1>1, <1>4, <3>1, <3>2
  <2>11. \A r \in OwnRows(j) : RowLinks(r)'
    <3>1. \A r \in OwnRows(j) : r.key = j
      BY DEF OwnRows
    <3>2. \A r \in OwnRows(j) : heads[j].forkSeq = f /\ heads[j].forkHash = g
      BY <1>1 DEF f, g
    <3>3. QED
      BY <1>1, <1>5, <2>1, <3>1, <3>2, LinksStay
  <2>12. ASSUME NEW i \in I, NEW r, r = R(i) PROVE RowLinks(r)'
    <3>0. r.key = j /\ r.seq = p.seq + rank(i) /\ r.prevHash = p.hash \cup {C(m) : m \in below(i)}
      BY <1>3, <2>12
    <3>1. CASE rank(i) = 1
      <4>0. below(i) = {}
        BY <2>7, <3>1
      <4>1. r.prevHash = p.hash /\ r.seq = p.seq + 1
        BY <3>0, <3>1, <4>0
      <4>2. CASE p.seq = f
        <5>1. OwnRows(j) = {}
          BY <1>1, <4>2
        <5>2. QED
          BY <1>1, <2>1, <3>0, <4>1, <4>2, <5>1 DEF RowLinks
      <4>3. CASE p.seq # f
        <5>1. p.seq \in (f + 1)..p.seq
          BY <1>1, <4>3
        <5>2. PICK q \in OwnRows(j) : q.seq = p.seq
          BY <1>1, <5>1
        <5>3. q \in rows' /\ q.key = j /\ q.hash = p.hash
          BY <1>1, <1>5, <5>2 DEF OwnRows
        <5>4. r.seq # f + 1 /\ r.seq - 1 = p.seq
          BY <1>1, <4>1, <4>3
        <5>5. QED
          BY <2>1, <3>0, <4>1, <5>2, <5>3, <5>4 DEF RowLinks
      <4>4. QED
        BY <4>2, <4>3
    <3>2. CASE rank(i) # 1
      <4>1. rank(i) - 1 \in 1..n
        BY <1>2, <2>5, <3>2
      <4>2. PICK q \in I : rank(q) = rank(i) - 1
        BY <2>6, <4>1
      <4>3. below(i) = below(q) \cup {q}
        BY <2>7, <4>2
      <4>4. r.prevHash = R(q).hash
        <5>1. {C(m) : m \in below(i)} = {C(m) : m \in below(q)} \cup {C(q)}
          BY <4>3
        <5>2. QED
          BY <1>3, <3>0, <5>1
      <4>5. r.seq # f + 1 /\ R(q).seq = r.seq - 1
        BY <1>1, <1>3, <2>5, <2>e, <3>0, <3>2, <4>2
      <4>6. R(q) \in rows' /\ R(q).key = j
        BY <1>3, <1>4 DEF OwnRows
      <4>7. QED
        BY <2>1, <3>0, <4>4, <4>5, <4>6 DEF RowLinks
    <3>3. QED
      BY <3>1, <3>2
  <2>13. \A r \in OwnRows(j)' : RowVerifies(r) /\ RowLinks(r)'
    BY <1>1, <1>3, <1>4, <2>11, <2>12
  <2>14. \A r \in OwnRows(j)' : r.seq = p.seq + n => r.hash = heads'[j].hash
    <3>1. \A r \in OwnRows(j) : r.seq # p.seq + n
      BY <1>1, <1>2, <2>e
    <3>2. ASSUME NEW i \in I, R(i).seq = p.seq + n PROVE R(i).hash = heads'[j].hash
      <4>1. rank(i) = n
        BY <1>1, <1>2, <1>3, <2>5, <3>2
      <4>2. I = below(i) \cup {i}
        BY <2>7, <4>1
      <4>3. QED
        BY <1>3, <2>1, <4>2
    <3>3. QED
      BY <1>4, <3>1, <3>2
  <2>15. OwnRows(j)' # {}
    BY <1>4, <1>7
  <2>16. {r.seq : r \in OwnRows(j)'} = (heads'[j].forkSeq + 1)..heads'[j].seq
    BY <2>1, <2>8, <2>9
  <2>17. heads'[j].forkSeq <= heads'[j].seq
    BY <1>1, <1>2, <2>1
  <2>18. QED
    BY <2>1, <2>2, <2>10, <2>13, <2>14, <2>15, <2>16, <2>17 DEF HeadIntact, RowVerifies
<1>8. QED
  BY <1>6, <1>7

\* A fork starts a chain of its own at the fork point and touches no other.
LEMMA ForkChain ==
  ASSUME ChainInv, NEW from \in Key, NEW to \in Key, NEW atSeq \in 0..MaxSeq,
         ForkLog(from, to, atSeq), NEW j \in Key
  PROVE  /\ HeadIntact(j)'
         /\ Exists(j)' => heads'[j].forkSeq <= heads'[j].seq
<1>1. rows' = rows /\ OwnRows(j)' = OwnRows(j)
  BY DEF ForkLog, OwnRows
<1>2. HeadIntact(j) /\ (Exists(j) => heads[j].forkSeq <= heads[j].seq)
  BY DEF ChainInv, ChainIntact, ForkBelowHead
<1>3. atSeq \in Nat
  BY MaxSeqType
<1>4. PICK forkHash : heads' = [heads EXCEPT ![to] =
                         [parent |-> from, forkSeq |-> atSeq, forkHash |-> forkHash,
                          seq |-> atSeq, hash |-> forkHash]]
  BY DEF ForkLog
<1>5. CASE j = to
  <2>1. OwnRows(j) = {}
    BY <1>2, <1>5 DEF ForkLog, HeadIntact
  <2>2. /\ heads'[j].forkSeq = atSeq /\ heads'[j].seq = atSeq
        /\ heads'[j].hash = heads'[j].forkHash
    BY <1>4, <1>5 DEF ChainInv, TypeOK
  <2>3. (atSeq + 1)..atSeq = {}
    BY <1>3
  <2>4. QED
    BY <1>1, <1>3, <2>1, <2>2, <2>3 DEF HeadIntact
<1>6. CASE j # to
  <2>1. heads'[j] = heads[j]
    BY <1>4, <1>6 DEF ChainInv, TypeOK
  <2>2. \A r \in OwnRows(j) : r.key = j
    BY DEF OwnRows
  <2>3. \A r \in OwnRows(j) : RowLinks(r) => RowLinks(r)'
    BY <1>1, <2>1, <2>2, LinksStay
  <2>4. QED
    BY <1>1, <1>2, <2>1, <2>3 DEF HeadIntact, Exists, RowVerifies
<1>7. QED
  BY <1>5, <1>6

\* The strengthened invariant holds of every reachable state.
LEMMA UnifiedLogChainInv == Spec => []ChainInv
<1>1. Init => ChainInv
  <2>1. Init => TypeOK
    BY DEF Init, TypeOK
  <2>2. Init => ForkBelowHead
    BY DEF Init, ForkBelowHead, Exists
  <2>3. Init => ChainIntact
    BY DEF Init, ChainIntact, HeadIntact, OwnRows, Exists
  <2>4. QED
    BY <2>1, <2>2, <2>3 DEF ChainInv
<1>2. ASSUME ChainInv, TypeOK', [Next]_vars PROVE ChainInv'
  <2>1. SUFFICES ASSUME NEW j \in Key
                 PROVE  /\ HeadIntact(j)'
                        /\ Exists(j)' => heads'[j].forkSeq <= heads'[j].seq
    BY <1>2 DEF ChainInv, ChainIntact, ForkBelowHead, Exists
  <2>2. ASSUME NEW k \in Trajectory, NEW batch \in Batch, AgentAppend(k, batch)
        PROVE  /\ HeadIntact(j)'
               /\ Exists(j)' => heads'[j].forkSeq <= heads'[j].seq
    BY <1>2, <2>2, AppendChain DEF AgentAppend, Key
  <2>3. ASSUME NEW c \in Channel, NEW batch \in Batch, ChannelAppend(c, batch)
        PROVE  /\ HeadIntact(j)'
               /\ Exists(j)' => heads'[j].forkSeq <= heads'[j].seq
    BY <1>2, <2>3, AppendChain DEF ChannelAppend, Key
  <2>4. ASSUME NEW from \in Key, NEW to \in Key, NEW atSeq \in 0..MaxSeq, ForkLog(from, to, atSeq)
        PROVE  /\ HeadIntact(j)'
               /\ Exists(j)' => heads'[j].forkSeq <= heads'[j].seq
    BY <1>2, <2>4, ForkChain
  <2>5. CASE UNCHANGED vars
    BY <1>2, <2>5 DEF vars, ChainInv, ChainIntact, ForkBelowHead, HeadIntact, Exists, OwnRows,
                      RowVerifies, RowLinks
  <2>6. QED
    BY <1>2, <2>2, <2>3, <2>4, <2>5 DEF Next
<1>3. Spec => []TypeOK
  BY UnifiedLogTypeOK
<1>4. QED
  BY <1>1, <1>2, <1>3, PTL DEF Spec

\* In every reachable state the integrity check (checkLogIntegrity) passes on
\* every head: seqs run on from the fork without gap or repetition, each row
\* links to the one before it and recomputes to its hash, and the head pointer
\* carries the hash of the last, however appends, retries, publications into
\* shared channels and forks interleave.
THEOREM UnifiedLogChainIntact == Spec => []ChainIntact
<1>1. ChainInv => ChainIntact
  BY DEF ChainInv
<1>2. QED
  BY <1>1, UnifiedLogChainInv, PTL

-----------------------------------------------------------------------------
(* Ancestry.  par is a function from keys to their parents, cut one from   *)
(* keys to the seqs they were forked at.  There is no induction on the     *)
(* length of a path: a set that holds the first key and, with a key, its   *)
(* parent, holds all of them, and the proofs choose that set.              *)

Parents == [k \in Key |-> Parent(k)]
Cuts == [k \in Key |-> heads[k].forkSeq]

Closed(par, A) == A \in SUBSET Key /\ \A k \in A : par[k] \in A \cup {NoKey}
Ancestor(par, k, j) == \A A : Closed(par, A) /\ k \in A => j \in A
Reading(par, cut, k, r) ==
  /\ Ancestor(par, k, r.key)
  /\ \A j \in Key \ {r.key} : Ancestor(par, k, j) /\ Ancestor(par, j, r.key) => r.seq <= cut[j]

ParentFunction == [Key -> Key \cup {NoKey}]

\* No log is its own ancestor.
Tree(par) ==
  /\ \A k \in Key : par[k] # k
  /\ \A k, j \in Key : Ancestor(par, k, j) /\ Ancestor(par, j, k) => k = j

\* A key is an ancestor of itself, its parent is one, and so are theirs.
LEMMA AncestorBasics ==
  ASSUME NEW par \in ParentFunction
  PROVE  /\ \A k : Ancestor(par, k, k)
         /\ \A k \in Key : par[k] \in Key => Ancestor(par, k, par[k])
         /\ \A k, j, i : Ancestor(par, k, j) /\ Ancestor(par, j, i) => Ancestor(par, k, i)
         /\ \A k \in Key : \A j : Ancestor(par, k, j) => j \in Key
<1>1. \A k : Ancestor(par, k, k)
  BY DEF Ancestor
<1>2. ASSUME NEW k \in Key, par[k] \in Key PROVE Ancestor(par, k, par[k])
  BY <1>2, Sentinels DEF Ancestor, Closed
<1>3. \A k, j, i : Ancestor(par, k, j) /\ Ancestor(par, j, i) => Ancestor(par, k, i)
  BY DEF Ancestor
<1>4. ASSUME NEW k \in Key, NEW j, Ancestor(par, k, j) PROVE j \in Key
  <2>1. Closed(par, Key)
    BY DEF Closed, ParentFunction
  <2>2. QED
    BY <1>4, <2>1 DEF Ancestor
<1>5. QED
  BY <1>1, <1>2, <1>3, <1>4

\* Any other ancestor is reached through the parent.
LEMMA FirstStep ==
  ASSUME NEW par \in ParentFunction, NEW k \in Key, NEW j, Ancestor(par, k, j), j # k
  PROVE  par[k] \in Key /\ Ancestor(par, par[k], j)
<1>1. CASE par[k] = NoKey
  <2>1. Closed(par, {k})
    BY <1>1 DEF Closed
  <2>2. QED
    BY <2>1 DEF Ancestor
<1>2. CASE par[k] \in Key
  <2> DEFINE A == {k} \cup {i \in Key : Ancestor(par, par[k], i)}
  <2>1. \A i \in Key : Ancestor(par, par[k], i) /\ par[i] \in Key => Ancestor(par, par[k], par[i])
    BY AncestorBasics
  <2>2. Ancestor(par, par[k], par[k])
    BY AncestorBasics
  <2>3. Closed(par, A)
    BY <1>2, <2>1, <2>2 DEF Closed, ParentFunction
  <2>4. j \in A
    BY <2>3 DEF Ancestor
  <2>5. QED
    BY <1>2, <2>4
<1>3. QED
  BY <1>1, <1>2 DEF ParentFunction

\* And it is the parent of another ancestor, or of the key itself.
LEMMA LastStep ==
  ASSUME NEW par \in ParentFunction, NEW k \in Key, NEW j, Ancestor(par, k, j), j # k
  PROVE  \E i \in Key : Ancestor(par, k, i) /\ par[i] = j /\ j \in Key
<1> DEFINE A == {k} \cup {x \in Key : \E i \in Key : Ancestor(par, k, i) /\ par[i] = x}
<1>1. \A x \in A : Ancestor(par, k, x)
  BY AncestorBasics
<1>2. \A x \in A : par[x] \in A \cup {NoKey}
  BY <1>1 DEF ParentFunction
<1>3. Closed(par, A)
  BY <1>2 DEF Closed
<1>4. j \in A
  BY <1>3 DEF Ancestor
<1>5. QED
  BY <1>4

\* What a head reads: its own rows, and of what its parent reads the part before
\* the fork.
LEMMA ReadingUnfolds ==
  ASSUME NEW par \in ParentFunction, Tree(par), NEW cut, NEW k \in Key, NEW r, r.key \in Key
  PROVE  Reading(par, cut, k, r) <=>
           r.key = k \/ (par[k] \in Key /\ Reading(par, cut, par[k], r) /\ r.seq <= cut[k])
<1>1. ASSUME Reading(par, cut, k, r), r.key # k
      PROVE  par[k] \in Key /\ Reading(par, cut, par[k], r) /\ r.seq <= cut[k]
  <2>1. Ancestor(par, k, r.key) /\ par[k] \in Key /\ Ancestor(par, par[k], r.key)
    BY <1>1, FirstStep DEF Reading
  <2>2. r.seq <= cut[k]
    BY <1>1, <2>1, AncestorBasics DEF Reading
  <2>3. \A j : Ancestor(par, par[k], j) => Ancestor(par, k, j)
    BY <2>1, AncestorBasics
  <2>4. QED
    BY <1>1, <2>1, <2>2, <2>3 DEF Reading
<1>2. ASSUME r.key = k PROVE Reading(par, cut, k, r)
  <2>1. Ancestor(par, k, r.key)
    BY <1>2, AncestorBasics
  <2>2. \A j \in Key \ {r.key} : ~(Ancestor(par, k, j) /\ Ancestor(par, j, r.key))
    BY <1>2 DEF Tree
  <2>3. QED
    BY <2>1, <2>2 DEF Reading
<1>3. ASSUME par[k] \in Key, Reading(par, cut, par[k], r), r.seq <= cut[k]
      PROVE  Reading(par, cut, k, r)
  <2>1. Ancestor(par, k, r.key)
    BY <1>3, AncestorBasics DEF Reading
  <2>2. ASSUME NEW j \in Key \ {r.key}, Ancestor(par, k, j), Ancestor(par, j, r.key)
        PROVE  r.seq <= cut[j]
    <3>1. CASE j = k
      BY <1>3, <3>1
    <3>2. CASE j # k
      BY <1>3, <2>2, <3>2, FirstStep DEF Reading
    <3>3. QED
      BY <3>1, <3>2
  <2>3. QED
    BY <2>1, <2>2 DEF Reading
<1>4. QED
  BY <1>1, <1>2, <1>3

\* Only the cuts of keys with a parent matter.
LEMMA CutsThatMatter ==
  ASSUME NEW par \in ParentFunction, NEW cut, NEW cut2,
         \A j \in Key : par[j] \in Key => cut2[j] = cut[j],
         NEW k \in Key, NEW r, Reading(par, cut, k, r)
  PROVE  Reading(par, cut2, k, r)
<1>1. ASSUME NEW j \in Key \ {r.key}, Ancestor(par, k, j), Ancestor(par, j, r.key)
      PROVE  r.seq <= cut2[j]
  <2>1. par[j] \in Key
    BY <1>1, FirstStep
  <2>2. QED
    BY <1>1, <2>1 DEF Reading
<1>2. QED
  BY <1>1 DEF Reading

\* A row above every cut that leads to its log is read by nobody else.
LEMMA NotReadByChildren ==
  ASSUME NEW par \in ParentFunction, Tree(par), NEW cut, NEW k \in Key, NEW r, r.key \in Key,
         \A j \in Key : par[j] = r.key => ~(r.seq <= cut[j]), k # r.key
  PROVE  ~Reading(par, cut, k, r)
<1> SUFFICES ASSUME Reading(par, cut, k, r) PROVE FALSE
  OBVIOUS
<1>1. PICK i \in Key : Ancestor(par, k, i) /\ par[i] = r.key
  BY LastStep DEF Reading
<1>2. i # r.key /\ Ancestor(par, i, r.key)
  BY <1>1, AncestorBasics DEF Tree
<1>3. QED
  BY <1>1, <1>2 DEF Reading

-----------------------------------------------------------------------------
(* A fork: to, which had no parent and is nobody's, becomes a child of     *)
(* from.                                                                   *)

Forks(par, par2, from, to) ==
  /\ par \in ParentFunction /\ from \in Key /\ to \in Key /\ from # to
  /\ par[to] = NoKey /\ \A k \in Key : par[k] # to
  /\ par2 = [par EXCEPT ![to] = from]

\* The others keep their ancestors; to gets those of from.
LEMMA ForkAncestors ==
  ASSUME NEW par, NEW par2, NEW from, NEW to, Forks(par, par2, from, to)
  PROVE  /\ par2 \in ParentFunction
         /\ \A k \in Key : k # to => \A j : Ancestor(par2, k, j) <=> Ancestor(par, k, j)
         /\ \A k \in Key : k # to => ~Ancestor(par, k, to)
<1>1. par2 \in ParentFunction /\ par2[to] = from /\ \A k \in Key : k # to => par2[k] = par[k]
  BY DEF Forks, ParentFunction
<1>2. ASSUME NEW k \in Key, k # to, NEW j, Ancestor(par2, k, j) PROVE Ancestor(par, k, j)
  <2>1. SUFFICES ASSUME NEW A, Closed(par, A), k \in A PROVE j \in A
    BY DEF Ancestor
  <2>2. Closed(par2, A \ {to})
    BY <1>1, <2>1 DEF Closed, Forks
  <2>3. QED
    BY <1>2, <2>1, <2>2 DEF Ancestor
<1>3. ASSUME NEW k \in Key, k # to, NEW j, Ancestor(par, k, j) PROVE Ancestor(par2, k, j)
  <2>1. SUFFICES ASSUME NEW A, Closed(par2, A), k \in A PROVE j \in A
    BY DEF Ancestor
  <2>2. Closed(par, A)
    BY <1>1, <2>1 DEF Closed, Forks
  <2>3. QED
    BY <1>3, <2>1, <2>2 DEF Ancestor
<1>4. ASSUME NEW k \in Key, k # to, Ancestor(par, k, to) PROVE FALSE
  <2>1. par \in ParentFunction
    BY DEF Forks
  <2>2. PICK i \in Key : par[i] = to
    BY <1>4, <2>1, LastStep
  <2>3. QED
    BY <2>2 DEF Forks
<1>5. QED
  BY <1>1, <1>2, <1>3, <1>4

\* A fork hangs a new head under an existing one: the parents stay a tree.
LEMMA ForkTree ==
  ASSUME NEW par, NEW par2, NEW from, NEW to, Forks(par, par2, from, to), Tree(par)
  PROVE  Tree(par2)
<1>1. par2 \in ParentFunction /\ par2[to] = from /\ \A k \in Key : k # to => par2[k] = par[k]
  BY DEF Forks, ParentFunction
<1>2. \A k \in Key : par2[k] # k
  BY <1>1 DEF Tree, Forks
<1>3. ASSUME NEW k \in Key, NEW j \in Key, Ancestor(par2, k, j), Ancestor(par2, j, k)
      PROVE  k = j
  <2>1. CASE k # to /\ j # to
    BY <1>3, <2>1, ForkAncestors DEF Tree
  <2>2. CASE k = to /\ j # to
    BY <1>3, <2>2, ForkAncestors
  <2>3. CASE k # to /\ j = to
    BY <1>3, <2>3, ForkAncestors
  <2>4. QED
    BY <2>1, <2>2, <2>3
<1>4. QED
  BY <1>2, <1>3 DEF Tree

\* The others read what they read.
LEMMA ForkReading ==
  ASSUME NEW par, NEW par2, NEW from, NEW to, Forks(par, par2, from, to), NEW cut, NEW cut2,
         \A j \in Key : j # to => cut2[j] = cut[j],
         NEW k \in Key, k # to, NEW r
  PROVE  Reading(par2, cut2, k, r) <=> Reading(par, cut, k, r)
<1>1. par \in ParentFunction
  BY DEF Forks
<1>2. \A j : Ancestor(par2, k, j) <=> Ancestor(par, k, j)
  BY ForkAncestors
<1>3. \A j \in Key : Ancestor(par, k, j) => j # to
  BY ForkAncestors
<1>4. \A j \in Key : j # to => (Ancestor(par2, j, r.key) <=> Ancestor(par, j, r.key))
  BY ForkAncestors
<1>5. QED
  BY <1>2, <1>3, <1>4 DEF Reading

-----------------------------------------------------------------------------
(* The tables.                                                             *)

\* Reads, Lineage and View in these terms.
LEMMA ViewIs ==
  \A k \in Key : View(Reads, k) = {r \in rows : Reading(Parents, Cuts, k, r) /\ r.key \in Key}
<1>1. \A A \in SUBSET Key : ParentClosed(A) <=> Closed(Parents, A)
  BY DEF ParentClosed, Closed, Parents
<1>2. \A k, j \in Key : <<k, j>> \in Lineage <=> Ancestor(Parents, k, j)
  BY <1>1 DEF Lineage, Ancestor, Closed
<1> SUFFICES ASSUME NEW k \in Key, NEW r \in rows
             PROVE  <<k, r>> \in Reads <=> Reading(Parents, Cuts, k, r) /\ r.key \in Key
  BY DEF View
<1>3. <<k, r>> \in Reads <=>
        /\ <<k, r.key>> \in Lineage
        /\ \A j \in Key \ {r.key} :
             <<k, j>> \in Lineage /\ <<j, r.key>> \in Lineage => r.seq <= heads[j].forkSeq
  BY DEF Reads
<1>4. <<k, r.key>> \in Lineage => r.key \in Key
  BY DEF Lineage
<1>5. \A j \in Key : Cuts[j] = heads[j].forkSeq
  BY DEF Cuts
<1>6. QED
  BY <1>2, <1>3, <1>4, <1>5 DEF Reading

\* The same in the next state.
LEMMA ViewIsNext ==
  \A k \in Key : View(Reads, k)' = {r \in rows' : Reading(Parents', Cuts', k, r) /\ r.key \in Key}
<1>1. (\A k \in Key : View(Reads, k) = {r \in rows : Reading(Parents, Cuts, k, r) /\ r.key \in Key})'
  BY ViewIs, PTL
<1>2. QED
  BY <1>1 DEF Reading, Ancestor, Closed

\* What the heads say of the forks: no cycle of parents, and a log that was
\* forked exists and is as long as the fork was cut.
TreeInv ==
  /\ Tree(Parents)
  /\ \A k \in Key : Parents[k] \in Key =>
       Exists(k) /\ Exists(Parents[k]) /\ heads[k].forkSeq <= heads[Parents[k]].seq

\* The rows an append adds to log j.
NewRows(k, batch, j) == {InsertRow(Reads, k, batch, j, i) : i \in Inserts(Reads, k, batch, j)}

\* The parent of a head is a head or none.
LEMMA ParentsType ==
  ASSUME TypeOK
  PROVE  Parents \in ParentFunction
BY HeadPointerType DEF Parents, ParentFunction

\* The rows an append adds to a log carry its key and number on from its head.
LEMMA NewRowsNumbered ==
  ASSUME TypeOK, NEW k, NEW batch \in Batch, NEW j \in Key
  PROVE  /\ \A r \in NewRows(k, batch, j) : r.key = j /\ r.seq \in Nat /\ r.seq > HeadPointer(j).seq
         /\ {r.seq : r \in NewRows(k, batch, j)} =
              (HeadPointer(j).seq + 1)..(HeadPointer(j).seq + Cardinality(Inserts(Reads, k, batch, j)))
<1> DEFINE I == Inserts(Reads, k, batch, j)
           n == HeadPointer(j).seq
           rank(i) == Cardinality({m \in I : m <= i})
<1>1. I \in SUBSET Nat /\ IsFiniteSet(I) /\ Cardinality(I) \in Nat
  BY InsertsFinite
<1>2. n \in Nat
  BY HeadPointerType
<1>3. {rank(i) : i \in I} = 1..Cardinality(I)
  BY <1>1, Ranks
<1>4. \A i \in I : /\ InsertRow(Reads, k, batch, j, i).key = j
                   /\ InsertRow(Reads, k, batch, j, i).seq = n + rank(i)
  BY DEF InsertRow, InsertSeq, InsertsThrough
<1> HIDE DEF n, rank, I
<1>5. \A i \in I : rank(i) \in 1..Cardinality(I)
  BY <1>3
<1>6. \A r \in NewRows(k, batch, j) : \E i \in I : r.key = j /\ r.seq = n + rank(i)
  BY <1>4 DEF NewRows, I
<1>7. \A i \in I : \E r \in NewRows(k, batch, j) : r.seq = n + rank(i)
  BY <1>4 DEF NewRows, I
<1>8. \A m \in (n + 1)..(n + Cardinality(I)) : \E i \in I : m = n + rank(i)
  <2> SUFFICES ASSUME NEW m \in (n + 1)..(n + Cardinality(I)) PROVE \E i \in I : m = n + rank(i)
    OBVIOUS
  <2>1. m - n \in 1..Cardinality(I)
    BY <1>1, <1>2
  <2>2. PICK i \in I : m - n = rank(i)
    BY <1>3, <2>1
  <2>3. QED
    BY <1>1, <1>2, <2>2
<1>9. \A r \in NewRows(k, batch, j) : r.key = j /\ r.seq \in (n + 1)..(n + Cardinality(I))
  BY <1>1, <1>2, <1>5, <1>6
<1>10. \A m \in (n + 1)..(n + Cardinality(I)) : \E r \in NewRows(k, batch, j) : r.seq = m
  BY <1>7, <1>8
<1>11. \A r \in NewRows(k, batch, j) : r.key = j /\ r.seq \in Nat /\ r.seq > n
  BY <1>1, <1>2, <1>9
<1>12. {r.seq : r \in NewRows(k, batch, j)} = (n + 1)..(n + Cardinality(I))
  BY <1>9, <1>10
<1>13. QED
  BY <1>11, <1>12 DEF n, I

\* An append changes no parent and no cut, and moves no head back.
LEMMA AppendHeads ==
  ASSUME TypeOK, NEW k \in Key, NEW batch \in Batch, NEW expected, NEW mode,
         k \in Trajectory \/ \A n \in DOMAIN batch : batch[n].publish = {},
         AppendLogEvent(Reads, k, batch, expected, mode)
  PROVE  /\ Parents' = Parents
         /\ \A j \in Key : Exists(j) => /\ Exists(j)' /\ heads'[j].forkSeq = heads[j].forkSeq
                                        /\ heads[j].seq <= heads'[j].seq
         /\ \A j \in Key : /\ HeadPointer(j)'.seq = HeadPointer(j).seq + Cardinality(Inserts(Reads, k, batch, j))
                           /\ HeadPointer(j)'.hash = HeadPointer(j).hash \cup
                                {InsertCell(Reads, k, batch, j, m) : m \in Inserts(Reads, k, batch, j)}
<1> DEFINE I(j) == Inserts(Reads, k, batch, j)
           A(j) == AdvancedHead(Reads, k, batch, j)
<1>1. \A j \in Key : heads'[j] = IF I(j) = {} THEN heads[j] ELSE A(j)
  BY DEF AppendLogEvent
<1>2. \A j \in Key : A(j) # NoHead
  BY AppendType, NoHeadType
<1>3. \A j \in Key : /\ A(j).parent = Parent(j)
                     /\ Exists(j) => A(j).forkSeq = heads[j].forkSeq
                     /\ A(j).seq = HeadPointer(j).seq + Cardinality(I(j))
                     /\ A(j).hash = HeadPointer(j).hash \cup {InsertCell(Reads, k, batch, j, m) : m \in I(j)}
  BY DEF AdvancedHead
<1>4. \A j \in Key : HeadPointer(j).seq \in Nat /\ Cardinality(I(j)) \in Nat
                     /\ (Exists(j) => heads[j].seq \in Nat)
  BY HeadPointerType, InsertsFinite DEF HeadRow
<1>5. \A j \in Key : I(j) = {} => Cardinality(I(j)) = 0
  BY FS_EmptySet
<1> HIDE DEF I, A
<1>6. ASSUME NEW j \in Key PROVE Parent(j)' = Parent(j)
  BY <1>1, <1>2, <1>3 DEF Parent, Exists
<1>7. ASSUME NEW j \in Key, Exists(j)
      PROVE  Exists(j)' /\ heads'[j].forkSeq = heads[j].forkSeq /\ heads[j].seq <= heads'[j].seq
  BY <1>1, <1>2, <1>3, <1>4, <1>7 DEF Exists, HeadPointer
<1>8. ASSUME NEW j \in Key
      PROVE  /\ HeadPointer(j)'.seq = HeadPointer(j).seq + Cardinality(I(j))
             /\ HeadPointer(j)'.hash = HeadPointer(j).hash \cup {InsertCell(Reads, k, batch, j, m) : m \in I(j)}
  <2>1. CASE I(j) = {}
    <3>1. HeadPointer(j)' = HeadPointer(j)
      BY <1>1, <2>1 DEF HeadPointer, Exists
    <3>2. {InsertCell(Reads, k, batch, j, m) : m \in I(j)} = {}
      BY <2>1
    <3>3. QED
      BY <1>4, <1>5, <2>1, <3>1, <3>2
  <2>2. CASE I(j) # {}
    <3>1. heads'[j] = A(j) /\ Exists(j)'
      BY <1>1, <1>2, <2>2 DEF Exists
    <3>2. HeadPointer(j)'.seq = A(j).seq /\ HeadPointer(j)'.hash = A(j).hash
      BY <3>1 DEF HeadPointer
    <3>3. QED
      BY <1>3, <3>2
  <2>3. QED
    BY <2>1, <2>2
<1>9. Parents' = Parents
  BY <1>6 DEF Parents
<1>10. QED
  BY <1>7, <1>8, <1>9 DEF I

\* An append adds to what log j reads exactly the rows it adds to log j: the
\* rows it adds to an ancestor of j lie behind the cut.
LEMMA AppendViews ==
  ASSUME ChainInv, TreeInv, NEW k \in Key, NEW batch \in Batch, NEW expected, NEW mode,
         k \in Trajectory \/ \A n \in DOMAIN batch : batch[n].publish = {},
         AppendLogEvent(Reads, k, batch, expected, mode)
  PROVE  /\ TreeInv'
         /\ \A j \in Key : View(Reads, j)' = View(Reads, j) \cup NewRows(k, batch, j)
<1> DEFINE par == Parents
           cut == Cuts
           cut2 == Cuts'
<1>1. TypeOK
  BY DEF ChainInv
<1>2. /\ Parents' = par
      /\ \A j \in Key : Exists(j) => /\ Exists(j)' /\ heads'[j].forkSeq = heads[j].forkSeq
                                     /\ heads[j].seq <= heads'[j].seq
  BY <1>1, AppendHeads
<1>3. par \in ParentFunction /\ Tree(par)
  BY <1>1, ParentsType DEF TreeInv
<1>4. \A j \in Key : par[j] \in Key =>
        /\ Exists(j) /\ Exists(par[j])
        /\ heads[j].forkSeq <= heads[par[j]].seq
        /\ heads[j].forkSeq \in Nat /\ heads[par[j]].seq \in Nat
  BY <1>1, HeadPointerType DEF TreeInv, HeadRow
<1>5. \A j \in Key : par[j] \in Key => cut2[j] = cut[j] /\ cut[j] = heads[j].forkSeq
  BY <1>2, <1>4 DEF Cuts
<1>6. \A j \in Key : Exists(j) => heads[j].seq \in Nat /\ heads'[j].seq \in Nat
  <2>1. TypeOK'
    BY <1>1, AppendType
  <2>2. QED
    BY <1>1, <1>2, <2>1, NoHeadType DEF TypeOK, HeadRow, Exists
<1>7. TreeInv'
  <2>1. \A j \in Key : par[j] \in Key =>
          Exists(j)' /\ Exists(par[j])' /\ heads'[j].forkSeq <= heads'[par[j]].seq
    BY <1>2, <1>4, <1>6
  <2>2. Tree(Parents)'
    BY <1>2, <1>3 DEF Tree, Ancestor, Closed
  <2>3. QED
    BY <1>2, <2>1, <2>2 DEF TreeInv, Exists
<1>8. rows' = rows \cup UNION {NewRows(k, batch, j) : j \in Key}
  BY DEF AppendLogEvent, NewRows
<1>9. \A j \in Key : \A r \in NewRows(k, batch, j) : r.key = j /\ r.seq \in Nat /\ r.seq > HeadPointer(j).seq
  BY <1>1, NewRowsNumbered
<1> HIDE DEF par, cut, cut2
<1>10. ASSUME NEW j \in Key, NEW r
       PROVE  Reading(par, cut2, j, r) <=> Reading(par, cut, j, r)
  <2>1. \A i \in Key : par[i] \in Key => cut2[i] = cut[i] /\ cut[i] = cut2[i]
    BY <1>5
  <2>2. QED
    BY <1>3, <2>1, CutsThatMatter
<1>11. ASSUME NEW j \in Key, NEW r \in NewRows(k, batch, j) PROVE Reading(par, cut2, j, r)
  BY <1>3, <1>9, ReadingUnfolds
<1>12. ASSUME NEW i \in Key, NEW r \in NewRows(k, batch, i), NEW j \in Key, j # i
       PROVE  ~Reading(par, cut2, j, r)
  <2>1. r.key = i /\ r.seq \in Nat /\ r.seq > HeadPointer(i).seq
    BY <1>9
  <2>2. ASSUME NEW m \in Key, par[m] = i PROVE ~(r.seq <= cut2[m])
    <3>1. HeadPointer(i).seq = heads[i].seq
      BY <1>4, <2>2 DEF HeadPointer
    <3>2. cut2[m] = heads[m].forkSeq /\ heads[m].forkSeq <= heads[i].seq
          /\ heads[m].forkSeq \in Nat /\ heads[i].seq \in Nat
      BY <1>4, <1>5, <2>2
    <3>3. QED
      BY <2>1, <3>1, <3>2
  <2>3. QED
    BY <1>3, <1>12, <2>1, <2>2, NotReadByChildren
<1>13. ASSUME NEW j \in Key
       PROVE  View(Reads, j)' = View(Reads, j) \cup NewRows(k, batch, j)
  <2>1. View(Reads, j)' = {r \in rows' : Reading(par, cut2, j, r) /\ r.key \in Key}
    BY <1>2, ViewIsNext DEF par, cut2
  <2>2. View(Reads, j) = {r \in rows : Reading(par, cut, j, r) /\ r.key \in Key}
    BY ViewIs DEF par, cut
  <2>3. \A r \in rows' : r \in rows \/ \E i \in Key : r \in NewRows(k, batch, i)
    BY <1>8
  <2>4. NewRows(k, batch, j) \subseteq rows' /\ rows \subseteq rows'
    BY <1>8
  <2>5. ASSUME NEW r \in View(Reads, j)' PROVE r \in View(Reads, j) \cup NewRows(k, batch, j)
    BY <2>1, <2>2, <2>3, <2>5, <1>10, <1>12
  <2>6. ASSUME NEW r \in View(Reads, j) \cup NewRows(k, batch, j) PROVE r \in View(Reads, j)'
    BY <2>1, <2>2, <2>4, <2>6, <1>9, <1>10, <1>11
  <2>7. QED
    BY <2>5, <2>6
<1>14. QED
  BY <1>7, <1>13

\* A fork reads of its parent what lies before the cut, and nobody else reads
\* anything else than before.
LEMMA ForkViews ==
  ASSUME ChainInv, TreeInv, NEW from \in Key, NEW to \in Key, NEW atSeq \in 0..MaxSeq,
         ForkLog(from, to, atSeq)
  PROVE  /\ TreeInv'
         /\ \A j \in Key : j # to => View(Reads, j)' = View(Reads, j) /\ heads'[j] = heads[j]
         /\ View(Reads, to)' = {r \in View(Reads, from) : r.seq <= atSeq}
         /\ View(Reads, to) = {}
<1> DEFINE par == Parents
           cut == Cuts
           par2 == Parents'
           cut2 == Cuts'
<1>1. TypeOK /\ rows' = rows /\ from # to /\ Exists(from) /\ ~Exists(to) /\ atSeq <= heads[from].seq
  BY DEF ChainInv, ForkLog
<1>2. PICK h : heads' = [heads EXCEPT ![to] = [parent |-> from, forkSeq |-> atSeq, forkHash |-> h,
                                               seq |-> atSeq, hash |-> h]]
  BY <1>1, ForkType
<1>3. /\ heads'[to].parent = from /\ heads'[to].forkSeq = atSeq
      /\ \A j \in Key : j # to => heads'[j] = heads[j]
  BY <1>1, <1>2 DEF TypeOK
<1>4. Exists(to)'
  <2>1. TypeOK' /\ \E g \in Hash : heads' = [heads EXCEPT ![to] =
          [parent |-> from, forkSeq |-> atSeq, forkHash |-> g, seq |-> atSeq, hash |-> g]]
    BY <1>1, ForkType
  <2>2. PICK g \in Hash : heads'[to] =
          [parent |-> from, forkSeq |-> atSeq, forkHash |-> g, seq |-> atSeq, hash |-> g]
    BY <1>1, <2>1 DEF TypeOK
  <2>3. heads'[to] \in HeadRow
    BY <2>2, MaxSeqType DEF HeadRow
  <2>4. QED
    BY <2>3, NoHeadType DEF Exists
<1>5. /\ par2 = [par EXCEPT ![to] = from]
      /\ par \in ParentFunction /\ Tree(par) /\ par[to] = NoKey
  <2>1. \A j \in Key : Parent(j)' = IF j = to THEN from ELSE Parent(j)
    BY <1>3, <1>4 DEF Parent, Exists
  <2>2. Parents' = [Parents EXCEPT ![to] = from]
    BY <2>1 DEF Parents
  <2>3. Parents[to] = NoKey
    BY <1>1 DEF Parents, Parent
  <2>4. QED
    BY <1>1, <2>2, <2>3, ParentsType DEF TreeInv
<1>6. \A j \in Key : par[j] \in Key =>
        Exists(j) /\ Exists(par[j]) /\ heads[j].forkSeq <= heads[par[j]].seq
  BY DEF TreeInv
<1>7. Forks(par, par2, from, to)
  BY <1>1, <1>5, <1>6 DEF Forks
<1>8. cut2[to] = atSeq /\ \A j \in Key : j # to => cut2[j] = cut[j]
  BY <1>3 DEF Cuts
<1>9. /\ \A j \in Key : View(Reads, j)' = {r \in rows : Reading(par2, cut2, j, r) /\ r.key \in Key}
      /\ \A j \in Key : View(Reads, j) = {r \in rows : Reading(par, cut, j, r) /\ r.key \in Key}
  BY <1>1, ViewIs, ViewIsNext
<1>10. \A r \in rows : r.key # to
  <2>1. HeadIntact(to)
    BY DEF ChainInv, ChainIntact
  <2>2. QED
    BY <1>1, <2>1 DEF HeadIntact, OwnRows
<1>11. TreeInv'
  <2>1. ASSUME NEW j \in Key, par2[j] \in Key
        PROVE  heads'[j] # NoHead /\ heads'[par2[j]] # NoHead /\ heads'[j].forkSeq <= heads'[par2[j]].seq
    <3>1. CASE j = to
      <4>1. par2[j] = from
        BY <1>5, <3>1 DEF ParentFunction
      <4>2. QED
        BY <1>1, <1>3, <1>4, <3>1, <4>1 DEF Exists
    <3>2. CASE j # to
      <4>1. par2[j] = par[j]
        BY <1>5, <3>2 DEF ParentFunction
      <4>2. par[j] # to
        BY <1>1, <1>6, <2>1, <4>1
      <4>3. Exists(j) /\ Exists(par[j]) /\ heads[j].forkSeq <= heads[par[j]].seq /\ par[j] \in Key
        BY <1>6, <2>1, <4>1
      <4>4. heads'[j] = heads[j] /\ heads'[par[j]] = heads[par[j]]
        BY <1>3, <3>2, <4>2, <4>3
      <4>5. QED
        BY <4>1, <4>3, <4>4 DEF Exists
    <3>3. QED
      BY <3>1, <3>2
  <2>2. Tree(par2)
    BY <1>5, <1>7, ForkTree
  <2>3. Tree(Parents)'
    BY <2>2 DEF Tree, Ancestor, Closed
  <2>4. QED
    BY <2>1, <2>3 DEF TreeInv, Exists
<1> HIDE DEF par, par2, cut, cut2
<1>12. ASSUME NEW j \in Key, j # to PROVE View(Reads, j)' = View(Reads, j)
  <2>1. \A r \in rows : Reading(par2, cut2, j, r) <=> Reading(par, cut, j, r)
    BY <1>7, <1>8, <1>12, ForkReading
  <2>2. QED
    BY <1>9, <2>1
<1>13. View(Reads, to)' = {r \in View(Reads, from) : r.seq <= atSeq}
  <2>1. Tree(par2) /\ par2 \in ParentFunction /\ par2[to] = from
    BY <1>5, <1>7, ForkTree DEF ParentFunction
  <2>2. ASSUME NEW r \in rows, r.key \in Key
        PROVE  Reading(par2, cut2, to, r) <=> Reading(par2, cut2, from, r) /\ r.seq <= atSeq
    BY <1>8, <1>10, <2>1, <2>2, ReadingUnfolds
  <2>3. \A r \in rows : Reading(par2, cut2, from, r) <=> Reading(par, cut, from, r)
    BY <1>1, <1>7, <1>8, ForkReading
  <2>4. QED
    BY <1>9, <2>2, <2>3
<1>14. View(Reads, to) = {}
  <2>1. ASSUME NEW r \in rows, r.key \in Key PROVE ~Reading(par, cut, to, r)
    BY <1>5, <1>10, <2>1, ReadingUnfolds, Sentinels
  <2>2. QED
    BY <1>9, <2>1
<1>15. QED
  BY <1>3, <1>11, <1>12, <1>13, <1>14

-----------------------------------------------------------------------------
(* What a view commits to.                                                 *)

CellOf(r) == <<r.key, r.seq, r.id, r.sem>>
CellsUpTo(V, n) == {CellOf(r) : r \in {q \in V : q.seq <= n}}

\* The rows V are the chain that the head seq n and the head hash h close.  The
\* last part, that every row's hash closes the rows up to it, is what a fork
\* cut in the middle of the chain needs.
Closes(V, n, h) ==
  /\ {CellOf(r) : r \in V} = h
  /\ {r.seq : r \in V} = 1..n
  /\ \A r \in V : r.hash = CellsUpTo(V, r.seq)

\* The rows R[i] number on from n, each closing h and the ones before it.
Continues(I, R, n, h) ==
  \A i \in I : /\ R[i].seq = n + Cardinality({m \in I : m <= i})
              /\ R[i].hash = h \cup {CellOf(R[m]) : m \in {x \in I : x <= i}}

\* A chain continued.
LEMMA ChainContinues ==
  ASSUME NEW V, NEW n \in Nat, NEW h, Closes(V, n, h),
         NEW I \in SUBSET Nat, IsFiniteSet(I), NEW R, Continues(I, R, n, h)
  PROVE  Closes(V \cup {R[i] : i \in I}, n + Cardinality(I), h \cup {CellOf(R[i]) : i \in I})
<1> DEFINE rank(i) == Cardinality({m \in I : m <= i})
           W == V \cup {R[i] : i \in I}
<1>1. /\ Cardinality(I) \in Nat
      /\ \A i, j \in I : i < j => rank(i) < rank(j)
      /\ {rank(i) : i \in I} = 1..Cardinality(I)
  BY Ranks, FS_CardinalityType
<1>2. \A i \in I : R[i].seq = n + rank(i)
  BY DEF Continues
<1>3. /\ {CellOf(r) : r \in V} = h
      /\ {r.seq : r \in V} = 1..n
      /\ \A r \in V : r.hash = CellsUpTo(V, r.seq)
  BY DEF Closes
<1> HIDE DEF rank
<1>4. \A i \in I : rank(i) \in 1..Cardinality(I)
  BY <1>1
<1>5. \A r \in V : r.seq \in 1..n
  BY <1>3
<1>6. {r.seq : r \in W} = 1..(n + Cardinality(I))
  <2>1. ASSUME NEW r \in W PROVE r.seq \in 1..(n + Cardinality(I))
    BY <1>1, <1>2, <1>4, <1>5
  <2>2. ASSUME NEW s \in 1..(n + Cardinality(I)) PROVE \E r \in W : r.seq = s
    <3>1. CASE s <= n
      <4>1. s \in 1..n
        BY <3>1
      <4>2. QED
        BY <1>3, <4>1
    <3>2. CASE ~(s <= n)
      <4>1. s - n \in 1..Cardinality(I)
        BY <1>1, <3>2
      <4>2. PICK i \in I : rank(i) = s - n
        BY <1>1, <4>1
      <4>3. R[i].seq = s
        BY <1>2, <4>2
      <4>4. QED
        BY <4>3
    <3>3. QED
      BY <3>1, <3>2
  <2>3. QED
    BY <2>1, <2>2
<1>7. {CellOf(r) : r \in W} = h \cup {CellOf(R[i]) : i \in I}
  BY <1>3
<1>8. ASSUME NEW r \in V PROVE r.hash = CellsUpTo(W, r.seq)
  <2>1. \A i \in I : ~(R[i].seq <= r.seq)
    BY <1>1, <1>2, <1>4, <1>5
  <2>2. {q \in W : q.seq <= r.seq} = {q \in V : q.seq <= r.seq}
    BY <2>1
  <2>3. QED
    BY <1>3, <2>2 DEF CellsUpTo
<1>9. ASSUME NEW i \in I PROVE R[i].hash = CellsUpTo(W, R[i].seq)
  <2>1. \A r \in V : r.seq <= R[i].seq
    BY <1>1, <1>2, <1>4, <1>5
  <2>2. \A m \in I : R[m].seq <= R[i].seq <=> m <= i
    <3> SUFFICES ASSUME NEW m \in I PROVE R[m].seq <= R[i].seq <=> m <= i
      OBVIOUS
    <3>1. rank(m) \in Nat /\ rank(i) \in Nat /\ m \in Nat /\ i \in Nat
      BY <1>4
    <3>2. (m < i => rank(m) < rank(i)) /\ (i < m => rank(i) < rank(m))
      BY <1>1
    <3>3. R[m].seq = n + rank(m) /\ R[i].seq = n + rank(i)
      BY <1>2
    <3>4. QED
      BY <3>1, <3>2, <3>3
  <2>3. {q \in W : q.seq <= R[i].seq} = V \cup {R[m] : m \in {x \in I : x <= i}}
    BY <2>1, <2>2
  <2>4. CellsUpTo(W, R[i].seq) = h \cup {CellOf(R[m]) : m \in {x \in I : x <= i}}
    BY <1>3, <2>3 DEF CellsUpTo
  <2>5. QED
    BY <2>4 DEF Continues
<1>10. QED
  BY <1>6, <1>7, <1>8, <1>9 DEF Closes

\* A chain cut at atSeq, with the hash of the row there.
LEMMA ChainCut ==
  ASSUME NEW V, NEW n \in Nat, NEW h, Closes(V, n, h), NEW atSeq \in 0..n, NEW g,
         IF atSeq = 0 THEN g = {} ELSE \E r \in V : r.seq = atSeq /\ r.hash = g
  PROVE  Closes({r \in V : r.seq <= atSeq}, atSeq, g)
<1> DEFINE W == {r \in V : r.seq <= atSeq}
<1>1. {r.seq : r \in V} = 1..n /\ \A r \in V : r.hash = CellsUpTo(V, r.seq)
  BY DEF Closes
<1>2. \A r \in V : r.seq \in 1..n
  BY <1>1
<1>3. \A s \in 1..n : \E r \in V : r.seq = s
  BY <1>1
<1>4. \A r \in W : r.seq \in 1..atSeq
  BY <1>2
<1>5. \A s \in 1..atSeq : s \in 1..n /\ s <= atSeq
  OBVIOUS
<1>6. {r.seq : r \in W} = 1..atSeq
  BY <1>3, <1>4, <1>5
<1>7. \A r \in W : CellsUpTo(W, r.seq) = CellsUpTo(V, r.seq)
  <2> SUFFICES ASSUME NEW r \in W PROVE {q \in W : q.seq <= r.seq} = {q \in V : q.seq <= r.seq}
    BY DEF CellsUpTo
  <2>1. \A q \in V : q.seq <= r.seq => q.seq <= atSeq
    BY <1>2
  <2>2. QED
    BY <2>1
<1>8. {CellOf(r) : r \in W} = g
  <2>1. CASE atSeq = 0
    <3>1. \A r \in V : ~(r.seq <= 0)
      BY <1>2
    <3>2. W = {}
      BY <2>1, <3>1
    <3>3. QED
      BY <2>1, <3>2
  <2>2. CASE atSeq # 0
    BY <1>1, <2>2 DEF CellsUpTo
  <2>3. QED
    BY <2>1, <2>2
<1>9. QED
  BY <1>1, <1>6, <1>7, <1>8 DEF Closes

-----------------------------------------------------------------------------
(* The inductive invariant.                                                *)

IdsOnce(V) == \A r, q \in V : r.id = q.id => r = q
TurnsOnce(V) ==
  \A r, q \in V : TurnOpened[r.sem] # NoTurn /\ TurnOpened[r.sem] = TurnOpened[q.sem] => r = q

ViewOK(k) ==
  /\ Closes(View(Reads, k), HeadPointer(k).seq, HeadPointer(k).hash)
  /\ IdsOnce(View(Reads, k))
  /\ k \in Trajectory => TurnsOnce(View(Reads, k))

ViewsInv == ChainInv /\ TreeInv /\ \A k \in Key : ViewOK(k)

\* What log j reads after an append is closed by its new head.
LEMMA AppendCloses ==
  ASSUME ViewsInv, NEW k \in Key, NEW batch \in Batch, NEW expected, NEW mode,
         k \in Trajectory \/ \A n \in DOMAIN batch : batch[n].publish = {},
         AppendLogEvent(Reads, k, batch, expected, mode), NEW j \in Key
  PROVE  Closes(View(Reads, j)', HeadPointer(j)'.seq, HeadPointer(j)'.hash)
<1> DEFINE V == View(Reads, j)
           n == HeadPointer(j).seq
           h == HeadPointer(j).hash
           I == Inserts(Reads, k, batch, j)
           R == [i \in I |-> InsertRow(Reads, k, batch, j, i)]
<1>1. TypeOK /\ n \in Nat /\ Closes(V, n, h)
  BY HeadPointerType DEF ViewsInv, ChainInv, ViewOK
<1>2. I \in SUBSET Nat /\ IsFiniteSet(I)
  BY InsertsFinite
<1>3. ASSUME NEW i \in I PROVE CellOf(R[i]) = InsertCell(Reads, k, batch, j, i)
  BY DEF CellOf, InsertRow, InsertCell
<1>4. ASSUME NEW i \in I
      PROVE  /\ R[i].seq = n + Cardinality({m \in I : m <= i})
             /\ R[i].hash = h \cup {CellOf(R[m]) : m \in {x \in I : x <= i}}
  <2>1. R[i].seq = n + Cardinality({m \in I : m <= i})
    BY DEF InsertRow, InsertSeq, InsertsThrough
  <2>2. R[i].hash = h \cup {InsertCell(Reads, k, batch, j, m) : m \in {x \in I : x < i}}
                      \cup {InsertCell(Reads, k, batch, j, i)}
    BY DEF InsertRow, InsertPrevHash, EnvelopeHash, InsertCell
  <2>3. {x \in I : x <= i} = {x \in I : x < i} \cup {i}
    BY <1>2
  <2> HIDE DEF I, R, h, n
  <2>4. {CellOf(R[m]) : m \in {x \in I : x <= i}} =
          {InsertCell(Reads, k, batch, j, m) : m \in {x \in I : x < i}}
            \cup {InsertCell(Reads, k, batch, j, i)}
    BY <1>3, <2>3
  <2>5. QED
    BY <2>1, <2>2, <2>4
<1>5. {R[i] : i \in I} = NewRows(k, batch, j)
  BY DEF NewRows
<1>6. View(Reads, j)' = V \cup NewRows(k, batch, j)
  BY AppendViews DEF ViewsInv
<1>7. HeadPointer(j)'.seq = n + Cardinality(I)
      /\ HeadPointer(j)'.hash = h \cup {InsertCell(Reads, k, batch, j, i) : i \in I}
  BY <1>1, AppendHeads
<1> HIDE DEF I, R, h, n, V
<1>8. {InsertCell(Reads, k, batch, j, i) : i \in I} = {CellOf(R[i]) : i \in I}
  BY <1>3
<1>9. Continues(I, R, n, h)
  BY <1>4 DEF Continues
<1>10. Closes(V \cup {R[i] : i \in I}, n + Cardinality(I), h \cup {CellOf(R[i]) : i \in I})
  BY <1>1, <1>2, <1>9, ChainContinues
<1>11. QED
  BY <1>5, <1>6, <1>7, <1>8, <1>10

\* It still has every id once.
LEMMA AppendIds ==
  ASSUME ViewsInv, NEW k \in Key, NEW batch \in Batch, NEW expected, NEW mode,
         k \in Trajectory \/ \A n \in DOMAIN batch : batch[n].publish = {},
         AppendLogEvent(Reads, k, batch, expected, mode), NEW j \in Key
  PROVE  IdsOnce(View(Reads, j)')
<1> DEFINE V == View(Reads, j)
           I == Inserts(Reads, k, batch, j)
           R(i) == InsertRow(Reads, k, batch, j, i)
<1>1. View(Reads, j)' = V \cup NewRows(k, batch, j) /\ IdsOnce(V)
  BY AppendViews DEF ViewsInv, ViewOK
<1>2. I \subseteq Remaining(Reads, k, batch) /\ Remaining(Reads, k, batch) \subseteq DOMAIN batch
  BY DEF Inserts, Remaining
<1>3. ASSUME NEW i \in I, NEW m \in I, R(i).id = R(m).id PROVE i = m
  <2>1. batch[i].id = batch[m].id
    BY <1>3 DEF InsertRow, InsertId, PubId
  <2>2. QED
    BY <1>2, <2>1 DEF AppendLogEvent, AppendAccepted, DuplicateInBatch
<1>4. ASSUME NEW i \in I PROVE Stored(Reads, j, R(i).id) = {}
  <2>1. R(i).id = InsertId(k, batch, j, i)
    BY DEF InsertRow
  <2>2. CASE j = k
    <3>1. Known(Reads, k, batch) = Replayed(Reads, k, batch)
      BY DEF AppendLogEvent, AppendAccepted, ReplayMismatch
    <3>2. i \in DOMAIN batch /\ i \notin Replayed(Reads, k, batch)
      BY <2>2 DEF Inserts, Remaining
    <3>3. Stored(Reads, k, batch[i].id) = {}
      BY <3>1, <3>2 DEF Known
    <3>4. QED
      BY <2>1, <2>2, <3>3 DEF InsertId
  <2>3. CASE j # k
    BY <2>1, <2>3 DEF InsertId, Inserts
  <2>4. QED
    BY <2>2, <2>3
<1>5. ASSUME NEW i \in I, NEW r \in V PROVE r.id # R(i).id
  BY <1>4 DEF Stored, View
<1>6. NewRows(k, batch, j) = {R(i) : i \in I}
  BY DEF NewRows
<1> HIDE DEF V, I, R
<1>7. QED
  BY <1>1, <1>3, <1>5, <1>6 DEF IdsOnce

\* And, if it is a trajectory, every turn.
LEMMA AppendTurns ==
  ASSUME ViewsInv, NEW k \in Key, NEW batch \in Batch, NEW expected, NEW mode,
         k \in Trajectory \/ \A n \in DOMAIN batch : batch[n].publish = {},
         AppendLogEvent(Reads, k, batch, expected, mode), NEW j \in Trajectory
  PROVE  TurnsOnce(View(Reads, j)')
<1> DEFINE V == View(Reads, j)
           rem == Remaining(Reads, k, batch)
           R(i) == InsertRow(Reads, k, batch, j, i)
<1>1. j \in Key /\ View(Reads, j)' = V \cup NewRows(k, batch, j) /\ TurnsOnce(V)
  BY AppendViews DEF ViewsInv, ViewOK, Key
<1>2. CASE j # k
  <2>1. \A i \in DOMAIN batch : batch[i].publish \subseteq Channel
    <3>1. batch \in Seq(Event)
      BY BatchType
    <3>2. \A i \in DOMAIN batch : batch[i] \in Event
      BY <3>1
    <3>3. QED
      BY <3>2 DEF Event
  <2>2. Inserts(Reads, k, batch, j) = {}
    BY <1>2, <2>1, KindsDisjoint DEF Inserts, Remaining
  <2>3. NewRows(k, batch, j) = {}
    BY <2>2 DEF NewRows
  <2>4. QED
    BY <1>1, <2>3
<1>3. CASE j = k
  <2>1. NewRows(k, batch, j) = {R(i) : i \in rem}
    BY <1>3 DEF NewRows, Inserts
  <2>2. \A i \in rem : R(i).sem = batch[i].sem
    BY <1>3 DEF InsertRow, InsertSem
  <2>3. ~TurnAlreadyOpened(Reads, k, batch)
    BY DEF AppendLogEvent, AppendAccepted
  <2>4. ASSUME NEW i \in rem, TurnOpened[batch[i].sem] # NoTurn
        PROVE  /\ \A r \in V : TurnOpened[r.sem] # TurnOpened[batch[i].sem]
               /\ \A m \in rem : TurnOpened[batch[m].sem] = TurnOpened[batch[i].sem] => m = i
    BY <1>3, <2>3, <2>4 DEF TurnAlreadyOpened
  <2> HIDE DEF V, R, rem
  <2>5. QED
    BY <1>1, <2>1, <2>2, <2>4 DEF TurnsOnce
<1>4. QED
  BY <1>2, <1>3

\* A fork leaves every view in order, its own too.
LEMMA ForkViewOK ==
  ASSUME ViewsInv, NEW from \in Key, NEW to \in Key, NEW atSeq \in 0..MaxSeq,
         ForkLog(from, to, atSeq), NEW j \in Key
  PROVE  ViewOK(j)'
<1>1. /\ ChainInv /\ TypeOK /\ TreeInv /\ ViewOK(j) /\ ViewOK(from)
      /\ Exists(from) /\ ~Exists(to) /\ SameKind(from, to) /\ atSeq <= heads[from].seq
  BY DEF ViewsInv, ChainInv, ForkLog
<1>2. /\ \A i \in Key : i # to => View(Reads, i)' = View(Reads, i) /\ heads'[i] = heads[i]
      /\ View(Reads, to)' = {r \in View(Reads, from) : r.seq <= atSeq}
  BY <1>1, ForkViews
<1>3. CASE j # to
  <2>1. View(Reads, j)' = View(Reads, j) /\ HeadPointer(j)' = HeadPointer(j)
    BY <1>2, <1>3 DEF HeadPointer, Exists
  <2>2. QED
    BY <1>1, <2>1 DEF ViewOK
<1>4. CASE j = to
  <2> DEFINE V == View(Reads, from)
             n == HeadPointer(from).seq
             h == HeadPointer(from).hash
             W == {r \in V : r.seq <= atSeq}
  <2>1. Closes(V, n, h) /\ IdsOnce(V) /\ (from \in Trajectory => TurnsOnce(V))
    BY <1>1 DEF ViewOK
  <2>2. n \in Nat /\ atSeq \in 0..n
    BY <1>1, HeadPointerType, MaxSeqType DEF HeadPointer
  <2>3. PICK g \in IF atSeq = 0 THEN {Genesis} ELSE {r.hash : r \in {q \in V : q.seq = atSeq}} :
          heads' = [heads EXCEPT ![to] = [parent |-> from, forkSeq |-> atSeq, forkHash |-> g,
                                          seq |-> atSeq, hash |-> g]]
    BY DEF ForkLog
  <2>4. IF atSeq = 0 THEN g = {} ELSE \E r \in V : r.seq = atSeq /\ r.hash = g
    BY <2>3 DEF Genesis
  <2>5. Closes(W, atSeq, g)
    BY <2>1, <2>2, <2>4, ChainCut
  <2>6. HeadPointer(to)'.seq = atSeq /\ HeadPointer(to)'.hash = g
    <3>1. heads'[to] = [parent |-> from, forkSeq |-> atSeq, forkHash |-> g, seq |-> atSeq, hash |-> g]
      BY <1>1, <2>3 DEF TypeOK
    <3>2. TypeOK'
      BY <1>1, ForkType
    <3>3. PICK f \in Hash : heads' = [heads EXCEPT ![to] =
            [parent |-> from, forkSeq |-> atSeq, forkHash |-> f, seq |-> atSeq, hash |-> f]]
      BY <1>1, ForkType
    <3>4. heads'[to] = [parent |-> from, forkSeq |-> atSeq, forkHash |-> f, seq |-> atSeq, hash |-> f]
      BY <1>1, <3>3 DEF TypeOK
    <3>5. heads'[to] \in HeadRow
      BY <3>4, MaxSeqType DEF HeadRow
    <3>6. Exists(to)'
      BY <3>5, NoHeadType DEF Exists
    <3>7. QED
      BY <3>1, <3>6 DEF HeadPointer
  <2>7. IdsOnce(W) /\ (from \in Trajectory => TurnsOnce(W))
    BY <2>1 DEF IdsOnce, TurnsOnce
  <2>8. to \in Trajectory => from \in Trajectory
    BY <1>1, KindsDisjoint DEF SameKind, Key
  <2>9. View(Reads, to)' = W
    BY <1>2
  <2> HIDE DEF W
  <2>10. QED
    BY <1>4, <2>5, <2>6, <2>7, <2>8, <2>9 DEF ViewOK
<1>5. QED
  BY <1>3, <1>4

\* The invariant holds of the empty tables and is kept by every step.
LEMMA ViewsInvInit == Init => ViewsInv
<1> SUFFICES ASSUME Init PROVE ViewsInv
  OBVIOUS
<1>1. rows = {} /\ \A k \in Key : ~Exists(k) /\ Parent(k) = NoKey
  BY DEF Init, Exists, Parent
<1>2. ChainInv
  <2>1. TypeOK
    BY DEF Init, TypeOK
  <2>2. QED
    BY <1>1, <2>1 DEF ChainInv, ForkBelowHead, ChainIntact, HeadIntact, OwnRows
<1>3. TreeInv
  <2>1. \A k \in Key : Parents[k] = NoKey
    BY <1>1 DEF Parents
  <2>2. Parents \in ParentFunction
    BY <1>2, ParentsType DEF ChainInv
  <2>3. ASSUME NEW k \in Key, NEW j \in Key, Ancestor(Parents, k, j) PROVE k = j
    BY <2>1, <2>2, <2>3, FirstStep, Sentinels
  <2>4. QED
    BY <2>1, <2>3, Sentinels DEF TreeInv, Tree
<1>4. ASSUME NEW k \in Key PROVE ViewOK(k)
  <2>1. View(Reads, k) = {} /\ HeadPointer(k).seq = 0 /\ HeadPointer(k).hash = {}
    BY <1>1 DEF View, HeadPointer, Genesis
  <2>2. 1..0 = {}
    OBVIOUS
  <2>3. QED
    BY <2>1, <2>2 DEF ViewOK, Closes, IdsOnce, TurnsOnce
<1>5. QED
  BY <1>2, <1>3, <1>4 DEF ViewsInv

\* An append keeps what is said of every view.
LEMMA AppendViewsInv ==
  ASSUME ViewsInv, ChainInv', NEW k \in Key, NEW batch \in Batch, NEW expected, NEW mode,
         k \in Trajectory \/ \A n \in DOMAIN batch : batch[n].publish = {},
         AppendLogEvent(Reads, k, batch, expected, mode)
  PROVE  ViewsInv'
<1>1. TreeInv'
  BY AppendViews DEF ViewsInv
<1>2. ASSUME NEW j \in Key PROVE ViewOK(j)'
  <2>1. Closes(View(Reads, j)', HeadPointer(j)'.seq, HeadPointer(j)'.hash)
    BY AppendCloses
  <2>2. IdsOnce(View(Reads, j)')
    BY AppendIds
  <2>3. j \in Trajectory => TurnsOnce(View(Reads, j)')
    BY AppendTurns
  <2>4. QED
    BY <2>1, <2>2, <2>3 DEF ViewOK
<1>3. QED
  BY <1>1, <1>2 DEF ViewsInv

\* Every step keeps what is said of every view.
LEMMA ViewsInvNext ==
  ASSUME ViewsInv, ChainInv', [Next]_vars
  PROVE  ViewsInv'
<1>1. ASSUME NEW k \in Trajectory, NEW batch \in Batch, AgentAppend(k, batch)
      PROVE  ViewsInv'
  BY <1>1, AppendViewsInv DEF AgentAppend, Key
<1>2. ASSUME NEW c \in Channel, NEW batch \in Batch, ChannelAppend(c, batch)
      PROVE  ViewsInv'
  BY <1>2, AppendViewsInv DEF ChannelAppend, Key
<1>3. ASSUME NEW from \in Key, NEW to \in Key, NEW atSeq \in 0..MaxSeq, ForkLog(from, to, atSeq)
      PROVE  ViewsInv'
  <2>1. TreeInv'
    BY <1>3, ForkViews DEF ViewsInv
  <2>2. \A j \in Key : ViewOK(j)'
    BY <1>3, ForkViewOK
  <2>3. QED
    BY <2>1, <2>2 DEF ViewsInv
<1>4. CASE UNCHANGED vars
  <2>1. heads' = heads /\ rows' = rows
    BY <1>4 DEF vars
  <2>2. Parents' = Parents /\ \A j \in Key : View(Reads, j)' = View(Reads, j) /\ HeadPointer(j)' = HeadPointer(j)
    BY <2>1 DEF Parents, Parent, View, Reads, Lineage, ParentClosed, HeadPointer, Exists
  <2>3. TreeInv'
    BY <2>1, <2>2 DEF ViewsInv, TreeInv, Exists, Tree, Ancestor, Closed
  <2>4. \A j \in Key : ViewOK(j)'
    BY <2>2 DEF ViewsInv, ViewOK
  <2>5. QED
    BY <2>3, <2>4 DEF ViewsInv
<1>5. QED
  BY <1>1, <1>2, <1>3, <1>4 DEF Next

\* Every step keeps the invariant, so every reachable state has it.
LEMMA UnifiedLogViewsInv == Spec => []ViewsInv
<1>1. Init => ViewsInv
  BY ViewsInvInit
<1>2. ViewsInv /\ ChainInv' /\ [Next]_vars => ViewsInv'
  BY ViewsInvNext
<1>3. QED
  BY <1>1, <1>2, UnifiedLogChainInv, PTL DEF Spec

-----------------------------------------------------------------------------
(* The theorems.                                                           *)

\* What a head reads through its ancestors is the chain its hash commits to, in
\* every reachable state: readLog agrees with the compare-and-set of
\* appendLogEventInTxn, however the forks and appends interleaved.
THEOREM UnifiedLogViewMatchesHead == Spec => []ViewMatchesHead
<1>1. ViewsInv => ViewMatchesHead
  <2> SUFFICES ASSUME ViewsInv, NEW k \in Key, Exists(k)
               PROVE  /\ {<<r.key, r.seq, r.id, r.sem>> : r \in View(Reads, k)} = heads[k].hash
                      /\ {r.seq : r \in View(Reads, k)} = 1..heads[k].seq
    BY DEF ViewMatchesHead
  <2>1. Closes(View(Reads, k), heads[k].seq, heads[k].hash)
    BY DEF ViewsInv, ViewOK, HeadPointer
  <2>2. QED
    BY <2>1 DEF Closes, CellOf
<1>2. QED
  BY <1>1, UnifiedLogViewsInv, PTL

\* No head ever reads two events under one envelope id.
THEOREM UnifiedLogLineageIdsUnique == Spec => []LineageIdsUnique
<1>1. ViewsInv => LineageIdsUnique
  BY DEF ViewsInv, ViewOK, IdsOnce, LineageIdsUnique
<1>2. QED
  BY <1>1, UnifiedLogViewsInv, PTL

\* No trajectory ever reads a turn opened twice.
THEOREM UnifiedLogTurnsOpenedOnce == Spec => []TurnsOpenedOnce
<1>1. ViewsInv => TurnsOpenedOnce
  BY DEF ViewsInv, ViewOK, TurnsOnce, TurnsOpenedOnce, Key
<1>2. QED
  BY <1>1, UnifiedLogViewsInv, PTL

\* No append and no fork changes what an existing head reads up to its seq.
THEOREM UnifiedLogViewsAppendOnly == Spec => ViewsAppendOnly
<1> DEFINE Kept(k) == View(Reads, k) = {r \in rows' : <<k, r>> \in Reads' /\ r.seq <= heads[k].seq}
<1>1. ASSUME ViewsInv, [Next]_vars, NEW k \in Key, Exists(k) PROVE Kept(k)
  <2>1. View(Reads, k)' = {r \in rows' : <<k, r>> \in Reads'}
    BY DEF View
  <2>2. \A r \in View(Reads, k) : r.seq <= heads[k].seq
    <3>1. {r.seq : r \in View(Reads, k)} = 1..heads[k].seq
      BY <1>1 DEF ViewsInv, ViewOK, Closes, HeadPointer
    <3>2. \A r \in View(Reads, k) : r.seq \in 1..heads[k].seq
      BY <3>1
    <3>3. heads[k].seq \in Nat
      BY <1>1, HeadPointerType DEF ViewsInv, ChainInv, HeadRow
    <3>4. QED
      BY <3>2, <3>3
  <2>3. ASSUME NEW l \in Key, NEW batch \in Batch, NEW expected, NEW mode,
               l \in Trajectory \/ \A n \in DOMAIN batch : batch[n].publish = {},
               AppendLogEvent(Reads, l, batch, expected, mode)
        PROVE  Kept(k)
    <3>1. View(Reads, k)' = View(Reads, k) \cup NewRows(l, batch, k)
      BY <1>1, <2>3, AppendViews DEF ViewsInv
    <3>2. \A r \in NewRows(l, batch, k) : r.seq \in Nat /\ r.seq > heads[k].seq
      BY <1>1, NewRowsNumbered DEF ViewsInv, ChainInv, HeadPointer
    <3>3. heads[k].seq \in Nat
      BY <1>1, HeadPointerType DEF ViewsInv, ChainInv, HeadRow
    <3>4. \A r \in NewRows(l, batch, k) : ~(r.seq <= heads[k].seq)
      BY <3>2, <3>3
    <3>5. QED
      BY <2>1, <2>2, <3>1, <3>4
  <2>4. ASSUME View(Reads, k)' = View(Reads, k) PROVE Kept(k)
    BY <2>1, <2>2, <2>4
  <2>5. ASSUME NEW l \in Trajectory, NEW batch \in Batch, AgentAppend(l, batch) PROVE Kept(k)
    BY <2>3, <2>5 DEF AgentAppend, Key
  <2>6. ASSUME NEW c \in Channel, NEW batch \in Batch, ChannelAppend(c, batch) PROVE Kept(k)
    BY <2>3, <2>6 DEF ChannelAppend, Key
  <2>7. ASSUME NEW from \in Key, NEW to \in Key, NEW atSeq \in 0..MaxSeq, ForkLog(from, to, atSeq)
        PROVE  Kept(k)
    <3>1. k # to
      BY <1>1, <2>7 DEF ForkLog
    <3>2. View(Reads, k)' = View(Reads, k)
      BY <1>1, <2>7, <3>1, ForkViews DEF ViewsInv
    <3>3. QED
      BY <2>4, <3>2
  <2>8. CASE UNCHANGED vars
    <3>1. View(Reads, k)' = View(Reads, k)
      BY <2>8 DEF vars, View, Reads, Lineage, ParentClosed, Parent, Exists
    <3>2. QED
      BY <2>4, <3>1
  <2> HIDE DEF Kept
  <2>9. QED
    BY <1>1, <2>5, <2>6, <2>7, <2>8 DEF Next
<1>2. ViewsInv /\ [Next]_vars =>
        [LET before == Reads
             after == Reads'
         IN  \A k \in Key : Exists(k) =>
               View(before, k) = {r \in rows' : <<k, r>> \in after /\ r.seq <= heads[k].seq}]_vars
  BY <1>1
<1>3. QED
  BY <1>2, UnifiedLogViewsInv, PTL DEF Spec, ViewsAppendOnly

\* A batch that is journaled is acknowledged on every retry and inserts nothing,
\* because what is stored under its ids can only be its own events.
THEOREM UnifiedLogRetryAcknowledged == Spec => []RetryAcknowledged
<1>1. ASSUME ViewsInv, NEW k \in Key, NEW batch \in Batch,
             \A i \in DOMAIN batch : \E r \in View(Reads, k) : r.id = batch[i].id /\ r.sem = batch[i].sem
      PROVE  /\ \A expected \in Expectations(Reads, k) :
                  AppendAccepted(Reads, k, batch, expected, "exact")
             /\ \A j \in Key : Inserts(Reads, k, batch, j) = {}
  <2>1. batch \in Seq(Event) /\ batch # <<>>
    BY BatchType
  <2>2. DOMAIN batch = 1..Len(batch) /\ Len(batch) \in Nat /\ DOMAIN batch # {}
    BY <2>1
  <2>3. Known(Reads, k, batch) = DOMAIN batch
    BY <1>1 DEF Known, Stored, View
  <2>4. Replayed(Reads, k, batch) = DOMAIN batch
    BY <2>2, <2>3 DEF Replayed
  <2>5. Remaining(Reads, k, batch) = {}
    BY <2>4 DEF Remaining
  <2>6. \A i \in DOMAIN batch : \A r \in Stored(Reads, k, batch[i].id) : r.sem = batch[i].sem
    BY <1>1 DEF Stored, View, ViewsInv, ViewOK, IdsOnce
  <2>7. ASSUME NEW expected PROVE AppendAccepted(Reads, k, batch, expected, "exact")
    <3>1. ~HeadConflict(Reads, k, batch, expected) /\ ~ReplayMismatch(Reads, k, batch)
      BY <2>2, <2>3, <2>4, <2>5 DEF HeadConflict, ReplayMismatch
    <3>2. ~IdCollision(Reads, k, batch, "exact")
      BY <2>4, <2>6 DEF IdCollision
    <3>3. /\ ~TurnAlreadyOpened(Reads, k, batch) /\ ~DuplicateInBatch(Reads, k, batch)
          /\ ~PublicationCollision(Reads, k, batch)
      BY <2>5 DEF TurnAlreadyOpened, DuplicateInBatch, PublicationCollision
    <3>4. QED
      BY <3>1, <3>2, <3>3 DEF AppendAccepted
  <2>8. ASSUME NEW j \in Key PROVE Inserts(Reads, k, batch, j) = {}
    BY <2>5 DEF Inserts
  <2>9. QED
    BY <2>7, <2>8
<1>2. ViewsInv => RetryAcknowledged
  BY <1>1 DEF RetryAcknowledged
<1>3. QED
  BY <1>2, UnifiedLogViewsInv, PTL

-----------------------------------------------------------------------------
(* Publications.                                                           *)

IsPublication(p) == p.id \in EnvelopeId \X Channel

\* In each log, the rows of a batch are numbered in the order of the batch.
LEMMA NewRowsOrdered ==
  ASSUME TypeOK, NEW k, NEW batch \in Batch, NEW j \in Key,
         NEW i \in Inserts(Reads, k, batch, j), NEW m \in Inserts(Reads, k, batch, j)
  PROVE  InsertRow(Reads, k, batch, j, i).seq < InsertRow(Reads, k, batch, j, m).seq <=> i < m
<1> DEFINE I == Inserts(Reads, k, batch, j)
           rank(x) == Cardinality({y \in I : y <= x})
           n == HeadPointer(j).seq
<1>1. I \in SUBSET Nat /\ IsFiniteSet(I) /\ n \in Nat
  BY InsertsFinite, HeadPointerType
<1>2. /\ \A x, y \in I : x < y => rank(x) < rank(y)
      /\ {rank(x) : x \in I} = 1..Cardinality(I)
  BY <1>1, Ranks
<1>3. \A x \in I : InsertRow(Reads, k, batch, j, x).seq = n + rank(x)
  BY DEF InsertRow, InsertSeq, InsertsThrough
<1>4. i \in I /\ m \in I
  OBVIOUS
<1> HIDE DEF I, rank, n
<1>5. rank(i) \in Nat /\ rank(m) \in Nat /\ i \in Nat /\ m \in Nat
  <2>1. rank(i) \in 1..Cardinality(I) /\ rank(m) \in 1..Cardinality(I)
    BY <1>2, <1>4
  <2>2. QED
    BY <1>1, <1>4, <2>1
<1>6. (i < m => rank(i) < rank(m)) /\ (m < i => rank(m) < rank(i))
  BY <1>2, <1>4
<1>7. InsertRow(Reads, k, batch, j, i).seq = n + rank(i) /\ InsertRow(Reads, k, batch, j, m).seq = n + rank(m)
  BY <1>3, <1>4
<1>8. QED
  BY <1>1, <1>5, <1>6, <1>7

\* A log has one row under an id: a log reads its own rows.
LEMMA OwnIdsOnce ==
  ViewsInv => \A r, q \in rows : r.key = q.key /\ r.id = q.id => r = q
<1> SUFFICES ASSUME ViewsInv, NEW r \in rows, NEW q \in rows, r.key = q.key, r.id = q.id
             PROVE  r = q
  OBVIOUS
<1> DEFINE k == r.key
<1>1. TypeOK /\ k \in Key
  BY DEF ViewsInv, ChainInv, TypeOK, Row
<1>2. Parents \in ParentFunction /\ Tree(Parents)
  BY <1>1, ParentsType DEF ViewsInv, TreeInv
<1>3. Reading(Parents, Cuts, k, r) /\ Reading(Parents, Cuts, k, q)
  BY <1>1, <1>2, ReadingUnfolds
<1>4. r \in View(Reads, k) /\ q \in View(Reads, k)
  BY <1>1, <1>3, ViewIs
<1>5. QED
  BY <1>1, <1>4 DEF ViewsInv, ViewOK, IdsOnce

\* A new row with the id of a publication is one: it copies the row that the
\* same step adds to the log of the batch.
LEMMA NewPublications ==
  ASSUME NEW k \in Key, NEW batch \in Batch, NEW j \in Key, NEW p \in NewRows(k, batch, j), IsPublication(p)
  PROVE  \E i \in Inserts(Reads, k, batch, j) :
           /\ p = InsertRow(Reads, k, batch, j, i)
           /\ i \in Inserts(Reads, k, batch, k)
           /\ LET o == InsertRow(Reads, k, batch, k, i)
              IN  p.sem[1] = o.key /\ p.sem[2] = o.id /\ p.sem[3] = o.sem /\ o.key = k
                  /\ o \in NewRows(k, batch, k)
<1>1. PICK i \in Inserts(Reads, k, batch, j) : p = InsertRow(Reads, k, batch, j, i)
  BY DEF NewRows
<1>2. i \in Remaining(Reads, k, batch) /\ i \in DOMAIN batch
  BY DEF Inserts, Remaining
<1>3. batch[i] \in Event
  <2>1. batch \in Seq(Event)
    BY BatchType
  <2>2. QED
    BY <1>2, <2>1
<1>4. j # k
  BY <1>1, <1>3, ClientIds DEF InsertRow, InsertId, IsPublication, Event
<1>5. p.sem = <<k, batch[i].id, batch[i].sem>>
  BY <1>1, <1>4 DEF InsertRow, InsertSem, PubSem
<1>6. i \in Inserts(Reads, k, batch, k)
  BY <1>2 DEF Inserts
<1>7. LET o == InsertRow(Reads, k, batch, k, i)
      IN  o.key = k /\ o.id = batch[i].id /\ o.sem = batch[i].sem
  BY DEF InsertRow, InsertId, InsertSem
<1>8. InsertRow(Reads, k, batch, k, i) \in NewRows(k, batch, k)
  BY <1>6 DEF NewRows
<1>9. QED
  BY <1>1, <1>5, <1>6, <1>7, <1>8

OriginIn(R, p, r) == r \in R /\ r.key = p.sem[1] /\ r.id = p.sem[2]
PublicationsOK(R) ==
  \A p, q \in R : IsPublication(p) /\ IsPublication(q) =>
    /\ \E r \in R : OriginIn(R, p, r) /\ r.sem = p.sem[3]
    /\ p.key = q.key /\ p.sem[1] = q.sem[1] /\ p.seq < q.seq =>
         \A r, s \in R : OriginIn(R, p, r) /\ OriginIn(R, q, s) => r.seq < s.seq

\* An append keeps the publications behind their origins: what it publishes
\* comes from rows at the end of their log and lands at the end of the channel,
\* in the order of the batch.
LEMMA AppendPublications ==
  ASSUME ViewsInv, ViewsInv', PublicationsOK(rows), NEW k \in Key, NEW batch \in Batch, NEW expected, NEW mode,
         k \in Trajectory \/ \A n \in DOMAIN batch : batch[n].publish = {},
         AppendLogEvent(Reads, k, batch, expected, mode)
  PROVE  PublicationsOK(rows')
<1> DEFINE N(j) == NewRows(k, batch, j)
           R(j, i) == InsertRow(Reads, k, batch, j, i)
           I(j) == Inserts(Reads, k, batch, j)
           head(j) == HeadPointer(j).seq
<1>1. TypeOK /\ ChainInv /\ rows \in SUBSET Row
  BY DEF ViewsInv, ChainInv, TypeOK
<1>2. rows' = rows \cup UNION {N(j) : j \in Key}
  BY DEF AppendLogEvent, NewRows
<1>3. \A j \in Key : head(j) \in Nat /\ \A r \in N(j) : r.key = j /\ r.seq \in Nat /\ r.seq > head(j)
  BY <1>1, NewRowsNumbered, HeadPointerType
<1>4. ASSUME NEW r \in rows PROVE r.key \in Key /\ r.seq \in Nat /\ r.seq <= head(r.key)
  <2>1. r.key \in Key /\ r.seq \in Nat
    BY <1>1 DEF Row
  <2>2. r \in OwnRows(r.key)
    BY DEF OwnRows
  <2>3. head(r.key) \in Nat
    BY <1>3, <2>1
  <2>4. LET f == IF Exists(r.key) THEN heads[r.key].forkSeq ELSE 0
        IN  f \in Nat /\ r.seq \in (f + 1)..head(r.key)
    BY <1>1, <2>1, <2>2, HeadBefore
  <2>5. QED
    BY <2>1, <2>3, <2>4
<1>5. \A r, q \in rows' : r.key = q.key /\ r.id = q.id => r = q
  <2>1. ViewsInv' => (\A r, q \in rows : r.key = q.key /\ r.id = q.id => r = q)'
    BY OwnIdsOnce, PTL
  <2>2. QED
    BY <2>1
<1>6. ASSUME NEW j \in Key, NEW p \in N(j), IsPublication(p)
      PROVE  \E i \in I(j) : /\ p = R(j, i) /\ i \in I(k) /\ R(k, i) \in N(k)
                             /\ p.sem[1] = k /\ R(k, i).key = k
                             /\ p.sem[2] = R(k, i).id /\ p.sem[3] = R(k, i).sem
  BY <1>6, NewPublications
<1>7. \A j \in Key : \A i, m \in I(j) : R(j, i).seq < R(j, m).seq <=> i < m
  BY <1>1, NewRowsOrdered
<1> HIDE DEF N, R, I, head
<1>8. rows \subseteq rows' /\ \A j \in Key : N(j) \subseteq rows'
  BY <1>2
<1>9. \A p \in rows' : p \in rows \/ \E j \in Key : p \in N(j)
  BY <1>2
<1>10. ASSUME NEW p \in rows, IsPublication(p)
       PROVE  \E r \in rows : OriginIn(rows', p, r) /\ r.sem = p.sem[3]
                              /\ OriginIn(rows, p, r) /\ \A s : OriginIn(rows', p, s) => s = r
  <2>1. PICK r \in rows : OriginIn(rows, p, r) /\ r.sem = p.sem[3]
    BY <1>10 DEF PublicationsOK
  <2>2. QED
    BY <1>5, <1>8, <2>1 DEF OriginIn
<1>11. ASSUME NEW j \in Key, NEW p \in N(j), IsPublication(p)
       PROVE  \E i \in I(j) : /\ p = R(j, i) /\ i \in I(k) /\ R(k, i) \in N(k) /\ p.sem[1] = k
                              /\ OriginIn(rows', p, R(k, i)) /\ R(k, i).sem = p.sem[3]
                              /\ \A s : OriginIn(rows', p, s) => s = R(k, i)
  <2>1. PICK i \in I(j) : /\ p = R(j, i) /\ i \in I(k) /\ R(k, i) \in N(k)
                          /\ p.sem[1] = k /\ R(k, i).key = k
                          /\ p.sem[2] = R(k, i).id /\ p.sem[3] = R(k, i).sem
    BY <1>6, <1>11
  <2>2. R(k, i) \in rows'
    BY <1>8, <2>1
  <2>3. OriginIn(rows', p, R(k, i))
    BY <2>1, <2>2 DEF OriginIn
  <2>4. \A s : OriginIn(rows', p, s) => s = R(k, i)
    BY <1>5, <2>1, <2>2 DEF OriginIn
  <2>5. QED
    BY <2>1, <2>3, <2>4
<1>12. ASSUME NEW p \in rows', IsPublication(p)
       PROVE  \E r \in rows' : OriginIn(rows', p, r) /\ r.sem = p.sem[3]
  BY <1>8, <1>9, <1>10, <1>11, <1>12 DEF OriginIn
<1>13. ASSUME NEW p \in rows', NEW q \in rows', IsPublication(p), IsPublication(q),
              p.key = q.key, p.sem[1] = q.sem[1], p.seq < q.seq,
              NEW r \in rows', NEW s \in rows', OriginIn(rows', p, r), OriginIn(rows', q, s)
       PROVE  r.seq < s.seq
  <2>1. CASE p \in rows /\ q \in rows
    <3>1. OriginIn(rows, p, r) /\ OriginIn(rows, q, s)
      BY <1>10, <1>13, <2>1
    <3>2. r \in rows /\ s \in rows
      BY <3>1 DEF OriginIn
    <3>3. QED
      BY <1>13, <2>1, <3>1, <3>2 DEF PublicationsOK
  <2>2. ASSUME p \in rows, NEW j \in Key, q \in N(j) PROVE r.seq < s.seq
    <3>1. r \in rows
      BY <1>10, <1>13, <2>2
    <3>2. s \in N(k) /\ q.sem[1] = k
      BY <1>11, <1>13, <2>2
    <3>3. r.key = k
      BY <1>13, <3>2 DEF OriginIn
    <3>4. r.seq \in Nat /\ r.seq <= head(k)
      BY <1>4, <3>1, <3>3
    <3>5. s.seq \in Nat /\ s.seq > head(k) /\ head(k) \in Nat
      BY <1>3, <3>2
    <3>6. QED
      BY <3>4, <3>5
  <2>3. ASSUME q \in rows, NEW j \in Key, p \in N(j) PROVE FALSE
    <3>1. p.key = j /\ p.seq \in Nat /\ p.seq > head(j) /\ head(j) \in Nat
      BY <1>3, <2>3
    <3>2. q.seq \in Nat /\ q.seq <= head(j)
      BY <1>4, <1>13, <2>3, <3>1
    <3>3. QED
      BY <1>13, <3>1, <3>2
  <2>4. ASSUME NEW j \in Key, p \in N(j), NEW l \in Key, q \in N(l) PROVE r.seq < s.seq
    <3>1. j = l
      BY <1>3, <1>13, <2>4
    <3>2. PICK i \in I(j) : p = R(j, i) /\ i \in I(k) /\ r = R(k, i)
      BY <1>11, <1>13, <2>4
    <3>3. PICK m \in I(j) : q = R(j, m) /\ m \in I(k) /\ s = R(k, m)
      BY <1>11, <1>13, <2>4, <3>1
    <3>4. i < m
      BY <1>7, <1>13, <3>2, <3>3
    <3>5. QED
      BY <1>7, <3>2, <3>3, <3>4
  <2>5. QED
    BY <1>9, <1>13, <2>1, <2>2, <2>3, <2>4
<1>14. QED
  BY <1>12, <1>13 DEF PublicationsOK

\* A publication always has its origin, with the content it carries, and the
\* publications of one log into a channel keep the order of their origins:
\* the nested appends of appendLogEventInTxn are one transaction with the
\* append they come from.
THEOREM UnifiedLogPublicationsFollowOrigins == Spec => []PublicationsFollowOrigins
<1>1. Init => PublicationsOK(rows)
  BY DEF Init, PublicationsOK
<1>2. ASSUME ViewsInv, ViewsInv', [Next]_vars, PublicationsOK(rows)
      PROVE  PublicationsOK(rows')
  <2>1. ASSUME NEW k \in Trajectory, NEW batch \in Batch, AgentAppend(k, batch)
        PROVE  PublicationsOK(rows')
    BY <1>2, <2>1, AppendPublications DEF AgentAppend, Key
  <2>2. ASSUME NEW c \in Channel, NEW batch \in Batch, ChannelAppend(c, batch)
        PROVE  PublicationsOK(rows')
    BY <1>2, <2>2, AppendPublications DEF ChannelAppend, Key
  <2>3. ASSUME rows' = rows PROVE PublicationsOK(rows')
    BY <1>2, <2>3
  <2>4. QED
    BY <1>2, <2>1, <2>2, <2>3 DEF Next, ForkLog, vars
<1>3. PublicationsOK(rows) => PublicationsFollowOrigins
  BY DEF PublicationsOK, PublicationsFollowOrigins, Origin, OriginIn, IsPublication
<1>4. QED
  <2>1. PublicationsOK(rows) /\ ViewsInv /\ ViewsInv' /\ [Next]_vars => PublicationsOK(rows)'
    BY <1>2 DEF PublicationsOK, OriginIn, IsPublication
  <2>2. QED
    BY <1>1, <1>3, <2>1, UnifiedLogViewsInv, PTL DEF Spec

=============================================================================
