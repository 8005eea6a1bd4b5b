--------------------------- MODULE RepoLog_proofs ---------------------------
(* Proofs about the log of a repo, for any number of contexts, states,     *)
(* commits, deletions and restorations.                                    *)
EXTENDS RepoLog, FiniteSetTheorems, TLAPS

LiveHead == {Main} \cup Context
RepoHead == LiveHead \cup Archive

\* A head's rows and its row in log_heads pass the integrity check when they
\* are read under the name m.  An archive head passes it under the name of the
\* main it was: its rows were hashed under that name and go back to it.
ChainOf(R, h, m) ==
  /\ h.forkSeq <= h.seq
  /\ {r.seq : r \in R} = (h.forkSeq + 1)..h.seq
  /\ \A r, q \in R : r.seq = q.seq => r = q
  /\ \A r \in R :
       /\ r.hash = EnvelopeHash(m, r.seq, r.prevHash, r.id, r.sem)
       /\ IF r.seq = h.forkSeq + 1 THEN r.prevHash = h.forkHash
          ELSE \E q \in R : q.seq = r.seq - 1 /\ q.hash = r.prevHash
  /\ R = {} => h.hash = h.forkHash
  /\ \A r \in R : r.seq = h.seq => r.hash = h.hash

HashedAs(k) == IF k \in Archive THEN Main ELSE k

\* The worktree of a head is what its last commit produced.
TipOf(h, s) == s \in Sem /\ \E cell \in h.hash : cell[2] = h.seq /\ cell[4] = s

\* What is true of a head with rows R, head row h and worktree w.
SoundHead(k, R, h, w) ==
  /\ h = NoHead => R = {} /\ w = EmptyState
  /\ h # NoHead => ChainOf(R, h, HashedAs(k)) /\ TipOf(h, w)
  /\ h # NoHead /\ k \notin Context => h.parent = NoKey
HeadOK(k) == SoundHead(k, OwnRows(k), heads[k], worktree[k])

RepoInv ==
  /\ RepoTypeOK
  /\ \A r \in rows : r.sem \in Sem
  /\ \A k \in RepoHead : HeadOK(k)
  /\ ForkPointsKept

-----------------------------------------------------------------------------
(* Chains.                                                                 *)

\* A chain goes on with a row that links to its end.
LEMMA ChainGrows ==
  ASSUME NEW R, NEW h, NEW m, ChainOf(R, h, m), h.forkSeq \in Nat, h.seq \in Nat,
         NEW n, n.seq = h.seq + 1, n.prevHash = h.hash,
         n.hash = EnvelopeHash(m, n.seq, n.prevHash, n.id, n.sem),
         NEW g, g.forkSeq = h.forkSeq, g.forkHash = h.forkHash, g.seq = n.seq, g.hash = n.hash
  PROVE  ChainOf(R \cup {n}, g, m)
<1> DEFINE f == h.forkSeq
<1>1. f <= h.seq /\ {r.seq : r \in R} = (f + 1)..h.seq
  BY DEF ChainOf
<1>2. \A r \in R : r.seq \in (f + 1)..h.seq
  BY <1>1
<1>3. \A s \in (f + 1)..h.seq : \E r \in R : r.seq = s
  BY <1>1
<1>4. \A r \in R : r.seq \in Nat /\ r.seq < n.seq /\ r.seq # n.seq
  BY <1>2
<1>5. {r.seq : r \in R \cup {n}} = (g.forkSeq + 1)..g.seq
  <2>1. (f + 1)..(h.seq + 1) = ((f + 1)..h.seq) \cup {h.seq + 1}
    BY <1>1
  <2>2. {r.seq : r \in R \cup {n}} = {r.seq : r \in R} \cup {n.seq}
    OBVIOUS
  <2>3. QED
    BY <1>1, <2>1, <2>2
<1>6. IF n.seq = g.forkSeq + 1 THEN n.prevHash = g.forkHash
      ELSE \E q \in R \cup {n} : q.seq = n.seq - 1 /\ q.hash = n.prevHash
  <2>1. CASE h.seq = f
    <3>1. R = {}
      BY <1>2, <2>1
    <3>2. QED
      BY <2>1, <3>1 DEF ChainOf
  <2>2. CASE h.seq # f
    <3>1. h.seq \in (f + 1)..h.seq
      BY <1>1, <2>2
    <3>2. PICK q \in R : q.seq = h.seq
      BY <1>3, <3>1
    <3>3. q.hash = h.hash /\ q.seq = n.seq - 1
      BY <3>2 DEF ChainOf
    <3>4. n.seq # g.forkSeq + 1
      BY <2>2
    <3>5. QED
      BY <3>3, <3>4
  <2>3. QED
    BY <2>1, <2>2
<1>7. \A r \in R \cup {n} :
        /\ r.hash = EnvelopeHash(m, r.seq, r.prevHash, r.id, r.sem)
        /\ IF r.seq = g.forkSeq + 1 THEN r.prevHash = g.forkHash
           ELSE \E q \in R \cup {n} : q.seq = r.seq - 1 /\ q.hash = r.prevHash
  <2>1. ASSUME NEW r \in R
        PROVE  /\ r.hash = EnvelopeHash(m, r.seq, r.prevHash, r.id, r.sem)
               /\ IF r.seq = h.forkSeq + 1 THEN r.prevHash = h.forkHash
                  ELSE \E q \in R : q.seq = r.seq - 1 /\ q.hash = r.prevHash
    BY DEF ChainOf
  <2>2. QED
    BY <1>6, <2>1
<1>8. \A r, q \in R \cup {n} : r.seq = q.seq => r = q
  BY <1>4 DEF ChainOf
<1>9. g.forkSeq <= g.seq
  BY <1>1
<1>10. \A r \in R \cup {n} : r.seq = g.seq => r.hash = g.hash
  BY <1>4
<1>11. QED
  BY <1>5, <1>7, <1>8, <1>9, <1>10 DEF ChainOf

\* A chain is one under any name its rows are stored under.
LEMMA ChainRenamed ==
  ASSUME NEW R \in SUBSET Row, NEW h, NEW m, ChainOf(R, h, m), NEW to,
         NEW S, S = {[r EXCEPT !.key = to] : r \in R}
  PROVE  ChainOf(S, h, m)
<1> DEFINE N(r) == [r EXCEPT !.key = to]
<1>1. \A r \in R : /\ N(r).seq = r.seq /\ N(r).id = r.id /\ N(r).sem = r.sem
                   /\ N(r).prevHash = r.prevHash /\ N(r).hash = r.hash
  BY DEF Row
<1>2. S = {N(r) : r \in R}
  OBVIOUS
<1> HIDE DEF N
<1>3. {r.seq : r \in S} = {r.seq : r \in R}
  BY <1>1, <1>2
<1>4. \A r, q \in S : r.seq = q.seq => r = q
  BY <1>1, <1>2 DEF ChainOf
<1>5. ASSUME NEW r \in S
      PROVE  /\ r.hash = EnvelopeHash(m, r.seq, r.prevHash, r.id, r.sem)
             /\ IF r.seq = h.forkSeq + 1 THEN r.prevHash = h.forkHash
                ELSE \E q \in S : q.seq = r.seq - 1 /\ q.hash = r.prevHash
             /\ r.seq = h.seq => r.hash = h.hash
  <2>1. PICK x \in R : r = N(x)
    BY <1>2
  <2>2. /\ x.hash = EnvelopeHash(m, x.seq, x.prevHash, x.id, x.sem)
        /\ IF x.seq = h.forkSeq + 1 THEN x.prevHash = h.forkHash
           ELSE \E q \in R : q.seq = x.seq - 1 /\ q.hash = x.prevHash
        /\ x.seq = h.seq => x.hash = h.hash
    BY DEF ChainOf
  <2>3. \A q \in R : N(q) \in S
    BY <1>2
  <2>4. r.seq = x.seq /\ r.prevHash = x.prevHash /\ r.hash = x.hash /\ r.id = x.id /\ r.sem = x.sem
    BY <1>1, <2>1
  <2>5. QED
    BY <1>1, <2>2, <2>3, <2>4
<1>6. S = {} => R = {}
  BY <1>2
<1>7. QED
  BY <1>3, <1>4, <1>5, <1>6 DEF ChainOf

-----------------------------------------------------------------------------
(* The operations.                                                         *)

\* The head row, or the one that the first append starts from.
HeadRecord(k) ==
  IF Exists(k) THEN heads[k]
  ELSE [parent |-> NoKey, forkSeq |-> 0, forkHash |-> Genesis, seq |-> 0, hash |-> Genesis]
Commit(k, id, s) ==
  LET h == HeadRecord(k) IN
    [key |-> k, seq |-> h.seq + 1, id |-> id, sem |-> s, prevHash |-> h.hash,
     hash |-> EnvelopeHash(k, h.seq + 1, h.hash, id, s)]
Committed(k, id, s) ==
  LET h == HeadRecord(k) IN
    [parent |-> h.parent, forkSeq |-> h.forkSeq, forkHash |-> h.forkHash,
     seq |-> h.seq + 1, hash |-> EnvelopeHash(k, h.seq + 1, h.hash, id, s)]

\* The record of a head is a head row, also when the head does not exist.
LEMMA HeadRecordType ==
  ASSUME TypeOK, NEW k \in Key
  PROVE  /\ HeadRecord(k) \in HeadRow
         /\ HeadPointer(k).seq = HeadRecord(k).seq /\ HeadPointer(k).hash = HeadRecord(k).hash
         /\ Parent(k) = HeadRecord(k).parent
BY DEF TypeOK, HeadRecord, HeadPointer, Parent, Exists, HeadRow, Genesis, Hash

\* A commit adds one row, at the end of one log: its id is new, so nothing of
\* the batch was applied before, and it is published nowhere.
LEMMA IngestAdds ==
  ASSUME TypeOK, NEW k \in Key, NEW expected, NEW id \in EnvelopeId, NEW s \in Sem,
         IngestWorktreeState(k, expected, id, s)
  PROVE  /\ rows' = rows \cup {Commit(k, id, s)}
         /\ \A j \in Key : j # k => heads'[j] = heads[j]
         /\ heads'[k] = Committed(k, id, s)
         /\ Commit(k, id, s) \in Row /\ heads'[k] \in HeadRow /\ heads' \in [Key -> HeadRow \cup {NoHead}]
<1> DEFINE batch == <<[id |-> id, sem |-> s, publish |-> {}]>>
           reads == Reads
           h == HeadRecord(k)
<1>1. DOMAIN batch = {1} /\ batch[1].id = id /\ batch[1].sem = s /\ batch[1].publish = {}
  OBVIOUS
<1>2. AppendLogEvent(reads, k, batch, NoExpectation, "exact") /\ \A r \in rows : r.id # id
  BY DEF IngestWorktreeState
<1>3. h \in HeadRow /\ HeadPointer(k).seq = h.seq /\ HeadPointer(k).hash = h.hash /\ Parent(k) = h.parent
  BY HeadRecordType
<1> HIDE DEF batch, reads
<1>4. Stored(reads, k, id) = {}
  BY <1>2 DEF Stored
<1>5. Replayed(reads, k, batch) = {} /\ Remaining(reads, k, batch) = {1}
  <2>1. Known(reads, k, batch) = {}
    BY <1>1, <1>4 DEF Known
  <2>2. 1 \in 1..1
    OBVIOUS
  <2>3. Replayed(reads, k, batch) = {}
    BY <1>1, <2>1, <2>2 DEF Replayed
  <2>4. QED
    BY <1>1, <2>3 DEF Remaining
<1>6. /\ Inserts(reads, k, batch, k) = {1}
      /\ \A j \in Key : j # k => Inserts(reads, k, batch, j) = {}
  BY <1>1, <1>5 DEF Inserts
<1>7. Cardinality({1}) = 1
  BY FS_Singleton
<1>8. InsertSeq(reads, k, batch, k, 1) = h.seq + 1
  <2>1. InsertsThrough(reads, k, batch, k, 1) = {1}
    BY <1>6 DEF InsertsThrough
  <2>2. QED
    BY <1>3, <1>7, <2>1 DEF InsertSeq
<1>9. InsertId(k, batch, k, 1) = id /\ InsertSem(k, batch, k, 1) = s
  BY <1>1 DEF InsertId, InsertSem
<1>10. InsertPrevHash(reads, k, batch, k, 1) = h.hash
  <2>1. {n \in Inserts(reads, k, batch, k) : n < 1} = {}
    BY <1>6
  <2>2. QED
    BY <1>3, <2>1 DEF InsertPrevHash
<1>11. InsertRow(reads, k, batch, k, 1) = Commit(k, id, s)
  BY <1>8, <1>9, <1>10 DEF InsertRow, Commit
<1>12. rows' = rows \cup {Commit(k, id, s)}
  <2>1. rows' = rows \cup UNION {{InsertRow(reads, k, batch, j, i) : i \in Inserts(reads, k, batch, j)} : j \in Key}
    BY <1>2 DEF AppendLogEvent
  <2>2. \A j \in Key : {InsertRow(reads, k, batch, j, i) : i \in Inserts(reads, k, batch, j)} =
          IF j = k THEN {Commit(k, id, s)} ELSE {}
    BY <1>6, <1>11
  <2>3. QED
    BY <2>1, <2>2
<1>13. heads' = [j \in Key |-> IF Inserts(reads, k, batch, j) = {} THEN heads[j]
                               ELSE AdvancedHead(reads, k, batch, j)]
  BY <1>2 DEF AppendLogEvent
<1>14. AdvancedHead(reads, k, batch, k) = Committed(k, id, s)
  <2>1. InsertCell(reads, k, batch, k, 1) = <<k, h.seq + 1, id, s>>
    BY <1>8, <1>9 DEF InsertCell
  <2>2. {InsertCell(reads, k, batch, k, i) : i \in Inserts(reads, k, batch, k)} = {<<k, h.seq + 1, id, s>>}
    BY <1>6, <2>1
  <2>3. AdvancedHead(reads, k, batch, k) =
          [parent |-> h.parent, forkSeq |-> h.forkSeq, forkHash |-> h.forkHash,
           seq |-> h.seq + 1, hash |-> h.hash \cup {<<k, h.seq + 1, id, s>>}]
    <3>1. Cardinality(Inserts(reads, k, batch, k)) = 1
      BY <1>6, <1>7
    <3>2. /\ (IF Exists(k) THEN heads[k].forkSeq ELSE 0) = h.forkSeq
          /\ (IF Exists(k) THEN heads[k].forkHash ELSE Genesis) = h.forkHash
      BY DEF HeadRecord
    <3> HIDE DEF h
    <3>3. QED
      BY <1>3, <2>2, <3>1, <3>2 DEF AdvancedHead
  <2>4. QED
    BY <2>3 DEF Committed, EnvelopeHash
<1>15. Commit(k, id, s) \in Row
  <2>1. h.seq + 1 \in Nat /\ h.hash \in Hash /\ id \in Id /\ s \in Content
    BY <1>3 DEF HeadRow, Id, Content
  <2>2. <<k, h.seq + 1, id, s>> \in Cell
    BY <2>1 DEF Cell
  <2>3. QED
    BY <2>1, <2>2 DEF Commit, Row, EnvelopeHash, Hash
<1>16. Committed(k, id, s) \in HeadRow
  <2>1. h.seq + 1 \in Nat /\ h.hash \in Hash
    BY <1>3 DEF HeadRow
  <2>2. EnvelopeHash(k, h.seq + 1, h.hash, id, s) \in Hash
    BY <1>15 DEF Commit, Row
  <2>3. QED
    BY <1>3, <2>1, <2>2 DEF Committed, HeadRow
<1>17. heads'[k] = AdvancedHead(reads, k, batch, k) /\ \A j \in Key : j # k => heads'[j] = heads[j]
  BY <1>6, <1>13
<1>18. heads' \in [Key -> HeadRow \cup {NoHead}]
  <2>1. \A j \in Key : heads'[j] \in HeadRow \cup {NoHead}
    BY <1>14, <1>16, <1>17 DEF TypeOK
  <2>2. QED
    BY <1>13, <2>1
<1>19. QED
  BY <1>12, <1>14, <1>15, <1>16, <1>17, <1>18

\* The heads of a repo are keys of the store.
LEMMA HeadsAreKeys == RepoHead \subseteq Key /\ LiveHead \subseteq RepoHead
BY RepoHeads DEF RepoHead, LiveHead, Key

\* Existing, HeadRecord and Parent in terms of the head row.
LEMMA SoundRecord ==
  ASSUME RepoInv, NEW k \in RepoHead
  PROVE  /\ ChainOf(OwnRows(k), HeadRecord(k), HashedAs(k))
         /\ HeadRecord(k).forkSeq \in Nat /\ HeadRecord(k).seq \in Nat
         /\ k \notin Context => HeadRecord(k).parent = NoKey
<1>1. HeadOK(k) /\ TypeOK /\ k \in Key
  BY HeadsAreKeys DEF RepoInv, RepoTypeOK
<1>2. HeadRecord(k).forkSeq \in Nat /\ HeadRecord(k).seq \in Nat
  BY <1>1, HeadRecordType DEF HeadRow
<1>3. CASE Exists(k)
  BY <1>1, <1>2, <1>3 DEF HeadOK, SoundHead, HeadRecord, Exists
<1>4. CASE ~Exists(k)
  <2>1. OwnRows(k) = {} /\ HeadRecord(k) = [parent |-> NoKey, forkSeq |-> 0, forkHash |-> Genesis,
                                            seq |-> 0, hash |-> Genesis]
    BY <1>1, <1>4 DEF HeadOK, SoundHead, HeadRecord, Exists
  <2>2. (0 + 1)..0 = {}
    OBVIOUS
  <2>3. QED
    BY <1>2, <2>1, <2>2 DEF ChainOf
<1>5. QED
  BY <1>3, <1>4

\* ingestWorktreeState keeps the invariant.
LEMMA IngestInv ==
  ASSUME RepoInv, NEW k \in LiveHead, NEW expected, NEW id \in EnvelopeId, NEW s \in Sem,
         IngestWorktreeState(k, expected, id, s)
  PROVE  RepoInv'
<1> DEFINE n == Commit(k, id, s)
<1>1. TypeOK /\ worktree \in [Key -> Sem \cup {EmptyState}] /\ k \in RepoHead /\ k \in Key
  BY HeadsAreKeys DEF RepoInv, RepoTypeOK
<1>2. worktree' = [worktree EXCEPT ![k] = s]
  BY DEF IngestWorktreeState
<1>3. /\ rows' = rows \cup {n}
      /\ \A j \in Key : j # k => heads'[j] = heads[j]
      /\ heads'[k] = Committed(k, id, s)
      /\ n \in Row /\ heads'[k] \in HeadRow /\ heads' \in [Key -> HeadRow \cup {NoHead}]
  BY <1>1, IngestAdds
<1>4. /\ n.key = k /\ n.seq = HeadRecord(k).seq + 1 /\ n.id = id /\ n.sem = s
      /\ n.prevHash = HeadRecord(k).hash
      /\ n.hash = EnvelopeHash(k, n.seq, n.prevHash, n.id, n.sem)
      /\ heads'[k].forkSeq = HeadRecord(k).forkSeq /\ heads'[k].forkHash = HeadRecord(k).forkHash
      /\ heads'[k].seq = n.seq /\ heads'[k].hash = n.hash /\ heads'[k].parent = HeadRecord(k).parent
  BY <1>3 DEF Commit, Committed
<1> HIDE DEF n
<1>5. RepoTypeOK'
  BY <1>1, <1>2, <1>3 DEF RepoTypeOK, TypeOK
<1>6. \A r \in rows' : r.sem \in Sem
  BY <1>3, <1>4 DEF RepoInv
<1>7. ASSUME NEW j \in RepoHead PROVE HeadOK(j)'
  <2>1. j \in Key /\ HeadOK(j)
    BY HeadsAreKeys DEF RepoInv
  <2>2. CASE j # k
    <3>1. OwnRows(j)' = OwnRows(j)
      BY <1>3, <1>4, <2>2 DEF OwnRows
    <3>2. heads'[j] = heads[j] /\ worktree'[j] = worktree[j]
      BY <1>1, <1>2, <1>3, <2>1, <2>2
    <3>3. QED
      BY <2>1, <3>1, <3>2 DEF HeadOK
  <2>3. CASE j = k
    <3>1. HashedAs(k) = k
      BY RepoHeads DEF HashedAs, LiveHead
    <3>2. ChainOf(OwnRows(k), HeadRecord(k), k) /\ HeadRecord(k).forkSeq \in Nat /\ HeadRecord(k).seq \in Nat
      BY <1>1, <3>1, SoundRecord
    <3>3. OwnRows(k)' = OwnRows(k) \cup {n}
      BY <1>3, <1>4 DEF OwnRows
    <3>4. ChainOf(OwnRows(k) \cup {n}, heads'[k], k)
      BY <1>4, <3>2, ChainGrows
    <3>5. TipOf(heads'[k], s)
      <4>1. <<k, n.seq, id, s>> \in heads'[k].hash
        BY <1>4 DEF EnvelopeHash
      <4>2. QED
        BY <1>4, <4>1 DEF TipOf
    <3>6. heads'[k] # NoHead /\ worktree'[k] = s
      BY <1>1, <1>2, <1>3, NoHeadType
    <3>7. k \notin Context => heads'[k].parent = NoKey
      BY <1>1, <1>4, SoundRecord
    <3>8. QED
      BY <2>3, <3>1, <3>3, <3>4, <3>5, <3>6, <3>7 DEF HeadOK, SoundHead
  <2>4. QED
    BY <2>2, <2>3
<1>8. ForkPointsKept'
  <2>1. SUFFICES ASSUME NEW c \in Context, Parent(c)' = Main
                 PROVE  \E r \in rows' : r.key \in {Main} \cup Archive /\ r.hash = heads'[c].forkHash
    BY DEF ForkPointsKept
  <2>2. Parent(c) = Main /\ heads'[c].forkHash = heads[c].forkHash
    <3>1. CASE c # k
      BY <1>3, <2>1, <3>1, RepoHeads DEF Parent, Exists, Key
    <3>2. CASE c = k
      <4>1. HeadRecord(k).parent = Main
        BY <1>3, <1>4, <2>1, <3>2, NoHeadType DEF Parent, Exists
      <4>2. Main # NoKey
        BY RepoHeads, Sentinels DEF Key
      <4>3. Exists(k)
        BY <4>1, <4>2 DEF HeadRecord
      <4>4. QED
        BY <1>4, <3>2, <4>1, <4>3 DEF HeadRecord, Parent
    <3>3. QED
      BY <3>1, <3>2
  <2>3. QED
    BY <1>3, <2>2 DEF RepoInv, ForkPointsKept
<1>9. QED
  BY <1>5, <1>6, <1>7, <1>8 DEF RepoInv

\* The main has no parent, so it reads its own rows.
LEMMA MainReadsItself ==
  ASSUME RepoInv
  PROVE  View(Reads, Main) \subseteq OwnRows(Main)
<1>1. Main \in RepoHead /\ Main \in Key /\ Main \notin Context
  BY HeadsAreKeys, RepoHeads DEF RepoHead, LiveHead
<1>2. Parent(Main) = NoKey
  BY <1>1 DEF RepoInv, HeadOK, SoundHead, Parent, Exists
<1>3. ParentClosed({Main})
  BY <1>2 DEF ParentClosed
<1>4. \A j : <<Main, j>> \in Lineage => j = Main
  BY <1>1, <1>3 DEF Lineage
<1>5. QED
  BY <1>4 DEF View, Reads, OwnRows

\* A context that forks from main keeps the invariant.
LEMMA ForkContextInv ==
  ASSUME RepoInv, NEW c \in Context, ForkContext(c)
  PROVE  RepoInv'
<1> DEFINE n == heads[Main].seq
<1>1. /\ TypeOK /\ worktree \in [Key -> Sem \cup {EmptyState}]
      /\ Main \in RepoHead /\ Main \in Key /\ c \in RepoHead /\ c \in Key /\ Main # c
  BY HeadsAreKeys, RepoHeads DEF RepoInv, RepoTypeOK, RepoHead, LiveHead
<1>2. Exists(Main) /\ ~Exists(c) /\ rows' = rows
  BY DEF ForkContext, ForkLog
<1>3. heads[Main] \in HeadRow /\ n \in Nat
  BY <1>1, <1>2 DEF TypeOK, Exists, HeadRow
<1>4. /\ ChainOf(OwnRows(Main), heads[Main], Main)
      /\ heads[Main].forkSeq \in Nat
  <2>1. HashedAs(Main) = Main
    BY RepoHeads DEF HashedAs
  <2>2. QED
    BY <1>1, <1>2, <1>3, <2>1 DEF RepoInv, HeadOK, SoundHead, Exists, HeadRow
<1>5. PICK r \in View(Reads, Main) : r.seq = n /\ worktree' = [worktree EXCEPT ![c] = r.sem]
  BY DEF ForkContext
<1>6. r \in OwnRows(Main) /\ r \in rows
  BY <1>5, MainReadsItself DEF OwnRows
<1>7. n # 0
  <2>1. r.seq \in (heads[Main].forkSeq + 1)..n
    BY <1>4, <1>6 DEF ChainOf
  <2>2. QED
    BY <1>3, <1>4, <1>5, <2>1
<1>8. PICK g \in {q.hash : q \in {x \in View(Reads, Main) : x.seq = n}} :
        heads' = [heads EXCEPT ![c] = [parent |-> Main, forkSeq |-> n, forkHash |-> g, seq |-> n, hash |-> g]]
  BY <1>7 DEF ForkContext, ForkLog
<1>9. g = r.hash
  <2>1. PICK q \in View(Reads, Main) : q.seq = n /\ q.hash = g
    BY <1>8
  <2>2. q \in OwnRows(Main)
    BY <2>1, MainReadsItself
  <2>3. q = r
    BY <1>4, <1>5, <1>6, <2>1, <2>2 DEF ChainOf
  <2>4. QED
    BY <2>1, <2>3
<1>10. /\ heads'[c] = [parent |-> Main, forkSeq |-> n, forkHash |-> g, seq |-> n, hash |-> g]
       /\ \A j \in Key : j # c => heads'[j] = heads[j]
  BY <1>1, <1>8 DEF TypeOK
<1>11. r.sem \in Sem /\ r.hash \in Hash /\ r.key = Main
  BY <1>1, <1>6 DEF RepoInv, TypeOK, Row, OwnRows
<1>12. heads'[c] \in HeadRow
  BY <1>1, <1>3, <1>9, <1>10, <1>11 DEF HeadRow
<1>13. RepoTypeOK'
  <2>1. heads' \in [Key -> HeadRow \cup {NoHead}]
    <3>1. \A j \in Key : heads'[j] \in HeadRow \cup {NoHead}
      BY <1>1, <1>10, <1>12 DEF TypeOK
    <3>2. QED
      BY <1>1, <1>8, <3>1 DEF TypeOK
  <2>2. QED
    BY <1>1, <1>2, <1>5, <1>11, <2>1 DEF RepoTypeOK, TypeOK
<1>14. ASSUME NEW j \in RepoHead PROVE HeadOK(j)'
  <2>1. j \in Key /\ HeadOK(j) /\ OwnRows(j)' = OwnRows(j)
    BY <1>2, HeadsAreKeys DEF RepoInv, OwnRows
  <2>2. CASE j # c
    <3>1. heads'[j] = heads[j] /\ worktree'[j] = worktree[j]
      BY <1>1, <1>5, <1>10, <2>1, <2>2
    <3>2. QED
      BY <2>1, <3>1 DEF HeadOK
  <2>3. CASE j = c
    <3>1. OwnRows(c)' = {} /\ worktree'[c] = r.sem /\ heads'[c] # NoHead
      BY <1>1, <1>2, <1>5, <1>12, <2>1, <2>3, NoHeadType DEF HeadOK, SoundHead, Exists
    <3>2. (n + 1)..n = {} /\ n <= n
      BY <1>3
    <3>3. ChainOf({}, heads'[c], HashedAs(c))
      BY <1>10, <3>2 DEF ChainOf
    <3>4. TipOf(heads'[c], r.sem)
      <4>1. r.hash = EnvelopeHash(Main, r.seq, r.prevHash, r.id, r.sem)
        BY <1>4, <1>6 DEF ChainOf
      <4>2. <<Main, n, r.id, r.sem>> \in heads'[c].hash
        BY <1>5, <1>9, <1>10, <4>1 DEF EnvelopeHash
      <4>3. heads'[c].seq = n
        BY <1>10
      <4>4. QED
        BY <1>11, <4>2, <4>3 DEF TipOf
    <3>5. QED
      BY <2>3, <3>1, <3>3, <3>4 DEF HeadOK, SoundHead
  <2>4. QED
    BY <2>2, <2>3
<1>15. ForkPointsKept'
  <2>1. SUFFICES ASSUME NEW d \in Context, Parent(d)' = Main
                 PROVE  \E q \in rows' : q.key \in {Main} \cup Archive /\ q.hash = heads'[d].forkHash
    BY DEF ForkPointsKept
  <2>2. CASE d = c
    BY <1>2, <1>6, <1>9, <1>10, <1>11, <2>2
  <2>3. CASE d # c
    <3>1. d \in Key /\ heads'[d] = heads[d] /\ Parent(d) = Main
      BY <1>10, <2>1, <2>3, RepoHeads DEF Parent, Exists, Key
    <3>2. QED
      BY <1>2, <3>1 DEF RepoInv, ForkPointsKept
  <2>4. QED
    BY <2>2, <2>3
<1>16. QED
  BY <1>2, <1>13, <1>14, <1>15 DEF RepoInv

\* Deleting a context keeps the invariant.
LEMMA DeleteLogHeadInv ==
  ASSUME RepoInv, NEW c \in Context, DeleteLogHead(c)
  PROVE  RepoInv'
<1>1. /\ TypeOK /\ worktree \in [Key -> Sem \cup {EmptyState}]
      /\ c \in RepoHead /\ c \in Key /\ c \notin {Main} \cup Archive
  BY HeadsAreKeys, RepoHeads DEF RepoInv, RepoTypeOK, RepoHead, LiveHead
<1>2. /\ heads' = [heads EXCEPT ![c] = NoHead] /\ rows' = {r \in rows : r.key # c}
      /\ worktree' = [worktree EXCEPT ![c] = EmptyState]
  BY DEF DeleteLogHead
<1>3. RepoTypeOK'
  BY <1>1, <1>2 DEF RepoTypeOK, TypeOK
<1>4. ASSUME NEW j \in RepoHead PROVE HeadOK(j)'
  <2>1. j \in Key /\ HeadOK(j)
    BY HeadsAreKeys DEF RepoInv
  <2>2. CASE j # c
    <3>1. heads'[j] = heads[j] /\ worktree'[j] = worktree[j] /\ OwnRows(j)' = OwnRows(j)
      BY <1>1, <1>2, <2>1, <2>2 DEF OwnRows, TypeOK
    <3>2. QED
      BY <2>1, <3>1 DEF HeadOK
  <2>3. CASE j = c
    <3>1. heads'[j] = NoHead /\ worktree'[j] = EmptyState /\ OwnRows(j)' = {}
      BY <1>1, <1>2, <2>1, <2>3 DEF OwnRows, TypeOK
    <3>2. QED
      BY <3>1 DEF HeadOK, SoundHead
  <2>4. QED
    BY <2>2, <2>3
<1>5. ForkPointsKept'
  <2>1. SUFFICES ASSUME NEW d \in Context, Parent(d)' = Main
                 PROVE  \E q \in rows' : q.key \in {Main} \cup Archive /\ q.hash = heads'[d].forkHash
    BY DEF ForkPointsKept
  <2>2. d \in Key /\ Main # NoKey
    BY RepoHeads, Sentinels DEF Key
  <2>3. d # c /\ heads'[d] = heads[d] /\ Parent(d) = Main
    BY <1>1, <1>2, <2>1, <2>2 DEF Parent, Exists, TypeOK
  <2>4. PICK q \in rows : q.key \in {Main} \cup Archive /\ q.hash = heads[d].forkHash
    BY <2>3 DEF RepoInv, ForkPointsKept
  <2>5. QED
    BY <1>1, <1>2, <2>3, <2>4
<1>6. QED
  BY <1>2, <1>3, <1>4, <1>5 DEF RepoInv

\* Archiving and restoring: rows, head and worktree move together to a name
\* that was free, and are still hashed under the name of the main.
LEMMA RekeyInv ==
  ASSUME RepoInv, NEW from \in {Main} \cup Archive, NEW to \in {Main} \cup Archive, from # to,
         heads[from] # NoHead, heads[to] = NoHead, Rekey(from, to)
  PROVE  /\ RepoInv'
         /\ heads'[to] = heads[from]
         /\ {r.hash : r \in OwnRows(to)'} = {r.hash : r \in OwnRows(from)}
<1> DEFINE moved == {[r EXCEPT !.key = to] : r \in OwnRows(from)}
<1>1. /\ TypeOK /\ worktree \in [Key -> Sem \cup {EmptyState}] /\ rows \in SUBSET Row
      /\ from \in RepoHead /\ to \in RepoHead /\ from \in Key /\ to \in Key
      /\ from \notin Context /\ to \notin Context
  BY HeadsAreKeys, RepoHeads DEF RepoInv, RepoTypeOK, RepoHead, LiveHead, TypeOK
<1>2. /\ heads' = [heads EXCEPT ![to] = heads[from], ![from] = NoHead]
      /\ rows' = {r \in rows : r.key # from} \cup moved
      /\ worktree' = [worktree EXCEPT ![to] = worktree[from], ![from] = EmptyState]
  BY DEF Rekey, OwnRows
<1>3. \A j \in Key : /\ heads'[j] = IF j = to THEN heads[from] ELSE IF j = from THEN NoHead ELSE heads[j]
                     /\ worktree'[j] = IF j = to THEN worktree[from] ELSE IF j = from THEN EmptyState
                                       ELSE worktree[j]
  BY <1>1, <1>2 DEF TypeOK
<1>4. \A r \in OwnRows(from) :
        LET m == [r EXCEPT !.key = to]
        IN  m \in Row /\ m.key = to /\ m.hash = r.hash /\ m.sem = r.sem
  BY <1>1 DEF OwnRows, Row
<1>5. moved \in SUBSET Row /\ \A r \in moved : r.key = to /\ r.sem \in Sem
  BY <1>4 DEF RepoInv, OwnRows
<1>6. RepoTypeOK'
  <2>1. heads' \in [Key -> HeadRow \cup {NoHead}] /\ worktree' \in [Key -> Sem \cup {EmptyState}]
    BY <1>1, <1>2 DEF TypeOK
  <2>2. QED
    BY <1>1, <1>2, <1>5, <2>1 DEF RepoTypeOK, TypeOK
<1>7. OwnRows(to) = {} /\ HashedAs(from) = Main /\ HashedAs(to) = Main
  BY <1>1, RepoHeads DEF RepoInv, HeadOK, SoundHead, HashedAs
<1>8. ChainOf(OwnRows(from), heads[from], Main) /\ TipOf(heads[from], worktree[from])
      /\ heads[from].parent = NoKey
  BY <1>1, <1>7 DEF RepoInv, HeadOK, SoundHead
<1>9. OwnRows(from) \in SUBSET Row
  BY <1>1 DEF OwnRows
<1>10. ChainOf(moved, heads[from], Main)
  <2>1. moved = {[r EXCEPT !.key = to] : r \in OwnRows(from)}
    OBVIOUS
  <2> HIDE DEF moved
  <2>2. QED
    BY <1>8, <1>9, <2>1, ChainRenamed
<1> HIDE DEF moved
<1>11. /\ OwnRows(to)' = moved /\ OwnRows(from)' = {}
       /\ \A j : j # to /\ j # from => OwnRows(j)' = OwnRows(j)
  BY <1>2, <1>5, <1>7 DEF OwnRows
<1>12. ASSUME NEW j \in RepoHead PROVE HeadOK(j)'
  <2>1. j \in Key /\ HeadOK(j)
    BY HeadsAreKeys DEF RepoInv
  <2>2. CASE j = to
    BY <1>3, <1>7, <1>8, <1>10, <1>11, <2>1, <2>2 DEF HeadOK, SoundHead
  <2>3. CASE j = from
    BY <1>3, <1>11, <2>1, <2>3 DEF HeadOK, SoundHead
  <2>4. CASE j # to /\ j # from
    <3>1. heads'[j] = heads[j] /\ worktree'[j] = worktree[j] /\ OwnRows(j)' = OwnRows(j)
      BY <1>3, <1>11, <2>1, <2>4
    <3>2. QED
      BY <2>1, <3>1 DEF HeadOK
  <2>5. QED
    BY <2>2, <2>3, <2>4
<1>13. \A r \in rows : \E q \in rows' : q.hash = r.hash /\ (r.key \in {Main} \cup Archive => q.key \in {Main} \cup Archive)
  <2>1. ASSUME NEW r \in OwnRows(from) PROVE \E q \in moved : q.hash = r.hash /\ q.key = to
    BY <1>4 DEF moved
  <2>2. QED
    BY <1>2, <2>1 DEF OwnRows
<1>14. ForkPointsKept'
  <2>1. SUFFICES ASSUME NEW d \in Context, Parent(d)' = Main
                 PROVE  \E q \in rows' : q.key \in {Main} \cup Archive /\ q.hash = heads'[d].forkHash
    BY DEF ForkPointsKept
  <2>2. d \in Key /\ d # from /\ d # to
    BY <1>1, RepoHeads DEF Key
  <2>3. heads'[d] = heads[d] /\ Parent(d) = Main
    BY <1>3, <2>1, <2>2 DEF Parent, Exists
  <2>4. PICK q \in rows : q.key \in {Main} \cup Archive /\ q.hash = heads[d].forkHash
    BY <2>3 DEF RepoInv, ForkPointsKept
  <2>5. QED
    BY <1>13, <2>3, <2>4
<1>15. \A r \in rows' : r.sem \in Sem
  BY <1>2, <1>5 DEF RepoInv
<1>16. {r.hash : r \in OwnRows(to)'} = {r.hash : r \in OwnRows(from)}
  <2>1. {r.hash : r \in moved} = {r.hash : r \in OwnRows(from)}
    BY <1>4 DEF moved
  <2>2. QED
    BY <1>11, <2>1
<1>17. RepoInv' /\ heads'[to] = heads[from]
  BY <1>1, <1>3, <1>6, <1>12, <1>14, <1>15 DEF RepoInv
<1>18. QED
  BY <1>16, <1>17

\* Deleting the repo, and restoring it, are such moves.
LEMMA ArchiveInv ==
  ASSUME RepoInv, DeleteRepo
  PROVE  RepoInv' /\ \E a \in Archive : heads'[a] = heads[Main]
                                        /\ {r.hash : r \in OwnRows(a)'} = {r.hash : r \in OwnRows(Main)}
<1> DEFINE a == ArchiveHead[worktree[Main]]
<1>1. HasWorktree(Main) /\ ~Exists(a) /\ Rekey(Main, a)
  BY DEF DeleteRepo, ArchiveRepoMain
<1>2. Main \in RepoHead /\ Main \in Key
  BY HeadsAreKeys DEF RepoHead, LiveHead
<1>3. heads[Main] # NoHead /\ worktree[Main] \in Sem
  BY <1>1, <1>2 DEF RepoInv, RepoTypeOK, HeadOK, SoundHead, HasWorktree
<1>4. a \in Archive /\ a # Main
  BY <1>3, RepoHeads DEF Archive
<1>5. heads[a] = NoHead
  BY <1>1 DEF Exists
<1> HIDE DEF a
<1>6. QED
  BY <1>1, <1>3, <1>4, <1>5, RekeyInv

\* Restoring an archive keeps the invariant, and needs that there is no main.
LEMMA RestoreInv ==
  ASSUME RepoInv, NEW a \in Archive, RestoreRepoMain(a)
  PROVE  RepoInv' /\ ~Exists(Main)
<1>1. ~HasWorktree(Main) /\ HasWorktree(a) /\ Rekey(a, Main)
  BY DEF RestoreRepoMain
<1>2. Main \in RepoHead /\ Main \in Key /\ a \in RepoHead /\ a # Main
  BY HeadsAreKeys, RepoHeads DEF RepoHead, LiveHead
<1>3. heads[Main] = NoHead
  <2>1. worktree[Main] \notin Sem
    BY <1>1, RepoHeads DEF HasWorktree
  <2>2. QED
    BY <1>2, <2>1 DEF RepoInv, HeadOK, SoundHead, TipOf
<1>4. heads[a] # NoHead
  BY <1>1, <1>2 DEF RepoInv, HeadOK, SoundHead, HasWorktree
<1>5. QED
  BY <1>1, <1>2, <1>3, <1>4, RekeyInv DEF Exists

-----------------------------------------------------------------------------
(* The theorems.                                                           *)

\* The invariant of RepoLog holds in every reachable state.
LEMMA RepoInvariant == RepoSpec => []RepoInv
<1>1. RepoInit => RepoInv
  <2> SUFFICES ASSUME RepoInit PROVE RepoInv
    OBVIOUS
  <2>1. heads = [k \in Key |-> NoHead] /\ rows = {} /\ worktree = [k \in Key |-> EmptyState]
    BY DEF RepoInit, Init
  <2>2. RepoTypeOK
    BY <2>1 DEF RepoTypeOK, TypeOK
  <2>3. \A k \in RepoHead : HeadOK(k)
    BY <2>1, HeadsAreKeys DEF HeadOK, SoundHead, OwnRows
  <2>4. ForkPointsKept
    <3>1. \A c \in Context : Parent(c) = NoKey /\ NoKey # Main
      BY <2>1, RepoHeads, Sentinels DEF Parent, Exists, Key
    <3>2. QED
      BY <3>1 DEF ForkPointsKept
  <2>5. QED
    BY <2>1, <2>2, <2>3, <2>4 DEF RepoInv
<1>2. ASSUME RepoInv, [RepoNext]_repoVars PROVE RepoInv'
  <2>1. ASSUME NEW k \in {Main} \cup Context, NEW expected, NEW id \in EnvelopeId, NEW s \in Sem,
               IngestWorktreeState(k, expected, id, s)
        PROVE  RepoInv'
    BY <1>2, <2>1, IngestInv DEF LiveHead
  <2>2. ASSUME NEW c \in Context, ForkContext(c) PROVE RepoInv'
    BY <1>2, <2>2, ForkContextInv
  <2>3. ASSUME NEW c \in Context, DeleteLogHead(c) PROVE RepoInv'
    BY <1>2, <2>3, DeleteLogHeadInv
  <2>4. ASSUME DeleteRepo PROVE RepoInv'
    BY <1>2, <2>4, ArchiveInv
  <2>5. ASSUME NEW a \in Archive, RestoreRepoMain(a) PROVE RepoInv'
    BY <1>2, <2>5, RestoreInv
  <2>6. CASE UNCHANGED repoVars
    <3>1. heads' = heads /\ rows' = rows /\ worktree' = worktree
      BY <2>6 DEF repoVars
    <3>2. \A k \in RepoHead : HeadOK(k)'
      BY <1>2, <3>1 DEF RepoInv, HeadOK, OwnRows
    <3>3. RepoTypeOK' /\ ForkPointsKept'
      BY <1>2, <3>1 DEF RepoInv, RepoTypeOK, TypeOK, ForkPointsKept, Parent, Exists
    <3>4. QED
      BY <1>2, <3>1, <3>2, <3>3 DEF RepoInv
  <2>7. QED
    BY <1>2, <2>1, <2>2, <2>3, <2>4, <2>5, <2>6 DEF RepoNext
<1>3. QED
  BY <1>1, <1>2, PTL DEF RepoSpec

\* The tables keep their types, the worktree of a head included.
THEOREM RepoLogTypeOK == RepoSpec => []RepoTypeOK
<1>1. RepoInv => RepoTypeOK
  BY DEF RepoInv
<1>2. QED
  BY <1>1, RepoInvariant, PTL

\* The integrity check passes on the main and on every context, through any
\* sequence of commits, forks, deletions of contexts, deletions of the repo,
\* new repos at its path and restorations.
THEOREM RepoLogLiveHeadsIntact == RepoSpec => []LiveHeadsIntact
<1>1. ASSUME RepoInv, NEW k \in {Main} \cup Context PROVE HeadIntact(k)
  <2>1. HeadOK(k) /\ HashedAs(k) = k
    BY <1>1, RepoHeads DEF RepoInv, RepoHead, LiveHead, HashedAs
  <2>2. CASE heads[k] = NoHead
    BY <2>1, <2>2 DEF HeadIntact, Exists, HeadOK, SoundHead
  <2>3. CASE heads[k] # NoHead
    <3>1. ChainOf(OwnRows(k), heads[k], k)
      BY <2>1, <2>3 DEF HeadOK, SoundHead
    <3>2. \A r \in OwnRows(k) : r.key = k /\ RowVerifies(r)
      BY <3>1 DEF ChainOf, RowVerifies, OwnRows
    <3>3. \A r \in OwnRows(k) : RowLinks(r)
      BY <3>1, <3>2 DEF ChainOf, RowLinks, OwnRows
    <3>4. QED
      BY <2>3, <3>1, <3>2, <3>3 DEF ChainOf, HeadIntact, Exists
  <2>4. QED
    BY <2>2, <2>3
<1>2. RepoInv => LiveHeadsIntact
  BY <1>1 DEF LiveHeadsIntact
<1>3. QED
  BY <1>2, RepoInvariant, PTL

\* A head's worktree is the state of the commit its head hash ends in, and a
\* head without a log has none: the projection that ingestWorktreeStateInTxn
\* compares and sets never drifts from the log.
THEOREM RepoLogWorktreeMatchesHead == RepoSpec => []WorktreeMatchesHead
<1>1. RepoInv => WorktreeMatchesHead
  BY DEF RepoInv, RepoHead, LiveHead, HeadOK, SoundHead, TipOf, WorktreeMatchesHead, Exists, HasWorktree
<1>2. QED
  BY <1>1, RepoInvariant, PTL

\* The commit that a context was forked at stays in the main or in an archive.
THEOREM RepoLogForkPointsKept == RepoSpec => []ForkPointsKept
<1>1. RepoInv => ForkPointsKept
  BY DEF RepoInv
<1>2. QED
  BY <1>1, RepoInvariant, PTL

\* No step loses the history of the main: it grows, or it becomes an archive.
THEOREM RepoLogMainHistoryKept == RepoSpec => MainHistoryKept
<1> DEFINE Kept == \/ heads'[Main] # NoHead /\ heads[Main].hash \subseteq heads'[Main].hash
                   \/ \E a \in Archive : heads'[a] = heads[Main]
                        /\ {r.hash : r \in OwnRows(Main)} = {r.hash : r \in OwnRows(a)'}
<1>1. ASSUME RepoInv, [RepoNext]_repoVars, Exists(Main) PROVE Kept
  <2>1. Main \in RepoHead /\ Main \in Key /\ TypeOK /\ \A c \in Context : c \in Key /\ c # Main
    BY <1>1, HeadsAreKeys, RepoHeads DEF RepoHead, LiveHead, RepoInv, RepoTypeOK, Key
  <2>2. ASSUME heads'[Main] = heads[Main] PROVE Kept
    BY <1>1, <2>2 DEF Exists
  <2>3. ASSUME NEW k \in {Main} \cup Context, NEW expected, NEW id \in EnvelopeId, NEW s \in Sem,
               IngestWorktreeState(k, expected, id, s)
        PROVE  Kept
    <3>1. k \in Key
      BY <2>1
    <3>2. /\ \A j \in Key : j # k => heads'[j] = heads[j]
          /\ heads'[k] = Committed(k, id, s) /\ heads'[k] \in HeadRow
      BY <2>1, <2>3, <3>1, IngestAdds
    <3>3. CASE k = Main
      BY <1>1, <3>2, <3>3, NoHeadType DEF Committed, HeadRecord, EnvelopeHash
    <3>4. CASE k # Main
      BY <2>1, <2>2, <3>2, <3>4
    <3>5. QED
      BY <3>3, <3>4
  <2>4. ASSUME NEW c \in Context, ForkContext(c) PROVE Kept
    <3>1. heads'[Main] = heads[Main]
      BY <2>1, <2>4 DEF ForkContext, ForkLog, TypeOK
    <3>2. QED
      BY <2>2, <3>1
  <2>5. ASSUME NEW c \in Context, DeleteLogHead(c) PROVE Kept
    <3>1. heads'[Main] = heads[Main]
      BY <2>1, <2>5 DEF DeleteLogHead, TypeOK
    <3>2. QED
      BY <2>2, <3>1
  <2>6. ASSUME DeleteRepo PROVE Kept
    BY <1>1, <2>6, ArchiveInv
  <2>7. ASSUME NEW a \in Archive, RestoreRepoMain(a) PROVE Kept
    BY <1>1, <2>7, RestoreInv
  <2>8. CASE UNCHANGED repoVars
    BY <2>2, <2>8 DEF repoVars
  <2> HIDE DEF Kept
  <2>9. QED
    BY <1>1, <2>3, <2>4, <2>5, <2>6, <2>7, <2>8 DEF RepoNext
<1>2. QED
  BY <1>1, RepoInvariant, PTL DEF RepoSpec, MainHistoryKept
=============================================================================
