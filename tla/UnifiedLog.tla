----------------------------- MODULE UnifiedLog -----------------------------
(***************************************************************************)
(* The unified log of the gad-store durable object                         *)
(* (workspace/workers/gad-store/index.ts): hash-chained event rows, one    *)
(* chain per (logId, head) pair, heads that fork from one another without  *)
(* copying rows, appends that are idempotent by envelope id within the     *)
(* lineage and conditional on the head hash, and publications that copy an *)
(* event into a channel log inside the same transaction.                   *)
(*                                                                         *)
(* A Key stands for a (logId, head) pair.  An event's content (actor,      *)
(* payload kind, payload, causality) is a member of Sem.  A hash is the    *)
(* set of cells <<key, seq, id, sem>> that were mixed into it: two hashes  *)
(* are equal exactly when the chains they close are, which is what a       *)
(* collision-free digest over (prevHash, key, seq, semantic) gives.        *)
(***************************************************************************)
EXTENDS Integers, FiniteSets, Sequences

CONSTANTS
  Trajectory,   \* the keys of agent trajectories (and other agentic logs)
  Channel,      \* the keys of channel logs
  EnvelopeId,   \* envelope ids a client may choose
  Sem,          \* event contents
  Turn,         \* turns an event may open
  TurnOpened,   \* TurnOpened[s]: the turn content s opens, or NoTurn
  Batch,        \* the batches clients append: sequences of events
  MaxSeq,       \* bound on a head's seq
  NoKey, NoTurn, NoHead, NoExpectation

Key == Trajectory \cup Channel

\* One input event: its id, its content, the channels it is published to.
Event == [id : EnvelopeId, sem : Sem, publish : SUBSET Channel]

ASSUME KindsDisjoint == Trajectory \cap Channel = {}
ASSUME TurnOpenedType == TurnOpened \in [Sem -> Turn \cup {NoTurn}]
ASSUME BatchType == Batch \subseteq Seq(Event) \ {<<>>}
ASSUME MaxSeqType == MaxSeq \in Nat
ASSUME Sentinels == NoKey \notin Key /\ NoTurn \notin Turn

VARIABLES
  heads,        \* the table log_heads
  rows          \* the table log_events

vars == <<heads, rows>>

Idempotency == {"exact", "idempotent-by-id"}

\* Faulty: the publication id with its parts swapped.
PubIdSwapped(e, c) == <<c, e.id>>

\* The copy of event e of log k that lands in channel c.
PubId(e, c) == <<e.id, c>>
PubSem(k, e) == <<k, e.id, e.sem>>

Id == EnvelopeId \cup (EnvelopeId \X Channel)
Content == Sem \cup (Trajectory \X EnvelopeId \X Sem)
Cell == Key \X Nat \X Id \X Content
Hash == SUBSET Cell
Genesis == {}

HeadRow == [parent : Key \cup {NoKey}, forkSeq : Nat, forkHash : Hash,
            seq : Nat, hash : Hash]
Row == [key : Key, seq : Nat, id : Id, sem : Content, prevHash : Hash, hash : Hash]

\* Nothing but a publication has the id of one ("pub:" before the origin's id).
ASSUME ClientIds == EnvelopeId \cap (EnvelopeId \X Channel) = {}
ASSUME NoHeadType == NoHead \notin HeadRow

\* computeEnvelopeHash: key and seq are part of the preimage.
EnvelopeHash(k, seq, prevHash, id, sem) == prevHash \cup {<<k, seq, id, sem>>}

-----------------------------------------------------------------------------
(* Reading: lineage, reads, head pointers.                                 *)

Exists(k) == heads[k] # NoHead

\* A key without a row in log_heads still answers: seq 0, the genesis hash.
HeadPointer(k) ==
  IF Exists(k) THEN [seq |-> heads[k].seq, hash |-> heads[k].hash]
               ELSE [seq |-> 0, hash |-> Genesis]

Parent(k) == IF Exists(k) THEN heads[k].parent ELSE NoKey

\* logLineage: the pairs <<k, j>> where following parent links from k reaches
\* j, that is where j is in every set that contains k and, with a key, its parent.
ParentClosed(A) == \A k \in A : Parent(k) \in A \cup {NoKey}
Lineage ==
  LET closed == {A \in SUBSET Key : ParentClosed(A)} IN
    {p \in Key \X Key : \A A \in closed : p[1] \in A => p[2] \in A}

\* Faulty: a fork reads all of its parent, also what came after the cut.
ReadsUncapped == {p \in Key \X rows : <<p[1], p[2].key>> \in Lineage}

\* What readLog shows: the pairs <<k, row>> of a key and a row of its lineage,
\* where every fork between the two was cut at or after the row.
Reads ==
  LET lineage == Lineage IN
    {p \in Key \X rows :
      /\ <<p[1], p[2].key>> \in lineage
      /\ \A j \in Key \ {p[2].key} :
           <<p[1], j>> \in lineage /\ <<j, p[2].key>> \in lineage => p[2].seq <= heads[j].forkSeq}

View(reads, k) == {r \in rows : <<k, r>> \in reads}

\* Faulty: ids are looked up in the head's own rows only.
StoredOwnOnly(reads, k, id) == {r \in rows : r.id = id /\ r.key = k}

\* lineageEventRow: the rows with this id that k reads.
Stored(reads, k, id) == {r \in rows : r.id = id /\ <<k, r>> \in reads}

-----------------------------------------------------------------------------
(* Appending: appendLogEventInTxn.                                         *)

\* The positions of the batch whose id is already in k's lineage.
Known(reads, k, batch) == {i \in DOMAIN batch : Stored(reads, k, batch[i].id) # {}}

\* The already-applied prefix, which the append skips, and what is left.
Replayed(reads, k, batch) ==
  LET known == Known(reads, k, batch) IN {i \in DOMAIN batch : \A j \in 1..i : j \in known}
Remaining(reads, k, batch) == DOMAIN batch \ Replayed(reads, k, batch)

\* An applied id with other content; under "idempotent-by-id" the first write
\* wins instead.
IdCollision(reads, k, batch, mode) ==
  /\ mode = "exact"
  /\ \E i \in Replayed(reads, k, batch) : \E r \in Stored(reads, k, batch[i].id) : r.sem # batch[i].sem

\* Faulty: the compare-and-set also stops replays.
HeadConflictOnReplay(reads, k, batch, expected) ==
  expected # NoExpectation /\ expected # HeadPointer(k).hash

\* The compare-and-set on the head hash, waived when the batch is a replay.
HeadConflict(reads, k, batch, expected) ==
  /\ expected # NoExpectation
  /\ expected # HeadPointer(k).hash
  /\ Replayed(reads, k, batch) = {}

\* An applied event behind a new one, or a replayed prefix that is not at the
\* head while there is still something to append.
ReplayMismatch(reads, k, batch) ==
  \/ Known(reads, k, batch) # Replayed(reads, k, batch)
  \/ /\ Replayed(reads, k, batch) # {} /\ Remaining(reads, k, batch) # {}
     /\ \A r \in Stored(reads, k, batch[Cardinality(Replayed(reads, k, batch))].id) :
          r.hash # HeadPointer(k).hash

\* Faulty: only the batch is searched for the turn, not the lineage.
TurnOpenedInBatch(reads, k, batch) ==
  /\ k \in Trajectory
  /\ \E i, j \in Remaining(reads, k, batch) :
       i # j /\ TurnOpened[batch[i].sem] # NoTurn /\ TurnOpened[batch[j].sem] = TurnOpened[batch[i].sem]

\* assertTurnNotOpened, on the lineage and on the batch so far.
TurnAlreadyOpened(reads, k, batch) ==
  /\ k \in Trajectory
  /\ \E i \in Remaining(reads, k, batch) :
       /\ TurnOpened[batch[i].sem] # NoTurn
       /\ \/ \E r \in View(reads, k) : TurnOpened[r.sem] = TurnOpened[batch[i].sem]
          \/ \E j \in Remaining(reads, k, batch) \ {i} :
               TurnOpened[batch[j].sem] = TurnOpened[batch[i].sem]

\* UNIQUE (log_id, head, envelope_id): one batch may not insert an id twice.
DuplicateInBatch(reads, k, batch) ==
  \E i, j \in Remaining(reads, k, batch) : i # j /\ batch[i].id = batch[j].id

\* The nested append of a publication finds its id taken by other content.
PublicationCollision(reads, k, batch) ==
  \E i \in Remaining(reads, k, batch) : \E c \in batch[i].publish :
    \E r \in Stored(reads, c, PubId(batch[i], c)) : r.sem # PubSem(k, batch[i])

\* Any of these throws, and the transaction leaves both tables alone.
AppendAccepted(reads, k, batch, expected, mode) ==
  /\ ~HeadConflict(reads, k, batch, expected)
  /\ ~ReplayMismatch(reads, k, batch)
  /\ ~IdCollision(reads, k, batch, mode)
  /\ ~TurnAlreadyOpened(reads, k, batch)
  /\ ~DuplicateInBatch(reads, k, batch)
  /\ ~PublicationCollision(reads, k, batch)

\* Faulty: a replayed prefix is published again.
InsertsRepublish(reads, k, batch, j) ==
  IF j = k THEN Remaining(reads, k, batch) ELSE {i \in DOMAIN batch : j \in batch[i].publish}

\* The positions of the batch that the transaction inserts into log j: what
\* remains of it in k itself, the publications that are new in a channel.
Inserts(reads, k, batch, j) ==
  IF j = k THEN Remaining(reads, k, batch)
  ELSE {i \in Remaining(reads, k, batch) : j \in batch[i].publish /\ Stored(reads, j, PubId(batch[i], j)) = {}}

InsertId(k, batch, j, i) == IF j = k THEN batch[i].id ELSE PubId(batch[i], j)
InsertSem(k, batch, j, i) == IF j = k THEN batch[i].sem ELSE PubSem(k, batch[i])
InsertsThrough(reads, k, batch, j, i) == {m \in Inserts(reads, k, batch, j) : m <= i}
InsertSeq(reads, k, batch, j, i) ==
  HeadPointer(j).seq + Cardinality(InsertsThrough(reads, k, batch, j, i))
InsertCell(reads, k, batch, j, i) ==
  <<j, InsertSeq(reads, k, batch, j, i), InsertId(k, batch, j, i), InsertSem(k, batch, j, i)>>

\* The hash that the insertion of position i chains on.
InsertPrevHash(reads, k, batch, j, i) ==
  HeadPointer(j).hash \cup {InsertCell(reads, k, batch, j, m) : m \in {n \in Inserts(reads, k, batch, j) : n < i}}

InsertRow(reads, k, batch, j, i) ==
  [key |-> j, seq |-> InsertSeq(reads, k, batch, j, i),
   id |-> InsertId(k, batch, j, i), sem |-> InsertSem(k, batch, j, i),
   prevHash |-> InsertPrevHash(reads, k, batch, j, i),
   hash |-> EnvelopeHash(j, InsertSeq(reads, k, batch, j, i), InsertPrevHash(reads, k, batch, j, i),
                         InsertId(k, batch, j, i), InsertSem(k, batch, j, i))]

\* Faulty: the head advances by one, however many rows the batch inserts.
AdvancedHeadByOne(reads, k, batch, j) ==
  [parent |-> Parent(j), forkSeq |-> IF Exists(j) THEN heads[j].forkSeq ELSE 0,
   forkHash |-> IF Exists(j) THEN heads[j].forkHash ELSE Genesis,
   seq |-> HeadPointer(j).seq + 1,
   hash |-> HeadPointer(j).hash \cup {InsertCell(reads, k, batch, j, m) : m \in Inserts(reads, k, batch, j)}]

\* The head row after the insertions, created when the log had none.
AdvancedHead(reads, k, batch, j) ==
  [parent   |-> Parent(j),
   forkSeq  |-> IF Exists(j) THEN heads[j].forkSeq ELSE 0,
   forkHash |-> IF Exists(j) THEN heads[j].forkHash ELSE Genesis,
   seq      |-> HeadPointer(j).seq + Cardinality(Inserts(reads, k, batch, j)),
   hash     |-> HeadPointer(j).hash \cup
                  {InsertCell(reads, k, batch, j, m) : m \in Inserts(reads, k, batch, j)}]

AppendLogEvent(reads, k, batch, expected, mode) ==
  /\ AppendAccepted(reads, k, batch, expected, mode)
  /\ \A j \in Key : HeadPointer(j).seq + Cardinality(Inserts(reads, k, batch, j)) <= MaxSeq
  /\ rows' = rows \cup
       UNION {{InsertRow(reads, k, batch, j, i) : i \in Inserts(reads, k, batch, j)} : j \in Key}
  /\ heads' = [j \in Key |-> IF Inserts(reads, k, batch, j) = {} THEN heads[j]
                             ELSE AdvancedHead(reads, k, batch, j)]

\* An agent appends exactly, expecting the head hash of some state of its
\* trajectory that it has folded, up to date or stale.
Expectations(reads, k) == {Genesis} \cup {r.hash : r \in View(reads, k)}
AgentAppend(k, batch) ==
  LET reads == Reads IN
    \E expected \in Expectations(reads, k) : AppendLogEvent(reads, k, batch, expected, "exact")

\* A channel appends without expectation: its own events exactly, client
\* publishes idempotent by id.  Channel events are not published further.
ChannelAppend(c, batch) ==
  /\ \A i \in DOMAIN batch : batch[i].publish = {}
  /\ LET reads == Reads IN
       \E mode \in Idempotency : AppendLogEvent(reads, c, batch, NoExpectation, mode)

-----------------------------------------------------------------------------
(* Forking: forkLog.  Nothing is copied; the child reads its past from the *)
(* parent.  A target that already exists is answered without a change.     *)

SameKind(j, k) == (j \in Channel) = (k \in Channel)

\* Faulty: an existing target is forked again.
ForkLogOverwrite(from, to, atSeq) ==
  /\ from # to /\ SameKind(from, to) /\ Exists(from)
  /\ atSeq <= heads[from].seq
  /\ heads' = [heads EXCEPT ![to] = [parent |-> from, forkSeq |-> atSeq, forkHash |-> Genesis,
                                     seq |-> atSeq, hash |-> Genesis]]
  /\ UNCHANGED rows

ForkLog(from, to, atSeq) ==
  /\ from # to /\ SameKind(from, to)
  /\ Exists(from) /\ ~Exists(to)
  /\ atSeq <= heads[from].seq
  /\ \E forkHash \in IF atSeq = 0 THEN {Genesis}
                     ELSE {r.hash : r \in {q \in View(Reads, from) : q.seq = atSeq}} :
       heads' = [heads EXCEPT ![to] =
                   [parent |-> from, forkSeq |-> atSeq, forkHash |-> forkHash,
                    seq |-> atSeq, hash |-> forkHash]]
  /\ UNCHANGED rows

-----------------------------------------------------------------------------
Init ==
  /\ heads = [k \in Key |-> NoHead]
  /\ rows = {}

Next ==
  \/ \E k \in Trajectory, batch \in Batch : AgentAppend(k, batch)
  \/ \E c \in Channel, batch \in Batch : ChannelAppend(c, batch)
  \/ \E from, to \in Key : \E atSeq \in 0..MaxSeq : ForkLog(from, to, atSeq)

Spec == Init /\ [][Next]_vars

-----------------------------------------------------------------------------
(* Properties.                                                             *)

TypeOK ==
  /\ heads \in [Key -> HeadRow \cup {NoHead}]
  /\ rows \in SUBSET Row

\* What checkLogIntegrity verifies of every head: its own rows number on from
\* the fork without gap or repetition, each links to the hash before it and
\* recomputes to its stored hash under the key it is stored under, and the
\* head pointer is the last of them (or the fork point).
RowVerifies(r) ==
  r.hash = EnvelopeHash(r.key, r.seq, r.prevHash, r.id, r.sem)
RowLinks(r) ==
  IF r.seq = heads[r.key].forkSeq + 1 THEN r.prevHash = heads[r.key].forkHash
  ELSE \E q \in rows : q.key = r.key /\ q.seq = r.seq - 1 /\ q.hash = r.prevHash
OwnRows(k) == {r \in rows : r.key = k}
HeadIntact(k) ==
  /\ ~Exists(k) => OwnRows(k) = {}
  /\ Exists(k) =>
       /\ {r.seq : r \in OwnRows(k)} = (heads[k].forkSeq + 1)..heads[k].seq
       /\ \A r, q \in OwnRows(k) : r.seq = q.seq => r = q
       /\ \A r \in OwnRows(k) : RowVerifies(r) /\ RowLinks(r)
       /\ OwnRows(k) = {} => heads[k].hash = heads[k].forkHash
       /\ \A r \in OwnRows(k) : r.seq = heads[k].seq => r.hash = heads[k].hash
ChainIntact == \A k \in Key : HeadIntact(k)

\* The log a reader of k sees through its ancestors (readLog) is exactly the
\* chain its head hash commits to: a driver whose fold carries the head hash
\* has folded precisely these events, whatever was appended to the parents
\* since the fork.
ViewMatchesHead ==
  LET reads == Reads IN
    \A k \in Key : Exists(k) =>
      /\ {<<r.key, r.seq, r.id, r.sem>> : r \in View(reads, k)} = heads[k].hash
      /\ {r.seq : r \in View(reads, k)} = 1..heads[k].seq

\* An envelope id names at most one event in what any head reads, through
\* forks, publications, retries and competing writers: the exactly-once
\* promise that deterministic ids rest on.
LineageIdsUnique ==
  LET reads == Reads IN
    \A k \in Key : \A r, q \in View(reads, k) : r.id = q.id => r = q

\* A turn is opened at most once in what a trajectory reads, under whatever
\* envelope ids (assertTurnNotOpened).
TurnsOpenedOnce ==
  LET reads == Reads IN
    \A k \in Trajectory : \A r, q \in View(reads, k) :
      TurnOpened[r.sem] # NoTurn /\ TurnOpened[r.sem] = TurnOpened[q.sem] => r = q

\* A publication in a channel has its origin event in the origin log with the
\* content it carries, and the publications of one log appear in the channel
\* in the order of their origins.
Origin(p) == {r \in rows : r.key = p.sem[1] /\ r.id = p.sem[2]}
PublicationsFollowOrigins ==
  \A p, q \in {r \in rows : r.id \in EnvelopeId \X Channel} :
    /\ \E r \in Origin(p) : r.sem = p.sem[3]
    /\ p.key = q.key /\ p.sem[1] = q.sem[1] /\ p.seq < q.seq =>
         \A r \in Origin(p), s \in Origin(q) : r.seq < s.seq

\* No step takes back, rewrites or inserts into what any existing head reads:
\* its view only grows at the end, even while its ancestors advance.
ViewsAppendOnly ==
  [][LET before == Reads
         after == Reads'
     IN  \A k \in Key : Exists(k) =>
           View(before, k) = {r \in rows' : <<k, r>> \in after /\ r.seq <= heads[k].seq}]_vars

\* A batch whose events are all journaled is acknowledged on every retry,
\* however far the head has moved and however stale the expectation sent with
\* it: a writer whose answer was lost never sees head-conflict for its own
\* events (the contract of append-errors.ts).
RetryAcknowledged ==
  LET reads == Reads IN
    \A k \in Key, batch \in Batch :
      (\A i \in DOMAIN batch : \E r \in View(reads, k) : r.id = batch[i].id /\ r.sem = batch[i].sem)
        => /\ \A expected \in Expectations(reads, k) :
                AppendAccepted(reads, k, batch, expected, "exact")
           /\ \A j \in Key : Inserts(reads, k, batch, j) = {}

=============================================================================
