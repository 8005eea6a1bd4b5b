------------------------- MODULE AgentDriver_proofs -------------------------
(* Proofs about the driver of the agent loop, for any number of flows,     *)
(* messages, tools, attempts and disturbances.                             *)
EXTENDS AgentDriver, SequenceFacts

-----------------------------------------------------------------------------
(* The fold over a sequence of events, one event at a time.                *)

\* g holds the states of a fold of the first n events.
Folds(g, s, es, n) == g = [k \in 0 .. n |-> IF k = 0 THEN s ELSE ApplyEvent(g[k - 1], es[k])]

\* Every fold has its states.
LEMMA FoldExists ==
  ASSUME NEW s, NEW es
  PROVE  \A n \in Nat : \E g : Folds(g, s, es, n)
<1> DEFINE S == {n \in Nat : \E g : Folds(g, s, es, n)}
<1>1. 0 \in S
  <2> DEFINE g == [k \in 0 .. 0 |-> s]
  <2>1. Folds(g, s, es, 0)
    BY DEF Folds
  <2>2. QED
    BY <2>1
<1>2. ASSUME NEW n \in Nat, n \in S PROVE n + 1 \in S
  <2>1. PICK g : Folds(g, s, es, n)
    BY <1>2
  <2> DEFINE h == [k \in 0 .. n + 1 |-> IF k = n + 1 THEN ApplyEvent(g[n], es[n + 1]) ELSE g[k]]
  <2>2. \A k \in 0 .. n : h[k] = g[k] /\ g[k] = (IF k = 0 THEN s ELSE ApplyEvent(g[k - 1], es[k]))
    BY <2>1 DEF Folds
  <2>3. \A k \in 0 .. n + 1 : h[k] = IF k = 0 THEN s ELSE ApplyEvent(h[k - 1], es[k])
    <3>1. SUFFICES ASSUME NEW k \in 0 .. n + 1
                   PROVE  h[k] = IF k = 0 THEN s ELSE ApplyEvent(h[k - 1], es[k])
      OBVIOUS
    <3>2. CASE k = n + 1
      <4>1. h[k] = ApplyEvent(g[n], es[n + 1]) /\ k # 0 /\ k - 1 = n /\ h[n] = g[n]
        BY <3>2, <2>2
      <4>2. QED
        BY <4>1, <3>2
    <3>3. CASE k # n + 1
      <4>1. k \in 0 .. n /\ (k # 0 => k - 1 \in 0 .. n)
        BY <3>3
      <4>2. QED
        BY <4>1, <2>2
    <3>4. QED
      BY <3>2, <3>3
  <2>4. h = [k \in 0 .. n + 1 |-> h[k]]
    OBVIOUS
  <2> HIDE DEF h
  <2>5. Folds(h, s, es, n + 1)
    BY <2>3, <2>4 DEF Folds
  <2>6. QED
    BY <2>5
<1> HIDE DEF S
<1>3. \A n \in Nat : n \in S
  BY <1>1, <1>2, NatSetInduction
<1>4. QED
  BY <1>3 DEF S

\* g leads from s through the events es to the state that FoldEvents gives.
LeadsTo(g, s, es) ==
  /\ g[0] = s /\ FoldEvents(s, es) = g[Len(es)]
  /\ \A k \in 1 .. Len(es) : g[k] = ApplyEvent(g[k - 1], es[k])

\* What FoldEvents is: the last of a sequence of states, each of which is the one
\* before it with the next event applied.
LEMMA FoldStates ==
  ASSUME NEW s, NEW es, IsSeq(es)
  PROVE  \E g : LeadsTo(g, s, es)
<1>1. Len(es) \in Nat
  BY SeqDomain
<1> DEFINE g == CHOOSE h : Folds(h, s, es, Len(es))
<1>2. Folds(g, s, es, Len(es))
  BY <1>1, FoldExists
<1>3. FoldEvents(s, es) = g[Len(es)]
  BY DEF FoldEvents, Folds
<1> HIDE DEF g
<1>4. g[0] = s /\ \A k \in 1 .. Len(es) : g[k] = ApplyEvent(g[k - 1], es[k])
  BY <1>1, <1>2 DEF Folds
<1>5. QED
  BY <1>3, <1>4 DEF LeadsTo

-----------------------------------------------------------------------------
(* Filtering by seq.                                                       *)

\* g holds what Kept takes of the first k items, for k up to n.
Keeps(g, items, K, n) ==
  g = [k \in 0 .. n |-> IF k = 0 THEN <<>>
                        ELSE IF k \in K THEN Append(g[k - 1], items[k]) ELSE g[k - 1]]

\* The filter has its intermediate results.
LEMMA KeepExists ==
  ASSUME NEW items, NEW K
  PROVE  \A n \in Nat : \E g : Keeps(g, items, K, n)
<1> DEFINE S == {n \in Nat : \E g : Keeps(g, items, K, n)}
           Next1(q, k) == IF k \in K THEN Append(q, items[k]) ELSE q
<1>1. 0 \in S
  <2> DEFINE g == [k \in 0 .. 0 |-> <<>>]
  <2>1. Keeps(g, items, K, 0)
    BY DEF Keeps
  <2>2. QED
    BY <2>1
<1>2. ASSUME NEW n \in Nat, n \in S PROVE n + 1 \in S
  <2>1. PICK g : Keeps(g, items, K, n)
    BY <1>2
  <2>2. \A k \in 0 .. n : g[k] = IF k = 0 THEN <<>> ELSE Next1(g[k - 1], k)
    BY <2>1 DEF Keeps
  <2> HIDE DEF Next1
  <2> DEFINE h == [k \in 0 .. n + 1 |-> IF k = n + 1 THEN Next1(g[n], n + 1) ELSE g[k]]
  <2>3. \A k \in 0 .. n + 1 : h[k] = IF k = 0 THEN <<>> ELSE Next1(h[k - 1], k)
    <3>1. SUFFICES ASSUME NEW k \in 0 .. n + 1
                   PROVE  h[k] = IF k = 0 THEN <<>> ELSE Next1(h[k - 1], k)
      OBVIOUS
    <3>2. CASE k = n + 1
      <4>1. h[k] = Next1(g[n], n + 1) /\ k # 0 /\ k - 1 = n /\ h[n] = g[n]
        BY <3>2, <2>2
      <4>2. QED
        BY <4>1, <3>2
    <3>3. CASE k # n + 1
      <4>1. k \in 0 .. n /\ (k # 0 => k - 1 \in 0 .. n)
        BY <3>3
      <4>2. QED
        BY <4>1, <2>2
    <3>4. QED
      BY <3>2, <3>3
  <2>4. h = [k \in 0 .. n + 1 |-> h[k]]
    OBVIOUS
  <2> HIDE DEF h
  <2>5. Keeps(h, items, K, n + 1)
    BY <2>3, <2>4 DEF Keeps, Next1
  <2>6. QED
    BY <2>5
<1> HIDE DEF S
<1>3. \A n \in Nat : n \in S
  BY <1>1, <1>2, NatSetInduction
<1>4. QED
  BY <1>3 DEF S

\* What Kept takes is a sequence of items at those positions.
LEMMA KeptItems ==
  ASSUME NEW items, IsSeq(items), NEW K
  PROVE  /\ IsSeq(Kept(items, K))
         /\ \A i \in DOMAIN Kept(items, K) : \E j \in DOMAIN items \cap K : Kept(items, K)[i] = items[j]
<1>1. Len(items) \in Nat /\ DOMAIN items = 1 .. Len(items)
  BY SeqDomain
<1> DEFINE g == CHOOSE h : Keeps(h, items, K, Len(items))
<1>2. Keeps(g, items, K, Len(items))
  BY <1>1, KeepExists
<1>3. Kept(items, K) = g[Len(items)]
  BY DEF Kept, Keeps
<1> HIDE DEF g
<1>4. /\ g[0] = <<>>
      /\ \A k \in 1 .. Len(items) : g[k] = g[k - 1] \/ (k \in K /\ g[k] = Append(g[k - 1], items[k]))
  <2>1. \A k \in 0 .. Len(items) :
          g[k] = IF k = 0 THEN <<>>
                 ELSE IF k \in K THEN Append(g[k - 1], items[k]) ELSE g[k - 1]
    BY <1>2 DEF Keeps
  <2>2. g[0] = <<>>
    BY <1>1, <2>1
  <2>3. ASSUME NEW k \in 1 .. Len(items)
        PROVE  g[k] = g[k - 1] \/ (k \in K /\ g[k] = Append(g[k - 1], items[k]))
    <3>1. k \in 0 .. Len(items) /\ k # 0
      BY <1>1
    <3>2. QED
      BY <2>1, <3>1
  <2>4. QED
    BY <2>2, <2>3
<1> DEFINE Good(q) == IsSeq(q) /\ \A i \in 1 .. Len(q) : \E j \in 1 .. Len(items) : j \in K /\ q[i] = items[j]
           S == {n \in Nat : n <= Len(items) => Good(g[n])}
<1>5. 0 \in S
  BY <1>4, SeqEmpty
<1>6. ASSUME NEW n \in Nat, n \in S PROVE n + 1 \in S
  <2>1. SUFFICES ASSUME n + 1 <= Len(items) PROVE Good(g[n + 1])
    OBVIOUS
  <2>2. Good(g[n]) /\ n + 1 \in 1 .. Len(items) /\ (n + 1) - 1 = n
    BY <1>1, <1>6, <2>1
  <2>3. g[n + 1] = g[n] \/ (n + 1 \in K /\ g[n + 1] = Append(g[n], items[n + 1]))
    BY <1>4, <2>2
  <2>4. ASSUME NEW q, Good(q), n + 1 \in K PROVE Good(Append(q, items[n + 1]))
    <3>1. Len(q) \in Nat
      BY <2>4, SeqDomain
    <3>2. \A i \in 1 .. Len(q) + 1 : i \in 1 .. Len(q) \/ i = Len(q) + 1
      BY <3>1
    <3>3. QED
      BY <2>2, <2>4, <3>2, SeqAppend
  <2> HIDE DEF Good
  <2>5. QED
    BY <2>2, <2>3, <2>4
<1> HIDE DEF S
<1>7. Len(items) \in S
  BY <1>1, <1>5, <1>6, NatSetInduction
<1>8. Good(g[Len(items)])
  BY <1>1, <1>7 DEF S
<1>9. QED
  BY <1>1, <1>3, <1>8, SeqDomain

\* What After and Without keep.
LEMMA AfterKeeps ==
  ASSUME NEW items, IsSeq(items), NEW seq
  PROVE  /\ IsSeq(After(items, seq))
         /\ \A i \in DOMAIN After(items, seq) : \E j \in DOMAIN items : After(items, seq)[i] = items[j]
<1> DEFINE K == {i \in DOMAIN items : items[i].seq > seq}
<1>1. After(items, seq) = Kept(items, K)
  BY DEF After
<1> HIDE DEF K
<1>2. QED
  BY <1>1, KeptItems

LEMMA WithoutKeeps ==
  ASSUME NEW items, IsSeq(items), NEW src
  PROVE  /\ IsSeq(Without(items, src))
         /\ \A i \in DOMAIN Without(items, src) :
              \E j \in DOMAIN items : Without(items, src)[i] = items[j] /\ items[j].src # src
<1> DEFINE K == {i \in DOMAIN items : items[i].src # src}
<1>1. Without(items, src) = Kept(items, K)
  BY DEF Without
<1>2. \A j \in DOMAIN items \cap K : items[j].src # src
  OBVIOUS
<1> HIDE DEF K
<1>3. QED
  BY <1>1, <1>2, KeptItems

-----------------------------------------------------------------------------
(* Events and states.                                                      *)

EventFields ==
  {"kind", "id", "seq", "src", "after", "turn", "about", "outcome", "tools", "through"}

\* How the id of an event tells what the event is about.
Formed(e) ==
  /\ e.id[1] = "terminal" => e.kind \in {"message.completed", "message.failed"} /\ e.about = e.id[2]
  /\ e.id[1] = "inv-terminal" => e.kind = "invocation.terminal" /\ e.about = e.id[2]
  /\ e.id[1] \in {"wait-resolved", "wait-expired"} => e.kind \in {"wait.resolved", "wait.expired"}
  /\ e.id[1] = "waiting" => e.kind = "turn.waiting"
  /\ e.kind = "message.started" => e.id = <<"started", e.about>> /\ e.about[1] = "msg"
  /\ e.kind = "invocation.started" => e.id = <<"inv-start", e.about>>
  /\ e.kind = "wait.started" => e.id[1] = "wait-started"
  /\ e.kind = "turn.opened" => e.id = <<"opened", e.turn>>

IsEvent(e) ==
  e = [x \in EventFields |-> e[x]] /\ e.seq \in Nat /\ IsFiniteSet(e.tools) /\ Formed(e)
IsEnvelope(e) == IsEvent(e) /\ e.seq # 0

StateFields ==
  {"turn", "call", "pending", "wait", "steering", "prompt", "deferred", "entries", "lastSeq"}

\* What the entries, the queues and the open invocations of a state look like.
Shaped(steering, entries, pending, lastSeq) ==
  /\ IsSeq(steering) /\ IsSeq(entries) /\ lastSeq \in Nat
  /\ IsFiniteSet(pending) /\ \A i, j \in pending : i.inv = j.inv => i = j
  /\ \A i \in DOMAIN entries : IsFiniteSet(entries[i].tools)

TurnFields == {"id", "openedAt", "calls", "interrupted", "waits", "flush"}
IsTurn(turn) ==
  turn = None \/ (turn = [x \in TurnFields |-> turn[x]] /\ turn.openedAt \in Nat \ {0})

IsState(s) ==
  /\ s = [x \in StateFields |-> s[x]] /\ IsTurn(s.turn)
  /\ Shaped(s.steering, s.entries, s.pending, s.lastSeq)

\* AlreadyIngested, for any id.
Known(prompt, steering, entries, id) ==
  \/ prompt # None /\ prompt.id = id
  \/ \E i \in DOMAIN steering : steering[i].id = id
  \/ \E i \in DOMAIN entries : entries[i].kind = "user" /\ entries[i].id = id

\* t is a state that e may lead to from s: it knows no other message than those
\* that s knows, and the one that e is.
Follows(s, e, t) ==
  /\ IsState(t) /\ t.lastSeq = e.seq
  /\ \A id : Known(t.prompt, t.steering, t.entries, id) =>
       Known(s.prompt, s.steering, s.entries, id) \/ (e.kind = "user" /\ e.id = id)

\* An event that leaves the queues and the entries alone.
LEMMA FollowsQuietly ==
  ASSUME NEW s, IsState(s), NEW e, IsEvent(e), NEW t, t = [x \in StateFields |-> t[x]], IsTurn(t.turn),
         t.steering = s.steering, t.entries = s.entries, t.prompt \in {s.prompt, None},
         t.pending = s.pending, t.lastSeq = e.seq
  PROVE  Follows(s, e, t)
<1>1. IsState(t)
  BY DEF IsState, Shaped, IsEvent
<1>2. QED
  BY <1>1 DEF Follows, Known

\* A turn opens; the prompt that was pending is taken.
LEMMA TurnOpenedFollows ==
  ASSUME NEW s, IsState(s), NEW e, IsEnvelope(e), s.lastSeq = e.seq
  PROVE  Follows(s, e, OnTurnOpened(s, e))
<1> DEFINE t == OnTurnOpened(s, e)
<1>1. /\ t = [x \in StateFields |-> t[x]]
      /\ t.steering = s.steering /\ t.entries = s.entries /\ t.prompt = None
      /\ t.pending = s.pending /\ t.lastSeq = s.lastSeq
  BY DEF OnTurnOpened, IsState, StateFields
<1>t. IsTurn(t.turn)
  BY DEF OnTurnOpened, IsState, StateFields, IsTurn, TurnFields, OpenTurn, IsEvent, IsEnvelope
<1> HIDE DEF t
<1>2. QED
  BY <1>1, <1>t, FollowsQuietly DEF t, IsEnvelope

\* A turn closes.
LEMMA TurnClosedFollows ==
  ASSUME NEW s, IsState(s), NEW e, IsEvent(e), s.lastSeq = e.seq
  PROVE  Follows(s, e, OnTurnClosed(s, e))
<1> DEFINE t == OnTurnClosed(s, e)
<1>1. /\ t = [x \in StateFields |-> t[x]]
      /\ t.steering = s.steering /\ t.entries = s.entries /\ t.prompt = s.prompt
      /\ t.pending = s.pending /\ t.lastSeq = s.lastSeq
  BY DEF OnTurnClosed, IsState, StateFields
<1>t. IsTurn(t.turn)
  BY DEF OnTurnClosed, IsState, StateFields, IsTurn, TurnFields
<1> HIDE DEF t
<1>2. QED
  BY <1>1, <1>t, FollowsQuietly DEF t

\* A turn waits.
LEMMA TurnWaitingFollows ==
  ASSUME NEW s, IsState(s), NEW e, IsEvent(e), s.lastSeq = e.seq
  PROVE  Follows(s, e, OnTurnWaiting(s, e))
<1> DEFINE t == OnTurnWaiting(s, e)
<1>1. /\ t = [x \in StateFields |-> t[x]]
      /\ t.steering = s.steering /\ t.entries = s.entries /\ t.prompt = s.prompt
      /\ t.pending = s.pending /\ t.lastSeq = s.lastSeq
  BY DEF OnTurnWaiting, IsState, StateFields
<1>t. IsTurn(t.turn)
  BY DEF OnTurnWaiting, IsState, StateFields, IsTurn, TurnFields
<1> HIDE DEF t
<1>2. QED
  BY <1>1, <1>t, FollowsQuietly DEF t

\* A wait for a credential starts.
LEMMA WaitStartedFollows ==
  ASSUME NEW s, IsState(s), NEW e, IsEvent(e), s.lastSeq = e.seq
  PROVE  Follows(s, e, OnWaitStarted(s, e))
<1> DEFINE t == OnWaitStarted(s, e)
<1>1. /\ t = [x \in StateFields |-> t[x]]
      /\ t.steering = s.steering /\ t.entries = s.entries /\ t.prompt = s.prompt
      /\ t.pending = s.pending /\ t.lastSeq = s.lastSeq
  BY DEF OnWaitStarted, IsState, StateFields
<1>t. IsTurn(t.turn)
  BY DEF OnWaitStarted, IsState, StateFields, IsTurn, TurnFields
<1> HIDE DEF t
<1>2. QED
  BY <1>1, <1>t, FollowsQuietly DEF t

\* A model call consumes steers: what is left was there.
LEMMA MessageStartedFollows ==
  ASSUME NEW s, IsState(s), NEW e, IsEvent(e), s.lastSeq = e.seq
  PROVE  Follows(s, e, OnMessageStarted(s, e))
<1> DEFINE t == OnMessageStarted(s, e)
<1>1. /\ t = [x \in StateFields |-> t[x]]
      /\ t.steering = After(s.steering, e.through) /\ t.entries = s.entries /\ t.prompt = s.prompt
      /\ t.pending = s.pending /\ t.lastSeq = s.lastSeq
  BY DEF OnMessageStarted, IsState, StateFields
<1>t. IsTurn(t.turn)
  BY DEF OnMessageStarted, IsState, StateFields, IsTurn, TurnFields
<1> HIDE DEF t
<1>2. /\ IsSeq(After(s.steering, e.through))
      /\ \A i \in DOMAIN After(s.steering, e.through) :
           \E j \in DOMAIN s.steering : After(s.steering, e.through)[i] = s.steering[j]
  BY AfterKeeps DEF IsState, Shaped
<1>3. IsState(t)
  BY <1>1, <1>2, <1>t DEF IsState, Shaped
<1>4. Follows(s, e, t)
  BY <1>1, <1>2, <1>3 DEF Follows, Known
<1>5. QED
  BY <1>4 DEF t

\* An entry is added.
LEMMA FollowsEntry ==
  ASSUME NEW s, IsState(s), NEW e, IsEvent(e), NEW t, t = [x \in StateFields |-> t[x]], IsTurn(t.turn),
         NEW entry, IsFiniteSet(entry.tools), entry.kind = "user" => e.kind = "user" /\ entry.id = e.id,
         t.entries = Append(s.entries, entry),
         t.steering = s.steering \/ (e.kind = "user" /\ \E q : q.id = e.id /\ t.steering = Append(s.steering, q)),
         t.prompt = s.prompt \/ (e.kind = "user" /\ t.prompt.id = e.id),
         t.lastSeq = e.seq,
         IsFiniteSet(t.pending), \A i, j \in t.pending : i.inv = j.inv => i = j
  PROVE  Follows(s, e, t)
<1>1. IsSeq(s.entries) /\ IsSeq(s.steering)
  BY DEF IsState, Shaped
<1>2. /\ IsSeq(t.entries)
      /\ \A i \in DOMAIN t.entries :
           (i \in DOMAIN s.entries /\ t.entries[i] = s.entries[i]) \/ t.entries[i] = entry
  <2>1. ASSUME NEW q, q = Append(s.entries, entry)
        PROVE  /\ IsSeq(q)
               /\ \A i \in DOMAIN q : (i \in DOMAIN s.entries /\ q[i] = s.entries[i]) \/ q[i] = entry
    BY <1>1, <2>1, AppendElements
  <2>2. QED
    BY <2>1
<1>3. /\ IsSeq(t.steering)
      /\ \A i \in DOMAIN t.steering :
           (i \in DOMAIN s.steering /\ t.steering[i] = s.steering[i])
             \/ (e.kind = "user" /\ t.steering[i].id = e.id)
  <2>1. ASSUME NEW q, NEW x, q = Append(s.steering, x)
        PROVE  /\ IsSeq(q)
               /\ \A i \in DOMAIN q : (i \in DOMAIN s.steering /\ q[i] = s.steering[i]) \/ q[i] = x
    BY <1>1, <2>1, AppendElements
  <2>2. CASE t.steering = s.steering
    BY <1>1, <2>2
  <2>3. CASE e.kind = "user" /\ \E q : q.id = e.id /\ t.steering = Append(s.steering, q)
    <3>1. PICK x : x.id = e.id /\ t.steering = Append(s.steering, x)
      BY <2>3
    <3>2. /\ IsSeq(t.steering)
          /\ \A i \in DOMAIN t.steering :
               (i \in DOMAIN s.steering /\ t.steering[i] = s.steering[i]) \/ t.steering[i] = x
      BY <3>1, <2>1
    <3>3. QED
      BY <2>3, <3>1, <3>2
  <2>4. QED
    BY <2>2, <2>3
<1>4. \A i \in DOMAIN t.entries : IsFiniteSet(t.entries[i].tools)
  BY <1>2 DEF IsState, Shaped
<1>5. IsState(t)
  BY <1>2, <1>3, <1>4 DEF IsState, Shaped, IsEvent
<1>6. QED
  BY <1>2, <1>3, <1>5 DEF Follows, Known

\* The terminal of a model call adds its answer.
LEMMA MessageTerminalFollows ==
  ASSUME NEW s, IsState(s), NEW e, IsEvent(e), s.lastSeq = e.seq, e.kind # "user"
  PROVE  Follows(s, e, OnMessageTerminal(s, e))
<1> DEFINE t == OnMessageTerminal(s, e)
           entry == [kind |-> "assistant", id |-> e.about, tools |-> e.tools]
<1>1. /\ t = [x \in StateFields |-> t[x]]
      /\ t.entries = s.entries \/ t.entries = Append(s.entries, entry)
      /\ t.steering = s.steering /\ t.prompt = s.prompt
      /\ t.pending = s.pending /\ t.lastSeq = s.lastSeq
  BY DEF OnMessageTerminal, IsState, StateFields
<1>2. entry.kind # "user" /\ IsFiniteSet(entry.tools)
  BY DEF IsEvent
<1>t. IsTurn(t.turn)
  BY DEF OnMessageTerminal, IsState, StateFields, IsTurn, TurnFields
<1> HIDE DEF t, entry
<1>3. CASE t.entries = s.entries
  <2>1. Follows(s, e, t)
    BY <1>1, <1>3, <1>t, FollowsQuietly
  <2>2. QED
    BY <2>1 DEF t
<1>4. CASE t.entries = Append(s.entries, entry)
  <2>1. IsFiniteSet(t.pending) /\ \A i, j \in t.pending : i.inv = j.inv => i = j
    BY <1>1 DEF IsState, Shaped
  <2>2. Follows(s, e, t)
    BY <1>1, <1>2, <1>4, <2>1, <1>t, FollowsEntry
  <2>3. QED
    BY <2>2 DEF t
<1>5. QED
  BY <1>1, <1>3, <1>4

\* A user message is known from then on, unless it waits behind the turn.
LEMMA UserMessageFollows ==
  ASSUME NEW s, IsState(s), NEW e, IsEvent(e), s.lastSeq = e.seq, e.kind = "user"
  PROVE  Follows(s, e, OnUserMessage(s, e))
<1> DEFINE t == OnUserMessage(s, e)
           item == [src |-> e.src, id |-> e.id, seq |-> e.seq]
           entry == [kind |-> "user", id |-> e.id, tools |-> {}]
           kept == Without(s.deferred, e.src)
           read == [s EXCEPT !.deferred = kept, !.entries = Append(@, entry)]
           waits == Append(s.deferred, item)
<1>0. t = IF e.after /\ s.turn # None THEN [s EXCEPT !.deferred = waits]
          ELSE IF s.turn # None THEN [read EXCEPT !.steering = Append(@, item)]
          ELSE [read EXCEPT !.prompt = item]
  BY DEF OnUserMessage
<1>1. entry.kind = "user" /\ entry.id = e.id /\ IsFiniteSet(entry.tools) /\ item.id = e.id
  BY FS_EmptySet
<1>2. IsFiniteSet(s.pending) /\ \A i, j \in s.pending : i.inv = j.inv => i = j
  BY DEF IsState, Shaped
<1>t. IsTurn(s.turn)
  BY DEF IsState
<1> HIDE DEF t, item, entry, kept, waits
<1>3. CASE t = [s EXCEPT !.deferred = waits]
  <2>1. /\ t = [x \in StateFields |-> t[x]] /\ t.entries = s.entries /\ t.steering = s.steering
        /\ t.prompt = s.prompt /\ t.pending = s.pending /\ t.lastSeq = s.lastSeq /\ t.turn = s.turn
    BY <1>3 DEF IsState, StateFields
  <2>2. Follows(s, e, t)
    BY <2>1, <1>t, FollowsQuietly
  <2>3. QED
    BY <2>2 DEF t
<1>4. CASE t = [read EXCEPT !.steering = Append(@, item)]
  <2>1. /\ t = [x \in StateFields |-> t[x]] /\ t.entries = Append(s.entries, entry)
        /\ t.steering = Append(s.steering, item)
        /\ t.prompt = s.prompt /\ t.pending = s.pending /\ t.lastSeq = s.lastSeq /\ t.turn = s.turn
    BY <1>4 DEF IsState, StateFields
  <2>2. Follows(s, e, t)
    BY <1>1, <1>2, <2>1, <1>t, FollowsEntry
  <2>3. QED
    BY <2>2 DEF t
<1>5. CASE t = [read EXCEPT !.prompt = item]
  <2>1. /\ t = [x \in StateFields |-> t[x]] /\ t.entries = Append(s.entries, entry)
        /\ t.steering = s.steering
        /\ t.prompt = item /\ t.pending = s.pending /\ t.lastSeq = s.lastSeq /\ t.turn = s.turn
    BY <1>5 DEF IsState, StateFields
  <2>2. Follows(s, e, t)
    BY <1>1, <1>2, <2>1, <1>t, FollowsEntry
  <2>3. QED
    BY <2>2 DEF t
<1>6. QED
  BY <1>0, <1>3, <1>4, <1>5

\* An invocation is pending once, however often it was started.
LEMMA InvocationStartedFollows ==
  ASSUME NEW s, IsState(s), NEW e, IsEvent(e), s.lastSeq = e.seq
  PROVE  Follows(s, e, OnInvocationStarted(s, e))
<1> DEFINE t == OnInvocationStarted(s, e)
           new == [inv |-> e.about, turn |-> e.turn]
           others == {i \in s.pending : i.inv # e.about}
<1>1. /\ t = [x \in StateFields |-> t[x]]
      /\ t.steering = s.steering /\ t.entries = s.entries /\ t.prompt = s.prompt
      /\ t.pending = others \cup {new} /\ t.lastSeq = s.lastSeq
  BY DEF OnInvocationStarted, IsState, StateFields
<1>2. IsFiniteSet(s.pending) /\ \A i, j \in s.pending : i.inv = j.inv => i = j
  BY DEF IsState, Shaped
<1>3. IsFiniteSet(others \cup {new})
  <2>1. IsFiniteSet(others)
    BY <1>2, FS_Subset
  <2>2. QED
    BY <2>1, FS_Singleton, FS_Union
<1>4. new.inv = e.about /\ \A i \in others : i \in s.pending /\ i.inv # e.about
  OBVIOUS
<1>t. IsTurn(t.turn)
  BY DEF OnInvocationStarted, IsState, StateFields, IsTurn, TurnFields
<1> HIDE DEF t, new, others
<1>5. \A i, j \in t.pending : i.inv = j.inv => i = j
  BY <1>1, <1>2, <1>4
<1>6. IsState(t)
  BY <1>1, <1>3, <1>5, <1>t DEF IsState, Shaped
<1>7. Follows(s, e, t)
  BY <1>1, <1>6 DEF Follows, Known
<1>8. QED
  BY <1>7 DEF t

\* The terminal of an invocation that is pending adds its result.
LEMMA InvocationTerminalFollows ==
  ASSUME NEW s, IsState(s), NEW e, IsEvent(e), s.lastSeq = e.seq, e.kind # "user"
  PROVE  Follows(s, e, OnInvocationTerminal(s, e))
<1> DEFINE t == OnInvocationTerminal(s, e)
           entry == [kind |-> "tool-result", id |-> e.about, tools |-> {}]
           others == {i \in s.pending : i.inv # e.about}
<1>1. /\ t = [x \in StateFields |-> t[x]]
      /\ \/ t.entries = s.entries /\ t.pending = s.pending
         \/ t.entries = Append(s.entries, entry) /\ t.pending = others
      /\ t.steering = s.steering /\ t.prompt = s.prompt /\ t.lastSeq = s.lastSeq
  BY DEF OnInvocationTerminal, IsState, StateFields
<1>2. entry.kind # "user" /\ IsFiniteSet(entry.tools)
  BY FS_EmptySet
<1>3. IsFiniteSet(s.pending) /\ \A i, j \in s.pending : i.inv = j.inv => i = j
  BY DEF IsState, Shaped
<1>4. IsFiniteSet(others) /\ \A i, j \in others : i.inv = j.inv => i = j
  BY <1>3, FS_Subset
<1>t. IsTurn(t.turn)
  BY DEF OnInvocationTerminal, IsState, StateFields, IsTurn, TurnFields
<1> HIDE DEF t, entry, others
<1>5. CASE t.entries = s.entries /\ t.pending = s.pending
  <2>1. Follows(s, e, t)
    BY <1>1, <1>5, <1>t, FollowsQuietly
  <2>2. QED
    BY <2>1 DEF t
<1>6. CASE t.entries = Append(s.entries, entry) /\ t.pending = others
  <2>1. Follows(s, e, t)
    BY <1>1, <1>2, <1>4, <1>6, <1>t, FollowsEntry
  <2>2. QED
    BY <2>1 DEF t
<1>7. QED
  BY <1>1, <1>5, <1>6

\* Whatever the event is.
LEMMA ApplyEventFollows ==
  ASSUME NEW prev, IsState(prev), NEW e, IsEnvelope(e)
  PROVE  Follows(prev, e, ApplyEvent(prev, e))
<1> DEFINE s == [prev EXCEPT !.lastSeq = e.seq]
           t == ApplyEvent(prev, e)
<1>1. /\ s = [x \in StateFields |-> s[x]] /\ s.lastSeq = e.seq
      /\ s.steering = prev.steering /\ s.entries = prev.entries /\ s.prompt = prev.prompt
      /\ s.pending = prev.pending /\ s.turn = prev.turn /\ IsTurn(s.turn)
  BY DEF IsState, StateFields
<1>2. t =
    CASE e.kind = "turn.opened" -> OnTurnOpened(s, e)
      [] e.kind = "turn.closed" -> OnTurnClosed(s, e)
      [] e.kind = "turn.waiting" -> OnTurnWaiting(s, e)
      [] e.kind = "message.started" -> OnMessageStarted(s, e)
      [] e.kind \in {"message.completed", "message.failed"} -> OnMessageTerminal(s, e)
      [] e.kind = "user" -> OnUserMessage(s, e)
      [] e.kind = "invocation.started" -> OnInvocationStarted(s, e)
      [] e.kind = "invocation.terminal" -> OnInvocationTerminal(s, e)
      [] e.kind = "wait.started" -> OnWaitStarted(s, e)
      [] e.kind \in {"wait.resolved", "wait.expired"} -> [s EXCEPT !.wait = None]
      [] e.kind = "interrupt" ->
           IF s.turn = None THEN s ELSE [s EXCEPT !.turn.interrupted = TRUE]
      [] e.kind = "flush" -> IF s.turn = None THEN s ELSE [s EXCEPT !.turn.flush = TRUE]
      [] OTHER -> s
  BY DEF ApplyEvent
<1> HIDE DEF s, t
<1>3. IsState(s)
  BY <1>1 DEF IsState, Shaped, IsEvent, IsEnvelope
<1>e. IsEvent(e)
  BY DEF IsEnvelope
<1>4. ASSUME NEW u, Follows(s, e, u) PROVE Follows(prev, e, u)
  <2>1. \A id : Known(s.prompt, s.steering, s.entries, id) = Known(prev.prompt, prev.steering, prev.entries, id)
    BY <1>1
  <2>2. QED
    BY <2>1, <1>4 DEF Follows
<1>5. ASSUME NEW u,
             \/ u \in {s, [s EXCEPT !.wait = None]}
             \/ s.turn # None /\ u \in {[s EXCEPT !.turn.interrupted = TRUE], [s EXCEPT !.turn.flush = TRUE]}
      PROVE  Follows(s, e, u)
  <2>1. /\ u = [x \in StateFields |-> u[x]]
        /\ u.steering = s.steering /\ u.entries = s.entries /\ u.prompt = s.prompt
        /\ u.pending = s.pending /\ u.lastSeq = s.lastSeq
    BY <1>1, <1>5 DEF StateFields
  <2>2. IsTurn(u.turn)
    BY <1>1, <1>5 DEF StateFields, IsTurn, TurnFields
  <2>3. QED
    BY <1>1, <1>3, <1>e, <2>1, <2>2, FollowsQuietly
<1>6. Follows(s, e, OnTurnOpened(s, e)) /\ Follows(s, e, OnTurnClosed(s, e))
  BY <1>1, <1>3, <1>e, TurnOpenedFollows, TurnClosedFollows
<1>7. Follows(s, e, OnTurnWaiting(s, e)) /\ Follows(s, e, OnWaitStarted(s, e))
  BY <1>1, <1>3, <1>e, TurnWaitingFollows, WaitStartedFollows
<1>8. Follows(s, e, OnMessageStarted(s, e)) /\ Follows(s, e, OnInvocationStarted(s, e))
  BY <1>1, <1>3, <1>e, MessageStartedFollows, InvocationStartedFollows
<1>9. e.kind = "user" => Follows(s, e, OnUserMessage(s, e))
  BY <1>1, <1>3, <1>e, UserMessageFollows
<1>10. e.kind # "user" => Follows(s, e, OnMessageTerminal(s, e)) /\ Follows(s, e, OnInvocationTerminal(s, e))
  BY <1>1, <1>3, <1>e, MessageTerminalFollows, InvocationTerminalFollows
<1>11. \/ t = OnTurnOpened(s, e) \/ t = OnTurnClosed(s, e) \/ t = OnTurnWaiting(s, e)
       \/ t = OnMessageStarted(s, e) \/ t = OnInvocationStarted(s, e) \/ t = OnWaitStarted(s, e)
       \/ e.kind = "user" /\ t = OnUserMessage(s, e)
       \/ e.kind # "user" /\ t = OnMessageTerminal(s, e)
       \/ e.kind # "user" /\ t = OnInvocationTerminal(s, e)
       \/ t \in {s, [s EXCEPT !.wait = None]}
       \/ s.turn # None /\ t \in {[s EXCEPT !.turn.interrupted = TRUE], [s EXCEPT !.turn.flush = TRUE]}
  BY <1>2
<1>12. Follows(s, e, t)
  BY <1>5, <1>6, <1>7, <1>8, <1>9, <1>10, <1>11
<1>13. QED
  BY <1>4, <1>12 DEF t

\* A fold of events ends in a state that knows what the first state knows, and
\* what is among the events.
LEMMA FoldKeeps ==
  ASSUME NEW s, IsState(s), NEW es, IsSeq(es), \A i \in DOMAIN es : IsEnvelope(es[i])
  PROVE  LET t == FoldEvents(s, es)
         IN  /\ IsState(t)
             /\ \A id : Known(t.prompt, t.steering, t.entries, id) =>
                  Known(s.prompt, s.steering, s.entries, id) \/ \E i \in DOMAIN es : es[i].id = id
<1>1. Len(es) \in Nat /\ DOMAIN es = 1 .. Len(es)
  BY SeqDomain
<1>2. PICK g : LeadsTo(g, s, es)
  BY FoldStates
<1> DEFINE Old(id) == Known(s.prompt, s.steering, s.entries, id)
           In(id) == \E i \in DOMAIN es : es[i].id = id
           Good(t) == /\ IsState(t)
                      /\ \A id : Known(t.prompt, t.steering, t.entries, id) => Old(id) \/ In(id)
           S == {n \in Nat : n <= Len(es) => Good(g[n])}
<1>3. 0 \in S
  BY <1>2 DEF LeadsTo
<1>4. ASSUME NEW n \in Nat, n \in S PROVE n + 1 \in S
  <2>1. SUFFICES ASSUME n + 1 <= Len(es) PROVE Good(g[n + 1])
    OBVIOUS
  <2>2. n + 1 \in DOMAIN es /\ (n + 1) - 1 = n /\ Good(g[n])
    BY <1>1, <1>4, <2>1
  <2>3. g[n + 1] = ApplyEvent(g[n], es[n + 1])
    BY <1>1, <1>2, <2>2 DEF LeadsTo
  <2>4. IsEnvelope(es[n + 1]) /\ In(es[n + 1].id)
    BY <2>2
  <2>5. Follows(g[n], es[n + 1], g[n + 1])
    BY <2>2, <2>3, <2>4, ApplyEventFollows
  <2> HIDE DEF Old, In
  <2>6. QED
    BY <2>2, <2>4, <2>5 DEF Follows
<1> HIDE DEF S
<1>5. Len(es) \in S
  BY <1>1, <1>3, <1>4, NatSetInduction
<1>6. Good(g[Len(es)])
  BY <1>1, <1>5 DEF S
<1>7. QED
  BY <1>2, <1>6 DEF LeadsTo

\* The state after a batch that is not appended yet.
LEMMA ProjectIsState ==
  ASSUME NEW s, IsState(s), NEW items, IsSeq(items), \A i \in DOMAIN items : IsEvent(items[i])
  PROVE  IsState(ProjectAppend(s, items))
<1> DEFINE es == [i \in DOMAIN items |-> [items[i] EXCEPT !.seq = s.lastSeq + i]]
<1>1. Len(items) \in Nat /\ DOMAIN items = 1 .. Len(items) /\ s.lastSeq \in Nat
  BY SeqDomain DEF IsState, Shaped
<1>2. ASSUME NEW i \in DOMAIN items PROVE IsEnvelope(es[i])
  <2>1. s.lastSeq + i \in Nat /\ s.lastSeq + i # 0
    BY <1>1
  <2>2. QED
    BY <2>1 DEF IsEnvelope, IsEvent, Formed, EventFields
<1>3. es \in [1 .. Len(items) -> {es[i] : i \in DOMAIN items}]
  BY <1>1
<1>4. IsSeq(es) /\ DOMAIN es = DOMAIN items
  BY <1>1, <1>3, FcnIsSeq
<1> HIDE DEF es
<1>5. IsState(FoldEvents(s, es))
  BY <1>2, <1>4, FoldKeeps
<1>6. QED
  BY <1>5 DEF ProjectAppend, es

-----------------------------------------------------------------------------
(* Batches: what a step appends has every id once.  Ids are told apart by  *)
(* the tag they start with, or by what follows it.                         *)

Batch(items, tags) ==
  /\ IsSeq(items)
  /\ \A i \in DOMAIN items : IsEvent(items[i]) /\ items[i].id[1] \in tags
  /\ \A i, j \in DOMAIN items : items[i].id = items[j].id => i = j

\* A batch of nothing.
LEMMA BatchEmpty ==
  ASSUME NEW tags
  PROVE  Batch(<<>>, tags)
BY SeqEmpty DEF Batch

\* A batch of one event.
LEMMA BatchSingle ==
  ASSUME NEW e, IsEvent(e)
  PROVE  Batch(<<e>>, {e.id[1]})
<1> DEFINE q == <<e>>
<1>1. IsSeq(q) /\ DOMAIN q = {1} /\ q[1] = e
  BY SeqSingle
<1> HIDE DEF q
<1>2. Batch(q, {e.id[1]})
  BY <1>1 DEF Batch
<1>3. QED
  BY <1>2 DEF q

\* More tags.
LEMMA BatchWiden ==
  ASSUME NEW items, NEW tags, NEW more, Batch(items, tags), tags \subseteq more
  PROVE  Batch(items, more)
BY DEF Batch

\* Two batches with different tags, one after the other.
LEMMA BatchConcat ==
  ASSUME NEW a, NEW b, NEW s, NEW t, Batch(a, s), Batch(b, t), s \cap t = {}
  PROVE  Batch(a \o b, s \cup t)
<1> DEFINE c == a \o b
<1>1. IsSeq(a) /\ IsSeq(b)
  BY DEF Batch
<1>2. /\ IsSeq(c) /\ Len(a) \in Nat /\ DOMAIN a = 1 .. Len(a) /\ DOMAIN b = 1 .. Len(b)
      /\ \A i \in DOMAIN c :
           \/ i \in DOMAIN a /\ c[i] = a[i]
           \/ i \notin DOMAIN a /\ i - Len(a) \in DOMAIN b /\ c[i] = b[i - Len(a)]
  BY <1>1, ConcatElements, SeqDomain
<1>3. \A i \in DOMAIN c : i \in Int
  BY <1>2, SeqDomain
<1> HIDE DEF c
<1>4. \A i \in DOMAIN c : IsEvent(c[i]) /\ c[i].id[1] \in s \cup t
  BY <1>2 DEF Batch
<1>5. ASSUME NEW i \in DOMAIN c, NEW j \in DOMAIN c, c[i].id = c[j].id PROVE i = j
  <2>1. CASE i \in DOMAIN a /\ j \in DOMAIN a
    BY <1>2, <1>5, <2>1 DEF Batch
  <2>2. CASE i \notin DOMAIN a /\ j \notin DOMAIN a
    <3>1. i - Len(a) = j - Len(a)
      BY <1>2, <1>5, <2>2 DEF Batch
    <3>2. QED
      BY <1>2, <1>3, <3>1
  <2>3. CASE i \in DOMAIN a /\ j \notin DOMAIN a
    BY <1>2, <1>5, <2>3 DEF Batch
  <2>4. CASE i \notin DOMAIN a /\ j \in DOMAIN a
    BY <1>2, <1>5, <2>4 DEF Batch
  <2>5. QED
    BY <2>1, <2>2, <2>3, <2>4
<1>6. QED
  BY <1>2, <1>4, <1>5 DEF Batch, c

\* The elements of a finite set, in a sequence.
LEMMA SetToSeqIs ==
  ASSUME NEW X, IsFiniteSet(X)
  PROVE  /\ IsSeq(SetToSeq(X))
         /\ \A i \in DOMAIN SetToSeq(X) : SetToSeq(X)[i] \in X
         /\ \A x \in X : \E i \in DOMAIN SetToSeq(X) : SetToSeq(X)[i] = x
<1> DEFINE q == SetToSeq(X)
           N == Cardinality(X)
           D == 1 .. N
<1>1. N \in Nat /\ \E g : g \in Bijection(D, X)
  BY FS_CardinalityType DEF ExistsBijection
<1>2. \E g \in [D -> X] : IsInjective(g)
  <2>1. PICK g : g \in Bijection(D, X)
    BY <1>1
  <2>2. QED
    BY <2>1 DEF Bijection, Injection, IsInjective
<1>3. q \in [D -> X] /\ IsInjective(q)
  BY <1>2 DEF SetToSeq
<1>4. IsFiniteSet(D) /\ Cardinality(D) = N
  BY <1>1, FS_Interval
<1> HIDE DEF q, N
<1>5. IsSeq(q)
  BY <1>1, <1>3, FcnIsSeq
<1> HIDE DEF D
<1>6. q \in Injection(D, X)
  BY <1>3 DEF Injection, IsInjective
<1>7. q \in Surjection(D, X)
  BY <1>4, <1>6, FS_Injection DEF N
<1>8. \A x \in X : \E i \in DOMAIN q : q[i] = x
  BY <1>3, <1>7 DEF Surjection
<1>9. QED
  BY <1>3, <1>5, <1>8 DEF q

\* A batch of the events of a set.
LEMMA BatchOfSet ==
  ASSUME NEW X, IsFiniteSet(X), NEW tags,
         \A x \in X : IsEvent(x) /\ x.id[1] \in tags,
         \A x, y \in X : x.id = y.id => x = y
  PROVE  Batch(SetToSeq(X), tags)
<1> DEFINE q == SetToSeq(X)
<1>1. Cardinality(X) \in Nat /\ \E g : g \in Bijection(1 .. Cardinality(X), X)
  BY FS_CardinalityType DEF ExistsBijection
<1>2. \E g \in [1 .. Cardinality(X) -> X] : IsInjective(g)
  <2>1. PICK g : g \in Bijection(1 .. Cardinality(X), X)
    BY <1>1
  <2>2. QED
    BY <2>1 DEF Bijection, Injection, IsInjective
<1>3. q \in [1 .. Cardinality(X) -> X] /\ IsInjective(q)
  BY <1>2 DEF SetToSeq
<1> HIDE DEF q
<1>4. IsSeq(q)
  BY <1>1, <1>3, FcnIsSeq
<1>5. \A i, j \in DOMAIN q : q[i] = q[j] => i = j
  BY <1>3 DEF IsInjective
<1>6. \A i \in DOMAIN q : q[i] \in X
  BY <1>3
<1>7. QED
  BY <1>4, <1>5, <1>6 DEF Batch, q

\* The events of a batch, and the last one.
LEMMA BatchAppend ==
  ASSUME NEW a, NEW s, Batch(a, s), NEW e, IsEvent(e), e.id[1] \notin s
  PROVE  Batch(Append(a, e), s \cup {e.id[1]})
<1>1. IsSeq(a)
  BY DEF Batch
<1>2. Append(a, e) = a \o <<e>>
  <2>1. PICK S : a \in Seq(S)
    BY <1>1 DEF IsSeq
  <2> DEFINE T == S \cup {e}
  <2>2. a \in Seq(T) /\ e \in T
    BY <2>1
  <2> HIDE DEF T
  <2>3. QED
    BY <2>2
<1>3. Batch(<<e>>, {e.id[1]})
  BY BatchSingle
<1>4. s \cap {e.id[1]} = {}
  OBVIOUS
<1>5. QED
  BY <1>2, <1>3, <1>4, BatchConcat

\* An effect of one of the three kinds, and a set of effects with different ids.
IsEffect(effect) == effect.id[1] \in {"model", "inv", "cred"}
Effects(set) ==
  /\ \A e \in set : IsEffect(e)
  /\ \A e, d \in set : e.id = d.id => e = d

\* The event that begins the effect with an id; effects that the events of a batch
\* begin.
StartId(id) == IF id[1] = "model" THEN <<"started", id[2]>> ELSE <<"inv-start", id[2]>>
Starts(items, effects) ==
  \A e \in effects :
    /\ e.id[1] \in {"model", "inv"}
    /\ e.id[1] = "model" => e.id[2][1] = "msg"
    /\ \E i \in DOMAIN items : items[i].id = StartId(e.id)

IsOutput(out, tags) ==
  Batch(out.append, tags) /\ Effects(out.effects) /\ Starts(out.append, out.effects)

\* What the constructors of events build.
LEMMA EventsAreEvents ==
  ASSUME NEW a, NEW b, NEW c
  PROVE  /\ IsEvent(Recv(a)) /\ Recv(a).id = RecvId(a)
         /\ IsEvent(TurnOpened(a)) /\ TurnOpened(a).id[1] = "opened"
         /\ IsEvent(TurnClosed(a)) /\ TurnClosed(a).id[1] = "closed"
         /\ IsEvent(TurnWaiting(a, b)) /\ TurnWaiting(a, b).id[1] = "waiting"
         /\ IsEvent(MessageStarted(a, MessageId(a, b), c))
         /\ MessageStarted(a, MessageId(a, b), c).id = <<"started", MessageId(a, b)>>
         /\ IsEvent(MessageFailed(a, b)) /\ MessageFailed(a, b).id[1] = "terminal"
         /\ IsEvent(Diagnostic(a, b)) /\ Diagnostic(a, b).id[1] = "diag"
         /\ IsEvent(InvocationStarted(a, b)) /\ InvocationStarted(a, b).id = <<"inv-start", b>>
         /\ IsEvent(InvocationTerminal(a, b, c)) /\ InvocationTerminal(a, b, c).id = <<"inv-terminal", b>>
         /\ IsEvent(WaitStarted(a, b, c)) /\ WaitStarted(a, b, c).id[1] = "wait-started"
         /\ IsEvent(WaitResolved(a, b, c)) /\ WaitResolved(a, b, c).id[1] = "wait-resolved"
         /\ IsEvent(WaitExpired(a, b)) /\ WaitExpired(a, b).id[1] = "wait-expired"
         /\ IsEvent(Interrupt(a)) /\ Interrupt(a).id[1] = "interrupt"
         /\ IsEvent(FlushSteers(a, b)) /\ FlushSteers(a, b).id[1] = "flush"
         /\ IsEvent(ResumeDue(a, b, c)) /\ ResumeDue(a, b, c).id[1] = "resume"
<1>1. IsFiniteSet({})
  BY FS_EmptySet
<1>2. /\ IsEvent(Recv(a)) /\ Recv(a).id = RecvId(a)
      /\ IsEvent(TurnOpened(a)) /\ TurnOpened(a).id[1] = "opened"
      /\ IsEvent(TurnClosed(a)) /\ TurnClosed(a).id[1] = "closed"
      /\ IsEvent(TurnWaiting(a, b)) /\ TurnWaiting(a, b).id[1] = "waiting"
  BY <1>1 DEF IsEvent, Formed, EventFields, Event, Recv, TurnOpened, TurnClosed, TurnWaiting, RecvId
<1>3. /\ IsEvent(MessageStarted(a, MessageId(a, b), c))
      /\ MessageStarted(a, MessageId(a, b), c).id = <<"started", MessageId(a, b)>>
      /\ IsEvent(MessageFailed(a, b)) /\ MessageFailed(a, b).id[1] = "terminal"
      /\ IsEvent(Diagnostic(a, b)) /\ Diagnostic(a, b).id[1] = "diag"
  BY <1>1 DEF IsEvent, Formed, EventFields, Event, MessageStarted, MessageFailed, Diagnostic, DiagId, MessageId
<1>4. /\ IsEvent(InvocationStarted(a, b)) /\ InvocationStarted(a, b).id = <<"inv-start", b>>
      /\ IsEvent(InvocationTerminal(a, b, c)) /\ InvocationTerminal(a, b, c).id = <<"inv-terminal", b>>
  BY <1>1 DEF IsEvent, Formed, EventFields, Event, InvocationStarted, InvocationTerminal
<1>5. /\ IsEvent(WaitStarted(a, b, c)) /\ WaitStarted(a, b, c).id[1] = "wait-started"
      /\ IsEvent(WaitResolved(a, b, c)) /\ WaitResolved(a, b, c).id[1] = "wait-resolved"
      /\ IsEvent(WaitExpired(a, b)) /\ WaitExpired(a, b).id[1] = "wait-expired"
  BY <1>1 DEF IsEvent, Formed, EventFields, Event, WaitStarted, WaitResolved, WaitExpired
<1>6. /\ IsEvent(Interrupt(a)) /\ Interrupt(a).id[1] = "interrupt"
      /\ IsEvent(FlushSteers(a, b)) /\ FlushSteers(a, b).id[1] = "flush"
      /\ IsEvent(ResumeDue(a, b, c)) /\ ResumeDue(a, b, c).id[1] = "resume"
  BY <1>1 DEF IsEvent, Formed, EventFields, Event, Interrupt, FlushSteers, ResumeDue
<1>7. QED
  BY <1>2, <1>3, <1>4, <1>5, <1>6

\* The two events whose contents depend on the outcome of a call or on the queue.
LEMMA AnswersAreEvents ==
  ASSUME NEW msg, NEW outcome, NEW tools, IsFiniteSet(tools)
  PROVE  IsEvent(MessageCompleted(msg, outcome, tools)) /\ MessageCompleted(msg, outcome, tools).id[1] = "terminal"
BY DEF IsEvent, Formed, EventFields, Event, MessageCompleted

\* A message that was deferred, received again.
LEMMA PromotedIsEvent ==
  ASSUME NEW d, NEW seq
  PROVE  IsEvent(PromotedRecv(d, seq)) /\ PromotedRecv(d, seq).id[1] = "promoted"
BY FS_EmptySet DEF IsEvent, Formed, EventFields, Event, PromotedRecv, PromotedId

\* A model call is started.
LEMMA ModelStartOutput ==
  ASSUME NEW s, NEW turn, NEW count, NEW before
  PROVE  IsOutput(ModelStart(s, turn, count, before), {"started"})
<1> DEFINE e == MessageStarted(turn, MessageId(turn, count), s.lastSeq + before)
           d == ModelEffect(MessageId(turn, count))
<1>1. IsEvent(e) /\ e.id = <<"started", MessageId(turn, count)>> /\ e.id[1] = "started"
  BY EventsAreEvents
<1>2. d.id = <<"model", MessageId(turn, count)>> /\ d.id[1] = "model" /\ d.id[2][1] = "msg"
  BY DEF ModelEffect, Effect, MessageId
<1>s. e.id = StartId(d.id)
  BY <1>1, <1>2 DEF StartId
<1>3. ModelStart(s, turn, count, before) = [append |-> <<e>>, effects |-> {d}]
  BY DEF ModelStart, Output
<1> HIDE DEF e, d
<1>4. Batch(<<e>>, {"started"})
  BY <1>1, BatchSingle
<1>5. Effects({d})
  BY <1>2 DEF Effects, IsEffect
<1>6. Starts(<<e>>, {d})
  BY <1>2, <1>s, SeqSingle DEF Starts
<1>7. QED
  BY <1>3, <1>4, <1>5, <1>6 DEF IsOutput

\* An output without effects.
LEMMA PlainOutput ==
  ASSUME NEW items, NEW tags, Batch(items, tags)
  PROVE  IsOutput(Output(items, {}), tags)
BY DEF IsOutput, Output, Effects, Starts

\* Nothing to do.
LEMMA EmptyOutput == IsOutput(Empty, {})
<1>1. Batch(<<>>, {})
  BY BatchEmpty
<1>2. QED
  BY <1>1, PlainOutput DEF Empty

\* Events before an output.
LEMMA ThenOutput ==
  ASSUME NEW first, NEW s, Batch(first, s), NEW out, NEW t, IsOutput(out, t), s \cap t = {}
  PROVE  IsOutput(Then(first, out), s \cup t)
<1>1. Batch(first \o out.append, s \cup t)
  BY BatchConcat DEF IsOutput
<1>2. Starts(first \o out.append, out.effects)
  <2> DEFINE a == first
             b == out.append
             c == a \o b
  <2>1. IsSeq(a) /\ IsSeq(b)
    BY DEF IsOutput, Batch
  <2>s. Starts(b, out.effects)
    BY DEF IsOutput
  <2> HIDE DEF a, b
  <2>2. \A i \in DOMAIN b : \E k \in DOMAIN c : c[k] = b[i]
    BY <2>1, ConcatHolds
  <2> HIDE DEF c
  <2>3. Starts(c, out.effects)
    BY <2>2, <2>s DEF Starts
  <2>4. QED
    BY <2>3 DEF a, b, c
<1>3. QED
  BY <1>1, <1>2 DEF IsOutput, Then, Output

\* An event and then an output.
LEMMA EventThenOutput ==
  ASSUME NEW e, IsEvent(e), NEW out, NEW t, IsOutput(out, t), e.id[1] \notin t
  PROVE  IsOutput(Then(<<e>>, out), t \cup {e.id[1]})
<1>1. Batch(<<e>>, {e.id[1]})
  BY BatchSingle
<1>2. {e.id[1]} \cap t = {} /\ {e.id[1]} \cup t = t \cup {e.id[1]}
  OBVIOUS
<1>3. IsOutput(Then(<<e>>, out), {e.id[1]} \cup t)
  BY <1>1, <1>2, ThenOutput
<1>4. QED
  BY <1>2, <1>3

\* Two events.
LEMMA BatchPair ==
  ASSUME NEW e, IsEvent(e), NEW d, IsEvent(d), e.id[1] # d.id[1]
  PROVE  Batch(<<e, d>>, {e.id[1], d.id[1]})
<1> DEFINE q == <<e, d>>
<1>1. q \in Seq({e, d}) /\ DOMAIN q = {1, 2} /\ q[1] = e /\ q[2] = d
  OBVIOUS
<1>2. IsSeq(q)
  BY <1>1 DEF IsSeq
<1> HIDE DEF q
<1>3. Batch(q, {e.id[1], d.id[1]})
  BY <1>1, <1>2 DEF Batch
<1>4. QED
  BY <1>3 DEF q

\* Another call, or the close.
LEMMA NextModelCallOutput ==
  ASSUME NEW s, NEW before
  PROVE  IsOutput(NextModelCall(s, before), {"started", "diag", "closed"})
<1> DEFINE tags == {"started", "diag", "closed"}
           e == Diagnostic(s.turn.id, <<"max-calls">>)
           d == TurnClosed(s.turn.id)
           call == ModelStart(s, s.turn.id, s.turn.calls, before)
<1>0. ASSUME NEW turn, NEW what
      PROVE  /\ IsEvent(Diagnostic(turn, what)) /\ Diagnostic(turn, what).id[1] = "diag"
             /\ IsEvent(TurnClosed(turn)) /\ TurnClosed(turn).id[1] = "closed"
  BY EventsAreEvents
<1>1. IsEvent(e) /\ e.id[1] = "diag" /\ IsEvent(d) /\ d.id[1] = "closed"
  BY <1>0
<1>2. IsOutput(call, {"started"})
  BY ModelStartOutput
<1>3. NextModelCall(s, before) = Output(<<e, d>>, {}) \/ NextModelCall(s, before) = call
  BY DEF NextModelCall
<1> HIDE DEF e, d, call
<1>4. Batch(<<e, d>>, {"diag", "closed"})
  BY <1>1, BatchPair
<1>5. Batch(<<e, d>>, tags)
  BY <1>4, BatchWiden
<1>6. IsOutput(Output(<<e, d>>, {}), tags)
  BY <1>5, PlainOutput
<1>7. IsOutput(call, tags)
  BY <1>2, BatchWiden DEF IsOutput
<1>8. QED
  BY <1>3, <1>6, <1>7

\* A turn is opened for a message that is in the journal, or in the batch.
LEMMA OpenTurnForOutput ==
  ASSUME NEW s, NEW trigger, NEW first, NEW tags, Batch(first, tags), tags \cap {"opened", "started"} = {}
  PROVE  IsOutput(OpenTurnFor(s, trigger, first), (tags \cup {"opened"}) \cup {"started"})
<1> DEFINE turn == TurnId(trigger)
           opened == [s EXCEPT !.turn = OpenTurn(turn, s.lastSeq + 1)]
           e == TurnOpened(turn)
           call == ModelStart(opened, turn, 0, 1)
<1>1. OpenTurnFor(s, trigger, first) = Then(Append(first, e), call)
  BY DEF OpenTurnFor
<1>2. IsOutput(call, {"started"})
  BY ModelStartOutput
<1>3. ASSUME NEW x PROVE IsEvent(TurnOpened(x)) /\ TurnOpened(x).id[1] = "opened"
  BY EventsAreEvents
<1>4. IsEvent(e) /\ e.id[1] = "opened"
  BY <1>3
<1> HIDE DEF e, call
<1>5. Batch(Append(first, e), tags \cup {"opened"})
  BY <1>4, BatchAppend
<1>6. (tags \cup {"opened"}) \cap {"started"} = {}
  OBVIOUS
<1>7. IsOutput(Then(Append(first, e), call), (tags \cup {"opened"}) \cup {"started"})
  BY <1>2, <1>5, <1>6, ThenOutput
<1>8. QED
  BY <1>1, <1>7

\* The steers that no call has read open a turn.
LEMMA PromoteSteersOutput ==
  ASSUME NEW s
  PROVE  \E tags : IsOutput(PromoteSteersAsTurn(s), tags)
<1>1. Batch(<<>>, {}) /\ {} \cap {"opened", "started"} = {}
  BY BatchEmpty
<1>2. QED
  BY <1>1, OpenTurnForOutput DEF PromoteSteersAsTurn

\* The message that was deferred first opens a turn.
LEMMA PromoteDeferredOutput ==
  ASSUME NEW s
  PROVE  \E tags : IsOutput(PromoteDeferred(s), tags)
<1> DEFINE recv == PromotedRecv(s.deferred[1], s.lastSeq)
           t == ProjectAppend(s, <<recv>>)
<1>1. IsEvent(recv) /\ recv.id[1] = "promoted"
  BY PromotedIsEvent
<1>2. PromoteDeferred(s) = OpenTurnFor(t, t.prompt.id, <<recv>>)
  BY DEF PromoteDeferred, PromotePendingPrompt
<1> HIDE DEF recv, t
<1>3. Batch(<<recv>>, {"promoted"})
  BY <1>1, BatchSingle
<1>4. {"promoted"} \cap {"opened", "started"} = {}
  OBVIOUS
<1>5. IsOutput(OpenTurnFor(t, t.prompt.id, <<recv>>), ({"promoted"} \cup {"opened"}) \cup {"started"})
  BY <1>3, <1>4, OpenTurnForOutput
<1>6. QED
  BY <1>2, <1>5

\* A set of terminals for invocations that are pending.
LEMMA TerminalsBatch ==
  ASSUME NEW P, IsFiniteSet(P), \A i, j \in P : i.inv = j.inv => i = j, NEW outcome
  PROVE  Batch(SetToSeq({InvocationTerminal(i.turn, i.inv, outcome) : i \in P}), {"inv-terminal"})
<1> DEFINE f == [i \in P |-> InvocationTerminal(i.turn, i.inv, outcome)]
           X == {f[i] : i \in P}
<1>0. \A turn, inv : LET e == InvocationTerminal(turn, inv, outcome)
                     IN  IsEvent(e) /\ e.id = <<"inv-terminal", inv>>
  BY EventsAreEvents
<1>1. \A i \in P : f[i] = InvocationTerminal(i.turn, i.inv, outcome)
  OBVIOUS
<1>2. \A i \in P : IsEvent(f[i]) /\ f[i].id = <<"inv-terminal", i.inv>>
  BY <1>0, <1>1
<1>3. f = [i \in P |-> f[i]]
  OBVIOUS
<1>4. X = {InvocationTerminal(i.turn, i.inv, outcome) : i \in P}
  OBVIOUS
<1> HIDE DEF f
<1>5. IsFiniteSet(X)
  BY <1>3, ImageFinite
<1>6. \A x \in X : IsEvent(x) /\ x.id[1] = "inv-terminal"
  BY <1>2
<1>7. ASSUME NEW x \in X, NEW y \in X, x.id = y.id PROVE x = y
  <2>1. PICK i \in P : x = f[i]
    OBVIOUS
  <2>2. PICK j \in P : y = f[j]
    OBVIOUS
  <2>3. i.inv = j.inv
    BY <1>2, <1>7, <2>1, <2>2
  <2>4. QED
    BY <2>1, <2>2, <2>3
<1> HIDE DEF X
<1>8. Batch(SetToSeq(X), {"inv-terminal"})
  BY <1>5, <1>6, <1>7, BatchOfSet
<1>9. QED
  BY <1>4, <1>8

\* One event, or none.
LEMMA BatchOptional ==
  ASSUME NEW e, IsEvent(e), NEW q, q \in {<<>>, <<e>>}
  PROVE  Batch(q, {e.id[1]})
BY BatchEmpty, BatchSingle

\* What an interrupt leaves behind is settled, and the turn closed.
LEMMA CleanupBatch ==
  ASSUME NEW s, IsState(s)
  PROVE  Batch(InterruptCleanup(s), {"inv-terminal", "wait-resolved", "closed"})
<1> DEFINE a == CancelPending(s)
           w == WaitResolved(s.wait.turn, s.wait.at, "cancelled")
           b == IF s.wait = None THEN <<>> ELSE <<w>>
           d == TurnClosed(s.turn.id)
           c == IF s.turn = None THEN <<>> ELSE <<d>>
<1>1. Batch(a, {"inv-terminal"})
  BY TerminalsBatch DEF CancelPending, IsState, Shaped
<1>2. ASSUME NEW x, NEW y, NEW z
      PROVE  /\ IsEvent(WaitResolved(x, y, z)) /\ WaitResolved(x, y, z).id[1] = "wait-resolved"
             /\ IsEvent(TurnClosed(x)) /\ TurnClosed(x).id[1] = "closed"
  BY EventsAreEvents
<1>3. IsEvent(w) /\ w.id[1] = "wait-resolved" /\ IsEvent(d) /\ d.id[1] = "closed"
  BY <1>2
<1>4. b \in {<<>>, <<w>>} /\ c \in {<<>>, <<d>>}
  OBVIOUS
<1>5. InterruptCleanup(s) = (a \o b) \o c
  BY DEF InterruptCleanup
<1> HIDE DEF a, b, c, d, w
<1>6. Batch(b, {"wait-resolved"}) /\ Batch(c, {"closed"})
  BY <1>3, <1>4, BatchOptional
<1>7. /\ {"inv-terminal"} \cap {"wait-resolved"} = {}
      /\ ({"inv-terminal"} \cup {"wait-resolved"}) \cap {"closed"} = {}
      /\ ({"inv-terminal"} \cup {"wait-resolved"}) \cup {"closed"} = {"inv-terminal", "wait-resolved", "closed"}
  OBVIOUS
<1>8. Batch(a \o b, {"inv-terminal"} \cup {"wait-resolved"})
  BY <1>1, <1>6, <1>7, BatchConcat
<1>9. Batch((a \o b) \o c, ({"inv-terminal"} \cup {"wait-resolved"}) \cup {"closed"})
  BY <1>6, <1>7, <1>8, BatchConcat
<1>10. QED
  BY <1>5, <1>7, <1>9

\* The invocations that an answer asks for.
LEMMA ExpandOutput ==
  ASSUME NEW turn, NEW tools, IsFiniteSet(tools)
  PROVE  IsOutput(ExpandToolCalls(turn, tools), {"inv-start"})
<1> DEFINE f == [inv \in tools |-> InvocationStarted(turn, inv)]
           X == {f[inv] : inv \in tools}
           D == {InvocationEffect(inv, turn) : inv \in tools}
<1>0. \A inv : LET e == InvocationStarted(turn, inv)
               IN  IsEvent(e) /\ e.id = <<"inv-start", inv>>
  BY EventsAreEvents
<1>1. \A inv \in tools : f[inv] = InvocationStarted(turn, inv)
  OBVIOUS
<1>2. \A inv \in tools : IsEvent(f[inv]) /\ f[inv].id = <<"inv-start", inv>>
  BY <1>0, <1>1
<1>3. f = [inv \in tools |-> f[inv]]
  OBVIOUS
<1>4. ExpandToolCalls(turn, tools) = [append |-> SetToSeq(X), effects |-> D]
  <2>1. X = {InvocationStarted(turn, inv) : inv \in tools}
    OBVIOUS
  <2> HIDE DEF X
  <2>2. QED
    BY <2>1 DEF ExpandToolCalls, Output
<1> HIDE DEF f
<1>5. IsFiniteSet(X)
  BY <1>3, ImageFinite
<1>6. \A x \in X : IsEvent(x) /\ x.id[1] = "inv-start"
  BY <1>2
<1>7. ASSUME NEW x \in X, NEW y \in X, x.id = y.id PROVE x = y
  BY <1>2, <1>7
<1>8. Effects(D)
  BY DEF Effects, IsEffect, InvocationEffect, Effect
<1>s. \A d \in D : d.id[1] = "inv" /\ \E x \in X : x.id = StartId(d.id)
  BY <1>2 DEF InvocationEffect, Effect, StartId
<1> HIDE DEF X, D
<1>9. Batch(SetToSeq(X), {"inv-start"})
  BY <1>5, <1>6, <1>7, BatchOfSet
<1>10. Starts(SetToSeq(X), D)
  <2> DEFINE q == SetToSeq(X)
  <2>1. \A x \in X : \E i \in DOMAIN q : q[i] = x
    BY <1>5, SetToSeqIs
  <2> HIDE DEF q
  <2>2. Starts(q, D)
    BY <1>s, <2>1 DEF Starts
  <2>3. QED
    BY <2>2 DEF q
<1>11. QED
  BY <1>4, <1>8, <1>9, <1>10 DEF IsOutput

-----------------------------------------------------------------------------
(* Every step of the loop is such an output.                               *)

IsStepOutput(out) == \E tags : IsOutput(out, tags)

\* A batch holds the event that says that m was received.
Receives(items, m) == \E i \in DOMAIN items : items[i].id = RecvId(m)

\* What comes first in a batch is in the batch.
LEMMA FirstReceives ==
  ASSUME NEW m, NEW rest, IsSeq(rest), NEW first, IsSeq(first), Len(first) >= 1, first[1] = Recv(m)
  PROVE  Receives(first \o rest, m)
<1> DEFINE q == first \o rest
<1>1. IsSeq(q) /\ Len(q) = Len(first) + Len(rest) /\ \A i \in 1 .. Len(first) : q[i] = first[i]
  BY SeqConcat
<1>2. Len(first) \in Nat /\ Len(rest) \in Nat
  BY SeqDomain
<1> HIDE DEF q
<1>3. 1 \in DOMAIN q /\ q[1] = Recv(m)
  BY <1>1, <1>2, SeqDomain
<1>4. Recv(m).id = RecvId(m)
  BY EventsAreEvents
<1>5. Receives(q, m)
  BY <1>3, <1>4 DEF Receives
<1>6. QED
  BY <1>5 DEF q

\* A prompt that is not known yet is received, whatever else the step does.
LEMMA PromptOutput ==
  ASSUME NEW s, NEW m
  PROVE  /\ IsStepOutput(PromptStep(s, m))
         /\ AlreadyIngested(s, m) \/ Receives(PromptStep(s, m).append, m)
<1> DEFINE turn == TurnId(<<"src", m>>)
           opened == [s EXCEPT !.turn = OpenTurn(turn, s.lastSeq + 2)]
           e == Recv(m)
           d == TurnOpened(turn)
           first == ModelStart(opened, turn, 0, 2)
           next == NextModelCall(s, 1)
           out == PromptStep(s, m)
<1>1. \/ AlreadyIngested(s, m) /\ out = Empty
      \/ out = Then(<<e, d>>, first)
      \/ out = Then(<<e>>, next)
      \/ out = Output(<<e>>, {})
  BY DEF PromptStep
<1>2. ASSUME NEW x PROVE IsEvent(TurnOpened(x)) /\ TurnOpened(x).id[1] = "opened"
  BY EventsAreEvents
<1>3. ASSUME NEW x PROVE IsEvent(Recv(x)) /\ Recv(x).id = RecvId(x)
  BY EventsAreEvents
<1>4. IsEvent(d) /\ d.id[1] = "opened" /\ IsEvent(e) /\ e.id[1] = "recv"
  BY <1>2, <1>3 DEF RecvId
<1>5. IsOutput(first, {"started"}) /\ IsOutput(next, {"started", "diag", "closed"})
  BY ModelStartOutput, NextModelCallOutput
<1>6. e = Recv(m)
  OBVIOUS
<1> HIDE DEF e, d, first, next, out
<1>7. CASE AlreadyIngested(s, m) /\ out = Empty
  BY <1>7, EmptyOutput DEF IsStepOutput, out
<1>8. CASE out = Then(<<e, d>>, first)
  <2>1. Batch(<<e, d>>, {"recv", "opened"})
    BY <1>4, BatchPair
  <2>2. {"recv", "opened"} \cap {"started"} = {}
    OBVIOUS
  <2>3. IsOutput(out, {"recv", "opened"} \cup {"started"})
    BY <1>5, <1>8, <2>1, <2>2, ThenOutput
  <2>4. IsSeq(first.append) /\ IsSeq(<<e, d>>)
    BY <1>5, <2>1 DEF IsOutput, Batch
  <2>5. Len(<<e, d>>) >= 1 /\ <<e, d>>[1] = Recv(m)
    BY <1>6
  <2>6. Receives(<<e, d>> \o first.append, m)
    BY <2>4, <2>5, FirstReceives
  <2>7. QED
    BY <1>8, <2>3, <2>6 DEF IsStepOutput, Then, Output, out
<1>9. CASE out = Then(<<e>>, next)
  <2>1. IsOutput(out, {"started", "diag", "closed"} \cup {"recv"})
    BY <1>4, <1>5, <1>9, EventThenOutput
  <2>2. IsSeq(next.append) /\ IsSeq(<<e>>)
    BY <1>5, SeqSingle DEF IsOutput, Batch
  <2>3. Len(<<e>>) >= 1 /\ <<e>>[1] = Recv(m)
    BY <1>6
  <2>4. Receives(<<e>> \o next.append, m)
    BY <2>2, <2>3, FirstReceives
  <2>5. QED
    BY <1>9, <2>1, <2>4 DEF IsStepOutput, Then, Output, out
<1>10. CASE out = Output(<<e>>, {})
  <2>1. Batch(<<e>>, {"recv"})
    BY <1>4, BatchSingle
  <2>2. IsOutput(out, {"recv"})
    BY <1>10, <2>1, PlainOutput
  <2>3. Receives(<<e>>, m)
    BY <1>3, <1>6, SeqSingle, SeqDomain DEF Receives
  <2>4. QED
    BY <1>10, <2>2, <2>3 DEF IsStepOutput, Output, out
<1>11. QED
  BY <1>1, <1>7, <1>8, <1>9, <1>10

\* A single event.
LEMMA EventOutput ==
  ASSUME NEW e, IsEvent(e)
  PROVE  IsStepOutput(Output(<<e>>, {}))
<1>1. Batch(<<e>>, {e.id[1]})
  BY BatchSingle
<1>2. IsOutput(Output(<<e>>, {}), {e.id[1]})
  BY <1>1, PlainOutput
<1>3. QED
  BY <1>2 DEF IsStepOutput

\* The outputs that most steps choose from.
LEMMA CommonOutputs ==
  ASSUME NEW s, IsState(s)
  PROVE  /\ IsStepOutput(Empty)
         /\ IsStepOutput(PromoteSteersAsTurn(s)) /\ IsStepOutput(PromoteDeferred(s))
         /\ IsStepOutput(NextModelCall(s, 0))
         /\ IsStepOutput(Output(InterruptCleanup(s), {}))
         /\ IsStepOutput(Output(<<TurnClosed(s.turn.id)>>, {}))
         /\ IsStepOutput(Output(<<Interrupt(s.turn.id)>>, {}))
         /\ IsStepOutput(Output(<<FlushSteers(s.turn.id, s.lastSeq)>>, {}))
         /\ IsStepOutput(Output(<<TurnWaiting(s.turn.id, s.turn.waits)>>, {}))
<1>1. IsStepOutput(Empty) /\ IsStepOutput(PromoteSteersAsTurn(s)) /\ IsStepOutput(PromoteDeferred(s))
  BY EmptyOutput, PromoteSteersOutput, PromoteDeferredOutput DEF IsStepOutput
<1>2. IsStepOutput(NextModelCall(s, 0))
  BY NextModelCallOutput DEF IsStepOutput
<1>3. IsStepOutput(Output(InterruptCleanup(s), {}))
  <2>1. IsOutput(Output(InterruptCleanup(s), {}), {"inv-terminal", "wait-resolved", "closed"})
    BY CleanupBatch, PlainOutput
  <2>2. QED
    BY <2>1 DEF IsStepOutput
<1>4. ASSUME NEW a, NEW b
      PROVE  /\ IsEvent(TurnClosed(a)) /\ IsEvent(Interrupt(a)) /\ IsEvent(FlushSteers(a, b))
             /\ IsEvent(TurnWaiting(a, b))
  BY EventsAreEvents
<1>5. /\ IsStepOutput(Output(<<TurnClosed(s.turn.id)>>, {}))
      /\ IsStepOutput(Output(<<Interrupt(s.turn.id)>>, {}))
      /\ IsStepOutput(Output(<<FlushSteers(s.turn.id, s.lastSeq)>>, {}))
      /\ IsStepOutput(Output(<<TurnWaiting(s.turn.id, s.turn.waits)>>, {}))
  BY <1>4, EventOutput
<1>6. QED
  BY <1>1, <1>2, <1>3, <1>5

\* The tool calls of the last answer are finitely many.
LEMMA UnprocessedFinite ==
  ASSUME NEW s, IsState(s)
  PROVE  IsFiniteSet(Unprocessed(s))
<1> DEFINE A == {i \in DOMAIN s.entries : s.entries[i].kind = "assistant"}
           k == CHOOSE i \in A : \A j \in A : j <= i
           settled == {s.entries[i].id : i \in {j \in DOMAIN s.entries : s.entries[j].kind = "tool-result"}}
           rest == (s.entries[k].tools \ {p.inv : p \in s.pending}) \ settled
<1>1. Unprocessed(s) = IF A = {} THEN {} ELSE rest
  BY DEF Unprocessed
<1>2. Len(s.entries) \in Nat /\ DOMAIN s.entries = 1 .. Len(s.entries)
  BY SeqDomain DEF IsState, Shaped
<1>3. A # {} => k \in A
  <2>1. A \in SUBSET (1 .. Len(s.entries))
    BY <1>2
  <2> HIDE DEF A
  <2>2. A # {} => \E i \in A : \A j \in A : j <= i
    BY <1>2, <2>1, LargestExists
  <2>3. QED
    BY <2>2
<1> HIDE DEF k
<1>4. k \in A => IsFiniteSet(s.entries[k].tools)
  BY DEF IsState, Shaped
<1>5. k \in A => IsFiniteSet(rest)
  BY <1>4, FS_Subset
<1>6. QED
  BY <1>1, <1>3, <1>5, FS_EmptySet

\* The interrupt command.
LEMMA InterruptOutput ==
  ASSUME NEW s, IsState(s)
  PROVE  IsStepOutput(InterruptStep(s))
<1> DEFINE e == Interrupt(s.turn.id)
           t == ProjectAppend(s, <<e>>)
           c == InterruptCleanup(t)
<1>1. \/ InterruptStep(s) = Empty \/ InterruptStep(s) = Output(<<e>>, {})
      \/ InterruptStep(s) = Output(<<e>> \o c, {})
  BY DEF InterruptStep
<1>2. ASSUME NEW x PROVE IsEvent(Interrupt(x)) /\ Interrupt(x).id[1] = "interrupt"
  BY EventsAreEvents
<1>3. IsEvent(e) /\ e.id[1] = "interrupt"
  BY <1>2
<1> HIDE DEF e
<1>4. IsSeq(<<e>>) /\ \A i \in DOMAIN <<e>> : IsEvent(<<e>>[i])
  BY <1>3, BatchSingle DEF Batch
<1>5. IsState(t)
  BY <1>4, ProjectIsState
<1> HIDE DEF t
<1>6. Batch(c, {"inv-terminal", "wait-resolved", "closed"})
  BY <1>5, CleanupBatch
<1> HIDE DEF c
<1>7. Batch(<<e>>, {"interrupt"}) /\ {"interrupt"} \cap {"inv-terminal", "wait-resolved", "closed"} = {}
  BY <1>3, BatchSingle
<1>8. Batch(<<e>> \o c, {"interrupt"} \cup {"inv-terminal", "wait-resolved", "closed"})
  BY <1>6, <1>7, BatchConcat
<1>9. IsOutput(Output(<<e>> \o c, {}), {"interrupt"} \cup {"inv-terminal", "wait-resolved", "closed"})
  BY <1>8, PlainOutput
<1>10. QED
  BY <1>1, <1>3, <1>9, EmptyOutput, EventOutput DEF IsStepOutput

\* One step of "send now".
LEMMA FlushOutput ==
  ASSUME NEW s, IsState(s)
  PROVE  IsStepOutput(FlushStep(s))
<1>1. FlushStep(s) \in {PromoteSteersAsTurn(s), Output(<<FlushSteers(s.turn.id, s.lastSeq)>>, {}),
                        NextModelCall(s, 0), Output(InterruptCleanup(s), {}), PromoteDeferred(s),
                        Output(<<Interrupt(s.turn.id)>>, {})}
  BY DEF FlushStep
<1>2. QED
  BY <1>1, CommonOutputs

\* The wake command.
LEMMA WakeOutput ==
  ASSUME NEW s, IsState(s)
  PROVE  IsStepOutput(WakeStep(s))
<1> DEFINE e == MessageFailed(s.call.msg, "recoverable")
           orphan == IF s.call = None THEN <<>> ELSE <<e>>
           t == ProjectAppend(s, orphan)
           c == InterruptCleanup(t)
           x == ExpandToolCalls(t.turn.id, Unprocessed(t))
           n == NextModelCall(t, Len(orphan))
           o == OpenTurnFor(t, t.prompt.id, orphan)
<1>1. \/ WakeStep(s) = Output(orphan \o c, {})
      \/ WakeStep(s) = Then(orphan, x)
      \/ WakeStep(s) = Then(orphan, n)
      \/ WakeStep(s) = o
      \/ WakeStep(s) = Output(orphan, {})
  BY DEF WakeStep, PromotePendingPrompt
<1>2. ASSUME NEW a, NEW b PROVE IsEvent(MessageFailed(a, b)) /\ MessageFailed(a, b).id[1] = "terminal"
  BY EventsAreEvents
<1>3. Batch(orphan, {"terminal"})
  <2>1. IsEvent(e) /\ e.id[1] = "terminal"
    BY <1>2
  <2>2. orphan \in {<<>>, <<e>>}
    OBVIOUS
  <2> HIDE DEF e, orphan
  <2>3. QED
    BY <2>1, <2>2, BatchOptional
<1> HIDE DEF e, orphan
<1>4. IsState(t)
  BY <1>3, ProjectIsState DEF Batch
<1> HIDE DEF t
<1>5. Batch(c, {"inv-terminal", "wait-resolved", "closed"}) /\ IsFiniteSet(Unprocessed(t))
  BY <1>4, CleanupBatch, UnprocessedFinite
<1>6. IsOutput(x, {"inv-start"})
  BY <1>5, ExpandOutput
<1>7. IsOutput(n, {"started", "diag", "closed"})
  BY NextModelCallOutput
<1>8. {"terminal"} \cap {"opened", "started"} = {}
  OBVIOUS
<1>9. IsStepOutput(o)
  <2>1. IsOutput(o, ({"terminal"} \cup {"opened"}) \cup {"started"})
    BY <1>3, <1>8, OpenTurnForOutput
  <2>2. QED
    BY <2>1 DEF IsStepOutput
<1> HIDE DEF c, x, n, o
<1>10. /\ {"terminal"} \cap {"inv-terminal", "wait-resolved", "closed"} = {}
       /\ {"terminal"} \cap {"inv-start"} = {} /\ {"terminal"} \cap {"started", "diag", "closed"} = {}
  OBVIOUS
<1>11. IsStepOutput(Output(orphan \o c, {}))
  <2>1. Batch(orphan \o c, {"terminal"} \cup {"inv-terminal", "wait-resolved", "closed"})
    BY <1>3, <1>5, <1>10, BatchConcat
  <2>2. QED
    BY <2>1, PlainOutput DEF IsStepOutput
<1>12. IsStepOutput(Then(orphan, x))
  <2>1. IsOutput(Then(orphan, x), {"terminal"} \cup {"inv-start"})
    BY <1>3, <1>6, <1>10, ThenOutput
  <2>2. QED
    BY <2>1 DEF IsStepOutput
<1>13. IsStepOutput(Then(orphan, n))
  <2>1. IsOutput(Then(orphan, n), {"terminal"} \cup {"started", "diag", "closed"})
    BY <1>3, <1>7, <1>10, ThenOutput
  <2>2. QED
    BY <2>1 DEF IsStepOutput
<1>14. IsStepOutput(Output(orphan, {}))
  BY <1>3, PlainOutput DEF IsStepOutput
<1>15. QED
  BY <1>1, <1>9, <1>11, <1>12, <1>13, <1>14

\* The resume after a reset.
LEMMA ResumeOutput ==
  ASSUME NEW s, NEW msg
  PROVE  IsStepOutput(ResumeStep(s, msg))
<1> DEFINE e == ResumeDue(s.turn.id, msg, s.lastSeq)
           n == NextModelCall(s, 1)
<1>1. ResumeStep(s, msg) = Empty \/ ResumeStep(s, msg) = Then(<<e>>, n)
  BY DEF ResumeStep
<1>2. ASSUME NEW a, NEW b, NEW c PROVE IsEvent(ResumeDue(a, b, c)) /\ ResumeDue(a, b, c).id[1] = "resume"
  BY EventsAreEvents
<1>3. IsEvent(e) /\ e.id[1] = "resume" /\ IsOutput(n, {"started", "diag", "closed"})
  BY <1>2, NextModelCallOutput
<1> HIDE DEF e, n
<1>4. IsOutput(Then(<<e>>, n), {"started", "diag", "closed"} \cup {"resume"})
  BY <1>3, EventThenOutput
<1>5. QED
  BY <1>1, <1>4, EmptyOutput DEF IsStepOutput

\* The cascade of an event.
LEMMA EventStepOutput ==
  ASSUME NEW s, IsState(s), NEW e, IsEvent(e)
  PROVE  IsStepOutput(EventStep(s, e))
<1> DEFINE x == ExpandToolCalls(s.turn.id, e.tools)
           common == {Empty, PromoteSteersAsTurn(s), PromoteDeferred(s), NextModelCall(s, 0),
                      Output(InterruptCleanup(s), {}), Output(<<TurnClosed(s.turn.id)>>, {}),
                      Output(<<TurnWaiting(s.turn.id, s.turn.waits)>>, {})}
<1>1. IsOutput(x, {"inv-start"})
  BY ExpandOutput DEF IsEvent
<1>2. AnswerStep(s, e) \in common \cup {x} /\ ClosedStep(s) \in common /\ FailedStep(s, e) \in common
  BY DEF AnswerStep, ClosedStep, FailedStep
<1>3. ToolStep(s) \in common /\ ResolvedStep(s) \in common
  BY DEF ToolStep, ResolvedStep
<1>4. EventStep(s, e) \in {AnswerStep(s, e), ClosedStep(s), FailedStep(s, e), ToolStep(s),
                           ResolvedStep(s), Output(InterruptCleanup(s), {}), Empty}
  BY DEF EventStep
<1>5. \A out \in common : IsStepOutput(out)
  BY CommonOutputs
<1>6. IsStepOutput(x)
  BY <1>1 DEF IsStepOutput
<1> HIDE DEF x
<1>7. Output(InterruptCleanup(s), {}) \in common /\ Empty \in common
  OBVIOUS
<1> HIDE DEF common
<1>8. QED
  BY <1>2, <1>3, <1>4, <1>5, <1>6, <1>7

\* An effect that ran out of attempts.
LEMMA EffectFailedOutput ==
  ASSUME NEW s, IsState(s), NEW effect, effect[1] \in {"model", "inv", "cred"}, NEW why
  PROVE  IsStepOutput(EffectFailedStep(s, effect, why))
<1>1. IsStepOutput(ModelFailedStep(s, effect, why))
  <2> DEFINE e == MessageFailed(s.call.msg, why)
             a == IF s.call = None THEN <<>> ELSE <<e>>
             d == Diagnostic(s.turn.id, effect)
             c == TurnClosed(s.turn.id)
             b == IF s.turn = None \/ why = "reset" THEN <<>> ELSE <<d, c>>
  <2>1. ModelFailedStep(s, effect, why) = Output(a \o b, {})
    BY DEF ModelFailedStep
  <2>2. ASSUME NEW x, NEW y
        PROVE  /\ IsEvent(MessageFailed(x, y)) /\ MessageFailed(x, y).id[1] = "terminal"
               /\ IsEvent(Diagnostic(x, y)) /\ Diagnostic(x, y).id[1] = "diag"
               /\ IsEvent(TurnClosed(x)) /\ TurnClosed(x).id[1] = "closed"
    BY EventsAreEvents
  <2>3. /\ IsEvent(e) /\ e.id[1] = "terminal" /\ IsEvent(d) /\ d.id[1] = "diag"
        /\ IsEvent(c) /\ c.id[1] = "closed"
    BY <2>2
  <2>4. a \in {<<>>, <<e>>} /\ b \in {<<>>, <<d, c>>}
    OBVIOUS
  <2> HIDE DEF a, b, c, d, e
  <2>5. Batch(a, {"terminal"})
    BY <2>3, <2>4, BatchOptional
  <2>6. Batch(<<d, c>>, {"diag", "closed"})
    BY <2>3, BatchPair
  <2>7. Batch(b, {"diag", "closed"})
    BY <2>4, <2>6, BatchEmpty
  <2>8. {"terminal"} \cap {"diag", "closed"} = {}
    OBVIOUS
  <2>9. Batch(a \o b, {"terminal"} \cup {"diag", "closed"})
    BY <2>5, <2>7, <2>8, BatchConcat
  <2>10. QED
    BY <2>1, <2>9, PlainOutput DEF IsStepOutput
<1>2. IsStepOutput(WaitFailedStep(s))
  <2> DEFINE e == WaitExpired(s.wait.turn, s.wait.at)
             a == IF s.wait = None THEN <<>> ELSE <<e>>
             c == TurnClosed(s.turn.id)
             b == IF s.turn = None THEN <<>> ELSE <<c>>
  <2>1. WaitFailedStep(s) = Output(a \o b, {})
    BY DEF WaitFailedStep
  <2>2. ASSUME NEW x, NEW y
        PROVE  /\ IsEvent(WaitExpired(x, y)) /\ WaitExpired(x, y).id[1] = "wait-expired"
               /\ IsEvent(TurnClosed(x)) /\ TurnClosed(x).id[1] = "closed"
    BY EventsAreEvents
  <2>3. IsEvent(e) /\ e.id[1] = "wait-expired" /\ IsEvent(c) /\ c.id[1] = "closed"
    BY <2>2
  <2>4. a \in {<<>>, <<e>>} /\ b \in {<<>>, <<c>>}
    OBVIOUS
  <2> HIDE DEF a, b, c, e
  <2>5. Batch(a, {"wait-expired"}) /\ Batch(b, {"closed"})
    BY <2>3, <2>4, BatchOptional
  <2>6. {"wait-expired"} \cap {"closed"} = {}
    OBVIOUS
  <2>7. Batch(a \o b, {"wait-expired"} \cup {"closed"})
    BY <2>5, <2>6, BatchConcat
  <2>8. QED
    BY <2>1, <2>7, PlainOutput DEF IsStepOutput
<1>3. IsStepOutput(InvocationFailedStep(s, effect[2]))
  <2> DEFINE P == {p \in s.pending : p.inv = effect[2]}
  <2>1. IsFiniteSet(P) /\ \A i, j \in P : i.inv = j.inv => i = j
    BY FS_Subset DEF IsState, Shaped
  <2>2. InvocationFailedStep(s, effect[2])
          = Output(SetToSeq({InvocationTerminal(i.turn, i.inv, "failed") : i \in P}), {})
    BY DEF InvocationFailedStep
  <2> HIDE DEF P
  <2>3. Batch(SetToSeq({InvocationTerminal(i.turn, i.inv, "failed") : i \in P}), {"inv-terminal"})
    BY <2>1, TerminalsBatch
  <2>4. QED
    BY <2>2, <2>3, PlainOutput DEF IsStepOutput
<1>4. QED
  BY <1>1, <1>2, <1>3 DEF EffectFailedStep

\* What may reach the loop: a command, an event that was journaled, or the failure
\* of an effect.
IsIncoming(in) ==
  /\ in.type \in {"prompt", "interrupt", "flush", "wake", "resume", "event", "failed"}
  /\ in.type = "event" => IsEvent(in.arg)
  /\ in.type = "failed" => in.arg.effect[1] \in {"model", "inv", "cred"}

\* Whatever reaches the loop, its answer is a batch with distinct ids and effects
\* with distinct ids.
LEMMA StepOutput ==
  ASSUME NEW s, IsState(s), NEW in, IsIncoming(in)
  PROVE  IsStepOutput(Step(s, in))
<1>1. CASE in.type = "prompt"
  BY <1>1, PromptOutput DEF Step
<1>2. CASE in.type = "interrupt"
  BY <1>2, InterruptOutput DEF Step
<1>3. CASE in.type = "flush"
  BY <1>3, FlushOutput, InterruptOutput DEF Step
<1>4. CASE in.type = "wake"
  BY <1>4, WakeOutput DEF Step
<1>5. CASE in.type = "resume"
  BY <1>5, ResumeOutput DEF Step
<1>6. CASE in.type = "event"
  BY <1>6, EventStepOutput DEF Step, IsIncoming
<1>7. CASE in.type = "failed"
  BY <1>7, EffectFailedOutput DEF Step, IsIncoming
<1>8. QED
  BY <1>1, <1>2, <1>3, <1>4, <1>5, <1>6, <1>7 DEF IsIncoming

\* The effects that are pending in a state have distinct ids.
LEMMA PendingAreEffects ==
  ASSUME NEW s, IsState(s)
  PROVE  Effects(PendingEffects(s))
<1>1. \A e \in PendingEffects(s) :
        \/ e = ModelEffect(s.call.msg)
        \/ \E i \in s.pending : e = InvocationEffect(i.inv, i.turn)
        \/ e = CredentialEffect(s.wait)
  BY DEF PendingEffects
<1>2. /\ ModelEffect(s.call.msg).id = <<"model", s.call.msg>>
      /\ CredentialEffect(s.wait).id = <<"cred">>
      /\ \A inv, turn : InvocationEffect(inv, turn).id = <<"inv", inv>>
  BY DEF ModelEffect, CredentialEffect, InvocationEffect, Effect
<1>3. <<"model", s.call.msg>>[1] = "model" /\ <<"cred">>[1] = "cred" /\ \A inv : <<"inv", inv>>[1] = "inv"
  OBVIOUS
<1>4. \A i, j \in s.pending : i.inv = j.inv => i = j
  BY DEF IsState, Shaped
<1>5. \A e \in PendingEffects(s) : IsEffect(e)
  BY <1>1, <1>2, <1>3 DEF IsEffect
<1>6. ASSUME NEW e \in PendingEffects(s), NEW d \in PendingEffects(s), e.id = d.id PROVE e = d
  <2>1. ASSUME NEW i \in s.pending, e = InvocationEffect(i.inv, i.turn),
               NEW j \in s.pending, d = InvocationEffect(j.inv, j.turn)
        PROVE  e = d
    <3>1. <<"inv", i.inv>> = <<"inv", j.inv>>
      BY <1>2, <1>6, <2>1
    <3>2. i.inv = j.inv
      BY <3>1
    <3>3. QED
      BY <1>4, <2>1, <3>2
  <2>2. QED
    BY <1>1, <1>2, <1>3, <1>6, <2>1
<1>7. QED
  BY <1>5, <1>6 DEF Effects

-----------------------------------------------------------------------------
(* The outbox.                                                             *)

IsRow(r) ==
  /\ r = [x \in {"effect", "attempts", "lease"} |-> r[x]]
  /\ IsEffect(r.effect) /\ r.attempts \in Nat /\ r.lease \in {"none", "held", "expired"}
Rows(rows) ==
  /\ \A r \in rows : IsRow(r)
  /\ \A r, q \in rows : r.effect.id = q.effect.id => r = q

\* Rows for effects that have none yet.
LEMMA InsertRows ==
  ASSUME NEW rows, Rows(rows), NEW effects, Effects(effects)
  PROVE  Rows(Insert(rows, effects))
<1> DEFINE all == Insert(rows, effects)
<1>1. \A e : Row(e) = [effect |-> e, attempts |-> 0, lease |-> "none"]
  BY DEF Row
<1>2. \A e \in effects : IsRow(Row(e)) /\ Row(e).effect = e
  BY <1>1 DEF IsRow, Effects
<1>3. \A r \in all : r \in rows \/ \E e \in effects : r = Row(e) /\ \A q \in rows : q.effect.id # e.id
  BY DEF Insert, HasRow
<1> HIDE DEF all
<1>4. \A r \in all : IsRow(r)
  BY <1>2, <1>3 DEF Rows
<1>5. ASSUME NEW r \in all, NEW q \in all, r.effect.id = q.effect.id PROVE r = q
  <2>1. CASE r \in rows /\ q \in rows
    BY <1>5, <2>1 DEF Rows
  <2>2. CASE r \in rows /\ q \notin rows
    BY <1>2, <1>3, <1>5, <2>2
  <2>3. CASE r \notin rows /\ q \in rows
    BY <1>2, <1>3, <1>5, <2>3
  <2>4. CASE r \notin rows /\ q \notin rows
    <3>1. PICK e \in effects : r = Row(e)
      BY <1>3, <2>4
    <3>2. PICK d \in effects : q = Row(d)
      BY <1>3, <2>4
    <3>3. e.id = d.id
      BY <1>2, <1>5, <3>1, <3>2
    <3>4. QED
      BY <3>1, <3>2, <3>3 DEF Effects
  <2>5. QED
    BY <2>1, <2>2, <2>3, <2>4
<1>6. Rows(all)
  BY <1>4, <1>5 DEF Rows
<1>7. QED
  BY <1>6 DEF all

\* Fewer rows.
LEMMA SomeRows ==
  ASSUME NEW rows, Rows(rows), NEW less \in SUBSET rows
  PROVE  Rows(less)
BY DEF Rows

\* A row less.
LEMMA DeleteRows ==
  ASSUME NEW rows, Rows(rows), NEW id
  PROVE  Rows(Delete(rows, id))
<1>1. Delete(rows, id) \in SUBSET rows
  BY DEF Delete
<1>2. QED
  BY <1>1, SomeRows

\* A row that is replaced.
LEMMA UpdateRows ==
  ASSUME NEW rows, Rows(rows), NEW new, IsRow(new)
  PROVE  Rows(Update(rows, new.effect.id, new))
<1> DEFINE all == Update(rows, new.effect.id, new)
<1>1. \A r \in all : (r \in rows /\ r.effect.id # new.effect.id) \/ r = new
  BY DEF Update
<1> HIDE DEF all
<1>2. Rows(all)
  BY <1>1 DEF Rows
<1>3. QED
  BY <1>2 DEF all

\* The rows after a reconcile.
LEMMA ReconciledRows ==
  ASSUME NEW rows, Rows(rows), NEW s, IsState(s)
  PROVE  Rows(Reconciled(rows, s))
<1> DEFINE kept == {r \in rows : \E e \in PendingEffects(s) : e.id = r.effect.id}
<1>1. kept \in SUBSET rows
  OBVIOUS
<1>2. Reconciled(rows, s) = Insert(kept, PendingEffects(s))
  BY DEF Reconciled
<1> HIDE DEF kept
<1>3. Rows(kept)
  BY <1>1, SomeRows
<1>4. Effects(PendingEffects(s))
  BY PendingAreEffects
<1>5. QED
  BY <1>2, <1>3, <1>4, InsertRows

\* The row of an effect.
LEMMA RowOfIsRow ==
  ASSUME NEW rows, Rows(rows), NEW id, HasRow(rows, id)
  PROVE  RowOf(rows, id) \in rows /\ RowOf(rows, id).effect.id = id /\ IsRow(RowOf(rows, id))
<1>1. RowOf(rows, id) \in rows /\ RowOf(rows, id).effect.id = id
  BY DEF HasRow, RowOf
<1>2. QED
  BY <1>1 DEF Rows

-----------------------------------------------------------------------------
(* The journal.                                                            *)

IsLog(l) ==
  /\ IsSeq(l)
  /\ \A i \in DOMAIN l : IsEnvelope(l[i]) /\ l[i].seq = i
  /\ \A i, j \in DOMAIN l : l[i].id = l[j].id => i = j
IdsOf(l) == {l[i].id : i \in DOMAIN l}

\* A state that knows only what has an id of E, and envelopes with ids of E.
GoodState(s, E) ==
  IsState(s) /\ \A id : Known(s.prompt, s.steering, s.entries, id) => id \in E
GoodEvents(es, E) == IsSeq(es) /\ \A i \in DOMAIN es : IsEnvelope(es[i]) /\ es[i].id \in E

\* A fold of journaled events knows only what is journaled.
LEMMA FoldGood ==
  ASSUME NEW E, NEW s, GoodState(s, E), NEW es, GoodEvents(es, E)
  PROVE  GoodState(FoldEvents(s, es), E)
<1> DEFINE t == FoldEvents(s, es)
<1>1. /\ IsState(t)
      /\ \A id : Known(t.prompt, t.steering, t.entries, id) =>
           Known(s.prompt, s.steering, s.entries, id) \/ \E i \in DOMAIN es : es[i].id = id
  BY FoldKeeps DEF GoodState, GoodEvents
<1> HIDE DEF t
<1>2. GoodState(t, E)
  BY <1>1 DEF GoodState, GoodEvents
<1>3. QED
  BY <1>2 DEF t

\* The first state knows nothing.
LEMMA InitialGood ==
  ASSUME NEW E
  PROVE  GoodState(InitialState, E)
<1>1. IsState(InitialState)
  BY SeqEmpty, FS_EmptySet DEF IsState, IsTurn, Shaped, InitialState, StateFields
<1>2. \A id : ~Known(InitialState.prompt, InitialState.steering, InitialState.entries, id)
  BY DEF Known, InitialState
<1>3. QED
  BY <1>1, <1>2 DEF GoodState

\* The end of the journal.
LEMMA TailGood ==
  ASSUME NEW l, IsLog(l), NEW n \in Nat
  PROVE  GoodEvents(SubSeq(l, n + 1, Len(l)), IdsOf(l))
<1> DEFINE q == SubSeq(l, n + 1, Len(l))
<1>1. Len(l) \in Nat /\ DOMAIN l = 1 .. Len(l) /\ l \in Seq({l[i] : i \in DOMAIN l})
  BY SeqDomain DEF IsLog
<1> DEFINE R == {l[i] : i \in DOMAIN l}
<1> HIDE DEF R
<1>2. l \in Seq(R) /\ \A i \in 1 .. Len(l) : l[i] \in R
  BY <1>1 DEF R
<1>3. /\ IsSeq(q)
      /\ \A i \in DOMAIN q : q[i] \in R
  <2>1. CASE n + 1 <= Len(l)
    <3>1. q \in Seq(R)
      BY <1>1, <1>2, <2>1
    <3> HIDE DEF q
    <3>2. QED
      BY <3>1 DEF IsSeq
  <2>2. CASE n + 1 > Len(l)
    <3>1. q = <<>>
      BY <1>1, <1>2, <2>2
    <3> HIDE DEF q
    <3>2. QED
      BY <3>1, SeqEmpty
  <2>3. QED
    BY <1>1, <2>1, <2>2
<1> HIDE DEF q
<1>4. \A x \in R : IsEnvelope(x) /\ x.id \in IdsOf(l)
  BY DEF R, IsLog, IdsOf
<1>5. GoodEvents(q, IdsOf(l))
  BY <1>3, <1>4 DEF GoodEvents
<1>6. QED
  BY <1>5 DEF q

\* An event that the journal numbers.
LEMMA NumberedIsEnvelope ==
  ASSUME NEW e, IsEvent(e), NEW n \in Nat \ {0}
  PROVE  /\ IsEnvelope([e EXCEPT !.seq = n]) /\ [e EXCEPT !.seq = n].seq = n
         /\ [e EXCEPT !.seq = n].id = e.id
BY DEF IsEnvelope, IsEvent, Formed, EventFields

\* The items that were there before are a prefix of the batch.
LEMMA ReplayedPrefix ==
  ASSUME NEW items, IsSeq(items)
  PROVE  /\ Replayed(items) \in 0 .. Len(items)
         /\ \A i \in 1 .. Replayed(items) : Journaled(items[i].id)
<1> DEFINE A == {n \in DOMAIN items : \A i \in 1 .. n : Journaled(items[i].id)}
<1>1. Len(items) \in Nat /\ DOMAIN items = 1 .. Len(items)
  BY SeqDomain
<1>2. A \in SUBSET (1 .. Len(items)) /\ \A i \in A : \A j \in 1 .. i : j \in A
  <2>1. ASSUME NEW i \in A, NEW j \in 1 .. i PROVE j \in A
    <3>1. j \in 1 .. Len(items) /\ \A k \in 1 .. j : k \in 1 .. i
      BY <1>1
    <3>2. QED
      BY <1>1, <3>1
  <2>2. QED
    BY <1>1, <2>1
<1>3. \A i \in A : i \in 1 .. i /\ Journaled(items[i].id)
  BY <1>1
<1>4. Replayed(items) = Cardinality(A)
  BY DEF Replayed
<1> HIDE DEF A
<1>5. Cardinality(A) \in 0 .. Len(items) /\ A = 1 .. Cardinality(A)
  BY <1>1, <1>2, PrefixCardinality
<1>6. QED
  BY <1>3, <1>4, <1>5

\* What the store inserts: the items from the first new one on, none of which it
\* has, under the seqs that follow.
LEMMA InsertedItems ==
  ASSUME IsLog(log), NEW items, NEW tags, Batch(items, tags), NEW expected,
         AppendError(expected, items) = None
  PROVE  LET p == Replayed(items)
             new == Inserted(items)
         IN  /\ p \in Nat /\ IsSeq(new) /\ Len(new) = Len(items) - p
             /\ \A i \in DOMAIN new :
                  /\ i \in Nat /\ p + i \in DOMAIN items /\ IsEnvelope(new[i])
                  /\ new[i].seq = Len(log) + i /\ new[i].id = items[p + i].id
                  /\ ~Journaled(new[i].id)
<1> DEFINE p == Replayed(items)
           new == Inserted(items)
<1>1. Len(items) \in Nat /\ DOMAIN items = 1 .. Len(items) /\ Len(log) \in Nat
  BY SeqDomain DEF Batch, IsLog
<1>2. p \in 0 .. Len(items)
  BY ReplayedPrefix DEF Batch
<1>3. \A i \in p + 1 .. Len(items) : ~Journaled(items[i].id)
  BY NoError DEF AppendError
<1> HIDE DEF p
<1>4. p \in Nat /\ Len(items) - p \in Nat
  BY <1>1, <1>2
<1>5. new = [i \in 1 .. Len(items) - p |-> [items[p + i] EXCEPT !.seq = Len(log) + i]]
  BY DEF Inserted, p
<1> HIDE DEF new
<1>6. IsSeq(new) /\ Len(new) = Len(items) - p
  <2>1. new \in [1 .. Len(items) - p -> {new[i] : i \in 1 .. Len(items) - p}]
    BY <1>5
  <2>2. QED
    BY <1>4, <2>1, FcnIsSeq
<1>7. ASSUME NEW i \in DOMAIN new
      PROVE  /\ i \in Nat /\ p + i \in DOMAIN items /\ IsEnvelope(new[i])
             /\ new[i].seq = Len(log) + i /\ new[i].id = items[p + i].id
             /\ ~Journaled(new[i].id)
  <2>1. i \in 1 .. Len(items) - p
    BY <1>5
  <2>2. p + i \in 1 .. Len(items) /\ p + i \in p + 1 .. Len(items) /\ Len(log) + i \in Nat \ {0}
    BY <1>1, <1>2, <1>4, <2>1
  <2>3. new[i] = [items[p + i] EXCEPT !.seq = Len(log) + i] /\ IsEvent(items[p + i])
    BY <1>1, <1>5, <2>1, <2>2 DEF Batch
  <2>4. IsEnvelope(new[i]) /\ new[i].seq = Len(log) + i /\ new[i].id = items[p + i].id
    BY <2>2, <2>3, NumberedIsEnvelope
  <2>5. QED
    BY <1>1, <1>3, <2>1, <2>2, <2>4
<1>8. QED
  BY <1>4, <1>6, <1>7 DEF p, new

\* The journal after an append is numbered without gaps and has every id once.
LEMMA AppendedLog ==
  ASSUME IsLog(log), NEW items, NEW tags, Batch(items, tags), NEW expected,
         AppendError(expected, items) = None
  PROVE  /\ IsLog(log \o Inserted(items))
         /\ IdsOf(log) \subseteq IdsOf(log \o Inserted(items))
         /\ \A i \in DOMAIN items : items[i].id \in IdsOf(log \o Inserted(items))
<1> DEFINE p == Replayed(items)
           new == Inserted(items)
           l == log \o new
<1>1. /\ Len(items) \in Nat /\ DOMAIN items = 1 .. Len(items)
      /\ Len(log) \in Nat /\ DOMAIN log = 1 .. Len(log) /\ IsSeq(log)
  BY SeqDomain DEF Batch, IsLog
<1>2. /\ p \in Nat /\ IsSeq(new) /\ Len(new) = Len(items) - p
      /\ \A i \in DOMAIN new :
           /\ i \in Nat /\ p + i \in DOMAIN items /\ IsEnvelope(new[i])
           /\ new[i].seq = Len(log) + i /\ new[i].id = items[p + i].id
           /\ ~Journaled(new[i].id)
  BY InsertedItems
<1>3. \A i \in 1 .. p : Journaled(items[i].id)
  BY ReplayedPrefix DEF Batch
<1> HIDE DEF p, new
<1>4. DOMAIN new = 1 .. Len(new)
  BY <1>2, SeqDomain
<1>5. /\ IsSeq(l) /\ Len(l) = Len(log) + Len(new)
      /\ \A i \in 1 .. Len(log) : l[i] = log[i]
      /\ \A i \in 1 .. Len(new) : l[Len(log) + i] = new[i]
  <2>1. IsSeq(log) /\ IsSeq(new)
    BY <1>1, <1>2
  <2>2. QED
    BY <2>1, SeqConcat
<1>6. \A i \in DOMAIN l :
        \/ i \in DOMAIN log /\ l[i] = log[i]
        \/ i \notin DOMAIN log /\ i - Len(log) \in DOMAIN new /\ l[i] = new[i - Len(log)]
  BY <1>1, <1>2, ConcatElements
<1>7. /\ DOMAIN l = 1 .. (Len(log) + Len(new))
      /\ \A i \in DOMAIN log : i \in DOMAIN l /\ l[i] = log[i]
      /\ \A i \in DOMAIN new : Len(log) + i \in DOMAIN l /\ l[Len(log) + i] = new[i]
  <2> HIDE DEF l
  <2>1. DOMAIN l = 1 .. (Len(log) + Len(new)) /\ Len(new) \in Nat
    BY <1>2, <1>5, SeqDomain
  <2>2. QED
    BY <1>1, <1>4, <1>5, <2>1
<1> HIDE DEF l
<1>8. \A i \in DOMAIN l : IsEnvelope(l[i]) /\ l[i].seq = i
  <2>1. SUFFICES ASSUME NEW i \in DOMAIN l PROVE IsEnvelope(l[i]) /\ l[i].seq = i
    OBVIOUS
  <2>2. CASE i \in DOMAIN log /\ l[i] = log[i]
    BY <2>2 DEF IsLog
  <2>3. CASE i - Len(log) \in DOMAIN new /\ l[i] = new[i - Len(log)]
    <3>1. i \in Int /\ Len(log) + (i - Len(log)) = i
      BY <1>1, <1>7
    <3>2. QED
      BY <1>2, <2>3, <3>1
  <2>4. QED
    BY <1>6, <2>1, <2>2, <2>3
<1>9. ASSUME NEW i \in DOMAIN l, NEW j \in DOMAIN l, l[i].id = l[j].id PROVE i = j
  <2>1. ASSUME NEW a \in DOMAIN log, NEW b \in DOMAIN new, log[a].id = new[b].id PROVE FALSE
    BY <1>2, <2>1 DEF Journaled, JournaledAt
  <2>2. ASSUME NEW a \in DOMAIN new, NEW b \in DOMAIN new, new[a].id = new[b].id PROVE a = b
    <3>1. p + a = p + b
      BY <1>2, <2>2 DEF Batch
    <3>2. QED
      BY <1>2, <3>1
  <2>3. CASE i \in DOMAIN log /\ j \in DOMAIN log
    BY <1>7, <1>9, <2>3 DEF IsLog
  <2>4. CASE i \in DOMAIN log /\ j \notin DOMAIN log
    BY <1>6, <1>7, <1>9, <2>1, <2>4
  <2>5. CASE i \notin DOMAIN log /\ j \in DOMAIN log
    BY <1>6, <1>7, <1>9, <2>1, <2>5
  <2>6. CASE i \notin DOMAIN log /\ j \notin DOMAIN log
    <3>1. i - Len(log) = j - Len(log)
      BY <1>6, <1>9, <2>2, <2>6
    <3>2. QED
      BY <1>1, <1>7, <3>1
  <2>7. QED
    BY <2>3, <2>4, <2>5, <2>6
<1>10. IsLog(l)
  BY <1>5, <1>8, <1>9 DEF IsLog
<1>11. IdsOf(log) \subseteq IdsOf(l)
  BY <1>7 DEF IdsOf
<1>12. ASSUME NEW i \in DOMAIN items PROVE items[i].id \in IdsOf(l)
  <2>1. CASE i \in 1 .. p
    <3>1. PICK j \in DOMAIN log : log[j].id = items[i].id
      BY <1>3, <2>1 DEF Journaled, JournaledAt
    <3>2. QED
      BY <1>7, <3>1 DEF IdsOf
  <2>2. CASE i \notin 1 .. p
    <3>1. i - p \in DOMAIN new /\ p + (i - p) = i
      BY <1>1, <1>2, <1>4, <2>2
    <3>2. new[i - p].id = items[i].id
      BY <1>2, <3>1
    <3>3. Len(log) + (i - p) \in DOMAIN l /\ l[Len(log) + (i - p)] = new[i - p]
      BY <1>7, <3>1
    <3>4. QED
      BY <3>2, <3>3 DEF IdsOf
  <2>3. QED
    BY <2>1, <2>2
<1>13. QED
  BY <1>10, <1>11, <1>12 DEF l, new

\* The store answers with envelopes that are journaled.
LEMMA EnvelopesGood ==
  ASSUME IsLog(log), NEW items, NEW tags, Batch(items, tags), NEW expected,
         AppendError(expected, items) = None
  PROVE  GoodEvents(Envelopes(items), IdsOf(log \o Inserted(items)))
<1> DEFINE p == Replayed(items)
           new == Inserted(items)
           E == IdsOf(log \o new)
           old == [i \in 1 .. p |-> log[Position(items[i])]]
           G == {e \in {old[i] : i \in DOMAIN old} \cup {new[i] : i \in DOMAIN new} : IsEnvelope(e) /\ e.id \in E}
<1>1. /\ p \in Nat /\ IsSeq(new) /\ Len(new) = Len(items) - p
      /\ \A i \in DOMAIN new :
           /\ i \in Nat /\ p + i \in DOMAIN items /\ IsEnvelope(new[i])
           /\ new[i].seq = Len(log) + i /\ new[i].id = items[p + i].id
           /\ ~Journaled(new[i].id)
  BY InsertedItems
<1>2. IdsOf(log) \subseteq E /\ \A i \in DOMAIN items : items[i].id \in E
  BY AppendedLog
<1>3. \A i \in 1 .. p : Journaled(items[i].id)
  BY ReplayedPrefix DEF Batch
<1>4. Envelopes(items) = old \o new
  BY DEF Envelopes
<1> HIDE DEF p, new, E
<1>5. IsSeq(old)
  <2>1. old \in [1 .. p -> {old[i] : i \in 1 .. p}]
    OBVIOUS
  <2>2. QED
    BY <1>1, <2>1, FcnIsSeq
<1>6. ASSUME NEW i \in DOMAIN old PROVE IsEnvelope(old[i]) /\ old[i].id \in E
  <2>1. i \in 1 .. p /\ old[i] = log[Position(items[i])]
    OBVIOUS
  <2>2. Position(items[i]) \in DOMAIN log
    BY <1>3, <2>1 DEF Position, Journaled, JournaledAt
  <2>3. QED
    BY <1>2, <2>1, <2>2 DEF IsLog, IdsOf
<1>7. \A i \in DOMAIN new : IsEnvelope(new[i]) /\ new[i].id \in E
  BY <1>1, <1>2
<1> HIDE DEF old
<1>8. (\A i \in DOMAIN old : old[i] \in G) /\ (\A i \in DOMAIN new : new[i] \in G)
  BY <1>6, <1>7
<1>9. \A e \in G : IsEnvelope(e) /\ e.id \in E
  OBVIOUS
<1> HIDE DEF G
<1>10. IsSeq(old \o new) /\ \A i \in DOMAIN (old \o new) : (old \o new)[i] \in G
  BY <1>1, <1>5, <1>8, ConcatAll, ConcatElements
<1>11. GoodEvents(old \o new, E)
  BY <1>9, <1>10 DEF GoodEvents
<1>12. QED
  BY <1>4, <1>11 DEF E, new

-----------------------------------------------------------------------------
(* Flows: what a task that is under way or waits in a stack may rely on.   *)

TaskFields ==
  {"do", "then", "kind", "loop", "in", "items", "effects", "retries", "expected", "envs", "row",
   "state", "code"}
Loadings == {"load", "head", "headreply", "tail", "tailreply"}
Loadable ==
  {"step", "send", "reconcile", "wake", "recover", "restrand", "execute", "suspend", "flush", "schedule"}
WithLoop ==
  {"step", "send", "commit", "reply", "fold", "reconcile", "wake", "recover", "restrand", "suspend",
   "flush", "schedule"}
Appending == {"send", "commit", "reply", "fold", "stale", "restrand"}

\* What a task does once its loop is loaded.
Acts(t) == IF t.do \in Loadings THEN t.then ELSE t.do

\* Events that open nothing: no message is received, no turn opened and no model
\* call started.
Settles(items) ==
  \A i \in DOMAIN items : items[i].kind \notin {"user", "turn.opened", "message.started"}

ItemsIn(items, E) == \A i \in DOMAIN items : items[i].id \in E

\* E: the ids that are journaled; V: the loops that are held.
IsTask(t, E, V) ==
  /\ t = [x \in TaskFields |-> t[x]]
  /\ t.do \in TaskType /\ (t.do \in Loadings => t.then \in Loadable)
  /\ t.loop \in V \cup {None} /\ (t.do \in WithLoop => t.loop \in V)
  /\ t.do \in {"tail", "tailreply"} => GoodState(t.state, E)
  /\ t.do \in {"reply", "fold"} => GoodEvents(t.envs, E) /\ ItemsIn(t.items, E)
  /\ Acts(t) = "step" => t.kind = "step" /\ IsIncoming(t.in)
  /\ Acts(t) \in Appending =>
       /\ t.kind \in {"step", "outcome", "suspend", "stranded"}
       /\ \E tags : Batch(t.items, tags)
       /\ t.kind = "step" =>
            /\ IsIncoming(t.in) /\ Effects(t.effects) /\ Starts(t.items, t.effects)
            /\ t.do \notin Loadings \cup {"restrand"}
       /\ t.kind # "step" => Settles(t.items)
  /\ t.do = "ack" => t.in \in Message

\* A task that is going to journal the receipt of m.
Carries(t, m) ==
  /\ t.kind = "step" /\ t.in = Incoming("prompt", m)
  /\ Acts(t) = "step" \/ (t.do \in {"send", "commit", "stale"} /\ Receives(t.items, m))

\* Before the task that acknowledges a message its receipt is journaled, or comes a
\* task that is going to journal it.
IsStack(q, E, V) ==
  /\ IsSeq(q)
  /\ \A k \in DOMAIN q : IsTask(q[k], E, V)
  /\ \A k \in DOMAIN q : q[k].do = "ack" =>
       RecvId(q[k].in) \in E \/ \E j \in DOMAIN q : j < k /\ Carries(q[j], q[k].in)

\* More ids and more loops do no harm.
LEMMA TaskWidens ==
  ASSUME NEW E, NEW E2, E \subseteq E2, NEW V, NEW V2, NEW t, IsTask(t, E, V),
         t.loop \in V => t.loop \in V2
  PROVE  IsTask(t, E2, V2)
<1>1. \A s : GoodState(s, E) => GoodState(s, E2)
  BY DEF GoodState
<1>2. /\ \A es : GoodEvents(es, E) => GoodEvents(es, E2)
      /\ \A items : ItemsIn(items, E) => ItemsIn(items, E2)
  BY DEF GoodEvents, ItemsIn
<1>3. t.loop \in V2 \cup {None} /\ (t.do \in WithLoop => t.loop \in V2)
  BY DEF IsTask
<1>4. QED
  BY <1>1, <1>2, <1>3 DEF IsTask

\* A stack whose first task is replaced by tasks that do what it was to do.
LEMMA ReplaceTop ==
  ASSUME NEW E, NEW E2, E \subseteq E2, NEW V, NEW V2, V \subseteq V2,
         NEW q, IsStack(q, E, V), q # <<>>, NEW new, IsSeq(new),
         \A k \in DOMAIN new : IsTask(new[k], E2, V2) /\ new[k].do # "ack",
         \A m : Carries(q[1], m) => RecvId(m) \in E2 \/ \E k \in DOMAIN new : Carries(new[k], m)
  PROVE  IsStack(new \o Tail(q), E2, V2)
<1> DEFINE rest == Tail(q)
           r == new \o rest
<1>1. IsSeq(q) /\ Len(q) \in Nat /\ DOMAIN q = 1 .. Len(q)
  BY SeqDomain DEF IsStack
<1>2. /\ IsSeq(rest) /\ Len(q) >= 1 /\ Len(rest) = Len(q) - 1
      /\ \A i \in 1 .. Len(rest) : rest[i] = q[i + 1]
  BY <1>1, SeqTail
<1>3. Len(new) \in Nat /\ DOMAIN new = 1 .. Len(new)
  BY SeqDomain
<1> HIDE DEF rest
<1>4. DOMAIN rest = 1 .. Len(rest)
  BY <1>2, SeqDomain
<1>5. /\ IsSeq(r) /\ Len(r) = Len(new) + Len(rest)
      /\ \A i \in 1 .. Len(new) : r[i] = new[i]
      /\ \A i \in 1 .. Len(rest) : r[Len(new) + i] = rest[i]
  <2>1. IsSeq(rest)
    BY <1>2
  <2>2. QED
    BY <2>1, SeqConcat
<1> HIDE DEF r
<1>6. DOMAIN r = 1 .. (Len(new) + (Len(q) - 1))
  BY <1>2, <1>5, SeqDomain
<1>7. ASSUME NEW k \in DOMAIN r
      PROVE  \/ k \in DOMAIN new /\ r[k] = new[k]
             \/ \E i \in DOMAIN q : i # 1 /\ k = Len(new) + (i - 1) /\ r[k] = q[i]
  <2>1. CASE k <= Len(new)
    BY <1>3, <1>5, <1>6, <2>1
  <2>2. CASE k > Len(new)
    <3>1. k - Len(new) \in 1 .. Len(rest) /\ Len(new) + (k - Len(new)) = k
      BY <1>1, <1>2, <1>3, <1>6, <2>2
    <3>2. r[k] = rest[k - Len(new)] /\ rest[k - Len(new)] = q[(k - Len(new)) + 1]
      BY <1>2, <1>5, <3>1
    <3>3. (k - Len(new)) + 1 \in DOMAIN q /\ (k - Len(new)) + 1 # 1
          /\ k = Len(new) + (((k - Len(new)) + 1) - 1)
      BY <1>1, <1>2, <1>3, <1>6, <2>2
    <3>4. QED
      BY <3>2, <3>3
  <2>3. QED
    BY <1>1, <1>3, <1>6, <2>1, <2>2
<1>8. \A k \in DOMAIN new : k \in DOMAIN r /\ r[k] = new[k]
  BY <1>1, <1>2, <1>3, <1>5, <1>6
<1>9. ASSUME NEW i \in DOMAIN q, i # 1
      PROVE  Len(new) + (i - 1) \in DOMAIN r /\ r[Len(new) + (i - 1)] = q[i]
  <2>1. i - 1 \in 1 .. Len(rest) /\ (i - 1) + 1 = i
    BY <1>1, <1>2, <1>9
  <2>2. Len(new) + (i - 1) \in DOMAIN r
    BY <1>1, <1>3, <1>6, <1>9
  <2>3. QED
    BY <1>2, <1>5, <2>1, <2>2
<1>10. ASSUME NEW k \in DOMAIN r PROVE IsTask(r[k], E2, V2)
  <2>1. CASE k \in DOMAIN new /\ r[k] = new[k]
    BY <2>1
  <2>2. ASSUME NEW i \in DOMAIN q, r[k] = q[i] PROVE IsTask(r[k], E2, V2)
    <3>1. IsTask(q[i], E, V) /\ (q[i].loop \in V => q[i].loop \in V2)
      BY DEF IsStack
    <3>2. QED
      BY <2>2, <3>1, TaskWidens
  <2>3. QED
    BY <1>7, <2>1, <2>2
<1>11. ASSUME NEW k \in DOMAIN r, r[k].do = "ack"
       PROVE  RecvId(r[k].in) \in E2 \/ \E j \in DOMAIN r : j < k /\ Carries(r[j], r[k].in)
  <2>1. PICK i \in DOMAIN q : i # 1 /\ k = Len(new) + (i - 1) /\ r[k] = q[i]
    BY <1>7, <1>11
  <2>2. CASE RecvId(q[i].in) \in E
    BY <2>1, <2>2
  <2>3. ASSUME NEW j \in DOMAIN q, j < i, Carries(q[j], q[i].in)
        PROVE  RecvId(r[k].in) \in E2 \/ \E h \in DOMAIN r : h < k /\ Carries(r[h], r[k].in)
    <3>1. CASE j = 1
      <4>1. \A h \in DOMAIN new : h \in DOMAIN r /\ h < k /\ r[h] = new[h]
        BY <1>1, <1>3, <1>8, <2>1
      <4>2. QED
        BY <2>1, <2>3, <3>1, <4>1
    <3>2. CASE j # 1
      <4>1. Len(new) + (j - 1) \in DOMAIN r /\ r[Len(new) + (j - 1)] = q[j]
        BY <1>9, <3>2
      <4>2. Len(new) + (j - 1) < k
        BY <1>1, <1>3, <2>1, <2>3
      <4>3. QED
        BY <2>1, <2>3, <4>1, <4>2
    <3>3. QED
      BY <3>1, <3>2
  <2>4. QED
    BY <1>11, <2>1, <2>2, <2>3 DEF IsStack
<1>12. QED
  BY <1>5, <1>10, <1>11 DEF IsStack, r, rest

\* The loops that are held, the flows, and the loop in the map.
FlowsInv(E) ==
  /\ DOMAIN loops \subseteq Instance /\ \A i \in DOMAIN loops : GoodState(loops[i], E)
  /\ live \in DOMAIN loops \cup {None}
  /\ flows = [f \in Flow |-> flows[f]]
  /\ \A f \in Flow : IsStack(flows[f], E, DOMAIN loops)

\* A stack stays a stack when the loops it does not hold are forgotten.
LEMMA StackKeeps ==
  ASSUME NEW E, NEW E2, E \subseteq E2, NEW V, NEW V2, NEW q, IsStack(q, E, V),
         \A k \in DOMAIN q : q[k].loop \in V => q[k].loop \in V2
  PROVE  IsStack(q, E2, V2)
<1>1. \A k \in DOMAIN q : IsTask(q[k], E2, V2)
  BY TaskWidens DEF IsStack
<1>2. QED
  BY <1>1 DEF IsStack

\* A flow goes on with a stack that is in order.
LEMMA ProceedInv ==
  ASSUME NEW E, NEW E2, E \subseteq E2, FlowsInv(E), NEW f \in Flow, NEW todo, NEW instances, NEW map,
         DOMAIN loops \subseteq DOMAIN instances, DOMAIN instances \subseteq Instance,
         \A i \in DOMAIN instances : GoodState(instances[i], E2),
         map \in DOMAIN instances \cup {None},
         IsStack(todo, E2, DOMAIN instances), Proceed(f, todo, instances, map)
  PROVE  FlowsInv(E2)'
<1> DEFINE todos == [flows EXCEPT ![f] = todo]
           V == DOMAIN instances
           W == {x \in Instance : Referenced(x, todos, map)}
<1>1. flows' = todos /\ live' = map /\ loops' = [i \in W |-> instances[i]]
  BY DEF Proceed
<1>2. /\ todos = [g \in Flow |-> todos[g]]
      /\ \A g \in Flow : todos[g] = IF g = f THEN todo ELSE flows[g]
  BY DEF FlowsInv
<1>3. \A g \in Flow : IsStack(todos[g], E, DOMAIN loops) \/ IsStack(todos[g], E2, V)
  BY <1>2 DEF FlowsInv
<1> HIDE DEF todos
<1>4. ASSUME NEW g \in Flow, NEW k \in DOMAIN todos[g], todos[g][k].loop \in V
      PROVE  todos[g][k].loop \in W
  BY <1>4 DEF Referenced
<1>5. map \in W \cup {None}
  BY DEF Referenced
<1>6. W \subseteq V
  <2>1. SUFFICES ASSUME NEW x \in W PROVE x \in V
    OBVIOUS
  <2>2. x \in Instance /\ x # None
    BY NoInstance
  <2>3. CASE map = x
    BY <2>2, <2>3
  <2>4. CASE map # x
    <3>0. PICK g \in Flow : \E k \in DOMAIN todos[g] : todos[g][k].loop = x
      BY <2>4 DEF Referenced
    <3>1. PICK k \in DOMAIN todos[g] : todos[g][k].loop = x
      BY <3>0
    <3>2. x \in (DOMAIN loops) \cup {None} \/ x \in V \cup {None}
      BY <1>3, <3>1 DEF IsStack, IsTask
    <3>3. QED
      BY <2>2, <3>2
  <2>5. QED
    BY <2>3, <2>4
<1>7. \A g \in Flow : IsStack(todos[g], E2, W)
  <2>1. SUFFICES ASSUME NEW g \in Flow PROVE IsStack(todos[g], E2, W)
    OBVIOUS
  <2>2. \A k \in DOMAIN todos[g] : todos[g][k].loop \in V => todos[g][k].loop \in W
    BY <1>4
  <2>3. \A k \in DOMAIN todos[g] : todos[g][k].loop \in DOMAIN loops => todos[g][k].loop \in W
    BY <2>2
  <2> HIDE DEF W, V
  <2>4. E2 \subseteq E2
    OBVIOUS
  <2>5. QED
    BY <1>3, <2>2, <2>3, <2>4, StackKeeps
<1>8. DOMAIN loops' = W /\ \A i \in W : loops'[i] = instances[i]
  BY <1>1
<1>9. W \subseteq Instance
  OBVIOUS
<1> HIDE DEF W
<1>10. QED
  BY <1>1, <1>2, <1>5, <1>6, <1>7, <1>8, <1>9 DEF FlowsInv

\* A flow starts, or goes on with other tasks, with the loops as they are.
LEMMA ResumeInv ==
  ASSUME NEW E, FlowsInv(E), NEW f \in Flow, NEW todo, NEW map, map \in {live, None},
         IsStack(todo, E, DOMAIN loops), Proceed(f, todo, loops, map)
  PROVE  FlowsInv(E)'
<1>1. /\ E \subseteq E /\ DOMAIN loops \subseteq DOMAIN loops /\ DOMAIN loops \subseteq Instance
      /\ \A i \in DOMAIN loops : GoodState(loops[i], E)
      /\ map \in DOMAIN loops \cup {None}
  BY DEF FlowsInv
<1>2. QED
  BY <1>1, ProceedInv

\* A flow goes on with tasks that do what its first task was to do.
LEMMA ReplaceInv ==
  ASSUME NEW E, FlowsInv(E), NEW f \in Flow, flows[f] # <<>>, NEW new, NEW map, map \in {live, None},
         IsSeq(new), \A k \in DOMAIN new : IsTask(new[k], E, DOMAIN loops) /\ new[k].do # "ack",
         \A m : Carries(Current(f), m) => RecvId(m) \in E \/ \E k \in DOMAIN new : Carries(new[k], m),
         Proceed(f, new \o Tail(flows[f]), loops, map)
  PROVE  FlowsInv(E)'
<1>1. IsStack(flows[f], E, DOMAIN loops)
  BY DEF FlowsInv
<1>2. Current(f) = flows[f][1]
  BY <1>1, SeqTail DEF Current, IsStack
<1>3. E \subseteq E /\ DOMAIN loops \subseteq DOMAIN loops
  OBVIOUS
<1>4. IsStack(new \o Tail(flows[f]), E, DOMAIN loops)
  BY <1>1, <1>2, <1>3, ReplaceTop
<1>5. QED
  BY <1>4, ResumeInv

\* The first task of a flow becomes another.
LEMMA BecomeInv ==
  ASSUME NEW E, FlowsInv(E), NEW f \in Flow, flows[f] # <<>>, NEW t, Become(f, t),
         IsTask(t, E, DOMAIN loops), t.do # "ack",
         \A m : Carries(Current(f), m) => RecvId(m) \in E \/ Carries(t, m)
  PROVE  FlowsInv(E)'
<1> DEFINE new == <<t>>
<1>1. IsSeq(new) /\ DOMAIN new = {1} /\ new[1] = t
  BY SeqSingle
<1>2. Proceed(f, new \o Tail(flows[f]), loops, live)
  BY DEF Become
<1> HIDE DEF new
<1>3. /\ \A k \in DOMAIN new : IsTask(new[k], E, DOMAIN loops) /\ new[k].do # "ack"
      /\ \A m : Carries(Current(f), m) => RecvId(m) \in E \/ \E k \in DOMAIN new : Carries(new[k], m)
  BY <1>1
<1>4. QED
  BY <1>1, <1>2, <1>3, ReplaceInv

\* The first task of a flow is done.
LEMMA PopInv ==
  ASSUME NEW E, FlowsInv(E), NEW f \in Flow, flows[f] # <<>>, NEW map, map \in {live, None},
         Proceed(f, Tail(flows[f]), loops, map),
         \A m : Carries(Current(f), m) => RecvId(m) \in E
  PROVE  FlowsInv(E)'
<1>1. IsSeq(<<>>) /\ \A k \in DOMAIN <<>> : FALSE
  BY SeqEmpty
<1>2. <<>> \o Tail(flows[f]) = Tail(flows[f])
  <2>1. IsSeq(Tail(flows[f]))
    BY SeqTail DEF FlowsInv, IsStack
  <2>2. PICK S : Tail(flows[f]) \in Seq(S)
    BY <2>1 DEF IsSeq
  <2>3. QED
    BY <2>2
<1>3. QED
  BY <1>1, <1>2, ReplaceInv

\* An error ends a flow.
LEMMA ThrowInv ==
  ASSUME NEW E, FlowsInv(E), NEW f \in Flow, Throw(f)
  PROVE  FlowsInv(E)'
<1>1. IsStack(<<>>, E, DOMAIN loops)
  BY SeqEmpty DEF IsStack
<1>2. Proceed(f, <<>>, loops, live)
  BY DEF Throw
<1>3. QED
  BY <1>1, <1>2, ResumeInv

-----------------------------------------------------------------------------
(* The inductive invariant.                                                *)

WorldFields ==
  {"messages", "answers", "failures", "deliveries", "crashes", "expiries", "pauses", "wakes",
   "crashed", "restarted"}
IsWorld(w) == w = [x \in WorldFields |-> w[x]] /\ w.answers \in SUBSET SUBSET Tool

DurableInv ==
  /\ IsLog(log) /\ (cache = None \/ GoodState(cache, IdsOf(log))) /\ Rows(outbox)
  /\ sent \subseteq Message /\ acked \subseteq Message
  /\ \A m \in acked : RecvId(m) \in IdsOf(log)

DriverInv == DurableInv /\ FlowsInv(IdsOf(log)) /\ IsWorld(world)

\* A step that appends nothing.
LEMMA QuietInv ==
  ASSUME DriverInv, NEW E, E = IdsOf(log), FlowsInv(E)', log' = log, Rows(outbox'),
         cache' = cache \/ GoodState(cache', E), sent' \subseteq Message, acked' = acked, IsWorld(world')
  PROVE  DriverInv'
<1>1. DurableInv'
  BY DEF DriverInv, DurableInv
<1>2. FlowsInv(IdsOf(log))'
  BY DEF FlowsInv
<1>3. IsWorld(world)'
  OBVIOUS
<1>4. QED
  BY <1>1, <1>2, <1>3 DEF DriverInv

\* Nor touches anything but the flows.
LEMMA FlowsOnly ==
  ASSUME DriverInv, NEW E, E = IdsOf(log), FlowsInv(E)', UNCHANGED <<durable, Environment>>
  PROVE  DriverInv'
<1>1. /\ log' = log /\ outbox' = outbox /\ cache' = cache /\ sent' = sent /\ acked' = acked
      /\ world' = world
  BY DEF durable, Environment
<1>2. Rows(outbox) /\ sent \subseteq Message /\ IsWorld(world)
  BY DEF DriverInv, DurableInv
<1>3. QED
  BY <1>1, <1>2, QuietInv

\* A flow that is under way.
LEMMA AtTask ==
  ASSUME DriverInv, NEW f \in Flow, NEW do, At(f, do), NEW E, E = IdsOf(log)
  PROVE  /\ FlowsInv(E) /\ flows[f] # <<>> /\ Current(f).do = do
         /\ IsTask(Current(f), E, DOMAIN loops)
         /\ do \in WithLoop => Current(f).loop \in DOMAIN loops /\ GoodState(State(f), E)
<1>1. FlowsInv(E) /\ flows[f] # <<>> /\ Current(f).do = do
  BY DEF At, Idle, DriverInv
<1>2. IsStack(flows[f], E, DOMAIN loops)
  BY <1>1 DEF FlowsInv
<1>3. Current(f) = flows[f][1] /\ 1 \in DOMAIN flows[f]
  <2>1. IsSeq(flows[f])
    BY <1>2 DEF IsStack
  <2>2. Head(flows[f]) = flows[f][1] /\ Len(flows[f]) >= 1
    BY <1>1, <2>1, SeqTail
  <2>3. Len(flows[f]) \in Nat /\ DOMAIN flows[f] = 1 .. Len(flows[f])
    BY <2>1, SeqDomain
  <2>4. QED
    BY <2>2, <2>3 DEF Current
<1>4. IsTask(Current(f), E, DOMAIN loops)
  BY <1>2, <1>3 DEF IsStack
<1>5. do \in WithLoop => Current(f).loop \in DOMAIN loops
  BY <1>1, <1>4 DEF IsTask
<1>6. QED
  BY <1>1, <1>4, <1>5 DEF FlowsInv, State

-----------------------------------------------------------------------------
(* Loading a loop.                                                         *)

\* A task that goes on loading.
LEMMA StillLoading ==
  ASSUME NEW E, NEW V, NEW t, IsTask(t, E, V), t.do \in Loadings,
         NEW u, u = [x \in TaskFields |-> u[x]], u.do \in Loadings, u.then = t.then, u.kind = t.kind,
         u.in = t.in, u.items = t.items, u.effects = t.effects, u.loop = t.loop,
         u.do \in {"tail", "tailreply"} => GoodState(u.state, E)
  PROVE  IsTask(u, E, V) /\ u.do # "ack" /\ \A m : Carries(t, m) => Carries(u, m)
<1>1. Acts(u) = Acts(t)
  BY DEF Acts
<1>2. IsTask(u, E, V) /\ u.do # "ack"
  BY <1>1 DEF IsTask, Loadings, WithLoop, TaskType
<1>3. QED
  BY <1>1, <1>2 DEF Carries, Loadings

\* A task whose loop is there.
LEMMA Loaded ==
  ASSUME NEW E, NEW V, NEW V2, V \subseteq V2, NEW t, IsTask(t, E, V), t.do \in Loadings,
         NEW u, u = [x \in TaskFields |-> u[x]], u.do = t.then, u.kind = t.kind,
         u.in = t.in, u.items = t.items, u.effects = t.effects, u.loop \in V2
  PROVE  IsTask(u, E, V2) /\ u.do # "ack" /\ \A m : Carries(t, m) => Carries(u, m)
<1>1. t.then \in Loadable
  BY DEF IsTask
<1>2. Acts(u) = Acts(t)
  BY <1>1 DEF Acts, Loadings, Loadable
<1>3. IsTask(u, E, V2) /\ u.do # "ack"
  BY <1>1, <1>2 DEF IsTask, Loadable, TaskType, Loadings
<1>4. QED
  BY <1>2, <1>3 DEF Carries, Loadings

\* loop(), when the loop is in the map.
LEMMA LoadLiveInv ==
  ASSUME DriverInv, NEW f \in Flow, LoadLive(f)
  PROVE  DriverInv'
<1>0. SUFFICES ASSUME NEW E, E = IdsOf(log) PROVE DriverInv'
  OBVIOUS
<1> DEFINE t == Current(f)
           u == [t EXCEPT !.do = t.then, !.then = None, !.loop = live]
<1>1. At(f, "load") /\ live # None /\ Become(f, u) /\ UNCHANGED <<durable, Environment>>
  BY DEF LoadLive
<1>2. FlowsInv(E) /\ flows[f] # <<>> /\ t.do = "load" /\ IsTask(t, E, DOMAIN loops)
  BY <1>0, <1>1, AtTask
<1>3. live \in DOMAIN loops
  BY <1>1, <1>2 DEF FlowsInv
<1>4. /\ u = [x \in TaskFields |-> u[x]] /\ u.do = t.then /\ u.kind = t.kind
      /\ u.in = t.in /\ u.items = t.items /\ u.effects = t.effects /\ u.loop = live
  BY <1>2 DEF IsTask, TaskFields
<1> HIDE DEF u, t
<1>5. IsTask(u, E, DOMAIN loops) /\ u.do # "ack" /\ \A m : Carries(t, m) => Carries(u, m)
  BY <1>2, <1>3, <1>4, Loaded DEF Loadings
<1>6. FlowsInv(E)'
  BY <1>1, <1>2, <1>5, BecomeInv DEF t
<1>7. QED
  BY <1>0, <1>1, <1>6, FlowsOnly

\* A loop that goes on loading.
LEMMA LoadingInv ==
  ASSUME DriverInv, NEW f \in Flow, NEW do \in Loadings, At(f, do), NEW u, Become(f, u),
         u = [x \in TaskFields |-> u[x]], u.do \in Loadings, u.then = Current(f).then,
         u.kind = Current(f).kind, u.in = Current(f).in, u.items = Current(f).items,
         u.effects = Current(f).effects, u.loop = Current(f).loop,
         u.do \in {"tail", "tailreply"} => GoodState(u.state, IdsOf(log)),
         UNCHANGED <<durable, Environment>>
  PROVE  DriverInv'
<1>0. SUFFICES ASSUME NEW E, E = IdsOf(log) PROVE DriverInv'
  OBVIOUS
<1> DEFINE t == Current(f)
<1>1. FlowsInv(E) /\ flows[f] # <<>> /\ t.do = do /\ IsTask(t, E, DOMAIN loops)
  BY <1>0, AtTask
<1>2. IsTask(u, E, DOMAIN loops) /\ u.do # "ack" /\ \A m : Carries(t, m) => Carries(u, m)
  <2>1. u.do \in {"tail", "tailreply"} => GoodState(u.state, E)
    BY <1>0
  <2>2. QED
    BY <1>1, <2>1, StillLoading
<1>3. FlowsInv(E)'
  BY <1>1, <1>2, BecomeInv
<1>4. QED
  BY <1>0, <1>3, FlowsOnly

\* loop(), when it is not: the head is asked for.
LEMMA LoadColdInv ==
  ASSUME DriverInv, NEW f \in Flow, LoadCold(f)
  PROVE  DriverInv'
<1> DEFINE t == Current(f)
           u == [t EXCEPT !.do = "head"]
<1>1. At(f, "load") /\ Become(f, u) /\ UNCHANGED <<durable, Environment>>
  BY DEF LoadCold
<1>2. IsTask(t, IdsOf(log), DOMAIN loops)
  BY <1>1, AtTask
<1>3. /\ u = [x \in TaskFields |-> u[x]] /\ u.do = "head" /\ u.then = t.then /\ u.kind = t.kind
      /\ u.in = t.in /\ u.items = t.items /\ u.effects = t.effects /\ u.loop = t.loop
  BY <1>2 DEF IsTask, TaskFields
<1> HIDE DEF u
<1>4. "load" \in Loadings /\ u.do \in Loadings /\ u.do \notin {"tail", "tailreply"}
  BY <1>3 DEF Loadings
<1>5. QED
  BY <1>1, <1>3, <1>4, LoadingInv

\* The store answers with its head.
LEMMA GetLogHeadInv ==
  ASSUME DriverInv, NEW f \in Flow, GetLogHead(f)
  PROVE  DriverInv'
<1> DEFINE t == Current(f)
           u == [t EXCEPT !.do = "headreply", !.expected = Len(log)]
<1>1. At(f, "head") /\ Become(f, u) /\ UNCHANGED <<durable, Environment>>
  BY DEF GetLogHead
<1>2. IsTask(t, IdsOf(log), DOMAIN loops)
  BY <1>1, AtTask
<1>3. /\ u = [x \in TaskFields |-> u[x]] /\ u.do = "headreply" /\ u.then = t.then /\ u.kind = t.kind
      /\ u.in = t.in /\ u.items = t.items /\ u.effects = t.effects /\ u.loop = t.loop
  BY <1>2 DEF IsTask, TaskFields
<1> HIDE DEF u
<1>4. "head" \in Loadings /\ u.do \in Loadings /\ u.do \notin {"tail", "tailreply"}
  BY <1>3 DEF Loadings
<1>5. QED
  BY <1>1, <1>3, <1>4, LoadingInv

\* A new loop takes the place in the map.
LEMMA InstallInv ==
  ASSUME NEW E, FlowsInv(E), NEW f \in Flow, flows[f] # <<>>, IsTask(Current(f), E, DOMAIN loops),
         Current(f).do \in Loadings, NEW s, GoodState(s, E), Install(f, s)
  PROVE  FlowsInv(E)'
<1> DEFINE t == Current(f)
           i == CHOOSE x \in Instance : ~Referenced(x, flows, live)
           u == [t EXCEPT !.do = t.then, !.then = None, !.loop = i, !.state = None, !.expected = 0]
           instances == [x \in DOMAIN loops \cup {i} |-> IF x = i THEN s ELSE loops[x]]
           V == DOMAIN instances
           new == <<u>>
<1>1. /\ i \in Instance
      /\ Proceed(f, new \o Tail(flows[f]), instances, i)
  BY DEF Install
<1> HIDE DEF i
<1>2. /\ u = [x \in TaskFields |-> u[x]] /\ u.do = t.then /\ u.kind = t.kind
      /\ u.in = t.in /\ u.items = t.items /\ u.effects = t.effects /\ u.loop = i
  BY DEF IsTask, TaskFields
<1>3. /\ DOMAIN loops \subseteq V /\ i \in V /\ V \subseteq Instance
      /\ \A x \in V : GoodState(instances[x], E)
  <2>1. V = DOMAIN loops \cup {i} /\ \A x \in V : instances[x] = IF x = i THEN s ELSE loops[x]
    OBVIOUS
  <2> HIDE DEF V, instances
  <2>2. QED
    BY <1>1, <2>1 DEF FlowsInv
<1>4. IsSeq(new) /\ DOMAIN new = {1} /\ new[1] = u
  BY SeqSingle
<1>5. Current(f) = flows[f][1] /\ IsStack(flows[f], E, DOMAIN loops)
  BY SeqTail DEF FlowsInv, IsStack, Current
<1> HIDE DEF u, instances, V, new
<1>6. IsTask(u, E, V) /\ u.do # "ack" /\ \A m : Carries(t, m) => Carries(u, m)
  BY <1>2, <1>3, Loaded
<1>7. /\ \A k \in DOMAIN new : IsTask(new[k], E, V) /\ new[k].do # "ack"
      /\ \A m : Carries(flows[f][1], m) => RecvId(m) \in E \/ \E k \in DOMAIN new : Carries(new[k], m)
  BY <1>4, <1>5, <1>6
<1>8. E \subseteq E
  OBVIOUS
<1>9. IsStack(new \o Tail(flows[f]), E, V)
  BY <1>3, <1>4, <1>5, <1>7, <1>8, ReplaceTop
<1>10. i \in V \cup {None}
  BY <1>3
<1>11. QED
  BY <1>1, <1>3, <1>8, <1>9, <1>10, ProceedInv DEF V

\* The cached state is used, completed, or passed over.
LEMMA CompareHeadInv ==
  ASSUME DriverInv, NEW f \in Flow, CompareHead(f)
  PROVE  DriverInv'
<1> DEFINE t == Current(f)
           base == IF CachedThrough(t.expected) = None THEN InitialState ELSE cache
           u == [t EXCEPT !.do = "tail", !.state = base]
<1>0. SUFFICES ASSUME NEW E, E = IdsOf(log) PROVE DriverInv'
  OBVIOUS
<1>1. At(f, "headreply") /\ UNCHANGED <<durable, Environment>> /\ (Install(f, base) \/ Become(f, u))
  BY DEF CompareHead
<1>2. FlowsInv(E) /\ flows[f] # <<>> /\ t.do = "headreply" /\ IsTask(t, E, DOMAIN loops)
  BY <1>0, <1>1, AtTask
<1>3. GoodState(base, E)
  <2>1. CachedThrough(t.expected) # None => cache # None
    BY DEF CachedThrough
  <2>2. cache # None => GoodState(cache, E)
    BY <1>0 DEF DriverInv, DurableInv
  <2>3. QED
    BY <2>1, <2>2, InitialGood
<1> HIDE DEF base
<1>4. CASE Install(f, base)
  <2>1. FlowsInv(E)'
    BY <1>2, <1>3, <1>4, InstallInv DEF Loadings
  <2>2. QED
    BY <1>0, <1>1, <2>1, FlowsOnly
<1>5. CASE Become(f, u)
  <2>1. /\ u = [x \in TaskFields |-> u[x]] /\ u.do = "tail" /\ u.then = t.then /\ u.kind = t.kind
        /\ u.in = t.in /\ u.items = t.items /\ u.effects = t.effects /\ u.loop = t.loop
        /\ u.state = base
    BY <1>2 DEF IsTask, TaskFields
  <2> HIDE DEF u
  <2>2. "headreply" \in Loadings /\ u.do \in Loadings /\ GoodState(u.state, IdsOf(log))
    BY <1>0, <1>3, <2>1 DEF Loadings
  <2>3. QED
    BY <1>1, <1>5, <2>1, <2>2, LoadingInv
<1>6. QED
  BY <1>1, <1>4, <1>5

\* The store answers with the end of the journal.
LEMMA ReadTailInv ==
  ASSUME DriverInv, NEW f \in Flow, ReadTail(f)
  PROVE  DriverInv'
<1> DEFINE t == Current(f)
           s == t.state
           state == FoldEvents(s, SubSeq(log, s.lastSeq + 1, Len(log)))
           u == [t EXCEPT !.do = "tailreply", !.state = state]
<1>1. At(f, "tail") /\ Become(f, u) /\ UNCHANGED <<durable, Environment>>
  BY DEF ReadTail
<1>2. IsTask(t, IdsOf(log), DOMAIN loops) /\ t.do = "tail"
  BY <1>1, AtTask
<1>3. GoodState(s, IdsOf(log)) /\ s.lastSeq \in Nat /\ IsLog(log)
  BY <1>2 DEF IsTask, GoodState, IsState, Shaped, DriverInv, DurableInv
<1>4. GoodState(state, IdsOf(log))
  <2>1. GoodEvents(SubSeq(log, s.lastSeq + 1, Len(log)), IdsOf(log))
    BY <1>3, TailGood
  <2>2. QED
    BY <1>3, <2>1, FoldGood
<1> HIDE DEF state
<1>5. /\ u = [x \in TaskFields |-> u[x]] /\ u.do = "tailreply" /\ u.then = t.then /\ u.kind = t.kind
      /\ u.in = t.in /\ u.items = t.items /\ u.effects = t.effects /\ u.loop = t.loop
      /\ u.state = state
  BY <1>2 DEF IsTask, TaskFields
<1> HIDE DEF u
<1>6. "tail" \in Loadings /\ u.do \in Loadings /\ GoodState(u.state, IdsOf(log))
  BY <1>4, <1>5 DEF Loadings
<1>7. QED
  BY <1>1, <1>5, <1>6, LoadingInv

\* The loop is there, and its state cached.
LEMMA LoadTailInv ==
  ASSUME DriverInv, NEW f \in Flow, LoadTail(f)
  PROVE  DriverInv'
<1> DEFINE t == Current(f)
<1>0. SUFFICES ASSUME NEW E, E = IdsOf(log) PROVE DriverInv'
  OBVIOUS
<1>1. /\ At(f, "tailreply") /\ Install(f, t.state) /\ cache' = t.state
      /\ log' = log /\ outbox' = outbox /\ sent' = sent /\ acked' = acked /\ world' = world
  BY DEF LoadTail, Environment
<1>2. FlowsInv(E) /\ flows[f] # <<>> /\ t.do = "tailreply" /\ IsTask(t, E, DOMAIN loops)
  BY <1>0, <1>1, AtTask
<1>3. GoodState(t.state, E)
  BY <1>2 DEF IsTask
<1>4. FlowsInv(E)'
  BY <1>1, <1>2, <1>3, InstallInv DEF Loadings
<1>5. Rows(outbox) /\ sent \subseteq Message /\ IsWorld(world)
  BY DEF DriverInv, DurableInv
<1>6. QED
  BY <1>0, <1>1, <1>3, <1>4, <1>5, QuietInv

-----------------------------------------------------------------------------
(* The tasks that flows are made of.                                       *)

\* The fields of a new task.
LEMMA TaskIs ==
  ASSUME NEW do
  PROVE  LET u == Task(do)
         IN  /\ u = [x \in TaskFields |-> u[x]] /\ u.do = do /\ u.then = None /\ u.kind = None
             /\ u.loop = None /\ u.in = None /\ u.items = <<>> /\ u.effects = {} /\ u.code = None
BY DEF Task, TaskFields

\* The fields of a task that has to load its loop first.
LEMMA LoadingIs ==
  ASSUME NEW t, t = [x \in TaskFields |-> t[x]]
  PROVE  LET u == Loading(t)
         IN  /\ u = [x \in TaskFields |-> u[x]] /\ u.do = "load" /\ u.then = t.do /\ u.kind = t.kind
             /\ u.loop = t.loop /\ u.in = t.in /\ u.items = t.items /\ u.effects = t.effects
             /\ u.code = t.code
BY DEF Loading, TaskFields

\* The fields of a task that runs a step.
LEMMA StepTaskIs ==
  ASSUME NEW in, NEW retries
  PROVE  LET u == StepTask(in, retries)
         IN  /\ u = [x \in TaskFields |-> u[x]] /\ u.do = "step" /\ u.then = None /\ u.kind = "step"
             /\ u.loop = None /\ u.in = in /\ u.items = <<>> /\ u.effects = {}
BY DEF StepTask, Task, TaskFields

\* A task that neither runs a step nor appends.
LEMMA SimpleTask ==
  ASSUME NEW E, NEW V, NEW u, u = [x \in TaskFields |-> u[x]], u.loop = None,
         \/ u.do = "load" /\ u.then \in Loadable \ {"step", "send", "restrand"}
         \/ u.do \in {"drop", "delete", "abort", "unschedule"}
         \/ u.do = "ack" /\ u.in \in Message
  PROVE  IsTask(u, E, V)
<1>1. Acts(u) # "step" /\ Acts(u) \notin Appending
  BY DEF Acts, Loadings, Loadable, Appending
<1>2. QED
  BY <1>1 DEF IsTask, TaskType, Loadings, Loadable, WithLoop

\* A task that runs a step once its loop is loaded.
LEMMA LoadingStep ==
  ASSUME NEW E, NEW V, NEW in, IsIncoming(in), NEW retries
  PROVE  LET u == Loading(StepTask(in, retries))
         IN  /\ IsTask(u, E, V) /\ u.do # "ack"
             /\ \A m : in = Incoming("prompt", m) => Carries(u, m)
<1> DEFINE t == StepTask(in, retries)
           u == Loading(t)
<1>1. /\ t = [x \in TaskFields |-> t[x]] /\ t.do = "step" /\ t.kind = "step"
      /\ t.loop = None /\ t.in = in
  BY StepTaskIs
<1> HIDE DEF t
<1>2. /\ u = [x \in TaskFields |-> u[x]] /\ u.do = "load" /\ u.then = "step" /\ u.kind = "step"
      /\ u.loop = None /\ u.in = in
  BY <1>1, LoadingIs
<1> HIDE DEF u
<1>3. Acts(u) = "step"
  BY <1>2 DEF Acts, Loadings
<1>4. IsTask(u, E, V) /\ u.do # "ack"
  BY <1>2, <1>3 DEF IsTask, TaskType, Loadings, Loadable, WithLoop, Appending
<1>5. QED
  BY <1>2, <1>3, <1>4 DEF Carries, u, t

\* A task that runs a step on a loop that is held.
LEMMA StepOnLoop ==
  ASSUME NEW E, NEW V, NEW in, IsIncoming(in), NEW retries, NEW loop \in V
  PROVE  LET u == [StepTask(in, retries) EXCEPT !.loop = loop]
         IN  IsTask(u, E, V) /\ u.do # "ack"
<1> DEFINE t == StepTask(in, retries)
           u == [t EXCEPT !.loop = loop]
<1>1. /\ t = [x \in TaskFields |-> t[x]] /\ t.do = "step" /\ t.kind = "step" /\ t.in = in
  BY StepTaskIs
<1> HIDE DEF t
<1>2. /\ u = [x \in TaskFields |-> u[x]] /\ u.do = "step" /\ u.kind = "step"
      /\ u.loop = loop /\ u.in = in
  BY <1>1 DEF TaskFields
<1> HIDE DEF u
<1>3. Acts(u) = "step"
  BY <1>2 DEF Acts, Loadings
<1>4. IsTask(u, E, V) /\ u.do # "ack"
  BY <1>2, <1>3 DEF IsTask, TaskType, Loadings, WithLoop, Appending
<1>5. QED
  BY <1>4 DEF u, t

\* The cascade of envelopes.
LEMMA CascadeTasks ==
  ASSUME NEW E, NEW V, NEW envs, IsSeq(envs), \A i \in DOMAIN envs : IsEvent(envs[i]),
         NEW retries, NEW loop \in V
  PROVE  LET q == Cascade(loop, envs, retries)
         IN  IsSeq(q) /\ \A k \in DOMAIN q : IsTask(q[k], E, V) /\ q[k].do # "ack"
<1> DEFINE q == Cascade(loop, envs, retries)
<1>1. Len(envs) \in Nat /\ DOMAIN envs = 1 .. Len(envs)
  BY SeqDomain
<1>2. q = [i \in DOMAIN envs |-> [StepTask(Incoming("event", envs[i]), retries) EXCEPT !.loop = loop]]
  BY DEF Cascade
<1> HIDE DEF q
<1>3. IsSeq(q)
  <2>1. q \in [1 .. Len(envs) -> {q[i] : i \in 1 .. Len(envs)}]
    BY <1>1, <1>2
  <2>2. QED
    BY <1>1, <2>1, FcnIsSeq
<1>4. ASSUME NEW k \in DOMAIN q PROVE IsTask(q[k], E, V) /\ q[k].do # "ack"
  <2>1. k \in DOMAIN envs
    BY <1>2
  <2> DEFINE in == Incoming("event", envs[k])
  <2>2. in.type = "event" /\ in.arg = envs[k]
    BY DEF Incoming
  <2>3. q[k] = [StepTask(in, retries) EXCEPT !.loop = loop]
    BY <1>2, <2>1
  <2> HIDE DEF in
  <2>4. IsIncoming(in)
    BY <2>1, <2>2 DEF IsIncoming
  <2>5. QED
    BY <2>3, <2>4, StepOnLoop
<1>5. QED
  BY <1>3, <1>4 DEF q

-----------------------------------------------------------------------------
(* runStep and append.                                                     *)

\* A step whose answer is to be appended, or nothing.
LEMMA RunStepInv ==
  ASSUME DriverInv, NEW f \in Flow, RunStep(f)
  PROVE  DriverInv'
<1> DEFINE t == Current(f)
           s == State(f)
           out == Step(s, t.in)
           u == [t EXCEPT !.do = "send", !.items = out.append, !.effects = out.effects]
<1>0. SUFFICES ASSUME NEW E, E = IdsOf(log) PROVE DriverInv'
  OBVIOUS
<1>1. /\ At(f, "step") /\ UNCHANGED <<durable, Environment>>
      /\ (out = Empty /\ Proceed(f, Tail(flows[f]), loops, live)) \/ Become(f, u)
  BY DEF RunStep, Pop
<1>2. /\ FlowsInv(E) /\ flows[f] # <<>> /\ t.do = "step" /\ IsTask(t, E, DOMAIN loops)
      /\ t.loop \in DOMAIN loops /\ GoodState(s, E)
  BY <1>0, <1>1, AtTask DEF WithLoop
<1>3. Acts(t) = "step" /\ t.kind = "step" /\ IsIncoming(t.in)
  BY <1>2 DEF IsTask, Acts, Loadings
<1>4. PICK tags : IsOutput(out, tags)
  BY <1>2, <1>3, StepOutput DEF GoodState, IsStepOutput
<1>5. ASSUME NEW m, Carries(t, m) PROVE RecvId(m) \in E \/ Receives(out.append, m)
  <2>1. t.in.type = "prompt" /\ t.in.arg = m
    BY <1>5 DEF Carries, Incoming
  <2>2. out = PromptStep(s, m)
    BY <2>1 DEF Step
  <2>3. AlreadyIngested(s, m) => RecvId(m) \in E
    BY <1>2 DEF AlreadyIngested, GoodState, Known
  <2>4. QED
    BY <2>2, <2>3, PromptOutput
<1> HIDE DEF out
<1>6. CASE out = Empty /\ Proceed(f, Tail(flows[f]), loops, live)
  <2>1. \A m : ~Receives(out.append, m)
    BY <1>6 DEF Empty, Output, Receives
  <2>2. \A m : Carries(t, m) => RecvId(m) \in E
    BY <1>5, <2>1
  <2>3. FlowsInv(E)'
    BY <1>2, <1>6, <2>2, PopInv
  <2>4. QED
    BY <1>0, <1>1, <2>3, FlowsOnly
<1>7. CASE Become(f, u)
  <2>1. /\ u = [x \in TaskFields |-> u[x]] /\ u.do = "send" /\ u.kind = t.kind /\ u.in = t.in
        /\ u.items = out.append /\ u.effects = out.effects /\ u.loop = t.loop
    BY <1>2 DEF IsTask, TaskFields
  <2> HIDE DEF u
  <2>2. Acts(u) = "send"
    BY <2>1 DEF Acts, Loadings
  <2>3. IsTask(u, E, DOMAIN loops) /\ u.do # "ack"
    BY <1>2, <1>3, <1>4, <2>1, <2>2 DEF IsTask, TaskType, Loadings, WithLoop, Appending, IsOutput
  <2>4. \A m : Carries(t, m) => RecvId(m) \in E \/ Carries(u, m)
    BY <1>5, <2>1, <2>2 DEF Carries
  <2>5. FlowsInv(E)'
    BY <1>2, <1>7, <2>3, <2>4, BecomeInv
  <2>6. QED
    BY <1>0, <1>1, <2>5, FlowsOnly
<1>8. QED
  BY <1>1, <1>6, <1>7

\* The batch goes to the store.
LEMMA SendInv ==
  ASSUME DriverInv, NEW f \in Flow, Send(f)
  PROVE  DriverInv'
<1> DEFINE t == Current(f)
           u == [t EXCEPT !.do = "commit", !.expected = State(f).lastSeq]
<1>0. SUFFICES ASSUME NEW E, E = IdsOf(log) PROVE DriverInv'
  OBVIOUS
<1>1. At(f, "send") /\ UNCHANGED <<durable, Environment>> /\ Become(f, u)
  BY DEF Send
<1>2. /\ FlowsInv(E) /\ flows[f] # <<>> /\ t.do = "send" /\ IsTask(t, E, DOMAIN loops)
      /\ t.loop \in DOMAIN loops
  BY <1>0, <1>1, AtTask DEF WithLoop
<1>3. /\ u = [x \in TaskFields |-> u[x]] /\ u.do = "commit" /\ u.kind = t.kind /\ u.in = t.in
      /\ u.items = t.items /\ u.effects = t.effects /\ u.loop = t.loop
  BY <1>2 DEF IsTask, TaskFields
<1> HIDE DEF u
<1>4. Acts(u) = "commit" /\ Acts(t) = "send"
  BY <1>2, <1>3 DEF Acts, Loadings
<1>5. IsTask(u, E, DOMAIN loops) /\ u.do # "ack"
  BY <1>2, <1>3, <1>4 DEF IsTask, TaskType, Loadings, WithLoop, Appending
<1>6. \A m : Carries(t, m) => Carries(u, m)
  BY <1>2, <1>3, <1>4 DEF Carries
<1>7. FlowsInv(E)'
  BY <1>1, <1>2, <1>5, <1>6, BecomeInv
<1>8. QED
  BY <1>0, <1>1, <1>7, FlowsOnly

\* The store appends the batch, or refuses it.
LEMMA CommitInv ==
  ASSUME DriverInv, NEW f \in Flow, Commit(f)
  PROVE  DriverInv'
<1> DEFINE t == Current(f)
           error == AppendError(t.expected, t.items)
           l == log \o Inserted(t.items)
           u == [t EXCEPT !.do = "reply", !.envs = Envelopes(t.items)]
           w == [t EXCEPT !.do = "stale", !.code = error]
<1>0. SUFFICES ASSUME NEW E, E = IdsOf(log), NEW E2, E2 = IdsOf(l) PROVE DriverInv'
  OBVIOUS
<1>1. /\ At(f, "commit")
      /\ cache' = cache /\ outbox' = outbox /\ sent' = sent /\ acked' = acked /\ world' = world
      /\ \/ error = None /\ log' = l /\ Proceed(f, <<u>> \o Tail(flows[f]), loops, live)
         \/ Become(f, w) /\ log' = log
  BY DEF Commit, Environment, Become
<1>2. /\ FlowsInv(E) /\ flows[f] # <<>> /\ t.do = "commit" /\ IsTask(t, E, DOMAIN loops)
      /\ t.loop \in DOMAIN loops
  BY <1>0, <1>1, AtTask DEF WithLoop
<1>3. Acts(t) = "commit"
  BY <1>2 DEF Acts, Loadings
<1>4. PICK tags : Batch(t.items, tags)
  BY <1>2, <1>3 DEF IsTask, Appending
<1>5. IsLog(log) /\ Rows(outbox) /\ sent \subseteq Message /\ acked \subseteq Message /\ IsWorld(world)
  BY DEF DriverInv, DurableInv
<1>6. CASE error = None /\ log' = l /\ Proceed(f, <<u>> \o Tail(flows[f]), loops, live)
  <2>1. IsLog(l) /\ E \subseteq E2 /\ \A i \in DOMAIN t.items : t.items[i].id \in E2
    BY <1>0, <1>4, <1>5, <1>6, AppendedLog
  <2>2. GoodEvents(Envelopes(t.items), E2)
    BY <1>0, <1>4, <1>5, <1>6, EnvelopesGood
  <2>3. /\ u = [x \in TaskFields |-> u[x]] /\ u.do = "reply" /\ u.kind = t.kind /\ u.in = t.in
        /\ u.items = t.items /\ u.effects = t.effects /\ u.loop = t.loop
        /\ u.envs = Envelopes(t.items)
    BY <1>2 DEF IsTask, TaskFields
  <2> DEFINE new == <<u>>
  <2>4. IsSeq(new) /\ DOMAIN new = {1} /\ new[1] = u /\ Proceed(f, new \o Tail(flows[f]), loops, live)
    BY <1>6, SeqSingle
  <2> HIDE DEF u, new, l
  <2>5. Acts(u) = "reply"
    BY <2>3 DEF Acts, Loadings
  <2>i. ItemsIn(u.items, E2)
    BY <2>1, <2>3 DEF ItemsIn
  <2>6. IsTask(u, E2, DOMAIN loops) /\ u.do # "ack"
    BY <1>2, <1>3, <2>2, <2>3, <2>5, <2>i DEF IsTask, TaskType, Loadings, WithLoop, Appending
  <2>7. \A m : Carries(t, m) => RecvId(m) \in E2
    BY <1>2, <1>3, <2>1 DEF Carries, Receives
  <2>8. t = flows[f][1] /\ IsStack(flows[f], E, DOMAIN loops)
    BY <1>2, SeqTail DEF FlowsInv, IsStack, Current
  <2>9. /\ \A k \in DOMAIN new : IsTask(new[k], E2, DOMAIN loops) /\ new[k].do # "ack"
        /\ \A m : Carries(flows[f][1], m) => RecvId(m) \in E2 \/ \E k \in DOMAIN new : Carries(new[k], m)
    BY <2>4, <2>6, <2>7, <2>8
  <2>10. DOMAIN loops \subseteq DOMAIN loops
    OBVIOUS
  <2>11. IsStack(new \o Tail(flows[f]), E2, DOMAIN loops)
    BY <1>2, <2>1, <2>4, <2>8, <2>9, <2>10, ReplaceTop
  <2>12. /\ DOMAIN loops \subseteq Instance /\ \A i \in DOMAIN loops : GoodState(loops[i], E2)
         /\ live \in DOMAIN loops \cup {None}
    BY <1>2, <2>1 DEF FlowsInv, GoodState
  <2>13. FlowsInv(E2)'
    BY <1>2, <2>1, <2>4, <2>10, <2>11, <2>12, ProceedInv
  <2>14. DurableInv'
    <3>1. cache = None \/ GoodState(cache, E2)
      BY <1>0, <2>1 DEF DriverInv, DurableInv, GoodState
    <3>2. \A m \in acked : RecvId(m) \in E2
      BY <1>0, <2>1 DEF DriverInv, DurableInv
    <3>3. IdsOf(log') = E2 /\ IsLog(log')
      BY <1>0, <1>6, <2>1
    <3>4. QED
      BY <1>1, <1>5, <3>1, <3>2, <3>3 DEF DurableInv
  <2>15. FlowsInv(IdsOf(log))'
    BY <1>0, <1>6, <2>13 DEF FlowsInv
  <2>16. QED
    BY <1>1, <1>5, <2>14, <2>15 DEF DriverInv
<1>7. CASE Become(f, w) /\ log' = log
  <2> HIDE DEF error
  <2>1. /\ w = [x \in TaskFields |-> w[x]] /\ w.do = "stale" /\ w.kind = t.kind /\ w.in = t.in
        /\ w.items = t.items /\ w.effects = t.effects /\ w.loop = t.loop
    BY <1>2 DEF IsTask, TaskFields
  <2> HIDE DEF w
  <2>2. Acts(w) = "stale"
    BY <2>1 DEF Acts, Loadings
  <2>3. IsTask(w, E, DOMAIN loops) /\ w.do # "ack"
    BY <1>2, <1>3, <2>1, <2>2 DEF IsTask, TaskType, Loadings, WithLoop, Appending
  <2>4. \A m : Carries(t, m) => Carries(w, m)
    BY <1>2, <1>3, <2>1, <2>2 DEF Carries
  <2>5. FlowsInv(E)'
    BY <1>2, <1>7, <2>3, <2>4, BecomeInv
  <2>6. QED
    BY <1>0, <1>1, <1>5, <1>7, <2>5, QuietInv
<1>8. QED
  BY <1>1, <1>6, <1>7

\* The envelopes that are new to the loop's state are kept.
LEMMA ReplyInv ==
  ASSUME DriverInv, NEW f \in Flow, Reply(f)
  PROVE  DriverInv'
<1> DEFINE t == Current(f)
           envs == After(t.envs, State(f).lastSeq)
           u == [t EXCEPT !.do = "fold", !.envs = envs]
<1>0. SUFFICES ASSUME NEW E, E = IdsOf(log) PROVE DriverInv'
  OBVIOUS
<1>1. At(f, "reply") /\ UNCHANGED <<durable, Environment>> /\ Become(f, u)
  BY DEF Reply
<1>2. /\ FlowsInv(E) /\ flows[f] # <<>> /\ t.do = "reply" /\ IsTask(t, E, DOMAIN loops)
      /\ t.loop \in DOMAIN loops
  BY <1>0, <1>1, AtTask DEF WithLoop
<1>3. GoodEvents(t.envs, E)
  BY <1>2 DEF IsTask
<1>4. GoodEvents(envs, E)
  BY <1>3, AfterKeeps DEF GoodEvents
<1> HIDE DEF envs
<1>5. /\ u = [x \in TaskFields |-> u[x]] /\ u.do = "fold" /\ u.kind = t.kind /\ u.in = t.in
      /\ u.items = t.items /\ u.effects = t.effects /\ u.loop = t.loop /\ u.envs = envs
  BY <1>2 DEF IsTask, TaskFields
<1> HIDE DEF u
<1>6. Acts(u) = "fold" /\ Acts(t) = "reply"
  BY <1>2, <1>5 DEF Acts, Loadings
<1>7. IsTask(u, E, DOMAIN loops) /\ u.do # "ack"
  BY <1>2, <1>4, <1>5, <1>6 DEF IsTask, TaskType, Loadings, WithLoop, Appending
<1>8. \A m : ~Carries(t, m)
  BY <1>2, <1>6 DEF Carries
<1>9. FlowsInv(E)'
  BY <1>1, <1>2, <1>7, <1>8, BecomeInv
<1>10. QED
  BY <1>0, <1>1, <1>9, FlowsOnly

\* The envelopes are folded; the caller's effects, or the next of its steps.
LEMMA FoldInv ==
  ASSUME DriverInv, NEW f \in Flow, Fold(f)
  PROVE  DriverInv'
<1> DEFINE t == Current(f)
           s == FoldEvents(State(f), t.envs)
           next == CASE t.kind = "step" -> Cascade(t.loop, t.envs, t.retries)
                     [] t.kind = "outcome" -> Cascade(t.loop, t.envs, AppendRetries)
                     [] t.kind \in {"suspend", "stranded"} -> <<>>
           instances == [loops EXCEPT ![t.loop] = s]
           V == DOMAIN loops
           id == t.row.effect.id
<1>0. SUFFICES ASSUME NEW E, E = IdsOf(log) PROVE DriverInv'
  OBVIOUS
<1>1. /\ At(f, "fold") /\ Proceed(f, next \o Tail(flows[f]), instances, live)
      /\ cache' = s /\ log' = log /\ sent' = sent /\ acked' = acked /\ world' = world
      /\ outbox' = CASE t.kind = "step" -> Insert(outbox, t.effects)
                     [] t.kind = "outcome" -> Delete(outbox, id)
                     [] t.kind = "suspend" -> Reconciled(Delete(outbox, id), s)
                     [] t.kind = "stranded" -> outbox
  BY DEF Fold, Environment
<1>2. /\ FlowsInv(E) /\ flows[f] # <<>> /\ t.do = "fold" /\ IsTask(t, E, V)
      /\ t.loop \in V /\ GoodState(State(f), E)
  BY <1>0, <1>1, AtTask DEF WithLoop
<1>3. /\ Acts(t) = "fold" /\ GoodEvents(t.envs, E)
      /\ t.kind \in {"step", "outcome", "suspend", "stranded"}
      /\ t.kind = "step" => Effects(t.effects)
  BY <1>2 DEF IsTask, Acts, Loadings, Appending
<1>4. GoodState(s, E)
  BY <1>2, <1>3, FoldGood
<1>5. /\ DOMAIN instances = V /\ \A i \in V : instances[i] = IF i = t.loop THEN s ELSE loops[i]
  OBVIOUS
<1>6. Rows(outbox) /\ sent \subseteq Message /\ IsWorld(world)
  BY DEF DriverInv, DurableInv
<1> HIDE DEF s, instances
<1>7. Rows(outbox')
  <2>1. t.kind = "step" => Rows(Insert(outbox, t.effects))
    BY <1>3, <1>6, InsertRows
  <2>2. Rows(Delete(outbox, id))
    BY <1>6, DeleteRows
  <2>3. Rows(Reconciled(Delete(outbox, id), s))
    BY <1>4, <2>2, ReconciledRows DEF GoodState
  <2>4. QED
    BY <1>1, <1>3, <1>6, <2>1, <2>2, <2>3
<1>8. IsSeq(next) /\ \A k \in DOMAIN next : IsTask(next[k], E, V) /\ next[k].do # "ack"
  <2>1. IsSeq(t.envs) /\ \A i \in DOMAIN t.envs : IsEvent(t.envs[i])
    BY <1>3 DEF GoodEvents, IsEnvelope
  <2>2. \A r : LET q == Cascade(t.loop, t.envs, r)
               IN  IsSeq(q) /\ \A k \in DOMAIN q : IsTask(q[k], E, V) /\ q[k].do # "ack"
    BY <1>2, <2>1, CascadeTasks
  <2>3. IsSeq(<<>>) /\ \A k \in DOMAIN <<>> : IsTask(<<>>[k], E, V) /\ <<>>[k].do # "ack"
    BY SeqEmpty
  <2>4. \/ next = Cascade(t.loop, t.envs, t.retries) \/ next = Cascade(t.loop, t.envs, AppendRetries)
        \/ next = <<>>
    BY <1>3
  <2> HIDE DEF next
  <2>5. QED
    BY <2>2, <2>3, <2>4
<1> HIDE DEF next
<1>9. \A m : ~Carries(t, m)
  BY <1>2, <1>3 DEF Carries
<1>10. t = flows[f][1] /\ IsStack(flows[f], E, V)
  BY <1>2, SeqTail DEF FlowsInv, IsStack, Current
<1>11. E \subseteq E /\ V \subseteq V
  OBVIOUS
<1>12. IsStack(next \o Tail(flows[f]), E, V)
  BY <1>2, <1>8, <1>9, <1>10, <1>11, ReplaceTop
<1>13. /\ DOMAIN instances \subseteq Instance /\ \A i \in DOMAIN instances : GoodState(instances[i], E)
       /\ live \in DOMAIN instances \cup {None} /\ DOMAIN loops \subseteq DOMAIN instances
       /\ IsStack(next \o Tail(flows[f]), E, DOMAIN instances)
  BY <1>2, <1>4, <1>5, <1>12 DEF FlowsInv
<1>14. FlowsInv(E)'
  BY <1>1, <1>2, <1>11, <1>13, ProceedInv
<1>15. QED
  BY <1>0, <1>1, <1>4, <1>6, <1>7, <1>14, QuietInv

-----------------------------------------------------------------------------
(* The tasks that a flow is given.                                         *)

\* Tasks none of which acknowledges a delivery.
Tasks(q, E, V) == IsSeq(q) /\ \A k \in DOMAIN q : IsTask(q[k], E, V) /\ q[k].do # "ack"

\* No task, and a single one.
LEMMA TasksFew ==
  ASSUME NEW E, NEW V
  PROVE  /\ Tasks(<<>>, E, V)
         /\ \A u : IsTask(u, E, V) /\ u.do # "ack" => Tasks(<<u>>, E, V)
BY SeqEmpty, SeqSingle DEF Tasks

\* Tasks after tasks.
LEMMA TasksConcat ==
  ASSUME NEW E, NEW V, NEW a, Tasks(a, E, V), NEW b, Tasks(b, E, V)
  PROVE  Tasks(a \o b, E, V)
<1>1. IsSeq(a) /\ IsSeq(b)
  BY DEF Tasks
<1>2. IsSeq(a \o b)
  BY <1>1, ConcatElements
<1>3. \A i \in DOMAIN (a \o b) :
        (\E k \in DOMAIN a : (a \o b)[i] = a[k]) \/ (\E k \in DOMAIN b : (a \o b)[i] = b[k])
  BY <1>1, ConcatElements
<1>4. QED
  BY <1>2, <1>3 DEF Tasks

\* Two tasks.
LEMMA TasksPair ==
  ASSUME NEW E, NEW V, NEW u, IsTask(u, E, V), u.do # "ack", NEW w, IsTask(w, E, V), w.do # "ack"
  PROVE  Tasks(<<u, w>>, E, V)
<1> DEFINE q == <<u, w>>
<1>1. q \in Seq({u, w}) /\ Len(q) = 2 /\ q[1] = u /\ q[2] = w /\ DOMAIN q = 1 .. Len(q)
  OBVIOUS
<1> HIDE DEF q
<1>2. IsSeq(q) /\ DOMAIN q = {1, 2}
  BY <1>1 DEF IsSeq
<1>3. Tasks(q, E, V)
  BY <1>1, <1>2 DEF Tasks
<1>4. QED
  BY <1>3 DEF q

\* Such tasks are a stack.
LEMMA TasksStack ==
  ASSUME NEW E, NEW V, NEW q, Tasks(q, E, V)
  PROVE  IsStack(q, E, V)
BY DEF Tasks, IsStack

\* Settling, at the end of an entry point.
LEMMA SettleTask ==
  ASSUME NEW E, NEW V
  PROVE  IsTask(Settle, E, V) /\ Settle.do # "ack" /\ \A m : ~Carries(Settle, m)
<1> DEFINE t == Task("reconcile")
           u == Loading(t)
<1>1. /\ t = [x \in TaskFields |-> t[x]] /\ t.do = "reconcile" /\ t.kind = None /\ t.loop = None
      /\ t.in = None
  BY TaskIs
<1> HIDE DEF t
<1>2. /\ u = [x \in TaskFields |-> u[x]] /\ u.do = "load" /\ u.then = "reconcile" /\ u.loop = None
  BY <1>1, LoadingIs
<1> HIDE DEF u
<1>3. IsTask(u, E, V)
  BY <1>2, SimpleTask DEF Loadable
<1>4. Acts(u) = "reconcile"
  BY <1>2 DEF Acts, Loadings
<1>5. \A m : ~Carries(u, m)
  BY <1>2, <1>4 DEF Carries
<1>6. QED
  BY <1>2, <1>3, <1>5 DEF Settle, u, t

\* handleIncoming: a step, and settling.
LEMMA HandleTasks ==
  ASSUME NEW E, NEW V, NEW in, IsIncoming(in)
  PROVE  /\ Tasks(HandleIncoming(in), E, V)
         /\ \A m : in = Incoming("prompt", m) => Carries(HandleIncoming(in)[1], m)
         /\ 1 \in DOMAIN HandleIncoming(in)
<1> DEFINE u == Loading(StepTask(in, AppendRetries))
<1>1. IsTask(u, E, V) /\ u.do # "ack" /\ \A m : in = Incoming("prompt", m) => Carries(u, m)
  BY LoadingStep
<1>2. HandleIncoming(in) = <<u, Settle>>
  BY DEF HandleIncoming
<1> HIDE DEF u
<1>3. Tasks(<<u, Settle>>, E, V)
  BY <1>1, SettleTask, TasksPair
<1>4. <<u, Settle>>[1] = u /\ 1 \in DOMAIN <<u, Settle>>
  OBVIOUS
<1>5. QED
  BY <1>1, <1>2, <1>3, <1>4

\* What reaches the loop from outside.
LEMMA CommandIsIncoming ==
  ASSUME NEW type \in {"prompt", "interrupt", "flush", "wake", "resume"}, NEW arg
  PROVE  IsIncoming(Incoming(type, arg))
<1>1. Incoming(type, arg).type = type
  BY DEF Incoming
<1>2. QED
  BY <1>1 DEF IsIncoming

\* failEffect.
LEMMA FailTasks ==
  ASSUME NEW E, NEW V, NEW row, IsRow(row), NEW why
  PROVE  Tasks(FailEffect(row, why), E, V)
<1> DEFINE arg == [effect |-> row.effect.id, why |-> why]
           in == Incoming("failed", arg)
           u == [Task("delete") EXCEPT !.row = row]
<1>1. arg.effect = row.effect.id /\ in.type = "failed" /\ in.arg = arg
  BY DEF Incoming
<1>2. row.effect.id[1] \in {"model", "inv", "cred"}
  BY DEF IsRow, IsEffect
<1>3. u = [x \in TaskFields |-> u[x]] /\ u.do = "delete" /\ u.loop = None
  BY DEF Task, TaskFields
<1>4. FailEffect(row, why) = HandleIncoming(in) \o <<u>>
  BY DEF FailEffect
<1> HIDE DEF arg, in, u
<1>5. IsIncoming(in)
  BY <1>1, <1>2 DEF IsIncoming
<1>6. Tasks(HandleIncoming(in), E, V)
  BY <1>5, HandleTasks
<1>7. IsTask(u, E, V) /\ u.do # "ack"
  BY <1>3, SimpleTask
<1>8. Tasks(<<u>>, E, V)
  BY <1>7, TasksFew
<1>9. QED
  BY <1>4, <1>6, <1>8, TasksConcat

\* One event that opens nothing.
LEMMA SettlesOne ==
  ASSUME NEW e, e.kind \notin {"user", "turn.opened", "message.started"}
  PROVE  Settles(<<e>>)
<1> DEFINE q == <<e>>
<1>1. DOMAIN q = {1} /\ q[1] = e
  OBVIOUS
<1> HIDE DEF q
<1>2. Settles(q)
  BY <1>1 DEF Settles
<1>3. QED
  BY <1>2 DEF q

\* One batch after another.
LEMMA SettlesConcat ==
  ASSUME NEW a, IsSeq(a), Settles(a), NEW b, IsSeq(b), Settles(b)
  PROVE  Settles(a \o b)
<1>1. \A i \in DOMAIN (a \o b) :
        \/ i \in DOMAIN a /\ (a \o b)[i] = a[i]
        \/ \E k \in DOMAIN b : (a \o b)[i] = b[k]
  BY ConcatElements
<1>2. QED
  BY <1>1 DEF Settles

\* Two events.
LEMMA SettlesPair ==
  ASSUME NEW e, NEW d, Settles(<<e>>), Settles(<<d>>)
  PROVE  Settles(<<e, d>>)
<1> DEFINE q == <<e, d>>
           bad == {"user", "turn.opened", "message.started"}
<1>1. DOMAIN q = {1, 2} /\ q[1] = e /\ q[2] = d
  OBVIOUS
<1>2. e.kind \notin bad /\ d.kind \notin bad
  <2>1. ASSUME NEW x, Settles(<<x>>) PROVE x.kind \notin bad
    <3>1. 1 \in DOMAIN <<x>> /\ <<x>>[1] = x
      OBVIOUS
    <3>2. QED
      BY <2>1, <3>1 DEF Settles
  <2>2. QED
    BY <2>1
<1> HIDE DEF q
<1>3. Settles(q)
  BY <1>1, <1>2 DEF Settles
<1>4. QED
  BY <1>3 DEF q

\* A batch that is to be appended once the loop is loaded.
LEMMA LoadingAppend ==
  ASSUME NEW E, NEW V, NEW t, t = [x \in TaskFields |-> t[x]], t.do \in {"send", "restrand"},
         t.kind \in {"outcome", "stranded"}, NEW tags, Batch(t.items, tags), Settles(t.items),
         t.loop \in V \cup {None}
  PROVE  IsTask(Loading(t), E, V) /\ Loading(t).do # "ack"
<1> DEFINE u == Loading(t)
<1>1. /\ u = [x \in TaskFields |-> u[x]] /\ u.do = "load" /\ u.then = t.do /\ u.kind = t.kind
      /\ u.loop = t.loop /\ u.items = t.items
  BY LoadingIs
<1> HIDE DEF u
<1>2. Acts(u) = t.do /\ Acts(u) # "step"
  BY <1>1 DEF Acts, Loadings
<1>3. Settles(u.items) /\ \E x : Batch(u.items, x)
  BY <1>1
<1>4. IsTask(u, E, V)
  BY <1>1, <1>2, <1>3 DEF IsTask, TaskType, Loadings, Loadable, WithLoop
<1>5. QED
  BY <1>1, <1>4 DEF u

\* applyOutcome.
LEMMA OutcomeTasks ==
  ASSUME NEW E, NEW V, NEW row, NEW items, NEW tags, Batch(items, tags), Settles(items)
  PROVE  Tasks(ApplyOutcome(row, items), E, V)
<1> DEFINE t == OutcomeTask(row, items)
<1>1. /\ t = [x \in TaskFields |-> t[x]] /\ t.do = "send" /\ t.kind = "outcome" /\ t.items = items
      /\ t.loop = None
  BY DEF OutcomeTask, Task, TaskFields
<1>2. ApplyOutcome(row, items) = <<Loading(t), Settle>>
  BY DEF ApplyOutcome
<1> HIDE DEF t
<1>3. IsTask(Loading(t), E, V) /\ Loading(t).do # "ack"
  BY <1>1, LoadingAppend
<1>4. QED
  BY <1>2, <1>3, SettleTask, TasksPair

\* wake.
LEMMA WakeTasksAre ==
  ASSUME NEW E, NEW V
  PROVE  Tasks(WakeTasks, E, V)
<1> DEFINE a == Task("drop")
           b == Loading(Task("wake"))
           c == Loading(Task("recover"))
<1>1. \A do : Task(do) = [x \in TaskFields |-> Task(do)[x]] /\ Task(do).do = do /\ Task(do).loop = None
  BY TaskIs
<1>2. /\ b = [x \in TaskFields |-> b[x]] /\ b.do = "load" /\ b.then = "wake" /\ b.loop = None
      /\ c = [x \in TaskFields |-> c[x]] /\ c.do = "load" /\ c.then = "recover" /\ c.loop = None
  BY <1>1, LoadingIs
<1>3. a = [x \in TaskFields |-> a[x]] /\ a.do = "drop" /\ a.loop = None
  BY <1>1
<1>4. WakeTasks = <<a, b>> \o <<Settle, c>>
  BY DEF WakeTasks
<1> HIDE DEF a, b, c
<1>5. IsTask(a, E, V) /\ IsTask(b, E, V) /\ IsTask(c, E, V)
  BY <1>2, <1>3, SimpleTask DEF Loadable
<1>6. Tasks(<<a, b>>, E, V) /\ Tasks(<<Settle, c>>, E, V)
  BY <1>2, <1>3, <1>5, SettleTask, TasksPair
<1>7. QED
  BY <1>4, <1>6, TasksConcat

\* A flow goes on with tasks none of which acknowledges, in place of one that is
\* not to journal a receipt.
LEMMA TasksInv ==
  ASSUME NEW E, FlowsInv(E), NEW f \in Flow, flows[f] # <<>>, NEW new, NEW map, map \in {live, None},
         Tasks(new, E, DOMAIN loops), \A m : ~Carries(Current(f), m),
         Proceed(f, new \o Tail(flows[f]), loops, map)
  PROVE  FlowsInv(E)'
BY ReplaceInv DEF Tasks

\* A flow begins.
LEMMA BeginInv ==
  ASSUME NEW E, FlowsInv(E), NEW f \in Flow, NEW todo, Tasks(todo, E, DOMAIN loops),
         Proceed(f, todo, loops, live)
  PROVE  FlowsInv(E)'
BY TasksStack, ResumeInv

\* Only a step, and a step's append, journal a receipt.
LEMMA CarriesNot ==
  ASSUME NEW t, t.do \notin Loadings \cup {"step", "send", "commit", "stale"} \/ t.kind # "step"
  PROVE  \A m : ~Carries(t, m)
BY DEF Carries, Acts

-----------------------------------------------------------------------------
(* What follows an append that was refused.                                *)

\* A step is run again on a loop that is loaded anew, or its receipt is there.
LEMMA StaleStepInv ==
  ASSUME DriverInv, NEW f \in Flow, StaleStep(f)
  PROVE  DriverInv'
<1> DEFINE t == Current(f)
           again == [StepTask(t.in, t.retries - 1) EXCEPT !.loop = None]
           u == Loading(again)
<1>0. SUFFICES ASSUME NEW E, E = IdsOf(log) PROVE DriverInv'
  OBVIOUS
<1>1. /\ At(f, "stale") /\ t.kind = "step" /\ UNCHANGED <<durable, Environment>>
      /\ \/ Proceed(f, <<u>> \o Tail(flows[f]), loops, None)
         \/ Journaled(RecvId(t.in.arg)) /\ Proceed(f, Tail(flows[f]), loops, live)
         \/ Throw(f)
  BY DEF StaleStep, Pop
<1>2. FlowsInv(E) /\ flows[f] # <<>> /\ t.do = "stale" /\ IsTask(t, E, DOMAIN loops)
  BY <1>0, <1>1, AtTask
<1>3. Acts(t) = "stale" /\ IsIncoming(t.in)
  BY <1>1, <1>2 DEF IsTask, Acts, Loadings, Appending
<1>4. FlowsInv(E)'
  <2>1. CASE Proceed(f, <<u>> \o Tail(flows[f]), loops, None)
    <3> DEFINE v == Loading(StepTask(t.in, t.retries - 1))
               new == <<v>>
    <3>1. again = StepTask(t.in, t.retries - 1)
      <4> DEFINE w == StepTask(t.in, t.retries - 1)
      <4>1. w = [x \in TaskFields |-> w[x]] /\ w.loop = None
        BY StepTaskIs
      <4> HIDE DEF w
      <4>2. [w EXCEPT !.loop = None] = w
        BY <4>1 DEF TaskFields
      <4>3. QED
        BY <4>2 DEF w
    <3>2. /\ IsTask(v, E, DOMAIN loops) /\ v.do # "ack"
          /\ \A m : t.in = Incoming("prompt", m) => Carries(v, m)
      BY <1>3, LoadingStep
    <3>3. IsSeq(new) /\ DOMAIN new = {1} /\ new[1] = v
      BY SeqSingle
    <3>4. Proceed(f, new \o Tail(flows[f]), loops, None)
      BY <2>1, <3>1
    <3> HIDE DEF v, new
    <3>5. \A m : Carries(t, m) => \E k \in DOMAIN new : Carries(new[k], m)
      BY <3>2, <3>3 DEF Carries
    <3>6. \A k \in DOMAIN new : IsTask(new[k], E, DOMAIN loops) /\ new[k].do # "ack"
      BY <3>2, <3>3
    <3>7. QED
      BY <1>2, <3>3, <3>4, <3>5, <3>6, ReplaceInv
  <2>2. CASE Journaled(RecvId(t.in.arg)) /\ Proceed(f, Tail(flows[f]), loops, live)
    <3>1. RecvId(t.in.arg) \in E
      BY <1>0, <2>2 DEF Journaled, JournaledAt, IdsOf
    <3>2. \A m : Carries(t, m) => RecvId(m) \in E
      BY <3>1 DEF Carries, Incoming
    <3>3. QED
      BY <1>2, <2>2, <3>2, PopInv
  <2>3. CASE Throw(f)
    BY <1>2, <2>3, ThrowInv
  <2>4. QED
    BY <1>1, <2>1, <2>2, <2>3
<1>5. QED
  BY <1>0, <1>1, <1>4, FlowsOnly

\* An outcome is appended again, or what is in the log wins.
LEMMA StaleOutcomeInv ==
  ASSUME DriverInv, NEW f \in Flow, StaleOutcome(f)
  PROVE  DriverInv'
<1> DEFINE t == Current(f)
           again == [OutcomeTask(t.row, t.items) EXCEPT !.retries = t.retries - 1]
<1>0. SUFFICES ASSUME NEW E, E = IdsOf(log) PROVE DriverInv'
  OBVIOUS
<1>1. /\ At(f, "stale") /\ t.kind = "outcome"
      /\ log' = log /\ cache' = cache /\ sent' = sent /\ acked' = acked /\ world' = world
      /\ outbox' \in {outbox, Delete(outbox, t.row.effect.id)}
      /\ \/ Proceed(f, <<Loading(again)>> \o Tail(flows[f]), loops, None)
         \/ Throw(f)
         \/ Proceed(f, Tail(flows[f]), loops, None)
  BY DEF StaleOutcome, Environment
<1>2. FlowsInv(E) /\ flows[f] # <<>> /\ t.do = "stale" /\ IsTask(t, E, DOMAIN loops)
  BY <1>0, <1>1, AtTask
<1>3. Settles(t.items) /\ \E tags : Batch(t.items, tags)
  BY <1>1, <1>2 DEF IsTask, Acts, Loadings, Appending
<1>4. \A m : ~Carries(t, m)
  BY <1>1, CarriesNot
<1>5. FlowsInv(E)'
  <2>1. CASE Proceed(f, <<Loading(again)>> \o Tail(flows[f]), loops, None)
    <3>1. /\ again = [x \in TaskFields |-> again[x]] /\ again.do = "send" /\ again.kind = "outcome"
          /\ again.items = t.items /\ again.loop = None
      BY DEF OutcomeTask, Task, TaskFields
    <3> HIDE DEF again
    <3>2. IsTask(Loading(again), E, DOMAIN loops) /\ Loading(again).do # "ack"
      BY <1>3, <3>1, LoadingAppend
    <3>3. Tasks(<<Loading(again)>>, E, DOMAIN loops)
      BY <3>2, TasksFew
    <3>4. QED
      BY <1>2, <1>4, <2>1, <3>3, TasksInv
  <2>2. CASE Throw(f)
    BY <1>2, <2>2, ThrowInv
  <2>3. CASE Proceed(f, Tail(flows[f]), loops, None)
    BY <1>2, <1>4, <2>3, PopInv
  <2>4. QED
    BY <1>1, <2>1, <2>2, <2>3
<1>6. Rows(outbox) /\ sent \subseteq Message /\ IsWorld(world)
  BY DEF DriverInv, DurableInv
<1>7. Rows(outbox')
  BY <1>1, <1>6, DeleteRows
<1>8. QED
  BY <1>0, <1>1, <1>5, <1>6, <1>7, QuietInv

\* A suspension that lost its race is dropped with its row.
LEMMA StaleSuspendInv ==
  ASSUME DriverInv, NEW f \in Flow, StaleSuspend(f)
  PROVE  DriverInv'
<1> DEFINE t == Current(f)
<1>0. SUFFICES ASSUME NEW E, E = IdsOf(log) PROVE DriverInv'
  OBVIOUS
<1>1. /\ At(f, "stale") /\ t.kind = "suspend"
      /\ log' = log /\ cache' = cache /\ sent' = sent /\ acked' = acked /\ world' = world
      /\ outbox' = Delete(outbox, t.row.effect.id)
      /\ Proceed(f, <<Settle>> \o Tail(flows[f]), loops, None)
  BY DEF StaleSuspend, Environment
<1>2. FlowsInv(E) /\ flows[f] # <<>>
  BY <1>0, <1>1, AtTask
<1>3. \A m : ~Carries(t, m)
  BY <1>1, CarriesNot
<1>4. Tasks(<<Settle>>, E, DOMAIN loops)
  BY SettleTask, TasksFew
<1>5. FlowsInv(E)'
  BY <1>1, <1>2, <1>3, <1>4, TasksInv
<1>6. Rows(outbox) /\ sent \subseteq Message /\ IsWorld(world)
  BY DEF DriverInv, DurableInv
<1>7. Rows(outbox')
  BY <1>1, <1>6, DeleteRows
<1>8. QED
  BY <1>0, <1>1, <1>5, <1>6, <1>7, QuietInv

\* The failure of a stranded turn is tried again on a loop that is loaded anew.
LEMMA StaleStrandedInv ==
  ASSUME DriverInv, NEW f \in Flow, StaleStranded(f)
  PROVE  DriverInv'
<1> DEFINE t == Current(f)
           u == [t EXCEPT !.do = "restrand", !.retries = 0]
<1>0. SUFFICES ASSUME NEW E, E = IdsOf(log) PROVE DriverInv'
  OBVIOUS
<1>1. /\ At(f, "stale") /\ t.kind = "stranded" /\ UNCHANGED <<durable, Environment>>
      /\ Throw(f) \/ Proceed(f, <<Loading(u)>> \o Tail(flows[f]), loops, None)
  BY DEF StaleStranded
<1>2. FlowsInv(E) /\ flows[f] # <<>> /\ t.do = "stale" /\ IsTask(t, E, DOMAIN loops)
  BY <1>0, <1>1, AtTask
<1>3. Settles(t.items) /\ \E tags : Batch(t.items, tags)
  BY <1>1, <1>2 DEF IsTask, Acts, Loadings, Appending
<1>4. /\ u = [x \in TaskFields |-> u[x]] /\ u.do = "restrand" /\ u.kind = t.kind
      /\ u.items = t.items /\ u.loop = t.loop /\ t.loop \in DOMAIN loops \cup {None}
  BY <1>2 DEF IsTask, TaskFields
<1> HIDE DEF u
<1>5. CASE Throw(f)
  <2>1. FlowsInv(E)'
    BY <1>2, <1>5, ThrowInv
  <2>2. QED
    BY <1>0, <1>1, <2>1, FlowsOnly
<1>6. CASE Proceed(f, <<Loading(u)>> \o Tail(flows[f]), loops, None)
  <2>1. IsTask(Loading(u), E, DOMAIN loops) /\ Loading(u).do # "ack"
    BY <1>1, <1>3, <1>4, LoadingAppend
  <2>2. Tasks(<<Loading(u)>>, E, DOMAIN loops)
    BY <2>1, TasksFew
  <2>3. \A m : ~Carries(t, m)
    BY <1>1, CarriesNot
  <2>4. FlowsInv(E)'
    BY <1>2, <1>6, <2>2, <2>3, TasksInv
  <2>5. QED
    BY <1>0, <1>1, <2>4, FlowsOnly
<1>7. QED
  BY <1>1, <1>5, <1>6

\* Then it is appended, if the turn is still stranded.
LEMMA RetryStrandedInv ==
  ASSUME DriverInv, NEW f \in Flow, RetryStranded(f)
  PROVE  DriverInv'
<1> DEFINE t == Current(f)
           u == [t EXCEPT !.do = "send"]
<1>0. SUFFICES ASSUME NEW E, E = IdsOf(log) PROVE DriverInv'
  OBVIOUS
<1>1. /\ At(f, "restrand") /\ UNCHANGED <<durable, Environment>>
      /\ Become(f, u) \/ Proceed(f, Tail(flows[f]), loops, live)
  BY DEF RetryStranded, Pop
<1>2. /\ FlowsInv(E) /\ flows[f] # <<>> /\ t.do = "restrand" /\ IsTask(t, E, DOMAIN loops)
      /\ t.loop \in DOMAIN loops
  BY <1>0, <1>1, AtTask DEF WithLoop
<1>3. \A m : ~Carries(t, m)
  BY <1>2, CarriesNot DEF Loadings
<1>4. /\ u = [x \in TaskFields |-> u[x]] /\ u.do = "send" /\ u.kind = t.kind /\ u.in = t.in
      /\ u.items = t.items /\ u.effects = t.effects /\ u.loop = t.loop
  BY <1>2 DEF IsTask, TaskFields
<1> HIDE DEF u
<1>5. Acts(t) = "restrand" /\ Acts(u) = "send"
  BY <1>2, <1>4 DEF Acts, Loadings
<1>6. IsTask(u, E, DOMAIN loops) /\ u.do # "ack"
  BY <1>2, <1>4, <1>5 DEF IsTask, TaskType, Loadings, WithLoop, Appending
<1>7. FlowsInv(E)'
  BY <1>1, <1>2, <1>3, <1>6, BecomeInv, PopInv
<1>8. QED
  BY <1>0, <1>1, <1>7, FlowsOnly

-----------------------------------------------------------------------------
(* settle, wake and recovery.                                              *)

\* A task that ends and leaves the journal alone.
LEMMA DoneInv ==
  ASSUME DriverInv, NEW f \in Flow, NEW do, At(f, do),
         do \notin Loadings \cup {"step", "send", "commit", "stale"}, Pop(f),
         log' = log, cache' = cache, Rows(outbox'), UNCHANGED Environment
  PROVE  DriverInv'
<1>0. SUFFICES ASSUME NEW E, E = IdsOf(log) PROVE DriverInv'
  OBVIOUS
<1>1. FlowsInv(E) /\ flows[f] # <<>> /\ Current(f).do = do
  BY <1>0, AtTask
<1>2. \A m : ~Carries(Current(f), m)
  BY <1>1, CarriesNot
<1>3. Proceed(f, Tail(flows[f]), loops, live)
  BY DEF Pop
<1>4. FlowsInv(E)'
  BY <1>1, <1>2, <1>3, PopInv
<1>5. sent' = sent /\ acked' = acked /\ world' = world
  BY DEF Environment
<1>6. sent \subseteq Message /\ IsWorld(world)
  BY DEF DriverInv, DurableInv
<1>7. QED
  BY <1>0, <1>4, <1>5, <1>6, QuietInv

\* reconcile.
LEMMA ReconcileLoopInv ==
  ASSUME DriverInv, NEW f \in Flow, ReconcileLoop(f)
  PROVE  DriverInv'
<1>1. /\ At(f, "reconcile") /\ outbox' = Reconciled(outbox, State(f)) /\ Pop(f)
      /\ log' = log /\ cache' = cache /\ UNCHANGED Environment
  BY DEF ReconcileLoop
<1>2. GoodState(State(f), IdsOf(log))
  BY <1>1, AtTask DEF WithLoop
<1>3. Rows(outbox')
  BY <1>1, <1>2, ReconciledRows DEF DriverInv, DurableInv, GoodState
<1>4. "reconcile" \notin Loadings \cup {"step", "send", "commit", "stale"}
  BY DEF Loadings
<1>5. QED
  BY <1>1, <1>3, <1>4, DoneInv

\* The loop leaves the map.
LEMMA DropLoopInv ==
  ASSUME DriverInv, NEW f \in Flow, DropLoop(f)
  PROVE  DriverInv'
<1>0. SUFFICES ASSUME NEW E, E = IdsOf(log) PROVE DriverInv'
  OBVIOUS
<1>1. At(f, "drop") /\ UNCHANGED <<durable, Environment>> /\ Proceed(f, Tail(flows[f]), loops, None)
  BY DEF DropLoop
<1>2. FlowsInv(E) /\ flows[f] # <<>> /\ Current(f).do = "drop"
  BY <1>0, <1>1, AtTask
<1>3. \A m : ~Carries(Current(f), m)
  BY <1>2, CarriesNot DEF Loadings
<1>4. FlowsInv(E)'
  BY <1>1, <1>2, <1>3, PopInv
<1>5. QED
  BY <1>0, <1>1, <1>4, FlowsOnly

\* The wake command, unless an executor owns the call in flight.
LEMMA WakeLoopInv ==
  ASSUME DriverInv, NEW f \in Flow, WakeLoop(f)
  PROVE  DriverInv'
<1> DEFINE t == Current(f)
           in == Incoming("wake", None)
           u == [StepTask(in, AppendRetries) EXCEPT !.loop = t.loop]
<1>0. SUFFICES ASSUME NEW E, E = IdsOf(log) PROVE DriverInv'
  OBVIOUS
<1>1. /\ At(f, "wake") /\ UNCHANGED <<durable, Environment>>
      /\ Become(f, u) \/ Proceed(f, Tail(flows[f]), loops, live)
  BY DEF WakeLoop, Pop
<1>2. FlowsInv(E) /\ flows[f] # <<>> /\ t.do = "wake" /\ t.loop \in DOMAIN loops
  BY <1>0, <1>1, AtTask DEF WithLoop
<1>3. \A m : ~Carries(t, m)
  BY <1>2, CarriesNot DEF Loadings
<1>4. IsIncoming(in)
  BY CommandIsIncoming
<1> HIDE DEF in
<1>5. IsTask(u, E, DOMAIN loops) /\ u.do # "ack"
  BY <1>2, <1>4, StepOnLoop
<1> HIDE DEF u
<1>6. FlowsInv(E)'
  BY <1>1, <1>2, <1>3, <1>5, BecomeInv, PopInv
<1>7. QED
  BY <1>0, <1>1, <1>6, FlowsOnly

\* The events that give up a stranded turn.
LEMMA StrandedBatch ==
  ASSUME NEW turn
  PROVE  Settles(StrandedFailure(turn)) /\ \E tags : Batch(StrandedFailure(turn), tags)
<1> DEFINE msg == <<"recovery", turn>>
           e == [MessageFailed(msg, "fatal") EXCEPT !.turn = turn]
           d == TurnClosed(turn)
<1>1. IsEvent(MessageFailed(msg, "fatal")) /\ MessageFailed(msg, "fatal").id[1] = "terminal"
  <2>1. \A x, y : IsEvent(MessageFailed(x, y)) /\ MessageFailed(x, y).id[1] = "terminal"
    BY EventsAreEvents
  <2>2. QED
    BY <2>1
<1>2. IsEvent(d) /\ d.id[1] = "closed"
  BY EventsAreEvents
<1>3. IsEvent(e) /\ e.id[1] = "terminal"
  BY <1>1 DEF IsEvent, Formed, EventFields
<1>k. e.kind = "message.failed" /\ d.kind = "turn.closed"
  BY DEF MessageFailed, TurnClosed, Event
<1>4. StrandedFailure(turn) = <<e, d>>
  BY DEF StrandedFailure
<1> HIDE DEF e, d
<1>5. Batch(<<e, d>>, {e.id[1], d.id[1]})
  BY <1>2, <1>3, BatchPair
<1>6. Settles(<<e, d>>)
  BY <1>k, SettlesOne, SettlesPair
<1>7. QED
  BY <1>4, <1>5, <1>6

\* The latest cascade of an open turn is an event of the journal.
LEMMA LatestCascade ==
  ASSUME IsLog(log), NEW s, IsState(s), s.turn # None, CascadesOf(s) # {}
  PROVE  IsEvent(log[CHOOSE i \in CascadesOf(s) : \A j \in CascadesOf(s) : j <= i])
<1>1. Len(log) \in Nat /\ DOMAIN log = 1 .. Len(log)
  BY SeqDomain DEF IsLog
<1>2. s.turn.openedAt \in Nat \ {0}
  BY DEF IsState, IsTurn
<1>3. CascadesOf(s) \subseteq s.turn.openedAt .. Len(log)
  BY DEF CascadesOf
<1>4. CascadesOf(s) \in SUBSET (1 .. Len(log))
  BY <1>1, <1>2, <1>3
<1>5. \E i \in CascadesOf(s) : \A j \in CascadesOf(s) : j <= i
  BY <1>1, <1>4, LargestExists
<1>6. (CHOOSE i \in CascadesOf(s) : \A j \in CascadesOf(s) : j <= i) \in CascadesOf(s)
  BY <1>5
<1>7. QED
  BY <1>1, <1>4, <1>6 DEF IsLog, IsEnvelope

\* recoverOpenTurnAfterReplay.
LEMMA RecoverTurnInv ==
  ASSUME DriverInv, NEW f \in Flow, RecoverTurn(f)
  PROVE  DriverInv'
<1> DEFINE t == Current(f)
           s == State(f)
           V == DOMAIN loops
           latest == log[CHOOSE i \in CascadesOf(s) : \A j \in CascadesOf(s) : j <= i]
           refeed == Cascade(t.loop, <<latest>>, AppendRetries)
           fed == [Task("recover") EXCEPT !.code = "fed"]
           again == Loading(fed)
           failure == [Task("send") EXCEPT !.kind = "stranded", !.loop = t.loop, !.retries = 1,
                                           !.items = StrandedFailure(s.turn.id)]
<1>0. SUFFICES ASSUME NEW E, E = IdsOf(log) PROVE DriverInv'
  OBVIOUS
<1>1. /\ At(f, "recover") /\ UNCHANGED <<durable, Environment>>
      /\ \/ Proceed(f, Tail(flows[f]), loops, live)
         \/ /\ s.turn # None /\ CascadesOf(s) # {}
            /\ Proceed(f, refeed \o <<Settle, again>> \o Tail(flows[f]), loops, live)
         \/ Proceed(f, <<failure, Settle>> \o Tail(flows[f]), loops, live)
  BY DEF RecoverTurn, Pop, Stranded
<1>2. /\ FlowsInv(E) /\ flows[f] # <<>> /\ t.do = "recover" /\ t.loop \in V /\ GoodState(s, E)
  BY <1>0, <1>1, AtTask DEF WithLoop
<1>3. \A m : ~Carries(t, m)
  BY <1>2, CarriesNot DEF Loadings
<1>4. CASE Proceed(f, Tail(flows[f]), loops, live)
  BY <1>0, <1>1, <1>2, <1>3, <1>4, PopInv, FlowsOnly
<1>5. CASE /\ s.turn # None /\ CascadesOf(s) # {}
           /\ Proceed(f, refeed \o <<Settle, again>> \o Tail(flows[f]), loops, live)
  <2>1. IsEvent(latest)
    BY <1>2, <1>5, LatestCascade DEF DriverInv, DurableInv, GoodState
  <2> HIDE DEF latest
  <2> DEFINE envs == <<latest>>
  <2>2. IsSeq(envs) /\ \A i \in DOMAIN envs : IsEvent(envs[i])
    BY <2>1, SeqSingle
  <2> HIDE DEF envs
  <2>3. Tasks(Cascade(t.loop, envs, AppendRetries), E, V)
    BY <1>2, <2>2, CascadeTasks DEF Tasks
  <2>4. Tasks(refeed, E, V)
    BY <2>3 DEF envs
  <2>5. fed = [x \in TaskFields |-> fed[x]] /\ fed.do = "recover" /\ fed.loop = None
    BY DEF Task, TaskFields
  <2> HIDE DEF fed, refeed
  <2>6. again = [x \in TaskFields |-> again[x]] /\ again.do = "load" /\ again.then = "recover" /\ again.loop = None
    BY <2>5, LoadingIs
  <2> HIDE DEF again
  <2>7. IsTask(again, E, V) /\ again.do # "ack"
    BY <2>6, SimpleTask DEF Loadable
  <2> DEFINE last == <<Settle, again>>
             rest == Tail(flows[f])
  <2>8. Tasks(last, E, V)
    BY <2>7, SettleTask, TasksPair
  <2>9. Tasks(refeed \o last, E, V)
    BY <2>4, <2>8, TasksConcat
  <2>10. Proceed(f, (refeed \o last) \o rest, loops, live)
    BY <1>5
  <2> HIDE DEF last
  <2>11. FlowsInv(E)'
    BY <1>2, <1>3, <2>9, <2>10, TasksInv
  <2>12. QED
    BY <1>0, <1>1, <2>11, FlowsOnly
<1>6. CASE Proceed(f, <<failure, Settle>> \o Tail(flows[f]), loops, live)
  <2>1. Settles(StrandedFailure(s.turn.id)) /\ \E tags : Batch(StrandedFailure(s.turn.id), tags)
    BY StrandedBatch
  <2>2. /\ failure = [x \in TaskFields |-> failure[x]] /\ failure.do = "send"
        /\ failure.kind = "stranded" /\ failure.loop = t.loop
        /\ failure.items = StrandedFailure(s.turn.id)
    BY DEF Task, TaskFields
  <2> HIDE DEF failure
  <2>3. Acts(failure) = "send" /\ Settles(failure.items) /\ \E x : Batch(failure.items, x)
    BY <2>1, <2>2 DEF Acts, Loadings
  <2>4. IsTask(failure, E, V) /\ failure.do # "ack"
    BY <1>2, <2>2, <2>3 DEF IsTask, TaskType, Loadings, WithLoop, Appending
  <2>5. Tasks(<<failure, Settle>>, E, V)
    BY <2>4, SettleTask, TasksPair
  <2>6. FlowsInv(E)'
    BY <1>2, <1>3, <1>6, <2>5, TasksInv
  <2>7. QED
    BY <1>0, <1>1, <2>6, FlowsOnly
<1>7. QED
  BY <1>1, <1>4, <1>5, <1>6

-----------------------------------------------------------------------------
(* The executors.                                                          *)

\* A row of the outbox under another lease, or after another attempt.
LEMMA ChangedRow ==
  ASSUME NEW rows, Rows(rows), NEW id, HasRow(rows, id), NEW attempts \in Nat,
         NEW lease \in {"none", "held", "expired"},
         NEW new, new = [RowOf(rows, id) EXCEPT !.attempts = attempts, !.lease = lease]
  PROVE  Rows(Update(rows, id, new))
<1> DEFINE r == RowOf(rows, id)
<1>1. r \in rows /\ r.effect.id = id /\ IsRow(r)
  BY RowOfIsRow
<1> HIDE DEF r
<1>2. new.effect = r.effect /\ IsRow(new)
  BY <1>1 DEF IsRow, r
<1>3. Rows(Update(rows, new.effect.id, new))
  BY <1>2, UpdateRows
<1>4. QED
  BY <1>1, <1>2, <1>3

\* A row whose lease changes.
LEMMA LeasedRow ==
  ASSUME NEW rows, Rows(rows), NEW id, HasRow(rows, id), NEW lease \in {"none", "held", "expired"}
  PROVE  Rows(Update(rows, id, [RowOf(rows, id) EXCEPT !.lease = lease]))
<1> DEFINE r == RowOf(rows, id)
           new == [r EXCEPT !.lease = lease]
<1>1. r.effect.id = id /\ IsRow(r)
  BY RowOfIsRow
<1> HIDE DEF r
<1>2. new.effect = r.effect /\ IsRow(new)
  BY <1>1 DEF IsRow
<1> HIDE DEF new
<1>3. Rows(Update(rows, new.effect.id, new))
  BY <1>2, UpdateRows
<1>4. QED
  BY <1>1, <1>2, <1>3 DEF new, r

\* dispatchRow.
LEMMA ExecuteInv ==
  ASSUME DriverInv, NEW f \in Flow, Execute(f)
  PROVE  DriverInv'
<1> DEFINE id == Current(f).row.effect.id
<1>1. /\ At(f, "execute") /\ Pop(f) /\ log' = log /\ cache' = cache /\ UNCHANGED Environment
      /\ outbox' = IF HasRow(outbox, id)
                   THEN Update(outbox, id, [RowOf(outbox, id) EXCEPT !.lease = "held"]) ELSE outbox
  BY DEF Execute
<1>2. Rows(outbox)
  BY DEF DriverInv, DurableInv
<1>3. Rows(outbox')
  BY <1>1, <1>2, LeasedRow
<1>4. "execute" \notin Loadings \cup {"step", "send", "commit", "stale"}
  BY DEF Loadings
<1>5. QED
  BY <1>1, <1>3, <1>4, DoneInv

\* suspendOnCredential.
LEMMA SuspendInv ==
  ASSUME DriverInv, NEW f \in Flow, Suspend(f)
  PROVE  DriverInv'
<1> DEFINE t == Current(f)
           s == State(f)
           msg == t.row.effect.id[2]
           turn == IF s.turn = None THEN None ELSE s.turn.id
           a == MessageFailed(msg, "recoverable")
           b == WaitStarted(turn, msg, s.lastSeq + 1)
           c == TurnWaiting(turn, s.turn.waits)
           last == IF s.turn = None THEN <<>> ELSE <<c>>
           items == <<a, b>> \o last
           u == [t EXCEPT !.do = "send", !.kind = "suspend", !.items = items]
<1>0. SUFFICES ASSUME NEW E, E = IdsOf(log) PROVE DriverInv'
  OBVIOUS
<1>1. At(f, "suspend") /\ UNCHANGED <<durable, Environment>> /\ Become(f, u)
  BY DEF Suspend
<1>2. /\ FlowsInv(E) /\ flows[f] # <<>> /\ t.do = "suspend" /\ t.loop \in DOMAIN loops
      /\ IsTask(t, E, DOMAIN loops)
  BY <1>0, <1>1, AtTask DEF WithLoop
<1>3. IsEvent(a) /\ a.id[1] = "terminal"
  <2>1. \A x, y : IsEvent(MessageFailed(x, y)) /\ MessageFailed(x, y).id[1] = "terminal"
    BY EventsAreEvents
  <2>2. QED
    BY <2>1
<1>4. IsEvent(b) /\ b.id[1] = "wait-started"
  <2>1. \A x, y, z : IsEvent(WaitStarted(x, y, z)) /\ WaitStarted(x, y, z).id[1] = "wait-started"
    BY EventsAreEvents
  <2>2. QED
    BY <2>1
<1>5. IsEvent(c) /\ c.id[1] = "waiting"
  <2>1. \A x, y : IsEvent(TurnWaiting(x, y)) /\ TurnWaiting(x, y).id[1] = "waiting"
    BY EventsAreEvents
  <2>2. QED
    BY <2>1
<1>6. last \in {<<>>, <<c>>}
  OBVIOUS
<1>k. a.kind = "message.failed" /\ b.kind = "wait.started" /\ c.kind = "turn.waiting"
  BY DEF MessageFailed, WaitStarted, TurnWaiting, Event
<1> HIDE DEF a, b, c, last
<1>7. Batch(<<a, b>>, {"terminal", "wait-started"})
  BY <1>3, <1>4, BatchPair
<1>8. Batch(last, {"waiting"})
  BY <1>5, <1>6, BatchOptional
<1>9. Settles(items) /\ \E tags : Batch(items, tags)
  <2>1. {"terminal", "wait-started"} \cap {"waiting"} = {}
    OBVIOUS
  <2>2. Batch(items, {"terminal", "wait-started"} \cup {"waiting"})
    BY <1>7, <1>8, <2>1, BatchConcat
  <2>3. Settles(<<a, b>>) /\ Settles(<<c>>) /\ Settles(<<>>)
    <3>1. Settles(<<>>)
      BY DEF Settles
    <3>2. QED
      BY <1>k, <3>1, SettlesOne, SettlesPair
  <2>4. Settles(<<a, b>> \o last)
    BY <1>6, <1>7, <1>8, <2>3, SettlesConcat DEF Batch
  <2>5. QED
    BY <2>2, <2>4
<1> HIDE DEF items
<1>10. /\ u = [x \in TaskFields |-> u[x]] /\ u.do = "send" /\ u.kind = "suspend" /\ u.items = items
       /\ u.loop = t.loop
  BY <1>2 DEF IsTask, TaskFields
<1> HIDE DEF u
<1>11. Acts(u) = "send"
  BY <1>10 DEF Acts, Loadings
<1>12. IsTask(u, E, DOMAIN loops) /\ u.do # "ack"
  BY <1>2, <1>9, <1>10, <1>11 DEF IsTask, TaskType, Loadings, WithLoop, Appending
<1>13. \A m : ~Carries(t, m)
  BY <1>2, CarriesNot DEF Loadings
<1>14. FlowsInv(E)'
  BY <1>1, <1>2, <1>12, <1>13, BecomeInv
<1>15. QED
  BY <1>0, <1>1, <1>14, FlowsOnly

\* The row of an effect that was given up.
LEMMA DeleteRowInv ==
  ASSUME DriverInv, NEW f \in Flow, DeleteRow(f)
  PROVE  DriverInv'
<1>1. /\ At(f, "delete") /\ Pop(f) /\ log' = log /\ cache' = cache /\ UNCHANGED Environment
      /\ outbox' = Delete(outbox, Current(f).row.effect.id)
  BY DEF DeleteRow
<1>2. Rows(outbox')
  BY <1>1, DeleteRows DEF DriverInv, DurableInv
<1>3. "delete" \notin Loadings \cup {"step", "send", "commit", "stale"}
  BY DEF Loadings
<1>4. QED
  BY <1>1, <1>2, <1>3, DoneInv

\* The delivery is acknowledged: nothing precedes it, so its receipt is journaled.
LEMMA AcknowledgeInv ==
  ASSUME DriverInv, NEW f \in Flow, Acknowledge(f)
  PROVE  DriverInv'
<1> DEFINE t == Current(f)
<1>0. SUFFICES ASSUME NEW E, E = IdsOf(log) PROVE DriverInv'
  OBVIOUS
<1>1. /\ At(f, "ack") /\ acked' = acked \cup {t.in} /\ Proceed(f, Tail(flows[f]), loops, live)
      /\ log' = log /\ cache' = cache /\ outbox' = outbox /\ sent' = sent /\ world' = world
  BY DEF Acknowledge, durable, Pop
<1>2. FlowsInv(E) /\ flows[f] # <<>> /\ t.do = "ack" /\ IsTask(t, E, DOMAIN loops)
  BY <1>0, <1>1, AtTask
<1>3. t = flows[f][1] /\ IsStack(flows[f], E, DOMAIN loops) /\ 1 \in DOMAIN flows[f] /\ DOMAIN flows[f] \subseteq Nat \ {0}
  <2>1. IsStack(flows[f], E, DOMAIN loops)
    BY <1>2 DEF FlowsInv
  <2>2. IsSeq(flows[f])
    BY <2>1 DEF IsStack
  <2>3. Len(flows[f]) >= 1 /\ t = flows[f][1]
    BY <1>2, <2>2, SeqTail DEF Current
  <2>4. Len(flows[f]) \in Nat /\ DOMAIN flows[f] = 1 .. Len(flows[f])
    BY <2>2, SeqDomain
  <2>5. QED
    BY <2>1, <2>3, <2>4
<1>4. RecvId(t.in) \in E
  <2>1. RecvId(t.in) \in E \/ \E j \in DOMAIN flows[f] : j < 1 /\ Carries(flows[f][j], t.in)
    BY <1>2, <1>3 DEF IsStack
  <2>2. \A j \in DOMAIN flows[f] : ~(j < 1)
    BY <1>3
  <2>3. QED
    BY <2>1, <2>2
<1>5. t.in \in Message
  BY <1>2 DEF IsTask
<1>6. \A m : ~Carries(t, m)
  BY <1>2, CarriesNot DEF Loadings
<1>7. FlowsInv(E)'
  BY <1>1, <1>2, <1>6, PopInv
<1>8. DurableInv'
  BY <1>0, <1>1, <1>4, <1>5 DEF DriverInv, DurableInv
<1>9. FlowsInv(IdsOf(log))'
  BY <1>0, <1>1, <1>7 DEF FlowsInv
<1>10. QED
  BY <1>1, <1>8, <1>9 DEF DriverInv

\* Send now.
LEMMA FlushLoopInv ==
  ASSUME DriverInv, NEW f \in Flow, FlushLoop(f)
  PROVE  DriverInv'
<1> DEFINE in == Incoming("flush", None)
           last == IF State(f).call = None THEN <<>> ELSE <<Task("abort")>>
           V == DOMAIN loops
<1>0. SUFFICES ASSUME NEW E, E = IdsOf(log) PROVE DriverInv'
  OBVIOUS
<1>1. /\ At(f, "flush") /\ UNCHANGED <<durable, Environment>>
      /\ Proceed(f, HandleIncoming(in) \o last, loops, live)
  BY DEF FlushLoop
<1>2. FlowsInv(E)
  BY <1>0, <1>1, AtTask
<1>3. IsIncoming(in)
  BY CommandIsIncoming
<1> HIDE DEF in
<1>4. Tasks(HandleIncoming(in), E, V)
  BY <1>3, HandleTasks
<1>5. IsTask(Task("abort"), E, V) /\ Task("abort").do # "ack"
  <2> DEFINE u == Task("abort")
  <2>1. u = [x \in TaskFields |-> u[x]] /\ u.do = "abort" /\ u.loop = None
    BY TaskIs
  <2> HIDE DEF u
  <2>2. IsTask(u, E, V) /\ u.do # "ack"
    BY <2>1, SimpleTask
  <2>3. QED
    BY <2>2 DEF u
<1>6. Tasks(last, E, V)
  BY <1>5, TasksFew
<1> HIDE DEF last
<1>7. Tasks(HandleIncoming(in) \o last, E, V)
  BY <1>4, <1>6, TasksConcat
<1>8. FlowsInv(E)'
  BY <1>1, <1>2, <1>7, BeginInv
<1>9. QED
  BY <1>0, <1>1, <1>8, FlowsOnly

\* A task that ends and leaves the journal and the outbox alone.
LEMMA DoneQuietly ==
  ASSUME DriverInv, NEW f \in Flow, NEW do \in {"abort", "schedule", "unschedule"}, At(f, do), Pop(f),
         log' = log, cache' = cache, outbox' = outbox, UNCHANGED Environment
  PROVE  DriverInv'
<1>1. Rows(outbox')
  BY DEF DriverInv, DurableInv
<1>2. do \notin Loadings \cup {"step", "send", "commit", "stale"}
  BY DEF Loadings
<1>3. QED
  BY <1>1, <1>2, DoneInv

\* The executors are aborted, a resume is scheduled, and it is done.
LEMMA AsideInv ==
  ASSUME DriverInv, NEW f \in Flow, AbortChannel(f) \/ ScheduleLoop(f) \/ Unschedule(f)
  PROVE  DriverInv'
<1>1. CASE AbortChannel(f)
  BY <1>1, DoneQuietly DEF AbortChannel, durable
<1>2. CASE ScheduleLoop(f)
  BY <1>2, DoneQuietly DEF ScheduleLoop
<1>3. CASE Unschedule(f)
  BY <1>3, DoneQuietly DEF Unschedule
<1>4. QED
  BY <1>1, <1>2, <1>3

-----------------------------------------------------------------------------
(* The entry points.                                                       *)

\* A flow begins, and the journal and the cache stay as they are.
LEMMA EntryInv ==
  ASSUME DriverInv, NEW f \in Flow, NEW todo, \A E, V : Tasks(todo, E, V), Proceed(f, todo, loops, live),
         log' = log, cache' = cache, Rows(outbox'), sent' \subseteq Message, acked' = acked,
         IsWorld(world')
  PROVE  DriverInv'
<1>0. SUFFICES ASSUME NEW E, E = IdsOf(log) PROVE DriverInv'
  OBVIOUS
<1>1. FlowsInv(E)
  BY <1>0 DEF DriverInv
<1>2. FlowsInv(E)'
  BY <1>1, BeginInv
<1>3. QED
  BY <1>0, <1>2, QuietInv

\* The outbox after the live loop was reconciled.
LEMMA LiveReconciledRows ==
  ASSUME DriverInv
  PROVE  Rows(LiveReconciled)
<1>1. Rows(outbox) /\ FlowsInv(IdsOf(log))
  BY DEF DriverInv, DurableInv
<1>2. CASE live = None
  BY <1>1, <1>2 DEF LiveReconciled
<1>3. CASE live # None
  <2>1. IsState(loops[live])
    BY <1>1, <1>3 DEF FlowsInv, GoodState
  <2>2. QED
    BY <1>1, <1>3, <2>1, ReconciledRows DEF LiveReconciled
<1>4. QED
  BY <1>2, <1>3

\* A disturbance is used up.
LEMMA SpendWorld ==
  ASSUME DriverInv, NEW what, Spend(what), what \in {"deliveries", "expiries", "pauses", "wakes"}
  PROVE  IsWorld(world')
<1>1. IsWorld(world)
  BY DEF DriverInv
<1>2. world' = [world EXCEPT ![what] = world[what] - 1]
  BY DEF Spend
<1>3. QED
  BY <1>1, <1>2 DEF IsWorld, WorldFields

\* A single task, once the loop is loaded.
LEMMA LoadingTasks ==
  ASSUME NEW t, t = [x \in TaskFields |-> t[x]], t.loop = None,
         t.do \in {"execute", "suspend", "flush", "schedule"}, NEW E, NEW V
  PROVE  Tasks(<<Loading(t)>>, E, V)
<1> DEFINE u == Loading(t)
<1>1. u = [x \in TaskFields |-> u[x]] /\ u.do = "load" /\ u.then = t.do /\ u.loop = None
  BY LoadingIs
<1> HIDE DEF u
<1>2. IsTask(u, E, V) /\ u.do # "ack"
  BY <1>1, SimpleTask DEF Loadable
<1>3. Tasks(<<u>>, E, V)
  BY <1>2, TasksFew
<1>4. QED
  BY <1>3 DEF u

\* pump, dispatchDue.
LEMMA DispatchInv ==
  ASSUME DriverInv, NEW f \in Flow, Dispatch(f)
  PROVE  DriverInv'
<1> DEFINE rows == LiveReconciled
<1>1. PICK row \in rows :
        /\ outbox' = Update(rows, row.effect.id, [row EXCEPT !.lease = "held"])
        /\ Proceed(f, <<Loading([Task("execute") EXCEPT !.row = row])>>, loops, live)
        /\ log' = log /\ cache' = cache /\ sent' = sent /\ acked' = acked /\ world' = world
  BY DEF Dispatch, Environment
<1>2. Rows(rows)
  BY LiveReconciledRows
<1> HIDE DEF rows
<1> DEFINE new == [row EXCEPT !.lease = "held"]
           t == [Task("execute") EXCEPT !.row = row]
<1>3. IsRow(row)
  BY <1>1, <1>2 DEF Rows
<1>4. IsRow(new) /\ new.effect = row.effect
  BY <1>3 DEF IsRow
<1>5. t = [x \in TaskFields |-> t[x]] /\ t.loop = None /\ t.do = "execute"
  BY DEF Task, TaskFields
<1>6. outbox' = Update(rows, row.effect.id, new) /\ Proceed(f, <<Loading(t)>>, loops, live)
  BY <1>1
<1> HIDE DEF new, t
<1>7. Rows(outbox')
  BY <1>2, <1>4, <1>6, UpdateRows
<1>8. \A E, V : Tasks(<<Loading(t)>>, E, V)
  BY <1>5, LoadingTasks
<1>9. sent \subseteq Message /\ IsWorld(world)
  BY DEF DriverInv, DurableInv
<1>10. QED
  BY <1>1, <1>6, <1>7, <1>8, <1>9, EntryInv

\* A credential wait that expired.
LEMMA ExpireWaitInv ==
  ASSUME DriverInv, NEW f \in Flow, ExpireWait(f)
  PROVE  DriverInv'
<1> DEFINE rows == LiveReconciled
<1>1. PICK row \in rows :
        /\ outbox' = rows /\ Proceed(f, FailEffect(row, "fatal"), loops, live)
        /\ log' = log /\ cache' = cache /\ sent' = sent /\ acked' = acked /\ world' = world
  BY DEF ExpireWait, Environment
<1>2. Rows(rows)
  BY LiveReconciledRows
<1> HIDE DEF rows
<1>3. IsRow(row)
  BY <1>1, <1>2 DEF Rows
<1>4. \A E, V : Tasks(FailEffect(row, "fatal"), E, V)
  BY <1>3, FailTasks
<1>5. sent \subseteq Message /\ IsWorld(world)
  BY DEF DriverInv, DurableInv
<1>6. QED
  BY <1>1, <1>2, <1>4, <1>5, EntryInv

\* The outcome of an execution is to be appended.
LEMMA FinishInv ==
  ASSUME DriverInv, NEW f \in Flow, NEW r, NEW items, NEW tags, Batch(items, tags), Settles(items),
         Finish(f, r, items), UNCHANGED Environment
  PROVE  DriverInv'
<1>1. /\ Proceed(f, ApplyOutcome(r.row, items), loops, live)
      /\ log' = log /\ cache' = cache /\ outbox' = outbox
      /\ sent' = sent /\ acked' = acked /\ world' = world
  BY DEF Finish, durable, Environment
<1>2. \A E, V : Tasks(ApplyOutcome(r.row, items), E, V)
  BY OutcomeTasks
<1>3. Rows(outbox) /\ sent \subseteq Message /\ IsWorld(world)
  BY DEF DriverInv, DurableInv
<1>4. QED
  BY <1>1, <1>2, <1>3, EntryInv

\* recordFailure.
LEMMA FailedRows ==
  ASSUME NEW id, Rows(outbox)
  PROVE  Rows(Failed(id))
<1>1. CASE HasRow(outbox, id)
  <2> DEFINE r == RowOf(outbox, id)
             new == [r EXCEPT !.attempts = r.attempts + 1, !.lease = "none"]
  <2>1. r.attempts \in Nat
    BY <1>1, RowOfIsRow DEF IsRow
  <2>2. r.attempts + 1 \in Nat
    BY <2>1
  <2>3. Failed(id) = Update(outbox, id, new)
    BY <1>1 DEF Failed
  <2>4. Rows(Update(outbox, id, new))
    BY <1>1, <2>2, ChangedRow
  <2>5. QED
    BY <2>3, <2>4
<1>2. CASE ~HasRow(outbox, id)
  BY <1>2 DEF Failed
<1>3. QED
  BY <1>1, <1>2

\* retryEffect: another attempt, or the effect is given up.
LEMMA FinishRetryInv ==
  ASSUME DriverInv, NEW f \in Flow, NEW r, FinishRetry(f, r), UNCHANGED Environment
  PROVE  DriverInv'
<1> DEFINE id == r.effect.id
           exhausted == HasRow(outbox, id) /\ RowOf(outbox, id).attempts + 1 >= MaxAttempts
<1>1. PICK why : Proceed(f, IF exhausted THEN FailEffect(RowOf(outbox, id), why) ELSE <<>>, loops, live)
  BY DEF FinishRetry
<1>2. /\ outbox' = Failed(id) /\ log' = log /\ cache' = cache
      /\ sent' = sent /\ acked' = acked /\ world' = world
  BY DEF FinishRetry, Environment
<1>3. Rows(outbox) /\ sent \subseteq Message /\ IsWorld(world)
  BY DEF DriverInv, DurableInv
<1>4. Rows(outbox')
  BY <1>2, <1>3, FailedRows
<1> DEFINE todo == IF exhausted THEN FailEffect(RowOf(outbox, id), why) ELSE <<>>
<1>5. \A E, V : Tasks(todo, E, V)
  <2>1. CASE exhausted
    <3>1. IsRow(RowOf(outbox, id))
      BY <1>3, <2>1, RowOfIsRow
    <3>2. \A E, V : Tasks(FailEffect(RowOf(outbox, id), why), E, V)
      BY <3>1, FailTasks
    <3>3. QED
      BY <2>1, <3>2
  <2>2. CASE ~exhausted
    BY <2>2, TasksFew
  <2>3. QED
    BY <2>1, <2>2
<1>6. Proceed(f, todo, loops, live)
  BY <1>1
<1> HIDE DEF todo
<1>7. QED
  BY <1>2, <1>3, <1>4, <1>5, <1>6, EntryInv

\* Whatever a model call ends with is one event.
LEMMA AnswersBatch ==
  ASSUME DriverInv, NEW r, NEW items \in ModelAnswers(r)
  PROVE  Settles(items) /\ \E tags : Batch(items, tags)
<1> DEFINE msg == r.effect.id[2]
           calls(tools) == {<<msg, x>> : x \in tools}
<1>1. ASSUME NEW tools \in SUBSET Tool PROVE IsFiniteSet(calls(tools))
  <2> DEFINE g == [x \in tools |-> <<msg, x>>]
  <2>1. IsFiniteSet(tools)
    BY DriverTypes, FS_Subset
  <2>2. g = [x \in tools |-> g[x]] /\ calls(tools) = {g[x] : x \in tools}
    OBVIOUS
  <2> HIDE DEF g, calls
  <2>3. QED
    BY <2>1, <2>2, ImageFinite
<1>2. world.answers \in SUBSET SUBSET Tool
  BY DEF DriverInv, IsWorld
<1>3. \/ items = <<MessageCompleted(msg, "interrupted", {})>>
      \/ \E tools \in world.answers : items = <<MessageCompleted(msg, "completed", calls(tools))>>
      \/ \E why : items = <<MessageFailed(msg, why)>>
  BY DEF ModelAnswers
<1>k. /\ \A x, y, z : MessageCompleted(x, y, z).kind = "message.completed"
      /\ \A x, y : MessageFailed(x, y).kind = "message.failed"
  BY DEF MessageCompleted, MessageFailed, Event
<1>4. \E e : IsEvent(e) /\ e.kind \in {"message.completed", "message.failed"} /\ items = <<e>>
  <2>1. CASE items = <<MessageCompleted(msg, "interrupted", {})>>
    BY <1>k, <2>1, FS_EmptySet, AnswersAreEvents
  <2>2. ASSUME NEW tools \in world.answers, items = <<MessageCompleted(msg, "completed", calls(tools))>>
        PROVE  \E e : IsEvent(e) /\ e.kind \in {"message.completed", "message.failed"} /\ items = <<e>>
    <3> HIDE DEF calls
    <3>1. IsFiniteSet(calls(tools))
      BY <1>1, <1>2
    <3>2. QED
      BY <1>k, <2>2, <3>1, AnswersAreEvents
  <2>3. ASSUME NEW why, items = <<MessageFailed(msg, why)>>
        PROVE  \E e : IsEvent(e) /\ e.kind \in {"message.completed", "message.failed"} /\ items = <<e>>
    <3>1. \A x, y : IsEvent(MessageFailed(x, y))
      BY EventsAreEvents
    <3>2. QED
      BY <1>k, <2>3, <3>1
  <2>4. QED
    BY <1>3, <2>1, <2>2, <2>3
<1>5. QED
  BY <1>4, BatchSingle, SettlesOne

\* A model call ends.
LEMMA FinishModelInv ==
  ASSUME DriverInv, NEW f \in Flow, FinishModel(f)
  PROVE  DriverInv'
<1>1. PICK r \in running :
        /\ UNCHANGED Environment
        /\ \/ \E items \in ModelAnswers(r) : Finish(f, r, items)
           \/ FinishRetry(f, r)
           \/ /\ Proceed(f, <<Loading([Task("suspend") EXCEPT !.row = r.row])>>, loops, live)
              /\ UNCHANGED durable
  BY DEF FinishModel
<1>2. CASE \E items \in ModelAnswers(r) : Finish(f, r, items)
  BY <1>1, <1>2, AnswersBatch, FinishInv
<1>3. CASE FinishRetry(f, r)
  BY <1>1, <1>3, FinishRetryInv
<1>4. CASE /\ Proceed(f, <<Loading([Task("suspend") EXCEPT !.row = r.row])>>, loops, live)
           /\ UNCHANGED durable
  <2> DEFINE t == [Task("suspend") EXCEPT !.row = r.row]
  <2>1. t = [x \in TaskFields |-> t[x]] /\ t.loop = None /\ t.do = "suspend"
    BY DEF Task, TaskFields
  <2>2. /\ Proceed(f, <<Loading(t)>>, loops, live) /\ log' = log /\ cache' = cache /\ outbox' = outbox
        /\ sent' = sent /\ acked' = acked /\ world' = world
    BY <1>1, <1>4 DEF durable, Environment
  <2> HIDE DEF t
  <2>3. \A E, V : Tasks(<<Loading(t)>>, E, V)
    BY <2>1, LoadingTasks
  <2>4. Rows(outbox) /\ sent \subseteq Message /\ IsWorld(world)
    BY DEF DriverInv, DurableInv
  <2>5. QED
    BY <2>2, <2>3, <2>4, EntryInv
<1>5. QED
  BY <1>1, <1>2, <1>3, <1>4

\* The outcome of a tool call is one event.
LEMMA ToolBatch ==
  ASSUME NEW effect, NEW outcome
  PROVE  Settles(ToolOutcome(effect, outcome)) /\ \E tags : Batch(ToolOutcome(effect, outcome), tags)
<1> DEFINE e == InvocationTerminal(effect.turn, effect.id[2], outcome)
<1>1. \A x, y, z : IsEvent(InvocationTerminal(x, y, z))
  BY EventsAreEvents
<1>2. IsEvent(e) /\ e.kind = "invocation.terminal"
  BY <1>1 DEF InvocationTerminal, Event
<1> HIDE DEF e
<1>3. Batch(<<e>>, {e.id[1]}) /\ Settles(<<e>>)
  BY <1>2, BatchSingle, SettlesOne
<1>4. QED
  BY <1>3 DEF ToolOutcome, e

\* A tool call ends.
LEMMA FinishToolInv ==
  ASSUME DriverInv, NEW f \in Flow, FinishTool(f)
  PROVE  DriverInv'
<1>1. PICK r \in running :
        /\ UNCHANGED Environment
        /\ Finish(f, r, ToolOutcome(r.effect, "completed")) \/ FinishRetry(f, r)
  BY DEF FinishTool
<1>2. CASE Finish(f, r, ToolOutcome(r.effect, "completed"))
  BY <1>1, <1>2, ToolBatch, FinishInv
<1>3. QED
  BY <1>1, <1>2, FinishRetryInv

\* A result, or a credential, is delivered.
LEMMA DeliverResultInv ==
  ASSUME DriverInv, NEW f \in Flow, DeliverResult(f)
  PROVE  DriverInv'
<1>1. PICK row \in outbox :
        Proceed(f,
          IF row.effect.id[1] = "inv" THEN ApplyOutcome(row, ToolOutcome(row.effect, "completed"))
          ELSE ApplyOutcome(row, <<WaitResolved(row.effect.turn, row.effect.at, "resolved")>>) \o WakeTasks,
          loops, live)
  BY DEF DeliverResult
<1>2. /\ log' = log /\ cache' = cache /\ outbox' = outbox
      /\ sent' = sent /\ acked' = acked /\ world' = world
  BY DEF DeliverResult, durable, Environment
<1> DEFINE e == WaitResolved(row.effect.turn, row.effect.at, "resolved")
           a == ApplyOutcome(row, ToolOutcome(row.effect, "completed"))
           b == ApplyOutcome(row, <<e>>)
           todo == IF row.effect.id[1] = "inv" THEN a ELSE b \o WakeTasks
<1>3. \A x, y, z : IsEvent(WaitResolved(x, y, z))
  BY EventsAreEvents
<1>4. IsEvent(e) /\ e.kind = "wait.resolved"
  BY <1>3 DEF WaitResolved, Event
<1>5. Proceed(f, todo, loops, live)
  BY <1>1
<1> HIDE DEF e
<1>6. Batch(<<e>>, {e.id[1]}) /\ Settles(<<e>>)
  BY <1>4, BatchSingle, SettlesOne
<1>7. \A E, V : Tasks(a, E, V)
  BY ToolBatch, OutcomeTasks
<1>8. \A E, V : Tasks(b, E, V)
  BY <1>6, OutcomeTasks
<1> HIDE DEF a, b
<1>9. \A E, V : Tasks(b \o WakeTasks, E, V)
  BY <1>8, WakeTasksAre, TasksConcat
<1>10. \A E, V : Tasks(todo, E, V)
  BY <1>7, <1>9
<1> HIDE DEF todo
<1>11. Rows(outbox) /\ sent \subseteq Message /\ IsWorld(world)
  BY DEF DriverInv, DurableInv
<1>12. QED
  BY <1>2, <1>5, <1>10, <1>11, EntryInv

\* The acknowledgement comes after a task that journals the receipt.
LEMMA AckStack ==
  ASSUME NEW E, NEW V, NEW q, Tasks(q, E, V), NEW u, IsTask(u, E, V), u.do = "ack",
         1 \in DOMAIN q, Carries(q[1], u.in)
  PROVE  IsStack(q \o <<u>>, E, V)
<1> DEFINE last == <<u>>
           r == q \o last
<1>1. IsSeq(q)
  BY DEF Tasks
<1>2. IsSeq(last) /\ DOMAIN last = {1} /\ last[1] = u
  BY SeqSingle
<1> HIDE DEF last
<1>3. /\ IsSeq(r)
      /\ \A k \in DOMAIN r :
           \/ k \in DOMAIN q /\ r[k] = q[k]
           \/ k \notin DOMAIN q /\ r[k] = u
  <2>1. /\ IsSeq(r)
        /\ \A k \in DOMAIN r :
             \/ k \in DOMAIN q /\ r[k] = q[k]
             \/ k \notin DOMAIN q /\ k - Len(q) \in DOMAIN last /\ r[k] = last[k - Len(q)]
    BY <1>1, <1>2, ConcatElements
  <2> HIDE DEF r
  <2>2. QED
    BY <1>2, <2>1
<1> HIDE DEF r
<1>4. \A k \in DOMAIN r : IsTask(r[k], E, V)
  BY <1>3 DEF Tasks
<1>5. ASSUME NEW k \in DOMAIN r, r[k].do = "ack"
      PROVE  \E j \in DOMAIN r : j < k /\ Carries(r[j], r[k].in)
  <2>1. k \notin DOMAIN q /\ r[k] = u
    BY <1>3, <1>5 DEF Tasks
  <2>2. Len(r) \in Nat /\ DOMAIN r = 1 .. Len(r)
    BY <1>3, SeqDomain
  <2>3. k # 1
    BY <2>1
  <2>4. 1 \in DOMAIN r /\ 1 < k
    BY <2>2, <2>3
  <2>5. r[1] = q[1]
    BY <1>3, <2>4
  <2>6. QED
    BY <2>1, <2>4, <2>5
<1>6. IsStack(r, E, V)
  BY <1>3, <1>4, <1>5 DEF IsStack
<1>7. QED
  BY <1>6 DEF r, last

\* A message is delivered.
LEMMA DeliverInv ==
  ASSUME DriverInv, NEW f \in Flow, NEW m \in Message, Deliver(f, m)
  PROVE  DriverInv'
<1> DEFINE in == Incoming("prompt", m)
           q == HandleIncoming(in)
           u == [Task("ack") EXCEPT !.in = m]
<1>0. SUFFICES ASSUME NEW E, E = IdsOf(log) PROVE DriverInv'
  OBVIOUS
<1>1. /\ Spend("deliveries") \/ world' = world
      /\ sent' = sent \cup {m} /\ Proceed(f, q \o <<u>>, loops, live)
      /\ log' = log /\ cache' = cache /\ outbox' = outbox /\ acked' = acked
  BY DEF Deliver, durable
<1>2. u = [x \in TaskFields |-> u[x]] /\ u.do = "ack" /\ u.loop = None /\ u.in = m
  BY DEF Task, TaskFields
<1>3. IsIncoming(in)
  BY CommandIsIncoming
<1>4. Tasks(q, E, DOMAIN loops) /\ Carries(q[1], m) /\ 1 \in DOMAIN q
  BY <1>3, HandleTasks
<1> HIDE DEF u, q
<1>5. IsTask(u, E, DOMAIN loops)
  BY <1>2, SimpleTask
<1>6. IsStack(q \o <<u>>, E, DOMAIN loops)
  BY <1>2, <1>4, <1>5, AckStack
<1>7. FlowsInv(E)
  BY <1>0 DEF DriverInv
<1>8. FlowsInv(E)'
  BY <1>1, <1>6, <1>7, ResumeInv
<1>9. Rows(outbox) /\ sent \subseteq Message /\ IsWorld(world)
  BY DEF DriverInv, DurableInv
<1>10. IsWorld(world')
  BY <1>1, <1>9, SpendWorld
<1>11. sent' \subseteq Message
  BY <1>1, <1>9
<1>12. QED
  BY <1>0, <1>1, <1>8, <1>9, <1>10, <1>11, QuietInv

\* Pause, send now, the scheduling of a resume, and a wake.
LEMMA PauseInv ==
  ASSUME DriverInv, NEW f \in Flow, Pause(f)
  PROVE  DriverInv'
<1> DEFINE in == Incoming("interrupt", None)
<1>1. /\ Spend("pauses") /\ Proceed(f, HandleIncoming(in), loops, live)
      /\ log' = log /\ cache' = cache /\ outbox' = outbox /\ sent' = sent /\ acked' = acked
  BY DEF Pause, durable
<1>2. IsIncoming(in)
  BY CommandIsIncoming
<1> HIDE DEF in
<1>3. \A E, V : Tasks(HandleIncoming(in), E, V)
  BY <1>2, HandleTasks
<1>4. Rows(outbox) /\ sent \subseteq Message
  BY DEF DriverInv, DurableInv
<1>5. IsWorld(world')
  BY <1>1, SpendWorld
<1>6. QED
  BY <1>1, <1>3, <1>4, <1>5, EntryInv

\* Pause with flushDeferred.
LEMMA SendNowInv ==
  ASSUME DriverInv, NEW f \in Flow, SendNow(f)
  PROVE  DriverInv'
<1> DEFINE t == Task("flush")
<1>1. /\ Spend("pauses") /\ Proceed(f, <<Loading(t)>>, loops, live)
      /\ log' = log /\ cache' = cache /\ outbox' = outbox /\ sent' = sent /\ acked' = acked
  BY DEF SendNow, durable
<1>2. t = [x \in TaskFields |-> t[x]] /\ t.loop = None /\ t.do = "flush"
  BY TaskIs
<1> HIDE DEF t
<1>3. \A E, V : Tasks(<<Loading(t)>>, E, V)
  BY <1>2, LoadingTasks
<1>4. Rows(outbox) /\ sent \subseteq Message
  BY DEF DriverInv, DurableInv
<1>5. IsWorld(world')
  BY <1>1, SpendWorld
<1>6. QED
  BY <1>1, <1>3, <1>4, <1>5, EntryInv

\* scheduleResumeAtReset.
LEMMA ScheduleResumeInv ==
  ASSUME DriverInv, NEW f \in Flow, ScheduleResume(f)
  PROVE  DriverInv'
<1>1. PICK i \in DOMAIN log :
        /\ Spend("pauses")
        /\ Proceed(f, <<Loading([Task("schedule") EXCEPT !.in = log[i].about])>>, loops, live)
        /\ log' = log /\ cache' = cache /\ outbox' = outbox /\ sent' = sent /\ acked' = acked
  BY DEF ScheduleResume, durable
<1> DEFINE t == [Task("schedule") EXCEPT !.in = log[i].about]
<1>2. t = [x \in TaskFields |-> t[x]] /\ t.loop = None /\ t.do = "schedule"
  BY DEF Task, TaskFields
<1>3. Proceed(f, <<Loading(t)>>, loops, live)
  BY <1>1
<1> HIDE DEF t
<1>4. \A E, V : Tasks(<<Loading(t)>>, E, V)
  BY <1>2, LoadingTasks
<1>5. Rows(outbox) /\ sent \subseteq Message
  BY DEF DriverInv, DurableInv
<1>6. IsWorld(world')
  BY <1>1, SpendWorld
<1>7. QED
  BY <1>1, <1>3, <1>4, <1>5, <1>6, EntryInv

\* processScheduledModelResumes.
LEMMA ResumeAtResetInv ==
  ASSUME DriverInv, NEW f \in Flow, ResumeAtReset(f)
  PROVE  DriverInv'
<1>1. PICK msg \in resumes :
        /\ Proceed(f, HandleIncoming(Incoming("resume", msg)) \o <<[Task("unschedule") EXCEPT !.in = msg]>>,
                   loops, live)
        /\ log' = log /\ cache' = cache /\ outbox' = outbox
        /\ sent' = sent /\ acked' = acked /\ world' = world
  BY DEF ResumeAtReset, durable, Environment
<1> DEFINE in == Incoming("resume", msg)
           u == [Task("unschedule") EXCEPT !.in = msg]
           todo == HandleIncoming(in) \o <<u>>
<1>2. u = [x \in TaskFields |-> u[x]] /\ u.do = "unschedule" /\ u.loop = None
  BY DEF Task, TaskFields
<1>3. IsIncoming(in)
  BY CommandIsIncoming
<1>4. Proceed(f, todo, loops, live)
  BY <1>1
<1> HIDE DEF in, u
<1>5. ASSUME NEW E, NEW V PROVE Tasks(todo, E, V)
  <2>1. Tasks(HandleIncoming(in), E, V)
    BY <1>3, HandleTasks
  <2>2. IsTask(u, E, V) /\ u.do # "ack"
    BY <1>2, SimpleTask
  <2>3. Tasks(<<u>>, E, V)
    BY <2>2, TasksFew
  <2>4. QED
    BY <2>1, <2>3, TasksConcat
<1> HIDE DEF todo
<1>6. Rows(outbox) /\ sent \subseteq Message /\ IsWorld(world)
  BY DEF DriverInv, DurableInv
<1>7. QED
  BY <1>1, <1>4, <1>5, <1>6, EntryInv

\* A ready envelope, or the wake that follows a restart.
LEMMA WakeInv ==
  ASSUME DriverInv, NEW f \in Flow, Wake(f)
  PROVE  DriverInv'
<1>1. /\ world' = [world EXCEPT !.restarted = FALSE] \/ Spend("wakes")
      /\ Proceed(f, WakeTasks, loops, live)
      /\ log' = log /\ cache' = cache /\ outbox' = outbox /\ sent' = sent /\ acked' = acked
  BY DEF Wake, durable
<1>2. \A E, V : Tasks(WakeTasks, E, V)
  BY WakeTasksAre
<1>3. Rows(outbox) /\ sent \subseteq Message /\ IsWorld(world)
  BY DEF DriverInv, DurableInv
<1>4. IsWorld([world EXCEPT !.restarted = FALSE])
  BY <1>3 DEF IsWorld, WorldFields
<1>5. IsWorld(world')
  BY <1>1, <1>4, SpendWorld
<1>6. QED
  BY <1>1, <1>2, <1>3, <1>5, EntryInv

-----------------------------------------------------------------------------
(* Steps of no flow.                                                       *)

\* The outbox and the executions change.
LEMMA AsideOfFlows ==
  ASSUME DriverInv, log' = log, cache' = cache, loops' = loops, live' = live, flows' = flows,
         Rows(outbox'), sent' = sent, acked' = acked, IsWorld(world')
  PROVE  DriverInv'
<1>0. SUFFICES ASSUME NEW E, E = IdsOf(log) PROVE DriverInv'
  OBVIOUS
<1>1. FlowsInv(E) /\ sent \subseteq Message
  BY <1>0 DEF DriverInv, DurableInv
<1>2. FlowsInv(E)'
  BY <1>1 DEF FlowsInv
<1>3. QED
  BY <1>0, <1>1, <1>2, QuietInv

\* deferRedrive.
LEMMA FinishDeferredInv ==
  ASSUME DriverInv, FinishDeferred
  PROVE  DriverInv'
<1>1. PICK r \in running :
        /\ outbox' = IF HasRow(outbox, r.effect.id)
                     THEN Update(outbox, r.effect.id, [RowOf(outbox, r.effect.id) EXCEPT !.lease = "none"])
                     ELSE outbox
        /\ log' = log /\ cache' = cache /\ loops' = loops /\ live' = live /\ flows' = flows
        /\ sent' = sent /\ acked' = acked /\ world' = world
  BY DEF FinishDeferred, Environment
<1>2. Rows(outbox) /\ IsWorld(world)
  BY DEF DriverInv, DurableInv
<1>3. Rows(outbox')
  BY <1>1, <1>2, LeasedRow
<1>4. QED
  BY <1>1, <1>2, <1>3, AsideOfFlows

\* A lease runs out.
LEMMA LeaseExpiresInv ==
  ASSUME DriverInv, LeaseExpires
  PROVE  DriverInv'
<1>1. PICK row \in outbox :
        /\ outbox' = Update(outbox, row.effect.id, [row EXCEPT !.lease = "expired"])
        /\ Spend("expiries") \/ world' = world
        /\ log' = log /\ cache' = cache /\ loops' = loops /\ live' = live /\ flows' = flows
        /\ sent' = sent /\ acked' = acked
  BY DEF LeaseExpires
<1>2. Rows(outbox) /\ IsWorld(world)
  BY DEF DriverInv, DurableInv
<1> DEFINE new == [row EXCEPT !.lease = "expired"]
<1>3. IsRow(row)
  BY <1>1, <1>2 DEF Rows
<1>4. IsRow(new) /\ new.effect = row.effect
  BY <1>3 DEF IsRow
<1>5. outbox' = Update(outbox, row.effect.id, new)
  BY <1>1
<1> HIDE DEF new
<1>6. Rows(outbox')
  BY <1>2, <1>4, <1>5, UpdateRows
<1>7. IsWorld(world')
  BY <1>1, <1>2, SpendWorld
<1>8. QED
  BY <1>1, <1>6, <1>7, AsideOfFlows

\* No loop is held and no flow is under way.
LEMMA AtRest ==
  ASSUME NEW E, loops = [i \in {} |-> InitialState], live = None, flows = [f \in Flow |-> <<>>]
  PROVE  FlowsInv(E)
<1>1. DOMAIN loops = {}
  OBVIOUS
<1>2. IsStack(<<>>, E, DOMAIN loops)
  BY SeqEmpty DEF IsStack
<1>3. QED
  BY <1>1, <1>2 DEF FlowsInv

\* The isolate dies: only what is durable is left.
LEMMA CrashInv ==
  ASSUME DriverInv, Crash
  PROVE  DriverInv'
<1>0. SUFFICES ASSUME NEW E, E = IdsOf(log) PROVE DriverInv'
  OBVIOUS
<1>1. /\ world' = [world EXCEPT !.crashes = world.crashes - 1, !.crashed = TRUE, !.restarted = TRUE]
      /\ loops' = [i \in {} |-> InitialState] /\ live' = None /\ flows' = [f \in Flow |-> <<>>]
      /\ sent' \subseteq sent /\ log' = log /\ cache' = cache /\ outbox' = outbox /\ acked' = acked
  BY DEF Crash, durable
<1>2. FlowsInv(E)'
  <2>1. IsStack(<<>>, E, {})
    BY SeqEmpty DEF IsStack
  <2>2. DOMAIN loops' = {}
    BY <1>1
  <2>3. QED
    BY <1>1, <2>1, <2>2 DEF FlowsInv
<1>3. Rows(outbox) /\ sent \subseteq Message /\ IsWorld(world)
  BY DEF DriverInv, DurableInv
<1>4. IsWorld(world')
  BY <1>1, <1>3 DEF IsWorld, WorldFields
<1>5. QED
  BY <1>0, <1>1, <1>2, <1>3, <1>4, QuietInv

-----------------------------------------------------------------------------
(* The theorems.                                                           *)

\* The inductive invariant holds at first.
LEMMA DriverInit ==
  ASSUME Init
  PROVE  DriverInv
<1>1. /\ log = <<>> /\ cache = None /\ outbox = {} /\ sent = {} /\ acked = {}
      /\ loops = [i \in {} |-> InitialState] /\ live = None /\ flows = [f \in Flow |-> <<>>]
  BY DEF Init
<1>2. IsLog(log)
  BY <1>1, SeqEmpty DEF IsLog
<1>3. DurableInv
  BY <1>1, <1>2 DEF DurableInv, Rows
<1>4. FlowsInv(IdsOf(log))
  BY <1>1, AtRest
<1>5. IsWorld(world)
  <2>1. PICK s \in Scenarios :
          world = [x \in DOMAIN s \cup {"crashed", "restarted"} |-> IF x \in DOMAIN s THEN s[x] ELSE FALSE]
    BY DEF Init
  <2>2. s \in Scenario
    BY <2>1, DriverTypes
  <2>3. DOMAIN s \cup {"crashed", "restarted"} = WorldFields /\ s.answers \in SUBSET SUBSET Tool
    BY <2>2 DEF Scenario, WorldFields
  <2>4. "answers" \in DOMAIN s /\ "answers" \in WorldFields
    BY <2>2 DEF Scenario, WorldFields
  <2>5. world = [x \in WorldFields |-> IF x \in DOMAIN s THEN s[x] ELSE FALSE]
    BY <2>1, <2>3
  <2>6. world = [x \in WorldFields |-> world[x]] /\ world.answers = s.answers
    BY <2>4, <2>5
  <2>7. QED
    BY <2>3, <2>6 DEF IsWorld
<1>6. QED
  BY <1>3, <1>4, <1>5 DEF DriverInv

\* Every step keeps it.
LEMMA DriverStep ==
  ASSUME DriverInv, [Next]_vars
  PROVE  DriverInv'
<1>1. ASSUME NEW f \in Flow, Continue(f) PROVE DriverInv'
  BY <1>1, LoadLiveInv, LoadColdInv, GetLogHeadInv, CompareHeadInv, ReadTailInv, LoadTailInv, RunStepInv,
     SendInv, CommitInv, ReplyInv, FoldInv, StaleStepInv, StaleOutcomeInv, StaleSuspendInv,
     StaleStrandedInv, RetryStrandedInv, ReconcileLoopInv, DropLoopInv, WakeLoopInv, RecoverTurnInv,
     ExecuteInv, SuspendInv, DeleteRowInv, AcknowledgeInv, FlushLoopInv, AsideInv DEF Continue
<1>2. ASSUME NEW f \in Flow, Begin(f) PROVE DriverInv'
  BY <1>2, DispatchInv, ExpireWaitInv, FinishModelInv, FinishToolInv, DeliverResultInv, DeliverInv,
     PauseInv, SendNowInv, ScheduleResumeInv, ResumeAtResetInv, WakeInv DEF Begin
<1>3. CASE UNCHANGED vars
  <2>1. /\ log' = log /\ cache' = cache /\ outbox' = outbox /\ loops' = loops /\ live' = live
        /\ flows' = flows /\ sent' = sent /\ acked' = acked /\ world' = world
    BY <1>3 DEF vars
  <2>2. Rows(outbox) /\ IsWorld(world)
    BY DEF DriverInv, DurableInv
  <2>3. QED
    BY <2>1, <2>2, AsideOfFlows
<1>4. QED
  BY <1>1, <1>2, <1>3, FinishDeferredInv, LeaseExpiresInv, CrashInv DEF Next

\* The inductive invariant says what TypeOK and AckedIsJournaled say.
LEMMA DriverImplies ==
  ASSUME DriverInv
  PROVE  TypeOK /\ AckedIsJournaled
<1>1. /\ IsLog(log) /\ Rows(outbox) /\ sent \subseteq Message /\ acked \subseteq Message
      /\ \A m \in acked : RecvId(m) \in IdsOf(log)
      /\ FlowsInv(IdsOf(log))
  BY DEF DriverInv, DurableInv
<1>2. \A i \in DOMAIN log : log[i].seq = i /\ JournaledAt(log[i].id) = {i}
  BY <1>1 DEF IsLog, JournaledAt
<1>3. /\ \A r, q \in outbox : r.effect.id = q.effect.id => r = q
      /\ \A r \in outbox : r.attempts \in Nat /\ r.lease \in {"none", "held", "expired"}
  BY <1>1 DEF Rows, IsRow
<1>4. live \in Instance \cup {None} /\ (live # None => live \in DOMAIN loops)
  BY <1>1 DEF FlowsInv
<1>5. ASSUME NEW f \in Flow, NEW k \in DOMAIN flows[f]
      PROVE  /\ flows[f][k].do \in TaskType
             /\ flows[f][k].loop # None => flows[f][k].loop \in DOMAIN loops
  <2>1. IsTask(flows[f][k], IdsOf(log), DOMAIN loops)
    BY <1>1 DEF FlowsInv, IsStack
  <2>2. QED
    BY <2>1 DEF IsTask
<1>6. TypeOK
  BY <1>1, <1>2, <1>3, <1>4, <1>5 DEF TypeOK
<1>7. AckedIsJournaled
  BY <1>1 DEF AckedIsJournaled, Journaled, JournaledAt, IdsOf
<1>8. QED
  BY <1>6, <1>7

\* The inductive invariant holds throughout.
LEMMA DriverInvariant == Spec => []DriverInv
BY DriverInit, DriverStep, PTL DEF Spec

\* The journal is numbered without gaps and holds every id once, the outbox one
\* row for an effect, and a task that is under way holds a loop that exists:
\* appendLogEvent, the outbox and the driver's map of loops, for any number of
\* flows, messages, retries, crashes and lost leases.
THEOREM TypeCorrect == Spec => []TypeOK
BY DriverInvariant, DriverImplies, PTL

\* handleIncoming of a message returns, so that the channel's delivery is
\* acknowledged, only when the message is in the journal: whatever conflict,
\* retry, crash or second delivery came between.
THEOREM AcknowledgedIsJournaled == Spec => []AckedIsJournaled
BY DriverInvariant, DriverImplies, PTL
=============================================================================
