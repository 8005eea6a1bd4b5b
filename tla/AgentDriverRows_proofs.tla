----------------------- MODULE AgentDriverRows_proofs -----------------------
(* Proofs about the rows of the outbox when one flow is under way at a     *)
(* time: a row leaves the outbox only when the journal has no use for it   *)
(* any more.                                                               *)
EXTENDS AgentDriverOneFlow_proofs

-----------------------------------------------------------------------------
(* What the journal begins and ends: the books of the journal.             *)

\* What an event may do to the call, the invocations, the wait and the turn.
Changes(s, e, t) ==
  /\ t.call \in {s.call, None} \/ (e.kind = "message.started" /\ t.call.msg = e.about)
  /\ e.kind \in {"message.completed", "message.failed"} /\ s.call.msg = e.about => t.call = None
  /\ \A p \in t.pending : p \in s.pending \/ (e.kind = "invocation.started" /\ p.inv = e.about)
  /\ e.kind = "invocation.terminal" => \A p \in t.pending : p.inv # e.about
  /\ t.wait \in {s.wait, None} \/ (e.kind = "wait.started" /\ t.wait.at = e.seq)
  /\ e.kind \in {"wait.resolved", "wait.expired"} => t.wait = None
  /\ \/ t.turn \in {s.turn, None} /\ (e.kind = "turn.waiting" => t.turn = None)
     \/ e.kind = "turn.opened" /\ t.turn.id = e.turn /\ t.turn.waits = 0
     \/ /\ s.turn # None /\ t.turn.id = s.turn.id
        /\ t.turn.waits = IF e.kind = "turn.waiting" THEN s.turn.waits + 1 ELSE s.turn.waits
  /\ e.kind \in {"message.failed", "wait.started"} => t.turn = s.turn

\* What ApplyEvent does.
LEMMA EventChanges ==
  ASSUME NEW s, IsState(s), NEW e
  PROVE  Changes(s, e, ApplyEvent(s, e))
<1> DEFINE p == [s EXCEPT !.lastSeq = e.seq]
           t == ApplyEvent(s, e)
<1>1. /\ p = [x \in StateFields |-> p[x]] /\ p.call = s.call /\ p.pending = s.pending /\ p.wait = s.wait
      /\ p.turn = s.turn /\ IsTurn(p.turn)
  BY DEF IsState, StateFields
<1>2. t =
    CASE e.kind = "turn.opened" -> OnTurnOpened(p, e)
      [] e.kind = "turn.closed" -> OnTurnClosed(p, e)
      [] e.kind = "turn.waiting" -> OnTurnWaiting(p, e)
      [] e.kind = "message.started" -> OnMessageStarted(p, e)
      [] e.kind \in {"message.completed", "message.failed"} -> OnMessageTerminal(p, e)
      [] e.kind = "user" -> OnUserMessage(p, e)
      [] e.kind = "invocation.started" -> OnInvocationStarted(p, e)
      [] e.kind = "invocation.terminal" -> OnInvocationTerminal(p, e)
      [] e.kind = "wait.started" -> OnWaitStarted(p, e)
      [] e.kind \in {"wait.resolved", "wait.expired"} -> [p EXCEPT !.wait = None]
      [] e.kind = "interrupt" ->
           IF p.turn = None THEN p ELSE [p EXCEPT !.turn.interrupted = TRUE]
      [] e.kind = "flush" -> IF p.turn = None THEN p ELSE [p EXCEPT !.turn.flush = TRUE]
      [] OTHER -> p
  BY DEF ApplyEvent
<1> HIDE DEF p, t
<1>3. SUFFICES Changes(p, e, t)
  BY <1>1 DEF Changes, t
<1>4. CASE e.kind = "turn.opened"
  <2>1. t = OnTurnOpened(p, e)
    BY <1>2, <1>4
  <2>2. QED
    BY <1>1, <1>4, <2>1 DEF Changes, OnTurnOpened, OpenTurn, StateFields
<1>5. CASE e.kind = "turn.closed"
  <2>1. t = OnTurnClosed(p, e)
    BY <1>2, <1>5
  <2>2. QED
    BY <1>1, <1>5, <2>1 DEF Changes, OnTurnClosed, StateFields
<1>6. CASE e.kind = "turn.waiting"
  <2>1. t = OnTurnWaiting(p, e)
    BY <1>2, <1>6
  <2>2. QED
    BY <1>1, <1>6, <2>1 DEF Changes, OnTurnWaiting, StateFields, IsTurn, TurnFields
<1>7. CASE e.kind = "message.started"
  <2>1. t = OnMessageStarted(p, e)
    BY <1>2, <1>7
  <2>2. QED
    BY <1>1, <1>7, <2>1 DEF Changes, OnMessageStarted, StateFields, IsTurn, TurnFields
<1>8. CASE e.kind \in {"message.completed", "message.failed"}
  <2>1. t = OnMessageTerminal(p, e)
    BY <1>2, <1>8
  <2>2. QED
    BY <1>1, <1>8, <2>1 DEF Changes, OnMessageTerminal, StateFields
<1>9. CASE e.kind = "user"
  <2>1. t = OnUserMessage(p, e)
    BY <1>2, <1>9
  <2>2. QED
    BY <1>1, <1>9, <2>1 DEF Changes, OnUserMessage, StateFields
<1>10. CASE e.kind = "invocation.started"
  <2>1. t = OnInvocationStarted(p, e)
    BY <1>2, <1>10
  <2>2. QED
    BY <1>1, <1>10, <2>1 DEF Changes, OnInvocationStarted, StateFields
<1>11. CASE e.kind = "invocation.terminal"
  <2>1. t = OnInvocationTerminal(p, e)
    BY <1>2, <1>11
  <2>2. QED
    BY <1>1, <1>11, <2>1 DEF Changes, OnInvocationTerminal, StateFields
<1>12. CASE e.kind = "wait.started"
  <2>1. t = OnWaitStarted(p, e)
    BY <1>2, <1>12
  <2>2. QED
    BY <1>1, <1>12, <2>1 DEF Changes, OnWaitStarted, StateFields
<1>13. CASE e.kind \in {"wait.resolved", "wait.expired"}
  <2>1. t = [p EXCEPT !.wait = None]
    BY <1>2, <1>13
  <2>2. QED
    BY <1>1, <1>13, <2>1 DEF Changes, StateFields
<1>14. CASE e.kind \notin {"turn.opened", "turn.closed", "turn.waiting", "message.started", "message.completed",
                           "message.failed", "user", "invocation.started", "invocation.terminal", "wait.started",
                           "wait.resolved", "wait.expired"}
  <2>1. t = p \/ (p.turn # None /\ t \in {[p EXCEPT !.turn.interrupted = TRUE], [p EXCEPT !.turn.flush = TRUE]})
    BY <1>2, <1>14
  <2>2. QED
    BY <1>1, <1>14, <2>1 DEF Changes, StateFields, IsTurn, TurnFields
<1>15. QED
  BY <1>4, <1>5, <1>6, <1>7, <1>8, <1>9, <1>10, <1>11, <1>12, <1>13, <1>14

\* What the id of an event of the journal presupposes.  E: the ids of the journal;
\* n: its length.
Backed(E, n, id) ==
  /\ id[1] = "terminal" /\ id[2][1] = "msg" => <<"started", id[2]>> \in E
  /\ id[1] = "inv-terminal" => <<"inv-start", id[2]>> \in E
  /\ id[1] \in {"wait-resolved", "wait-expired"} => id[2] \in 1 .. n
  /\ id[1] = "wait-started" => id[2] \in 0 .. n
  /\ id[1] = "waiting" => <<"opened", id[2]>> \in E

\* What is pending in the fold s of the journal was begun there, and not ended.
CallOpen(E, s) ==
  s.call # None =>
    s.call.msg[1] = "msg" /\ <<"started", s.call.msg>> \in E /\ <<"terminal", s.call.msg>> \notin E
InvocationsOpen(E, s) ==
  \A p \in s.pending : <<"inv-start", p.inv>> \in E /\ <<"inv-terminal", p.inv>> \notin E
WaitOpen(E, n, s) ==
  s.wait # None =>
    s.wait.at \in 1 .. n /\ <<"wait-resolved", s.wait.at>> \notin E /\ <<"wait-expired", s.wait.at>> \notin E
TurnOpen(E, s) ==
  s.turn # None =>
    /\ <<"opened", s.turn.id>> \in E /\ s.turn.waits \in Nat
    /\ \A id \in E : id[1] = "waiting" /\ id[2] = s.turn.id => id[3] \in Nat /\ id[3] < s.turn.waits

\* The books: ids E, n events, fold s.
Ledger(E, n, s) ==
  /\ CallOpen(E, s) /\ InvocationsOpen(E, s) /\ WaitOpen(E, n, s) /\ TurnOpen(E, s)
  /\ \A id \in E : Backed(E, n, id)

\* An event that may be journaled next.
NextUp(E, n, s, e) ==
  /\ e.id \notin E /\ e.seq = n + 1 /\ Formed(e)
  /\ Backed(E, n + 1, e.id)
  /\ e.id[1] = "waiting" => s.turn # None /\ e.id[2] = s.turn.id /\ e.id[3] = s.turn.waits

\* One event more.
LEMMA LedgerStep ==
  ASSUME NEW E, NEW n \in Nat, NEW s, IsState(s), Ledger(E, n, s), NEW e, NextUp(E, n, s, e)
  PROVE  Ledger(E \cup {e.id}, n + 1, ApplyEvent(s, e))
<1> DEFINE t == ApplyEvent(s, e)
           D == E \cup {e.id}
<1>1. Changes(s, e, t)
  BY EventChanges
<1>2. e.id \notin E /\ e.seq = n + 1 /\ Formed(e) /\ Backed(E, n + 1, e.id)
  BY DEF NextUp
<1> HIDE DEF t
<1>3. \A id \in D : Backed(D, n + 1, id)
  <2>1. ASSUME NEW id \in E PROVE Backed(D, n + 1, id)
    <3>1. Backed(E, n, id)
      BY DEF Ledger
    <3>2. \A k : (k \in 1 .. n => k \in 1 .. n + 1) /\ (k \in 0 .. n => k \in 0 .. n + 1)
      OBVIOUS
    <3>3. QED
      BY <3>1, <3>2 DEF Backed
  <2>2. Backed(D, n + 1, e.id)
    BY <1>2 DEF Backed
  <2>3. QED
    BY <2>1, <2>2
<1>4. CallOpen(D, t)
  <2>1. SUFFICES ASSUME t.call # None
                 PROVE  t.call.msg[1] = "msg" /\ <<"started", t.call.msg>> \in D /\ <<"terminal", t.call.msg>> \notin D
    BY DEF CallOpen
  <2>2. CASE t.call = s.call
    <3>1. s.call.msg[1] = "msg" /\ <<"started", s.call.msg>> \in E /\ <<"terminal", s.call.msg>> \notin E
      BY <2>1, <2>2 DEF Ledger, CallOpen
    <3>2. e.id # <<"terminal", s.call.msg>>
      <4>1. SUFFICES ASSUME e.id = <<"terminal", s.call.msg>> PROVE FALSE
        OBVIOUS
      <4>2. e.id[1] = "terminal" /\ e.id[2] = s.call.msg
        BY <4>1
      <4>3. e.kind \in {"message.completed", "message.failed"} /\ e.about = s.call.msg
        BY <1>2, <4>2 DEF Formed
      <4>4. QED
        BY <1>1, <2>1, <4>3 DEF Changes
    <3>3. QED
      BY <2>2, <3>1, <3>2
  <2>3. CASE e.kind = "message.started" /\ t.call.msg = e.about
    <3>1. e.id = <<"started", e.about>> /\ e.about[1] = "msg"
      BY <1>2, <2>3 DEF Formed
    <3>2. <<"terminal", e.about>> \notin E
      <4>1. SUFFICES ASSUME <<"terminal", e.about>> \in E PROVE FALSE
        OBVIOUS
      <4> DEFINE x == <<"terminal", e.about>>
      <4>2. x[1] = "terminal" /\ x[2] = e.about /\ x \in E
        BY <4>1
      <4>3. Backed(E, n, x)
        BY <4>2 DEF Ledger
      <4> HIDE DEF x
      <4>4. <<"started", x[2]>> \in E
        BY <3>1, <4>2, <4>3 DEF Backed
      <4>5. QED
        BY <1>2, <3>1, <4>2, <4>4
    <3>3. QED
      BY <2>3, <3>1, <3>2
  <2>4. QED
    BY <1>1, <2>1, <2>2, <2>3 DEF Changes
<1>5. InvocationsOpen(D, t)
  <2>1. SUFFICES ASSUME NEW p \in t.pending
                 PROVE  <<"inv-start", p.inv>> \in D /\ <<"inv-terminal", p.inv>> \notin D
    BY DEF InvocationsOpen
  <2>2. e.id # <<"inv-terminal", p.inv>>
    <3>1. SUFFICES ASSUME e.id = <<"inv-terminal", p.inv>> PROVE FALSE
      OBVIOUS
    <3>2. e.id[1] = "inv-terminal" /\ e.id[2] = p.inv
      BY <3>1
    <3>3. e.kind = "invocation.terminal" /\ e.about = p.inv
      BY <1>2, <3>2 DEF Formed
    <3>4. QED
      BY <1>1, <3>3 DEF Changes
  <2>3. CASE p \in s.pending
    BY <2>2, <2>3 DEF Ledger, InvocationsOpen
  <2>4. CASE e.kind = "invocation.started" /\ p.inv = e.about
    <3>1. e.id = <<"inv-start", p.inv>>
      BY <1>2, <2>4 DEF Formed
    <3>2. <<"inv-terminal", p.inv>> \notin E
      <4>1. SUFFICES ASSUME <<"inv-terminal", p.inv>> \in E PROVE FALSE
        OBVIOUS
      <4> DEFINE x == <<"inv-terminal", p.inv>>
      <4>2. x[1] = "inv-terminal" /\ x[2] = p.inv /\ x \in E
        BY <4>1
      <4>3. Backed(E, n, x)
        BY <4>2 DEF Ledger
      <4> HIDE DEF x
      <4>4. <<"inv-start", x[2]>> \in E
        BY <4>2, <4>3 DEF Backed
      <4>5. QED
        BY <1>2, <3>1, <4>2, <4>4
    <3>3. QED
      BY <2>2, <3>1, <3>2
  <2>5. QED
    BY <1>1, <2>3, <2>4 DEF Changes
<1>6. WaitOpen(D, n + 1, t)
  <2>1. SUFFICES ASSUME t.wait # None
                 PROVE  /\ t.wait.at \in 1 .. n + 1
                        /\ \A tag \in {"wait-resolved", "wait-expired"} : <<tag, t.wait.at>> \notin D
    BY DEF WaitOpen
  <2>2. ASSUME NEW tag \in {"wait-resolved", "wait-expired"} PROVE e.id # <<tag, t.wait.at>>
    <3>1. SUFFICES ASSUME e.id = <<tag, t.wait.at>> PROVE FALSE
      OBVIOUS
    <3>2. e.id[1] \in {"wait-resolved", "wait-expired"}
      BY <3>1
    <3>3. e.kind \in {"wait.resolved", "wait.expired"}
      BY <1>2, <3>2 DEF Formed
    <3>4. QED
      BY <1>1, <2>1, <3>3 DEF Changes
  <2>3. CASE t.wait = s.wait
    <3>1. /\ s.wait.at \in 1 .. n
          /\ \A tag \in {"wait-resolved", "wait-expired"} : <<tag, s.wait.at>> \notin E
      BY <2>1, <2>3 DEF Ledger, WaitOpen
    <3>2. s.wait.at \in 1 .. n + 1
      BY <3>1
    <3>3. QED
      BY <2>2, <2>3, <3>1, <3>2
  <2>4. CASE e.kind = "wait.started" /\ t.wait.at = e.seq
    <3>1. t.wait.at = n + 1 /\ t.wait.at \in 1 .. n + 1 /\ t.wait.at \notin 1 .. n
      BY <1>2, <2>4
    <3>2. ASSUME NEW tag \in {"wait-resolved", "wait-expired"} PROVE <<tag, t.wait.at>> \notin E
      <4>1. SUFFICES ASSUME <<tag, t.wait.at>> \in E PROVE FALSE
        OBVIOUS
      <4> DEFINE x == <<tag, t.wait.at>>
      <4>2. x[1] = tag /\ x[2] = t.wait.at /\ x \in E
        BY <4>1
      <4>3. Backed(E, n, x)
        BY <4>2 DEF Ledger
      <4> HIDE DEF x
      <4>4. QED
        BY <3>1, <4>2, <4>3 DEF Backed
    <3>3. QED
      BY <2>2, <3>1, <3>2
  <2>5. QED
    BY <1>1, <2>1, <2>3, <2>4 DEF Changes
<1>7. TurnOpen(D, t)
  <2>1. SUFFICES ASSUME t.turn # None
                 PROVE  /\ <<"opened", t.turn.id>> \in D /\ t.turn.waits \in Nat
                        /\ \A id \in D : id[1] = "waiting" /\ id[2] = t.turn.id => id[3] \in Nat /\ id[3] < t.turn.waits
    BY DEF TurnOpen
  <2>2. s.turn # None =>
          /\ <<"opened", s.turn.id>> \in E /\ s.turn.waits \in Nat
          /\ \A id \in E : id[1] = "waiting" /\ id[2] = s.turn.id => id[3] \in Nat /\ id[3] < s.turn.waits
    BY DEF Ledger, TurnOpen
  <2>3. e.id[1] = "waiting" =>
          e.kind = "turn.waiting" /\ s.turn # None /\ e.id[2] = s.turn.id /\ e.id[3] = s.turn.waits
    BY <1>2 DEF Formed, NextUp
  <2>4. CASE t.turn = s.turn /\ e.kind # "turn.waiting"
    BY <2>1, <2>2, <2>3, <2>4
  <2>5. CASE e.kind = "turn.opened" /\ t.turn.id = e.turn /\ t.turn.waits = 0
    <3>1. e.id = <<"opened", t.turn.id>>
      BY <1>2, <2>5 DEF Formed
    <3>2. ASSUME NEW id \in D, id[1] = "waiting", id[2] = t.turn.id PROVE FALSE
      <4>1. id \in E
        BY <2>3, <2>5, <3>2
      <4>2. Backed(E, n, id)
        BY <4>1 DEF Ledger
      <4>3. <<"opened", id[2]>> \in E
        BY <3>2, <4>2 DEF Backed
      <4>4. QED
        BY <1>2, <3>1, <3>2, <4>3
    <3>3. QED
      BY <2>5, <3>1, <3>2
  <2>6. CASE /\ s.turn # None /\ t.turn.id = s.turn.id
             /\ t.turn.waits = IF e.kind = "turn.waiting" THEN s.turn.waits + 1 ELSE s.turn.waits
    <3>1. s.turn.waits \in Nat /\ t.turn.waits \in Nat /\ s.turn.waits <= t.turn.waits
      BY <2>2, <2>6
    <3>2. ASSUME NEW id \in D, id[1] = "waiting", id[2] = t.turn.id PROVE id[3] \in Nat /\ id[3] < t.turn.waits
      <4>1. CASE id \in E
        BY <2>2, <2>6, <3>1, <3>2, <4>1
      <4>2. CASE id = e.id
        <5>1. e.kind = "turn.waiting" /\ id[3] = s.turn.waits
          BY <2>3, <3>2, <4>2
        <5>2. QED
          BY <2>6, <3>1, <5>1
      <4>3. QED
        BY <4>1, <4>2
    <3>3. QED
      BY <2>2, <2>6, <3>1, <3>2
  <2>7. QED
    BY <1>1, <2>1, <2>4, <2>5, <2>6 DEF Changes
<1>8. Ledger(D, n + 1, t)
  BY <1>3, <1>4, <1>5, <1>6, <1>7 DEF Ledger
<1>9. QED
  BY <1>8 DEF t

\* An effect that is not pending any more, and never will be again.
Over(E, s, id) ==
  /\ id[1] = "model" => <<"started", id[2]>> \in E /\ (s.call = None \/ s.call.msg # id[2])
  /\ id[1] = "inv" => <<"inv-start", id[2]>> \in E /\ \A p \in s.pending : p.inv # id[2]
  /\ id[1] = "cred" => s.wait = None

\* One event more does not begin it again.
LEMMA OverStep ==
  ASSUME NEW E, NEW n, NEW s, IsState(s), NEW e, NextUp(E, n, s, e), NEW id, Over(E, s, id),
         id[1] = "cred" => e.kind # "wait.started"
  PROVE  Over(E \cup {e.id}, ApplyEvent(s, e), id)
<1> DEFINE t == ApplyEvent(s, e)
<1>1. Changes(s, e, t) /\ e.id \notin E /\ Formed(e)
  BY EventChanges DEF NextUp
<1> HIDE DEF t
<1>2. ASSUME id[1] = "model" PROVE t.call = None \/ t.call.msg # id[2]
  <2>1. <<"started", id[2]>> \in E /\ (s.call = None \/ s.call.msg # id[2])
    BY <1>2 DEF Over
  <2>2. e.kind = "message.started" => e.id = <<"started", e.about>>
    BY <1>1 DEF Formed
  <2>3. QED
    BY <1>1, <2>1, <2>2 DEF Changes
<1>3. ASSUME id[1] = "inv" PROVE \A p \in t.pending : p.inv # id[2]
  <2>1. <<"inv-start", id[2]>> \in E /\ \A p \in s.pending : p.inv # id[2]
    BY <1>3 DEF Over
  <2>2. e.kind = "invocation.started" => e.id = <<"inv-start", e.about>>
    BY <1>1 DEF Formed
  <2>3. QED
    BY <1>1, <2>1, <2>2 DEF Changes
<1>4. ASSUME id[1] = "cred" PROVE t.wait = None
  BY <1>1, <1>4 DEF Over, Changes
<1>5. Over(E \cup {e.id}, t, id)
  BY <1>2, <1>3, <1>4 DEF Over
<1>6. QED
  BY <1>5 DEF t

\* Events that may be journaled after a journal with the ids E, the length n and the
\* fold s.
Fitting(E, n, s, new) ==
  \A i \in DOMAIN new :
    /\ Backed(E, n + 1, new[i].id)
    /\ new[i].id[1] = "waiting" =>
         /\ s.turn # None /\ new[i].id[2] = s.turn.id /\ new[i].id[3] = s.turn.waits
         /\ \A j \in 1 .. i - 1 : new[j].kind \in {"message.failed", "wait.started"}

\* Events that start no wait.
NoWait(new) == \A i \in DOMAIN new : new[i].kind # "wait.started"

\* More ids and a longer journal do no harm.
LEMMA BackedWidens ==
  ASSUME NEW E, NEW D, E \subseteq D, NEW n \in Nat, NEW m \in Nat, n <= m, NEW id, Backed(E, n, id)
  PROVE  Backed(D, m, id)
<1>1. \A k : (k \in 1 .. n => k \in 1 .. m) /\ (k \in 0 .. n => k \in 0 .. m)
  OBVIOUS
<1>2. QED
  BY <1>1 DEF Backed

\* The ids of a journal that has grown.
LEMMA GrownIds ==
  ASSUME NEW l, IsSeq(l), NEW new, IsSeq(new)
  PROVE  IdsOf(l \o new) = IdsOf(l) \cup {new[i].id : i \in DOMAIN new}
<1> DEFINE c == l \o new
<1>1. \A i \in DOMAIN c : (i \in DOMAIN l /\ c[i] = l[i]) \/ (\E k \in DOMAIN new : c[i] = new[k])
  BY ConcatElements
<1>2. (\A i \in DOMAIN l : i \in DOMAIN c /\ c[i] = l[i]) /\ (\A i \in DOMAIN new : \E k \in DOMAIN c : c[k] = new[i])
  BY ConcatHolds
<1> HIDE DEF c
<1>3. IdsOf(c) = IdsOf(l) \cup {new[i].id : i \in DOMAIN new}
  BY <1>1, <1>2 DEF IdsOf
<1>4. QED
  BY <1>3 DEF c

\* A whole batch.
LEMMA LedgerBatch ==
  ASSUME NEW l, IsLog(l), NEW new, IsSeq(new), IsLog(l \o new),
         Ledger(IdsOf(l), Len(l), TruthOf(l)), Fitting(IdsOf(l), Len(l), TruthOf(l), new)
  PROVE  /\ Ledger(IdsOf(l \o new), Len(l \o new), TruthOf(l \o new))
         /\ \A id : Over(IdsOf(l), TruthOf(l), id) /\ (id[1] = "cred" => NoWait(new)) =>
              Over(IdsOf(l \o new), TruthOf(l \o new), id)
         /\ NoWait(new) => TruthOf(l \o new).wait \in {TruthOf(l).wait, None}
<1> DEFINE n == Len(l)
           m == Len(new)
           c == l \o new
           s == TruthOf(l)
           E == IdsOf(l)
           D(k) == E \cup {new[i].id : i \in 1 .. k}
<1>1. /\ IsSeq(l) /\ n \in Nat /\ DOMAIN l = 1 .. n /\ m \in Nat /\ DOMAIN new = 1 .. m
      /\ IsState(s)
  BY SeqDomain, TruthIs DEF IsLog
<1>2. /\ IsSeq(c) /\ Len(c) = n + m
      /\ \A i \in 1 .. n : c[i] = l[i]
      /\ \A i \in 1 .. m : c[n + i] = new[i]
  BY <1>1, SeqConcat
<1>3. IdsOf(c) = D(m)
  BY <1>1, GrownIds
<1>4. PICK g : LeadsTo(g, s, new)
  BY FoldStates
<1>5. /\ g[0] = s /\ \A k \in 1 .. m : g[k] = ApplyEvent(g[k - 1], new[k])
  BY <1>4 DEF LeadsTo
<1>6. TruthOf(c) = g[m]
  <2>1. FoldEvents(InitialState, l \o new) = FoldEvents(FoldEvents(InitialState, l), new)
    BY <1>1, FoldConcat
  <2>2. QED
    BY <1>4, <2>1 DEF LeadsTo, TruthOf
<1>i. IsLog(c)
  OBVIOUS
<1>f. Fitting(E, n, s, new) /\ Ledger(E, n, s)
  OBVIOUS
<1>g. ASSUME NEW i \in DOMAIN l PROVE l[i].id \in E
  BY DEF IdsOf
<1>h. ASSUME NEW x \in E PROVE \E i \in DOMAIN l : l[i].id = x
  BY DEF IdsOf
<1> HIDE DEF c, s, E, n, m
<1>7. ASSUME NEW k \in 1 .. m
      PROVE  /\ IsEnvelope(new[k]) /\ new[k].seq = n + k /\ new[k].id \notin D(k - 1) /\ Formed(new[k])
  <2>1. n + k \in DOMAIN c /\ c[n + k] = new[k] /\ \A i \in 1 .. n + m : i \in DOMAIN c
    BY <1>1, <1>2, SeqDomain
  <2>2. IsEnvelope(new[k]) /\ new[k].seq = n + k
    BY <1>i, <2>1 DEF IsLog
  <2>3. ASSUME NEW i \in 1 .. n + m, c[i].id = new[k].id PROVE i = n + k
    BY <1>i, <2>1, <2>3 DEF IsLog
  <2>4. new[k].id \notin E
    <3>1. SUFFICES ASSUME NEW i \in DOMAIN l, l[i].id = new[k].id PROVE FALSE
      BY <1>h
    <3>2. i \in 1 .. n /\ i \in 1 .. n + m /\ c[i] = l[i] /\ i # n + k
      BY <1>1, <1>2
    <3>3. QED
      BY <2>3, <3>1, <3>2
  <2>5. ASSUME NEW i \in 1 .. k - 1, new[i].id = new[k].id PROVE FALSE
    <3>1. n + i \in 1 .. n + m /\ i \in 1 .. m /\ n + i # n + k
      BY <1>1
    <3>2. QED
      BY <1>2, <2>3, <2>5, <3>1
  <2>6. QED
    BY <2>2, <2>4, <2>5 DEF IsEnvelope, IsEvent
<1> DEFINE Q(k) == /\ IsState(g[k]) /\ Ledger(D(k), n + k, g[k])
                   /\ (\A i \in 1 .. k : new[i].kind \in {"message.failed", "wait.started"}) => g[k].turn = s.turn
                   /\ \A id : Over(E, s, id) /\ (id[1] = "cred" => NoWait(new)) => Over(D(k), g[k], id)
                   /\ NoWait(new) => g[k].wait \in {s.wait, None}
           S == {k \in Nat : k <= m => Q(k)}
<1>8. 0 \in S
  <2>1. D(0) = E /\ n + 0 = n
    BY <1>1
  <2>2. Q(0)
    BY <1>1, <1>5, <1>f, <2>1
  <2>3. QED
    BY <2>2
<1>9. ASSUME NEW k \in Nat, k \in S PROVE k + 1 \in S
  <2>1. SUFFICES ASSUME k + 1 <= m PROVE Q(k + 1)
    OBVIOUS
  <2>2. k + 1 \in 1 .. m /\ (k + 1) - 1 = k /\ k <= m /\ n + k \in Nat /\ (n + k) + 1 = n + (k + 1)
    BY <1>1, <2>1
  <2>3. Q(k)
    BY <1>9, <2>2
  <2>4. g[k + 1] = ApplyEvent(g[k], new[k + 1])
    BY <1>5, <2>2
  <2>5. D(k + 1) = D(k) \cup {new[k + 1].id}
    <3>1. \A i : i \in 1 .. k + 1 <=> (i \in 1 .. k \/ i = k + 1)
      BY <2>2
    <3>2. QED
      BY <3>1
  <2>e. /\ IsEnvelope(new[k + 1]) /\ new[k + 1].seq = n + (k + 1) /\ Formed(new[k + 1])
        /\ new[k + 1].id \notin D((k + 1) - 1)
    BY <1>7, <2>2
  <2>6. new[k + 1].id \notin D(k)
    BY <2>2, <2>e
  <2>7. Backed(E, n + 1, new[k + 1].id) /\ E \subseteq D(k)
    BY <1>1, <1>f, <2>2 DEF Fitting
  <2> HIDE DEF D
  <2>8. Backed(D(k), (n + k) + 1, new[k + 1].id)
    <3>1. n + 1 \in Nat /\ (n + k) + 1 \in Nat /\ n + 1 <= (n + k) + 1
      BY <1>1
    <3>2. QED
      BY <2>7, <3>1, BackedWidens
  <2>9. ASSUME new[k + 1].id[1] = "waiting"
        PROVE  g[k].turn # None /\ new[k + 1].id[2] = g[k].turn.id /\ new[k + 1].id[3] = g[k].turn.waits
    <3>1. /\ s.turn # None /\ new[k + 1].id[2] = s.turn.id /\ new[k + 1].id[3] = s.turn.waits
          /\ \A j \in 1 .. (k + 1) - 1 : new[j].kind \in {"message.failed", "wait.started"}
      BY <1>1, <1>f, <2>2, <2>9 DEF Fitting
    <3>2. QED
      BY <2>2, <2>3, <3>1
  <2>10. NextUp(D(k), n + k, g[k], new[k + 1])
    BY <2>2, <2>e, <2>6, <2>8, <2>9 DEF NextUp
  <2>11. Ledger(D(k + 1), n + (k + 1), g[k + 1])
    <3>1. Ledger(D(k) \cup {new[k + 1].id}, (n + k) + 1, ApplyEvent(g[k], new[k + 1]))
      BY <2>2, <2>3, <2>10, LedgerStep
    <3>2. QED
      BY <2>2, <2>4, <2>5, <3>1
  <2>12. IsState(g[k + 1])
    <3>1. Follows(g[k], new[k + 1], g[k + 1])
      BY <2>3, <2>4, <2>e, ApplyEventFollows
    <3>2. QED
      BY <3>1 DEF Follows
  <2>13. ASSUME \A i \in 1 .. k + 1 : new[i].kind \in {"message.failed", "wait.started"}
         PROVE  g[k + 1].turn = s.turn
    <3>1. Changes(g[k], new[k + 1], g[k + 1])
      BY <2>3, <2>4, EventChanges
    <3>2. k + 1 \in 1 .. k + 1 /\ \A i \in 1 .. k : i \in 1 .. k + 1
      BY <2>2
    <3>3. QED
      BY <2>3, <2>13, <3>1, <3>2 DEF Changes
  <2>14. ASSUME NEW id, Over(E, s, id), id[1] = "cred" => NoWait(new) PROVE Over(D(k + 1), g[k + 1], id)
    <3>1. Over(D(k), g[k], id) /\ (id[1] = "cred" => new[k + 1].kind # "wait.started")
      BY <1>1, <2>2, <2>3, <2>14 DEF NoWait
    <3>2. QED
      BY <2>3, <2>4, <2>5, <2>10, <3>1, OverStep
  <2>15. ASSUME NoWait(new) PROVE g[k + 1].wait \in {s.wait, None}
    <3>1. Changes(g[k], new[k + 1], g[k + 1]) /\ new[k + 1].kind # "wait.started"
      BY <1>1, <2>2, <2>3, <2>4, <2>15, EventChanges DEF NoWait
    <3>2. QED
      BY <2>3, <2>15, <3>1 DEF Changes
  <2>16. QED
    BY <2>11, <2>12, <2>13, <2>14, <2>15
<1> HIDE DEF S
<1>10. m \in S
  BY <1>1, <1>8, <1>9, NatSetInduction
<1>11. Q(m)
  BY <1>1, <1>10 DEF S
<1>12. QED
  BY <1>2, <1>3, <1>6, <1>11 DEF c, s, E, n

-----------------------------------------------------------------------------
(* A step ends only what is pending in the state it is taken in.           *)

\* The tags of the ids that end something or suspend a turn.
EndTags == {"terminal", "inv-terminal", "wait-resolved", "wait-expired", "waiting", "wait-started"}

\* An event with this id ends nothing but what is pending in s.
Ends(s, id) ==
  /\ id[1] = "terminal" /\ id[2][1] = "msg" => s.call # None /\ id[2] = s.call.msg
  /\ id[1] = "inv-terminal" => \E p \in s.pending : p.inv = id[2]
  /\ id[1] \in {"wait-resolved", "wait-expired"} => s.wait # None /\ id[2] = s.wait.at
  /\ id[1] \notin {"waiting", "wait-started"}

\* A batch of such events.
Settling(s, items) == IsSeq(items) /\ \A j \in DOMAIN items : Ends(s, items[j].id)

\* A batch that ends nothing.
LEMMA SettlingBatch ==
  ASSUME NEW s, NEW items, NEW tags, Batch(items, tags), tags \cap EndTags = {}
  PROVE  Settling(s, items)
BY DEF Settling, Batch, Ends, EndTags

\* An output that ends nothing.
LEMMA SettlingOutput ==
  ASSUME NEW s, NEW out, NEW tags, IsOutput(out, tags), tags \cap EndTags = {}
  PROVE  Settling(s, out.append)
BY SettlingBatch DEF IsOutput

\* No event, one event, and two batches.
LEMMA SettlingParts ==
  ASSUME NEW s
  PROVE  /\ Settling(s, <<>>)
         /\ \A e : Ends(s, e.id) => Settling(s, <<e>>)
         /\ \A a, b : Settling(s, a) /\ Settling(s, b) => Settling(s, a \o b)
<1>1. Settling(s, <<>>)
  BY SeqEmpty DEF Settling
<1>2. ASSUME NEW e, Ends(s, e.id) PROVE Settling(s, <<e>>)
  <2> DEFINE q == <<e>>
  <2>1. IsSeq(q) /\ DOMAIN q = {1} /\ q[1] = e
    BY SeqSingle
  <2> HIDE DEF q
  <2>2. Settling(s, q)
    BY <1>2, <2>1 DEF Settling
  <2>3. QED
    BY <2>2 DEF q
<1>3. ASSUME NEW a, NEW b, Settling(s, a), Settling(s, b) PROVE Settling(s, a \o b)
  <2> DEFINE c == a \o b
  <2>1. IsSeq(a) /\ IsSeq(b)
    BY <1>3 DEF Settling
  <2>2. IsSeq(c) /\ \A i \in DOMAIN c : (i \in DOMAIN a /\ c[i] = a[i]) \/ (\E k \in DOMAIN b : c[i] = b[k])
    BY <2>1, ConcatElements
  <2> HIDE DEF c
  <2>3. Settling(s, c)
    BY <1>3, <2>2 DEF Settling
  <2>4. QED
    BY <2>3 DEF c
<1>4. QED
  BY <1>1, <1>2, <1>3

\* The ids of what ends a call, an invocation or a wait, and of what ends nothing.
LEMMA EndIds ==
  ASSUME NEW a, NEW b, NEW c
  PROVE  /\ MessageFailed(a, b).id = <<"terminal", a>> /\ MessageCompleted(a, b, c).id = <<"terminal", a>>
         /\ WaitResolved(a, b, c).id = <<"wait-resolved", b>> /\ WaitExpired(a, b).id = <<"wait-expired", b>>
         /\ InvocationTerminal(a, b, c).id = <<"inv-terminal", b>>
         /\ WaitStarted(a, b, c).id = <<"wait-started", c>> /\ TurnWaiting(a, b).id = <<"waiting", a, b>>
BY DEF Event, MessageFailed, MessageCompleted, WaitResolved, WaitExpired, InvocationTerminal, WaitStarted, TurnWaiting

\* The terminals of invocations that are pending.
LEMMA SettlingTerminals ==
  ASSUME NEW s, NEW P, IsFiniteSet(P), P \subseteq s.pending, NEW outcome,
         NEW Y, Y = {InvocationTerminal(i.turn, i.inv, outcome) : i \in P}
  PROVE  Settling(s, SetToSeq(Y))
<1> DEFINE g == [i \in P |-> InvocationTerminal(i.turn, i.inv, outcome)]
           X == {g[i] : i \in P}
           q == SetToSeq(X)
<1>1. X = Y
  OBVIOUS
<1>2. \A turn, inv : InvocationTerminal(turn, inv, outcome).id = <<"inv-terminal", inv>>
  BY EndIds
<1>3. \A i \in P : g[i].id = <<"inv-terminal", i.inv>>
  BY <1>2
<1>4. g = [i \in P |-> g[i]]
  OBVIOUS
<1> HIDE DEF g
<1>5. IsFiniteSet(X)
  BY <1>4, ImageFinite
<1>6. ASSUME NEW x \in X PROVE Ends(s, x.id)
  <2>1. PICK i \in P : x = g[i]
    OBVIOUS
  <2>2. x.id = <<"inv-terminal", i.inv>> /\ i \in s.pending
    BY <1>3, <2>1
  <2>3. x.id[1] = "inv-terminal" /\ x.id[2] = i.inv
    BY <2>2
  <2>4. QED
    BY <2>2, <2>3 DEF Ends
<1> HIDE DEF X
<1>7. IsSeq(q) /\ \A i \in DOMAIN q : q[i] \in X
  BY <1>5, SetToSeqIs
<1> HIDE DEF q
<1>8. Settling(s, q)
  BY <1>6, <1>7 DEF Settling
<1>9. QED
  BY <1>1, <1>8 DEF q

\* What an interrupt leaves behind, in a state in which no more is pending.
LEMMA SettlingCleanup ==
  ASSUME NEW s, NEW t, IsState(t), t.pending \subseteq s.pending, t.wait \in {s.wait, None}
  PROVE  Settling(s, InterruptCleanup(t))
<1> DEFINE a == CancelPending(t)
           w == WaitResolved(t.wait.turn, t.wait.at, "cancelled")
           b == IF t.wait = None THEN <<>> ELSE <<w>>
           d == TurnClosed(t.turn.id)
           c == IF t.turn = None THEN <<>> ELSE <<d>>
<1>1. Settling(s, a)
  <2> DEFINE P == t.pending
  <2>1. IsFiniteSet(P) /\ P \subseteq s.pending
    BY DEF IsState, Shaped
  <2> DEFINE Y == {InvocationTerminal(i.turn, i.inv, "cancelled") : i \in P}
  <2>2. a = SetToSeq(Y)
    BY DEF CancelPending
  <2> HIDE DEF P, a
  <2>3. Y = {InvocationTerminal(i.turn, i.inv, "cancelled") : i \in P}
    OBVIOUS
  <2> HIDE DEF Y
  <2>4. QED
    BY <2>1, <2>2, <2>3, SettlingTerminals
<1>2. w.id = <<"wait-resolved", t.wait.at>>
  BY EndIds
<1>3. Settling(s, b)
  <2>1. CASE t.wait = None
    BY <2>1, SettlingParts
  <2>2. CASE t.wait # None
    <3>1. w.id[1] = "wait-resolved" /\ w.id[2] = s.wait.at /\ s.wait # None
      BY <1>2, <2>2
    <3> HIDE DEF w
    <3>2. Ends(s, w.id)
      BY <3>1 DEF Ends
    <3>3. QED
      BY <2>2, <3>2, SettlingParts
  <2>3. QED
    BY <2>1, <2>2
<1>4. Settling(s, c)
  <2>1. ASSUME NEW x PROVE IsEvent(TurnClosed(x)) /\ TurnClosed(x).id[1] = "closed"
    BY EventsAreEvents
  <2>2. IsEvent(d) /\ d.id[1] = "closed" /\ c \in {<<>>, <<d>>}
    BY <2>1
  <2> HIDE DEF c, d
  <2>3. Batch(c, {d.id[1]}) /\ {d.id[1]} \cap EndTags = {}
    BY <2>2, BatchOptional DEF EndTags
  <2>4. QED
    BY <2>3, SettlingBatch
<1>5. InterruptCleanup(t) = (a \o b) \o c
  BY DEF InterruptCleanup
<1> HIDE DEF a, b, c
<1>6. QED
  BY <1>1, <1>3, <1>4, <1>5, SettlingParts

\* The state after none or one event has no more pending.
LEMMA ProjectedPending ==
  ASSUME NEW s, IsState(s), NEW e, IsEvent(e), e.kind \in {"message.failed", "interrupt"}, NEW q, q \in {<<>>, <<e>>}
  PROVE  /\ IsState(ProjectAppend(s, q))
         /\ ProjectAppend(s, q).pending \subseteq s.pending /\ ProjectAppend(s, q).wait \in {s.wait, None}
<1> DEFINE es == [i \in DOMAIN q |-> [q[i] EXCEPT !.seq = s.lastSeq + i]]
           d == [e EXCEPT !.seq = s.lastSeq + 1]
<1>1. ProjectAppend(s, q) = FoldEvents(s, es)
  BY DEF ProjectAppend
<1>b. Batch(q, {e.id[1]})
  BY BatchOptional
<1>c. IsState(ProjectAppend(s, q))
  BY <1>b, ProjectIsState DEF Batch
<1>2. CASE q = <<>>
  <2>1. es = <<>>
    BY <1>2
  <2>2. QED
    BY <1>1, <1>c, <2>1, FoldOne
<1>3. CASE q = <<e>>
  <2>1. es = <<d>>
    BY <1>3
  <2>2. d.kind = e.kind
    BY DEF IsEvent, EventFields
  <2> HIDE DEF d, es
  <2>3. FoldEvents(s, <<d>>) = ApplyEvent(s, d)
    BY FoldOne
  <2>4. Changes(s, d, ApplyEvent(s, d))
    BY EventChanges
  <2>5. QED
    BY <1>1, <1>c, <2>1, <2>2, <2>3, <2>4 DEF Changes
<1>4. QED
  BY <1>2, <1>3

\* One event that ends nothing.
LEMMA SettlingEvents ==
  ASSUME NEW s, NEW a, NEW b
  PROVE  /\ Settling(s, <<Recv(a)>>) /\ Settling(s, <<TurnOpened(a)>>) /\ Settling(s, <<TurnClosed(a)>>)
         /\ Settling(s, <<Interrupt(a)>>) /\ Settling(s, <<FlushSteers(a, b)>>)
<1>1. ASSUME NEW e, IsEvent(e), e.id[1] \notin EndTags PROVE Settling(s, <<e>>)
  <2>1. Batch(<<e>>, {e.id[1]}) /\ {e.id[1]} \cap EndTags = {}
    BY <1>1, BatchSingle
  <2>2. QED
    BY <2>1, SettlingBatch
<1>2. /\ IsEvent(Recv(a)) /\ Recv(a).id = RecvId(a)
      /\ IsEvent(TurnOpened(a)) /\ TurnOpened(a).id[1] = "opened"
      /\ IsEvent(TurnClosed(a)) /\ TurnClosed(a).id[1] = "closed"
      /\ IsEvent(Interrupt(a)) /\ Interrupt(a).id[1] = "interrupt"
      /\ IsEvent(FlushSteers(a, b)) /\ FlushSteers(a, b).id[1] = "flush"
  BY EventsAreEvents
<1>3. RecvId(a)[1] = "recv"
  BY DEF RecvId
<1>4. QED
  BY <1>1, <1>2, <1>3 DEF EndTags

\* Another call, or a turn that is opened.
LEMMA SettlingCalls ==
  ASSUME NEW s, NEW t, NEW n
  PROVE  /\ Settling(s, NextModelCall(t, n).append) /\ Settling(s, PromoteSteersAsTurn(t).append)
         /\ Settling(s, PromoteDeferred(t).append)
         /\ \A trigger, first : \A tag : Batch(first, {tag}) /\ Settling(s, first) /\ tag \notin {"opened", "started"} =>
              Settling(s, OpenTurnFor(t, trigger, first).append)
<1>1. Settling(s, NextModelCall(t, n).append)
  <2>1. IsOutput(NextModelCall(t, n), {"started", "diag", "closed"}) /\ {"started", "diag", "closed"} \cap EndTags = {}
    BY NextModelCallOutput DEF EndTags
  <2>2. QED
    BY <2>1, SettlingOutput
<1>2. ASSUME NEW x, NEW trigger, NEW first, IsSeq(first), Settling(s, first)
      PROVE  Settling(s, OpenTurnFor(x, trigger, first).append)
  <2> DEFINE turn == TurnId(trigger)
             opened == [x EXCEPT !.turn = OpenTurn(turn, x.lastSeq + 1)]
             e == TurnOpened(turn)
             call == ModelStart(opened, turn, 0, 1)
  <2>1. OpenTurnFor(x, trigger, first).append = Append(first, e) \o call.append
    BY DEF OpenTurnFor, Then, Output
  <2>2. IsOutput(call, {"started"}) /\ {"started"} \cap EndTags = {}
    BY ModelStartOutput DEF EndTags
  <2>3. Settling(s, <<e>>)
    BY SettlingEvents
  <2> HIDE DEF e, call
  <2>4. Settling(s, call.append)
    BY <2>2, SettlingOutput
  <2>5. Append(first, e) = first \o <<e>>
    <3>1. PICK S : first \in Seq(S)
      BY <1>2 DEF IsSeq
    <3> DEFINE T == S \cup {e}
    <3>2. first \in Seq(T) /\ e \in T
      BY <3>1
    <3> HIDE DEF T
    <3>3. QED
      BY <3>2
  <2>6. Settling(s, first \o <<e>>)
    BY <1>2, <2>3, SettlingParts
  <2>7. QED
    BY <2>1, <2>4, <2>5, <2>6, SettlingParts
<1>3. Settling(s, PromoteSteersAsTurn(t).append)
  BY <1>2, SeqEmpty, SettlingParts DEF PromoteSteersAsTurn
<1>4. Settling(s, PromoteDeferred(t).append)
  <2> DEFINE recv == PromotedRecv(t.deferred[1], t.lastSeq)
             x == ProjectAppend(t, <<recv>>)
  <2>1. IsEvent(recv) /\ recv.id[1] = "promoted"
    BY PromotedIsEvent
  <2>2. PromoteDeferred(t) = OpenTurnFor(x, x.prompt.id, <<recv>>)
    BY DEF PromoteDeferred, PromotePendingPrompt
  <2> HIDE DEF recv, x
  <2>3. Batch(<<recv>>, {"promoted"}) /\ {"promoted"} \cap EndTags = {}
    BY <2>1, BatchSingle DEF EndTags
  <2>4. Settling(s, <<recv>>) /\ IsSeq(<<recv>>)
    BY <2>3, SettlingBatch DEF Batch
  <2>5. QED
    BY <1>2, <2>2, <2>4
<1>5. QED
  BY <1>1, <1>2, <1>3, <1>4 DEF Batch

\* The tool calls of an answer.
LEMMA SettlingExpand ==
  ASSUME NEW s, NEW turn, NEW tools, IsFiniteSet(tools)
  PROVE  Settling(s, ExpandToolCalls(turn, tools).append)
<1>1. IsOutput(ExpandToolCalls(turn, tools), {"inv-start"}) /\ {"inv-start"} \cap EndTags = {}
  BY ExpandOutput DEF EndTags
<1>2. QED
  BY <1>1, SettlingOutput

\* A prompt ends nothing.
LEMMA SettlingPrompt ==
  ASSUME NEW s, NEW m
  PROVE  Settling(s, PromptStep(s, m).append)
<1> DEFINE turn == TurnId(<<"src", m>>)
           opened == [s EXCEPT !.turn = OpenTurn(turn, s.lastSeq + 2)]
           e == Recv(m)
           d == TurnOpened(turn)
           first == ModelStart(opened, turn, 0, 2)
           next == NextModelCall(s, 1)
           out == PromptStep(s, m)
<1>1. \/ out = Empty
      \/ out = Then(<<e, d>>, first)
      \/ out = Then(<<e>>, next)
      \/ out = Output(<<e>>, {})
  BY DEF PromptStep
<1>2. Settling(s, <<e>>)
  BY SettlingEvents
<1>3. IsOutput(first, {"started"}) /\ {"started"} \cap EndTags = {}
  BY ModelStartOutput DEF EndTags
<1>4. Settling(s, next.append)
  BY SettlingCalls
<1>d. ASSUME NEW x
      PROVE  IsEvent(Recv(x)) /\ Recv(x).id = RecvId(x) /\ IsEvent(TurnOpened(x)) /\ TurnOpened(x).id[1] = "opened"
  BY EventsAreEvents
<1>e. IsEvent(d) /\ d.id[1] = "opened" /\ IsEvent(e) /\ e.id[1] = "recv"
  BY <1>d DEF RecvId
<1> HIDE DEF e, d, first, next, out
<1>5. Settling(s, first.append)
  BY <1>3, SettlingOutput
<1>6. Settling(s, <<e, d>>)
  <2>1. Batch(<<e, d>>, {"recv", "opened"}) /\ {"recv", "opened"} \cap EndTags = {}
    BY <1>e, BatchPair DEF EndTags
  <2>2. QED
    BY <2>1, SettlingBatch
<1>7. \/ out.append = <<>> \/ out.append = <<e, d>> \o first.append
      \/ out.append = <<e>> \o next.append \/ out.append = <<e>>
  BY <1>1 DEF Empty, Then, Output
<1>8. QED
  BY <1>2, <1>4, <1>5, <1>6, <1>7, SettlingParts DEF out

\* An interrupt ends what is pending.
LEMMA SettlingInterrupt ==
  ASSUME NEW s, IsState(s)
  PROVE  Settling(s, InterruptStep(s).append)
<1> DEFINE e == Interrupt(s.turn.id)
           t == ProjectAppend(s, <<e>>)
           c == InterruptCleanup(t)
<1>1. \/ InterruptStep(s) = Empty \/ InterruptStep(s) = Output(<<e>>, {})
      \/ InterruptStep(s) = Output(<<e>> \o c, {})
  BY DEF InterruptStep
<1>2. ASSUME NEW x PROVE IsEvent(Interrupt(x)) /\ Interrupt(x).kind = "interrupt"
  BY EventsAreEvents, Kinds
<1>3. IsEvent(e) /\ e.kind = "interrupt" /\ Settling(s, <<e>>)
  BY <1>2, SettlingEvents
<1> HIDE DEF e
<1>4. IsState(t) /\ t.pending \subseteq s.pending /\ t.wait \in {s.wait, None}
  BY <1>3, ProjectedPending
<1> HIDE DEF t
<1>5. Settling(s, c)
  BY <1>4, SettlingCleanup
<1> HIDE DEF c
<1>6. \/ InterruptStep(s).append = <<>> \/ InterruptStep(s).append = <<e>>
      \/ InterruptStep(s).append = <<e>> \o c
  BY <1>1 DEF Empty, Output
<1>7. QED
  BY <1>3, <1>5, <1>6, SettlingParts

\* "Send now".
LEMMA SettlingFlush ==
  ASSUME NEW s, IsState(s)
  PROVE  Settling(s, FlushStep(s).append)
<1> DEFINE a == Output(<<FlushSteers(s.turn.id, s.lastSeq)>>, {})
           b == Output(InterruptCleanup(s), {})
           c == Output(<<Interrupt(s.turn.id)>>, {})
<1>1. FlushStep(s) \in {PromoteSteersAsTurn(s), a, NextModelCall(s, 0), b, PromoteDeferred(s), c}
  BY DEF FlushStep
<1>2. Settling(s, a.append) /\ Settling(s, c.append)
  BY SettlingEvents DEF Output
<1>3. Settling(s, b.append)
  BY SettlingCleanup DEF Output
<1>4. Settling(s, PromoteSteersAsTurn(s).append) /\ Settling(s, NextModelCall(s, 0).append)
      /\ Settling(s, PromoteDeferred(s).append)
  BY SettlingCalls
<1> HIDE DEF a, b, c
<1>5. QED
  BY <1>1, <1>2, <1>3, <1>4

\* A wake ends the call that nobody executes.
LEMMA SettlingWake ==
  ASSUME NEW s, IsState(s)
  PROVE  Settling(s, WakeStep(s).append)
<1> DEFINE e == MessageFailed(s.call.msg, "recoverable")
           orphan == IF s.call = None THEN <<>> ELSE <<e>>
           t == ProjectAppend(s, orphan)
           c == InterruptCleanup(t)
           x == ExpandToolCalls(t.turn.id, Unprocessed(t))
           n == NextModelCall(t, Len(orphan))
           o == OpenTurnFor(t, t.prompt.id, orphan)
<1>1. \/ WakeStep(s) = Output(orphan \o c, {})
      \/ WakeStep(s) = Then(orphan, x)
      \/ WakeStep(s) = Then(orphan, n)
      \/ WakeStep(s) = o
      \/ WakeStep(s) = Output(orphan, {})
  BY DEF WakeStep, PromotePendingPrompt
<1>2. ASSUME NEW a, NEW b
      PROVE  /\ IsEvent(MessageFailed(a, b)) /\ MessageFailed(a, b).kind = "message.failed"
             /\ MessageFailed(a, b).id = <<"terminal", a>>
  <2>1. MessageFailed(a, b).id = <<"terminal", a>>
    BY DEF MessageFailed, Event
  <2>2. QED
    BY <2>1, EventsAreEvents, Kinds
<1>3. /\ IsEvent(e) /\ e.kind = "message.failed" /\ e.id = <<"terminal", s.call.msg>>
      /\ orphan \in {<<>>, <<e>>} /\ (s.call = None => orphan = <<>>)
  BY <1>2
<1> HIDE DEF e, orphan
<1>4. e.id[1] = "terminal" /\ e.id[2] = s.call.msg
  BY <1>3
<1>5. Settling(s, orphan)
  <2>1. s.call # None => Ends(s, e.id)
    BY <1>4 DEF Ends
  <2>2. QED
    BY <1>3, <2>1, SettlingParts
<1>6. Batch(orphan, {"terminal"})
  BY <1>3, <1>4, BatchOptional
<1>7. IsState(t) /\ t.pending \subseteq s.pending /\ t.wait \in {s.wait, None}
  BY <1>3, ProjectedPending
<1> HIDE DEF t
<1>8. Settling(s, c) /\ Settling(s, x.append) /\ Settling(s, n.append)
  BY <1>7, SettlingCleanup, UnprocessedFinite, SettlingExpand, SettlingCalls
<1>9. Settling(s, o.append)
  BY <1>5, <1>6, SettlingCalls
<1> HIDE DEF c, x, n, o
<1>10. \/ WakeStep(s).append = orphan \o c
       \/ WakeStep(s).append = orphan \o x.append
       \/ WakeStep(s).append = orphan \o n.append
       \/ WakeStep(s).append = o.append
       \/ WakeStep(s).append = orphan
  BY <1>1 DEF Output, Then
<1>11. QED
  BY <1>5, <1>8, <1>9, <1>10, SettlingParts

\* A resume ends nothing.
LEMMA SettlingResume ==
  ASSUME NEW s, NEW msg
  PROVE  Settling(s, ResumeStep(s, msg).append)
<1> DEFINE e == ResumeDue(s.turn.id, msg, s.lastSeq)
           n == NextModelCall(s, 1)
<1>1. ResumeStep(s, msg) = Empty \/ ResumeStep(s, msg) = Then(<<e>>, n)
  BY DEF ResumeStep
<1>2. ASSUME NEW a, NEW b, NEW c PROVE IsEvent(ResumeDue(a, b, c)) /\ ResumeDue(a, b, c).id[1] = "resume"
  BY EventsAreEvents
<1>3. IsEvent(e) /\ e.id[1] = "resume" /\ Settling(s, n.append)
  BY <1>2, SettlingCalls
<1> HIDE DEF e, n
<1>4. Batch(<<e>>, {"resume"}) /\ {"resume"} \cap EndTags = {}
  BY <1>3, BatchSingle DEF EndTags
<1>5. Settling(s, <<e>>)
  BY <1>4, SettlingBatch
<1>6. ResumeStep(s, msg).append = <<>> \/ ResumeStep(s, msg).append = <<e>> \o n.append
  BY <1>1 DEF Empty, Then, Output
<1>7. QED
  BY <1>3, <1>5, <1>6, SettlingParts

\* The one event that says that the turn waits.
SaysWaiting(s, items) == s.turn # None /\ items = <<TurnWaiting(s.turn.id, s.turn.waits)>>

\* The cascade of an event ends what is pending, or says that the turn waits.
LEMMA SettlingCascade ==
  ASSUME NEW s, IsState(s), NEW e, IsEvent(e)
  PROVE  Settling(s, EventStep(s, e).append) \/ SaysWaiting(s, EventStep(s, e).append)
<1> DEFINE x == ExpandToolCalls(s.turn.id, e.tools)
           w == Output(<<TurnWaiting(s.turn.id, s.turn.waits)>>, {})
           a == Output(InterruptCleanup(s), {})
           b == Output(<<TurnClosed(s.turn.id)>>, {})
           common == {Empty, PromoteSteersAsTurn(s), PromoteDeferred(s), NextModelCall(s, 0), a, b}
<1>1. AnswerStep(s, e) \in common \cup {x} /\ ClosedStep(s) \in common
  BY DEF AnswerStep, ClosedStep
<1>2. FailedStep(s, e) \in common \/ (s.turn # None /\ FailedStep(s, e) = w)
  BY DEF FailedStep
<1>3. ToolStep(s) \in common /\ ResolvedStep(s) \in common
  BY DEF ToolStep, ResolvedStep
<1>4. EventStep(s, e) \in {AnswerStep(s, e), ClosedStep(s), FailedStep(s, e), ToolStep(s), ResolvedStep(s), a, Empty}
  BY DEF EventStep
<1>5. Settling(s, x.append)
  BY SettlingExpand DEF IsEvent
<1>6. Settling(s, a.append) /\ Settling(s, b.append) /\ Settling(s, Empty.append)
  BY SettlingCleanup, SettlingEvents, SettlingParts DEF Output, Empty
<1>7. w.append = <<TurnWaiting(s.turn.id, s.turn.waits)>>
  BY DEF Output
<1>8. \A out \in common : Settling(s, out.append)
  <2>1. /\ Settling(s, PromoteSteersAsTurn(s).append) /\ Settling(s, NextModelCall(s, 0).append)
        /\ Settling(s, PromoteDeferred(s).append)
    BY SettlingCalls
  <2> HIDE DEF a, b
  <2>2. QED
    BY <1>6, <2>1
<1>9. a \in common /\ Empty \in common
  OBVIOUS
<1> HIDE DEF x, w, a, b, common
<1>10. QED
  BY <1>1, <1>2, <1>3, <1>4, <1>5, <1>7, <1>8, <1>9 DEF SaysWaiting

\* An effect that ran out of attempts.
LEMMA SettlingFailure ==
  ASSUME NEW s, IsState(s), NEW effect, effect[1] \in {"model", "inv", "cred"}, NEW why
  PROVE  Settling(s, EffectFailedStep(s, effect, why).append)
<1>c. Settling(s, <<TurnClosed(s.turn.id)>>)
  BY SettlingEvents
<1>1. Settling(s, ModelFailedStep(s, effect, why).append)
  <2> DEFINE e == MessageFailed(s.call.msg, why)
             a == IF s.call = None THEN <<>> ELSE <<e>>
             d == Diagnostic(s.turn.id, effect)
             c == TurnClosed(s.turn.id)
             b == IF s.turn = None \/ why = "reset" THEN <<>> ELSE <<d, c>>
  <2>1. ModelFailedStep(s, effect, why).append = a \o b
    BY DEF ModelFailedStep, Output
  <2>2. ASSUME NEW x, NEW y
        PROVE  /\ MessageFailed(x, y).id = <<"terminal", x>>
               /\ IsEvent(Diagnostic(x, y)) /\ Diagnostic(x, y).id[1] = "diag"
               /\ IsEvent(TurnClosed(x)) /\ TurnClosed(x).id[1] = "closed"
    <3>1. MessageFailed(x, y).id = <<"terminal", x>>
      BY DEF MessageFailed, Event
    <3>2. /\ IsEvent(Diagnostic(x, y)) /\ Diagnostic(x, y).id[1] = "diag"
          /\ IsEvent(TurnClosed(x)) /\ TurnClosed(x).id[1] = "closed"
      BY EventsAreEvents
    <3>3. QED
      BY <3>1, <3>2
  <2>3. /\ e.id = <<"terminal", s.call.msg>> /\ IsEvent(d) /\ d.id[1] = "diag"
        /\ IsEvent(c) /\ c.id[1] = "closed"
    BY <2>2
  <2>4. a \in {<<>>, <<e>>} /\ (s.call = None => a = <<>>) /\ b \in {<<>>, <<d, c>>}
    OBVIOUS
  <2> HIDE DEF a, b, c, d, e
  <2>5. e.id[1] = "terminal" /\ e.id[2] = s.call.msg
    BY <2>3
  <2>6. s.call # None => Ends(s, e.id)
    BY <2>5 DEF Ends
  <2>7. Settling(s, a)
    BY <2>4, <2>6, SettlingParts
  <2>8. Batch(<<d, c>>, {"diag", "closed"}) /\ {"diag", "closed"} \cap EndTags = {}
    BY <2>3, BatchPair DEF EndTags
  <2>9. Settling(s, b)
    BY <2>4, <2>8, SettlingBatch, SettlingParts
  <2>10. QED
    BY <2>1, <2>7, <2>9, SettlingParts
<1>2. Settling(s, WaitFailedStep(s).append)
  <2> DEFINE e == WaitExpired(s.wait.turn, s.wait.at)
             a == IF s.wait = None THEN <<>> ELSE <<e>>
             c == TurnClosed(s.turn.id)
             b == IF s.turn = None THEN <<>> ELSE <<c>>
  <2>1. WaitFailedStep(s).append = a \o b
    BY DEF WaitFailedStep, Output
  <2>2. e.id = <<"wait-expired", s.wait.at>> /\ Settling(s, <<c>>)
    BY <1>c DEF WaitExpired, Event
  <2>3. a \in {<<>>, <<e>>} /\ (s.wait = None => a = <<>>) /\ b \in {<<>>, <<c>>}
    OBVIOUS
  <2> HIDE DEF a, b, c, e
  <2>4. e.id[1] = "wait-expired" /\ e.id[2] = s.wait.at
    BY <2>2
  <2>5. s.wait # None => Ends(s, e.id)
    BY <2>4 DEF Ends
  <2>6. QED
    BY <2>1, <2>2, <2>3, <2>5, SettlingParts
<1>3. Settling(s, InvocationFailedStep(s, effect[2]).append)
  <2> DEFINE P == {p \in s.pending : p.inv = effect[2]}
  <2>1. IsFiniteSet(P) /\ P \subseteq s.pending
    BY FS_Subset DEF IsState, Shaped
  <2> DEFINE Y == {InvocationTerminal(i.turn, i.inv, "failed") : i \in P}
  <2>2. InvocationFailedStep(s, effect[2]).append = SetToSeq(Y)
    BY DEF InvocationFailedStep, Output
  <2> HIDE DEF P
  <2>3. Y = {InvocationTerminal(i.turn, i.inv, "failed") : i \in P}
    OBVIOUS
  <2> HIDE DEF Y
  <2>4. Settling(s, SetToSeq(Y))
    BY <2>1, <2>3, SettlingTerminals
  <2>5. QED
    BY <2>2, <2>4
<1>4. EffectFailedStep(s, effect, why) \in {ModelFailedStep(s, effect, why), WaitFailedStep(s),
                                            InvocationFailedStep(s, effect[2])}
  BY DEF EffectFailedStep
<1>5. QED
  BY <1>1, <1>2, <1>3, <1>4

\* Whatever reaches the loop.
LEMMA StepSettles ==
  ASSUME NEW s, IsState(s), NEW in, IsIncoming(in)
  PROVE  Settling(s, Step(s, in).append) \/ SaysWaiting(s, Step(s, in).append)
<1>1. CASE in.type = "prompt"
  BY <1>1, SettlingPrompt DEF Step
<1>2. CASE in.type = "interrupt"
  BY <1>2, SettlingInterrupt DEF Step
<1>3. CASE in.type = "flush"
  BY <1>3, SettlingFlush, SettlingInterrupt DEF Step
<1>4. CASE in.type = "wake"
  BY <1>4, SettlingWake DEF Step
<1>5. CASE in.type = "resume"
  BY <1>5, SettlingResume DEF Step
<1>6. CASE in.type = "event"
  BY <1>6, SettlingCascade DEF Step, IsIncoming
<1>7. CASE in.type = "failed"
  BY <1>7, SettlingFailure DEF Step, IsIncoming
<1>8. QED
  BY <1>1, <1>2, <1>3, <1>4, <1>5, <1>6, <1>7 DEF IsIncoming

-----------------------------------------------------------------------------
(* The rows of the outbox and the tasks that are going to delete one.      *)

\* The books of the journal l, and what is over in it.
Books(l) == Ledger(IdsOf(l), Len(l), TruthOf(l))
Safe(l, id) == Over(IdsOf(l), TruthOf(l), id)

\* An effect that the journal l has begun.
Begun(l, e) ==
  /\ IsEffect(e)
  /\ e.id[1] = "model" => <<"started", e.id[2]>> \in IdsOf(l)
  /\ e.id[1] = "inv" => <<"inv-start", e.id[2]>> \in IdsOf(l)
  /\ e.id[1] = "cred" => e.at \in 1 .. Len(l)

\* The id of the event that ends an effect.
EndId(e) ==
  IF e.id[1] = "model" THEN <<"terminal", e.id[2]>>
  ELSE IF e.id[1] = "inv" THEN <<"inv-terminal", e.id[2]>>
  ELSE <<"wait-resolved", e.at>>

\* The events of suspendOnCredential.
SuspendItems(s, msg) ==
  LET turn == IF s.turn = None THEN None ELSE s.turn.id
  IN  <<MessageFailed(msg, "recoverable"), WaitStarted(turn, msg, s.lastSeq + 1)>>
        \o (IF s.turn = None THEN <<>> ELSE <<TurnWaiting(turn, s.turn.waits)>>)

\* What a task that appends an outcome relies on.  F: the effects that have a row.
OutcomeFair(t, l, F) ==
  /\ Begun(l, t.row.effect) /\ \E x : t.items = <<x>> /\ x.id = EndId(t.row.effect)
  /\ t.do = "stale" /\ t.code # "head-conflict" => EndId(t.row.effect) \in IdsOf(l)
  /\ t.row.effect.id[1] = "cred" => \A d \in F : d.id = t.row.effect.id => d = t.row.effect

\* The same for a suspension.
SuspendFair(t, l) ==
  /\ Begun(l, t.row.effect) /\ t.row.effect.id[1] = "model"
  /\ t.do \in {"send", "commit", "reply", "fold", "stale"}
  /\ t.do \in {"send", "commit"} => t.items = SuspendItems(TruthOf(l), t.row.effect.id[2])
  /\ t.do = "stale" => <<"terminal", t.row.effect.id[2]>> \in IdsOf(l)

\* A batch that ends nothing whatever is pending.
Strands(items) == \A s : Settling(s, items)

\* What the task under way relies on.
TopFair(t, l, F) ==
  /\ Acts(t) \in {"execute", "suspend"} => Begun(l, t.row.effect)
  /\ Acts(t) = "suspend" => t.row.effect.id[1] = "model"
  /\ Acts(t) \in Appending =>
       /\ t.kind = "outcome" => OutcomeFair(t, l, F)
       /\ t.kind = "suspend" => SuspendFair(t, l)
       /\ t.kind = "stranded" => Strands(t.items)

\* A task that needs none of this; a task that suspends a turn; a step for an effect
\* that failed.
Lower(t) == Acts(t) \notin Appending \cup {"execute", "suspend"}
Suspends(t) == Acts(t) = "suspend" \/ (Acts(t) \in Appending /\ t.kind = "suspend")
Failing(t, id) == Stepping(t) /\ t.in.type = "failed" /\ t.in.arg.effect = id

\* A row that is going to be deleted stands for an effect that is over, or fails in
\* the step under way.
DeletesFair(q, l) ==
  \A k \in DOMAIN q : q[k].do = "delete" =>
    /\ Begun(l, q[k].row.effect)
    /\ Safe(l, q[k].row.effect.id) \/ Failing(q[1], q[k].row.effect.id)

\* What the tasks of a flow rely on.
StackFair(q, l, F) ==
  /\ q # <<>> => TopFair(q[1], l, F) /\ (Suspends(q[1]) => Len(q) = 1)
  /\ \A k \in DOMAIN q : k > 1 => Lower(q[k])
  /\ DeletesFair(q, l)

\* The effects that have a row.
EffectsOf(rows) == {r.effect : r \in rows}

\* An execution is that of a row whose effect was begun.
RunFair(r, l) ==
  /\ r = [x \in {"row", "effect", "n", "abort"} |-> r[x]]
  /\ r.effect = r.row.effect /\ Begun(l, r.effect)
RunningFair(rs, l) == \A r \in rs : RunFair(r, l)

\* The inductive invariant of the rows, on top of OneFlowInv.
RowsInv(f) ==
  /\ Books(log)
  /\ \A e \in EffectsOf(outbox) : Begun(log, e)
  /\ RunningFair(running, log)
  /\ StackFair(flows[f], log, EffectsOf(outbox))

\* No row is dropped whose effect is pending in s.
DropsNone(F, F2, s) == \A e \in F : (\E d \in F2 : d.id = e.id) \/ e \notin PendingEffects(s)

\* A task that needs nothing has what it needs.
LEMMA LowerIsFair ==
  ASSUME NEW t, Lower(t), NEW l, NEW F
  PROVE  TopFair(t, l, F) /\ ~Suspends(t)
BY DEF Lower, TopFair, Suspends

\* Other tasks come in the place of the one that was under way.
LEMMA StackGoesOn ==
  ASSUME NEW q, IsSeq(q), q # <<>>, NEW l, NEW F, StackFair(q, l, F),
         NEW new, IsSeq(new), NEW l2, NEW F2,
         \A e : Begun(l, e) => Begun(l2, e),
         Suspends(q[1]) \/ \A e : Begun(l, e) /\ Safe(l, e.id) => Safe(l2, e.id),
         \A k \in DOMAIN new : (k > 1 => Lower(new[k])) /\ new[k].do # "delete",
         new # <<>> => TopFair(new[1], l2, F2) /\ (Suspends(new[1]) => Len(new) = 1 /\ Suspends(q[1])),
         \A e : Begun(l, e) /\ Failing(q[1], e.id) => Safe(l2, e.id) \/ (new # <<>> /\ Failing(new[1], e.id))
  PROVE  StackFair(new \o Tail(q), l2, F2)
<1> DEFINE t == Tail(q)
           c == new \o t
           n == Len(new)
<1>1. /\ IsSeq(t) /\ Len(q) >= 1 /\ Len(t) = Len(q) - 1
      /\ \A i \in 1 .. Len(t) : t[i] = q[i + 1]
  BY SeqTail
<1>2. Len(q) \in Nat /\ DOMAIN q = 1 .. Len(q) /\ DOMAIN t = 1 .. Len(t) /\ Len(t) \in Nat
  BY <1>1, SeqDomain
<1> HIDE DEF t
<1>3. /\ IsSeq(c) /\ Len(c) = n + Len(t)
      /\ \A i \in 1 .. n : c[i] = new[i]
      /\ \A i \in 1 .. Len(t) : c[n + i] = t[i]
  <2>1. IsSeq(new) /\ IsSeq(t)
    BY <1>1
  <2>2. QED
    BY ONLY <2>1, SeqConcat
<1>4. n \in Nat /\ DOMAIN new = 1 .. n /\ DOMAIN c = 1 .. n + Len(t)
  BY <1>3, SeqDomain
<1>5. new # <<>> => n >= 1
  <2>1. SUFFICES ASSUME new # <<>> PROVE Len(new) >= 1
    OBVIOUS
  <2>2. QED
    BY <2>1, SeqTail
<1> HIDE DEF c, n
<1>6. ASSUME NEW k \in DOMAIN c
      PROVE  \/ k \in DOMAIN new /\ c[k] = new[k]
             \/ /\ k - n \in 1 .. Len(t) /\ (k - n) + 1 \in DOMAIN q /\ (k - n) + 1 > 1
                /\ c[k] = q[(k - n) + 1]
  <2>1. CASE k <= n
    <3>1. k \in 1 .. n
      BY <1>2, <1>4, <2>1
    <3>2. QED
      BY <1>3, <1>4, <3>1
  <2>2. CASE k > n
    <3>1. k - n \in 1 .. Len(t) /\ n + (k - n) = k /\ (k - n) + 1 \in 1 .. Len(q) /\ (k - n) + 1 > 1
      BY <1>1, <1>2, <1>4, <2>2
    <3>2. c[k] = t[k - n] /\ t[k - n] = q[(k - n) + 1]
      BY <1>1, <1>3, <3>1
    <3>3. QED
      BY <1>2, <3>1, <3>2
  <2>3. QED
    BY <1>2, <1>4, <2>1, <2>2
<1>7. \A k \in DOMAIN q : k > 1 => Lower(q[k])
  BY DEF StackFair
<1>8. \A k \in DOMAIN c : k > 1 => Lower(c[k])
  BY <1>6, <1>7
<1>9. c # <<>> /\ new = <<>> => Lower(c[1])
  <2>1. SUFFICES ASSUME c # <<>>, new = <<>> PROVE Lower(c[1])
    OBVIOUS
  <2>2. n = 0 /\ Len(c) >= 1
    BY <1>3, <2>1, SeqTail DEF n
  <2>3. 1 \in DOMAIN c /\ 1 \notin DOMAIN new
    BY <1>2, <1>3, <1>4, <2>2
  <2>4. QED
    BY <1>6, <1>7, <2>3
<1>10. new # <<>> => c[1] = new[1]
  BY <1>3, <1>4, <1>5
<1>11. c # <<>> => TopFair(c[1], l2, F2)
  BY <1>9, <1>10, LowerIsFair
<1>12. c # <<>> /\ Suspends(c[1]) => Len(c) = 1
  <2>1. SUFFICES ASSUME c # <<>>, Suspends(c[1]) PROVE Len(c) = 1
    OBVIOUS
  <2>2. new # <<>>
    BY <1>9, <2>1, LowerIsFair
  <2>3. n = 1 /\ Suspends(q[1])
    BY <1>10, <2>1, <2>2 DEF n
  <2>4. Len(q) = 1
    BY <2>3 DEF StackFair
  <2>5. QED
    BY <1>1, <1>3, <2>3, <2>4
<1>13. ASSUME NEW k \in DOMAIN c, c[k].do = "delete"
       PROVE  /\ Begun(l2, c[k].row.effect)
              /\ Safe(l2, c[k].row.effect.id) \/ Failing(c[1], c[k].row.effect.id)
  <2> DEFINE i == (k - n) + 1
             e == c[k].row.effect
  <2>1. i \in DOMAIN q /\ c[k] = q[i] /\ k - n \in 1 .. Len(t)
    BY <1>6, <1>13
  <2>2. Begun(l, e) /\ (Safe(l, e.id) \/ Failing(q[1], e.id))
    BY <1>13, <2>1 DEF StackFair, DeletesFair
  <2> HIDE DEF e
  <2>3. ~Suspends(q[1])
    <3>1. SUFFICES ASSUME Len(q) = 1 PROVE FALSE
      BY DEF StackFair
    <3>2. QED
      BY <1>1, <2>1, <3>1
  <2>4. Begun(l2, e) /\ (Safe(l2, e.id) \/ (new # <<>> /\ Failing(new[1], e.id)))
    BY <2>2, <2>3
  <2>5. QED
    BY <1>10, <2>4 DEF e
<1>14. StackFair(c, l2, F2)
  BY <1>8, <1>11, <1>12, <1>13 DEF StackFair, DeletesFair
<1>15. QED
  BY <1>14 DEF c, t

-----------------------------------------------------------------------------
(* What is pending, and what is not.                                       *)

\* What a pending effect is.
LEMMA PendingIs ==
  ASSUME NEW s, NEW e \in PendingEffects(s)
  PROVE  \/ e.id[1] = "model" /\ s.call # None /\ e.id[2] = s.call.msg
         \/ e.id[1] = "inv" /\ \E p \in s.pending : e.id[2] = p.inv
         \/ e.id[1] = "cred" /\ s.wait # None /\ e.at = s.wait.at
<1>1. \/ s.call # None /\ e = ModelEffect(s.call.msg)
      \/ \E p \in s.pending : e = InvocationEffect(p.inv, p.turn)
      \/ s.wait # None /\ e = CredentialEffect(s.wait)
  BY DEF PendingEffects
<1>2. CASE s.call # None /\ e = ModelEffect(s.call.msg)
  <2>1. e.id = <<"model", s.call.msg>>
    BY <1>2 DEF ModelEffect, Effect
  <2>2. e.id[1] = "model" /\ e.id[2] = s.call.msg
    BY <2>1
  <2>3. QED
    BY <1>2, <2>2
<1>3. ASSUME NEW p \in s.pending, e = InvocationEffect(p.inv, p.turn) PROVE e.id[1] = "inv" /\ e.id[2] = p.inv
  <2>1. e.id = <<"inv", p.inv>>
    BY <1>3 DEF InvocationEffect, Effect
  <2>2. QED
    BY <2>1
<1>4. CASE s.wait # None /\ e = CredentialEffect(s.wait)
  <2>1. e.id = <<"cred">> /\ e.at = s.wait.at
    BY <1>4 DEF CredentialEffect, Effect
  <2>2. e.id[1] = "cred"
    BY <2>1
  <2>3. QED
    BY <1>4, <2>1, <2>2
<1>5. QED
  BY <1>1, <1>2, <1>3, <1>4

\* What is pending was begun, and has no end in the journal.
LEMMA PendingBegun ==
  ASSUME NEW l, Books(l), NEW e \in PendingEffects(TruthOf(l))
  PROVE  Begun(l, e) /\ EndId(e) \notin IdsOf(l)
<1> DEFINE s == TruthOf(l)
           E == IdsOf(l)
<1>1. CallOpen(E, s) /\ InvocationsOpen(E, s) /\ WaitOpen(E, Len(l), s)
  BY DEF Books, Ledger
<1>2. \/ e.id[1] = "model" /\ s.call # None /\ e.id[2] = s.call.msg
      \/ e.id[1] = "inv" /\ \E p \in s.pending : e.id[2] = p.inv
      \/ e.id[1] = "cred" /\ s.wait # None /\ e.at = s.wait.at
  BY PendingIs
<1> HIDE DEF s
<1>3. CASE e.id[1] = "model" /\ s.call # None /\ e.id[2] = s.call.msg
  BY <1>1, <1>3 DEF CallOpen, Begun, EndId, IsEffect
<1>4. CASE e.id[1] = "inv" /\ \E p \in s.pending : e.id[2] = p.inv
  BY <1>1, <1>4 DEF InvocationsOpen, Begun, EndId, IsEffect
<1>5. CASE e.id[1] = "cred" /\ s.wait # None /\ e.at = s.wait.at
  BY <1>1, <1>5 DEF WaitOpen, Begun, EndId, IsEffect
<1>6. QED
  BY <1>2, <1>3, <1>4, <1>5

\* What is over is not pending.
LEMMA SafeNotPending ==
  ASSUME NEW l, NEW id, Safe(l, id), NEW e \in PendingEffects(TruthOf(l))
  PROVE  e.id # id
<1> DEFINE s == TruthOf(l)
<1>1. \/ e.id[1] = "model" /\ s.call # None /\ e.id[2] = s.call.msg
      \/ e.id[1] = "inv" /\ \E p \in s.pending : e.id[2] = p.inv
      \/ e.id[1] = "cred" /\ s.wait # None /\ e.at = s.wait.at
  BY PendingIs
<1>2. Over(IdsOf(l), s, id)
  BY DEF Safe
<1> HIDE DEF s
<1>3. QED
  BY <1>1, <1>2 DEF Over

\* The journal ends an effect with a row: no row with its id stands for what is pending.
LEMMA EndedNotPending ==
  ASSUME NEW l, Books(l), NEW e, IsEffect(e), EndId(e) \in IdsOf(l), NEW d, d.id = e.id, e.id[1] = "cred" => d = e
  PROVE  d \notin PendingEffects(TruthOf(l))
<1>1. EndId(d) = EndId(e)
  BY DEF EndId, IsEffect
<1>2. QED
  BY <1>1, PendingBegun

-----------------------------------------------------------------------------
(* The effects that have a row.                                            *)

\* Deletion, insertion and reconciliation.
LEMMA EffectsDelete ==
  ASSUME NEW rows, NEW id
  PROVE  EffectsOf(Delete(rows, id)) = {e \in EffectsOf(rows) : e.id # id}
BY DEF EffectsOf, Delete

\* INSERT OR IGNORE of some effects.
LEMMA EffectsInsert ==
  ASSUME NEW rows, NEW effects
  PROVE  /\ EffectsOf(rows) \subseteq EffectsOf(Insert(rows, effects))
         /\ EffectsOf(Insert(rows, effects)) \subseteq EffectsOf(rows) \cup effects
         /\ \A e \in effects : \E d \in EffectsOf(Insert(rows, effects)) : d.id = e.id
<1>1. \A e : Row(e).effect = e
  BY DEF Row
<1>2. QED
  BY <1>1 DEF EffectsOf, Insert, HasRow

\* A reconcile adds no effect but pending ones, and each of them has a row then.
LEMMA EffectsReconciled ==
  ASSUME NEW rows, NEW s
  PROVE  /\ EffectsOf(Reconciled(rows, s)) \subseteq EffectsOf(rows) \cup PendingEffects(s)
         /\ \A e \in PendingEffects(s) : \E d \in EffectsOf(Reconciled(rows, s)) : d.id = e.id
<1> DEFINE kept == {r \in rows : \E e \in PendingEffects(s) : e.id = r.effect.id}
<1>1. Reconciled(rows, s) = Insert(kept, PendingEffects(s)) /\ EffectsOf(kept) \subseteq EffectsOf(rows)
  BY DEF Reconciled, EffectsOf
<1> HIDE DEF kept
<1>2. QED
  BY <1>1, EffectsInsert

\* An update of a row's lease and attempts.
LEMMA EffectsUpdate ==
  ASSUME NEW rows, Rows(rows), NEW x \in rows, NEW new, new.effect = x.effect
  PROVE  EffectsOf(Update(rows, x.effect.id, new)) = EffectsOf(rows)
<1>1. \A r \in rows : r.effect.id = x.effect.id => r = x
  BY DEF Rows
<1>2. QED
  BY <1>1 DEF EffectsOf, Update

-----------------------------------------------------------------------------
(* What an append does to the books.                                       *)

\* Items that may be journaled after l.
Fits(l, items) == Fitting(IdsOf(l), Len(l), TruthOf(l), items)

\* What is begun stays begun.
LEMMA BegunGrows ==
  ASSUME NEW l, IsSeq(l), NEW new, IsSeq(new), NEW e, Begun(l, e)
  PROVE  Begun(l \o new, e)
<1> DEFINE c == l \o new
<1>1. IdsOf(l) \subseteq IdsOf(c)
  BY GrownIds
<1>2. Len(c) = Len(l) + Len(new) /\ Len(l) \in Nat /\ Len(new) \in Nat
  BY SeqConcat, SeqDomain
<1> HIDE DEF c
<1>3. \A k \in 1 .. Len(l) : k \in 1 .. Len(c)
  BY <1>2
<1>4. Begun(c, e)
  BY <1>1, <1>3 DEF Begun
<1>5. QED
  BY <1>4 DEF c

\* The events that are new of a batch.
LEMMA FittingInserted ==
  ASSUME IsLog(log), NEW items, NEW tags, Batch(items, tags), NEW expected,
         AppendError(expected, items) = None, NEW E, NEW n, NEW s, Fitting(E, n, s, items)
  PROVE  Fitting(E, n, s, Inserted(items)) /\ (NoWait(items) => NoWait(Inserted(items)))
<1> DEFINE p == Replayed(items)
           new == Inserted(items)
<1>1. ASSUME NEW i \in DOMAIN new
      PROVE  /\ p \in Nat /\ i \in Nat \ {0} /\ p + i \in DOMAIN items
             /\ new[i].id = items[p + i].id /\ new[i].kind = items[p + i].kind
  BY InsertedIs
<1>2. DOMAIN new = 1 .. Len(new) /\ Len(new) \in Nat
  BY InsertedItems, SeqDomain
<1> HIDE DEF p, new
<1>3. ASSUME NEW i \in DOMAIN new
      PROVE  /\ Backed(E, n + 1, new[i].id)
             /\ new[i].id[1] = "waiting" =>
                  /\ s.turn # None /\ new[i].id[2] = s.turn.id /\ new[i].id[3] = s.turn.waits
                  /\ \A j \in 1 .. i - 1 : new[j].kind \in {"message.failed", "wait.started"}
  <2> DEFINE k == p + i
  <2>1. p \in Nat /\ i \in Nat \ {0} /\ k \in DOMAIN items /\ new[i].id = items[k].id
    BY <1>1
  <2>2. /\ Backed(E, n + 1, items[k].id)
        /\ items[k].id[1] = "waiting" =>
             /\ s.turn # None /\ items[k].id[2] = s.turn.id /\ items[k].id[3] = s.turn.waits
             /\ \A j \in 1 .. k - 1 : items[j].kind \in {"message.failed", "wait.started"}
    BY <2>1 DEF Fitting
  <2>3. ASSUME NEW j \in 1 .. i - 1 PROVE j \in DOMAIN new /\ p + j \in 1 .. k - 1
    BY <1>2, <2>1
  <2>4. \A j \in 1 .. i - 1 : new[j].kind = items[p + j].kind
    BY <1>1, <2>3
  <2>5. QED
    BY <2>1, <2>2, <2>3, <2>4
<1>4. Fitting(E, n, s, new)
  BY <1>3 DEF Fitting
<1>5. NoWait(items) => NoWait(new)
  BY <1>1 DEF NoWait
<1>6. QED
  BY <1>4, <1>5 DEF new

\* A batch that fits keeps the books.
LEMMA CommitKeeps ==
  ASSUME IsLog(log), Books(log), NEW items, NEW tags, Batch(items, tags), NEW expected,
         AppendError(expected, items) = None, Fits(log, items),
         NEW l, l = log \o Inserted(items)
  PROVE  /\ Books(l) /\ \A e : Begun(log, e) => Begun(l, e)
         /\ \A id : Safe(log, id) /\ (id[1] = "cred" => NoWait(items)) => Safe(l, id)
         /\ NoWait(items) => TruthOf(l).wait \in {TruthOf(log).wait, None}
         /\ \A i \in DOMAIN items : items[i].id \in IdsOf(l)
<1> DEFINE new == Inserted(items)
           E == IdsOf(log)
           s == TruthOf(log)
<1>1. IsSeq(new) /\ IsSeq(log)
  BY InsertedItems DEF IsLog
<1>2. IsLog(l) /\ \A i \in DOMAIN items : items[i].id \in IdsOf(l)
  BY AppendedLog
<1>3. Fitting(E, Len(log), s, new) /\ (NoWait(items) => NoWait(new))
  BY FittingInserted DEF Fits
<1>4. l = log \o new
  OBVIOUS
<1> HIDE DEF new, E, s
<1>5. /\ Ledger(IdsOf(log \o new), Len(log \o new), TruthOf(log \o new))
      /\ \A id : Over(IdsOf(log), TruthOf(log), id) /\ (id[1] = "cred" => NoWait(new)) =>
           Over(IdsOf(log \o new), TruthOf(log \o new), id)
      /\ NoWait(new) => TruthOf(log \o new).wait \in {TruthOf(log).wait, None}
  <2>1. IsLog(log \o new) /\ Ledger(IdsOf(log), Len(log), TruthOf(log))
    BY <1>2, <1>4 DEF Books
  <2>2. Fitting(IdsOf(log), Len(log), TruthOf(log), new)
    BY <1>3 DEF E, s
  <2>3. QED
    BY <1>1, <2>1, <2>2, LedgerBatch
<1>6. \A e : Begun(log, e) => Begun(l, e)
  BY <1>1, <1>4, BegunGrows
<1>7. QED
  BY <1>2, <1>3, <1>4, <1>5, <1>6 DEF Books, Safe

\* A batch of a step fits.
LEMMA SettlingFits ==
  ASSUME NEW l, IsSeq(l), Books(l), NEW items, NEW tags, Batch(items, tags), Settling(TruthOf(l), items)
  PROVE  Fits(l, items) /\ NoWait(items)
<1> DEFINE s == TruthOf(l)
           E == IdsOf(l)
           n == Len(l)
<1>1. CallOpen(E, s) /\ InvocationsOpen(E, s) /\ WaitOpen(E, n, s)
  BY DEF Books, Ledger
<1>2. \A j \in DOMAIN items : Ends(s, items[j].id) /\ Formed(items[j])
  BY DEF Settling, Batch, IsEvent
<1>3. n \in Nat
  BY SeqDomain
<1> HIDE DEF s, n
<1>4. \A k \in 1 .. n : k \in 1 .. n + 1
  BY <1>3
<1>5. \A id : Ends(s, id) => Backed(E, n + 1, id) /\ id[1] # "waiting"
  <2>1. SUFFICES ASSUME NEW id, Ends(s, id) PROVE Backed(E, n + 1, id) /\ id[1] # "waiting"
    OBVIOUS
  <2>2. id[1] = "terminal" /\ id[2][1] = "msg" => <<"started", id[2]>> \in E
    BY <1>1, <2>1 DEF Ends, CallOpen
  <2>3. id[1] = "inv-terminal" => <<"inv-start", id[2]>> \in E
    BY <1>1, <2>1 DEF Ends, InvocationsOpen
  <2>4. id[1] \in {"wait-resolved", "wait-expired"} => id[2] \in 1 .. n + 1
    BY <1>1, <1>4, <2>1 DEF Ends, WaitOpen
  <2>5. id[1] \notin {"waiting", "wait-started"}
    BY <2>1 DEF Ends
  <2>6. QED
    BY <2>2, <2>3, <2>4, <2>5 DEF Backed
<1>6. Fitting(E, n, s, items)
  BY <1>2, <1>5 DEF Fitting
<1>7. NoWait(items)
  BY <1>2 DEF NoWait, Formed, Ends
<1>8. QED
  BY <1>6, <1>7 DEF Fits, s, n

\* So does the word that the turn waits.
LEMMA WaitingFits ==
  ASSUME NEW l, Books(l), NEW items, SaysWaiting(TruthOf(l), items)
  PROVE  Fits(l, items) /\ NoWait(items)
<1> DEFINE s == TruthOf(l)
           x == TurnWaiting(s.turn.id, s.turn.waits)
           q == <<x>>
<1>1. TurnOpen(IdsOf(l), s) /\ s.turn # None /\ items = q
  BY DEF Books, Ledger, SaysWaiting
<1>2. x.id = <<"waiting", s.turn.id, s.turn.waits>> /\ x.kind = "turn.waiting"
  BY DEF TurnWaiting, Event
<1>3. x.id[1] = "waiting" /\ x.id[2] = s.turn.id /\ x.id[3] = s.turn.waits
  BY <1>2
<1> HIDE DEF s, x
<1>4. DOMAIN q = {1} /\ q[1] = x
  OBVIOUS
<1> HIDE DEF q
<1>5. Backed(IdsOf(l), Len(l) + 1, x.id)
  BY <1>1, <1>3 DEF Backed, TurnOpen
<1>6. Fitting(IdsOf(l), Len(l), s, q) /\ NoWait(q)
  BY <1>1, <1>2, <1>3, <1>4, <1>5 DEF Fitting, NoWait
<1>7. QED
  BY <1>1, <1>6 DEF Fits, s

\* So does the end of an effect that was begun.
LEMMA OutcomeFits ==
  ASSUME NEW l, IsSeq(l), NEW e, Begun(l, e), NEW x, IsEvent(x), x.id = EndId(e), NEW items, items = <<x>>
  PROVE  Fits(l, items) /\ NoWait(items)
<1> DEFINE q == <<x>>
<1>1. \/ e.id[1] = "model" /\ x.id[1] = "terminal" /\ x.id[2] = e.id[2]
      \/ e.id[1] = "inv" /\ x.id[1] = "inv-terminal" /\ x.id[2] = e.id[2]
      \/ e.id[1] = "cred" /\ x.id[1] = "wait-resolved" /\ x.id[2] = e.at
  BY DEF EndId, Begun, IsEffect
<1>2. Len(l) \in Nat
  BY SeqDomain
<1>3. \A k \in 1 .. Len(l) : k \in 1 .. Len(l) + 1
  BY <1>2
<1>4. Backed(IdsOf(l), Len(l) + 1, x.id) /\ x.id[1] # "waiting"
  BY <1>1, <1>3 DEF Begun, Backed
<1>5. x.kind # "wait.started"
  BY <1>1 DEF IsEvent, Formed
<1>6. DOMAIN q = {1} /\ q[1] = x
  OBVIOUS
<1>7. items = q
  OBVIOUS
<1> HIDE DEF q
<1>8. QED
  BY <1>4, <1>5, <1>6, <1>7 DEF Fits, Fitting, NoWait

\* The events of suspendOnCredential, one by one.
LEMMA SuspendShape ==
  ASSUME NEW s, NEW msg, NEW items, items = SuspendItems(s, msg)
  PROVE  \E x, y, z :
           /\ IsSeq(items) /\ 1 \in DOMAIN items /\ items[1] = x
           /\ x.kind = "message.failed" /\ x.id = <<"terminal", msg>>
           /\ y.kind = "wait.started" /\ y.id[1] = "wait-started" /\ y.id[2] = s.lastSeq + 1
           /\ z.id[1] = "waiting" /\ z.id[2] = s.turn.id /\ z.id[3] = s.turn.waits
           /\ \A j \in DOMAIN items :
                \/ items[j] \in {x, y}
                \/ s.turn # None /\ items[j] = z /\ \A i \in 1 .. j - 1 : items[i] \in {x, y}
<1> DEFINE turn == IF s.turn = None THEN None ELSE s.turn.id
           x == MessageFailed(msg, "recoverable")
           y == WaitStarted(turn, msg, s.lastSeq + 1)
           z == TurnWaiting(s.turn.id, s.turn.waits)
           a == <<x, y>>
           b == IF s.turn = None THEN <<>> ELSE <<z>>
           c == a \o b
<1>1. x.kind = "message.failed" /\ x.id = <<"terminal", msg>>
  BY DEF MessageFailed, Event
<1>2. y.kind = "wait.started" /\ y.id = <<"wait-started", s.lastSeq + 1>>
  BY DEF WaitStarted, Event
<1>3. z.id = <<"waiting", s.turn.id, s.turn.waits>>
  BY DEF TurnWaiting, Event
<1>4. items = c
  <2>1. CASE s.turn = None
    BY <2>1 DEF SuspendItems
  <2>2. CASE s.turn # None
    BY <2>2 DEF SuspendItems
  <2>3. QED
    BY <2>1, <2>2
<1>5. /\ y.id[1] = "wait-started" /\ y.id[2] = s.lastSeq + 1
      /\ z.id[1] = "waiting" /\ z.id[2] = s.turn.id /\ z.id[3] = s.turn.waits
  BY <1>1, <1>2, <1>3
<1> HIDE DEF x, y, z
<1>6. IsSeq(a) /\ Len(a) = 2 /\ a[1] = x /\ a[2] = y
  <2>1. a \in Seq({x, y}) /\ Len(a) = 2 /\ a[1] = x /\ a[2] = y
    OBVIOUS
  <2>2. QED
    BY <2>1 DEF IsSeq
<1>7. IsSeq(b) /\ (s.turn = None => Len(b) = 0) /\ (s.turn # None => Len(b) = 1 /\ b[1] = z)
  <2>1. CASE s.turn = None
    BY <2>1, SeqEmpty
  <2>2. CASE s.turn # None
    BY <2>2, SeqSingle
  <2>3. QED
    BY <2>1, <2>2
<1> HIDE DEF a, b
<1>8. /\ IsSeq(c) /\ Len(c) = 2 + Len(b) /\ c[1] = x /\ c[2] = y
      /\ \A i \in 1 .. Len(b) : c[2 + i] = b[i]
  <2>1. /\ IsSeq(c) /\ Len(c) = Len(a) + Len(b)
        /\ \A i \in 1 .. Len(a) : c[i] = a[i]
        /\ \A i \in 1 .. Len(b) : c[Len(a) + i] = b[i]
    <3>1. IsSeq(a) /\ IsSeq(b)
      BY <1>6, <1>7
    <3>2. QED
      BY ONLY <3>1, SeqConcat
  <2>2. QED
    BY <1>6, <2>1
<1>9. DOMAIN c = 1 .. 2 + Len(b)
  BY <1>8, SeqDomain
<1> HIDE DEF c
<1>10. ASSUME NEW j \in DOMAIN c
       PROVE  c[j] \in {x, y} \/ (s.turn # None /\ c[j] = z /\ \A i \in 1 .. j - 1 : c[i] \in {x, y})
  <2>1. CASE j \in {1, 2}
    BY <1>8, <2>1
  <2>2. CASE j \notin {1, 2}
    <3>1. s.turn # None /\ Len(b) = 1 /\ j = 3
      <4>1. Len(b) = 0 => DOMAIN c = 1 .. 2
        BY <1>9
      <4>2. Len(b) = 1 => DOMAIN c = 1 .. 3
        BY <1>9
      <4>3. (\A i \in 1 .. 2 : i \in {1, 2}) /\ (\A i \in 1 .. 3 : i \in {1, 2, 3})
        OBVIOUS
      <4>4. QED
        BY <1>7, <2>2, <4>1, <4>2, <4>3
    <3>2. c[3] = b[1] /\ b[1] = z
      BY <1>7, <1>8, <3>1
    <3>3. \A i \in 1 .. 2 : i \in {1, 2}
      OBVIOUS
    <3>4. QED
      BY <1>8, <3>1, <3>2, <3>3
  <2>3. QED
    BY <2>1, <2>2
<1>11. 1 \in DOMAIN c
  BY <1>7, <1>9
<1>12. QED
  BY <1>1, <1>2, <1>4, <1>5, <1>8, <1>10, <1>11

\* They fit, and the store has none of them but the first.
LEMMA SuspendFits ==
  ASSUME NEW l, IsLog(l), Books(l), NEW msg, <<"started", msg>> \in IdsOf(l),
         NEW items, items = SuspendItems(TruthOf(l), msg)
  PROVE  /\ Fits(l, items) /\ IsSeq(items) /\ 1 \in DOMAIN items /\ items[1].id = <<"terminal", msg>>
         /\ \A j \in DOMAIN items : items[j].id \in IdsOf(l) => items[1].id \in IdsOf(l)
<1> DEFINE s == TruthOf(l)
           E == IdsOf(l)
           n == Len(l)
<1>1. /\ IsState(s) /\ s.lastSeq = n /\ n \in Nat
  BY TruthIs, SeqDomain DEF IsLog
<1>2. Ledger(E, n, s)
  BY DEF Books
<1>3. PICK x, y, z :
           /\ IsSeq(items) /\ 1 \in DOMAIN items /\ items[1] = x
           /\ x.kind = "message.failed" /\ x.id = <<"terminal", msg>>
           /\ y.kind = "wait.started" /\ y.id[1] = "wait-started" /\ y.id[2] = s.lastSeq + 1
           /\ z.id[1] = "waiting" /\ z.id[2] = s.turn.id /\ z.id[3] = s.turn.waits
           /\ \A j \in DOMAIN items :
                \/ items[j] \in {x, y}
                \/ s.turn # None /\ items[j] = z /\ \A i \in 1 .. j - 1 : items[i] \in {x, y}
  BY SuspendShape
<1> HIDE DEF s, n
<1>4. Backed(E, n + 1, x.id) /\ x.id[1] = "terminal"
  <2>1. x.id[1] = "terminal" /\ x.id[2] = msg
    BY <1>3
  <2>2. QED
    BY <2>1 DEF Backed
<1>5. Backed(E, n + 1, y.id) /\ y.id \notin E
  <2>1. y.id[2] = n + 1 /\ n + 1 \in 0 .. n + 1 /\ n + 1 \notin 0 .. n
    BY <1>1, <1>3
  <2>2. y.id \in E => Backed(E, n, y.id)
    BY <1>2 DEF Ledger
  <2>3. QED
    BY <1>3, <2>1, <2>2 DEF Backed
<1>6. s.turn # None => Backed(E, n + 1, z.id) /\ z.id \notin E
  <2>1. SUFFICES ASSUME s.turn # None PROVE Backed(E, n + 1, z.id) /\ z.id \notin E
    OBVIOUS
  <2>2. /\ <<"opened", s.turn.id>> \in E /\ s.turn.waits \in Nat
        /\ \A id \in E : id[1] = "waiting" /\ id[2] = s.turn.id => id[3] \in Nat /\ id[3] < s.turn.waits
    BY <1>2, <2>1 DEF Ledger, TurnOpen
  <2>3. Backed(E, n + 1, z.id)
    BY <1>3, <2>2 DEF Backed
  <2>4. z.id \notin E
    BY <1>3, <2>2
  <2>5. QED
    BY <2>3, <2>4
<1>7. Fitting(E, n, s, items)
  <2>1. ASSUME NEW j \in DOMAIN items
        PROVE  /\ Backed(E, n + 1, items[j].id)
               /\ items[j].id[1] = "waiting" =>
                    /\ s.turn # None /\ items[j].id[2] = s.turn.id /\ items[j].id[3] = s.turn.waits
                    /\ \A i \in 1 .. j - 1 : items[i].kind \in {"message.failed", "wait.started"}
    <3>1. CASE items[j] \in {x, y}
      BY <1>3, <1>4, <1>5, <3>1
    <3>2. CASE s.turn # None /\ items[j] = z /\ \A i \in 1 .. j - 1 : items[i] \in {x, y}
      BY <1>3, <1>6, <3>2
    <3>3. QED
      BY <1>3, <3>1, <3>2
  <2>2. QED
    BY <2>1 DEF Fitting
<1>8. QED
  BY <1>3, <1>5, <1>6, <1>7 DEF Fits, s, n

\* The items end the effect, whether it is pending or another one is in its place.
EndsEffect(s, effect, items) ==
  /\ effect[1] = "model" /\ s.call # None => \E i \in DOMAIN items : items[i].id = <<"terminal", s.call.msg>>
  /\ effect[1] = "inv" => \A p \in s.pending : p.inv = effect[2] =>
       \E i \in DOMAIN items : items[i].id = <<"inv-terminal", effect[2]>>
  /\ effect[1] = "cred" /\ s.wait # None => \E i \in DOMAIN items : items[i].id = <<"wait-expired", s.wait.at>>

\* What the answer to a failed effect ends.
LEMMA FailureEnds ==
  ASSUME NEW s, IsState(s), NEW effect, NEW why, NEW items, items = EffectFailedStep(s, effect, why).append
  PROVE  EndsEffect(s, effect, items)
<1>1. ASSUME effect[1] = "model", s.call # None
      PROVE  \E i \in DOMAIN items : items[i].id = <<"terminal", s.call.msg>>
  <2> DEFINE e == MessageFailed(s.call.msg, why)
             a == <<e>>
             d == Diagnostic(s.turn.id, effect)
             c == TurnClosed(s.turn.id)
             b == IF s.turn = None \/ why = "reset" THEN <<>> ELSE <<d, c>>
  <2>1. items = a \o b
    BY <1>1 DEF EffectFailedStep, ModelFailedStep, Output
  <2>2. e.id = <<"terminal", s.call.msg>>
    BY DEF MessageFailed, Event
  <2>3. b \in {<<>>, <<d, c>>}
    OBVIOUS
  <2> HIDE DEF b, c, d, e
  <2>4. IsSeq(<<d, c>>)
    <3>1. <<d, c>> \in Seq({d, c})
      OBVIOUS
    <3>2. QED
      BY <3>1 DEF IsSeq
  <2>5. IsSeq(a) /\ IsSeq(b) /\ DOMAIN a = {1} /\ a[1] = e
    BY <2>3, <2>4, SeqEmpty, SeqSingle
  <2> HIDE DEF a
  <2>6. \A i \in DOMAIN a : i \in DOMAIN items /\ items[i] = a[i]
    BY <2>1, <2>5, ConcatHolds
  <2>7. QED
    BY <2>2, <2>5, <2>6
<1>2. ASSUME effect[1] = "inv", NEW p \in s.pending, p.inv = effect[2]
      PROVE  \E i \in DOMAIN items : items[i].id = <<"inv-terminal", effect[2]>>
  <2> DEFINE P == {q \in s.pending : q.inv = effect[2]}
             g == [i \in P |-> InvocationTerminal(i.turn, i.inv, "failed")]
             X == {g[i] : i \in P}
  <2>1. X = {InvocationTerminal(i.turn, i.inv, "failed") : i \in P}
    OBVIOUS
  <2>2. items = SetToSeq(X)
    BY <1>2, <2>1 DEF EffectFailedStep, InvocationFailedStep, Output
  <2>3. IsFiniteSet(P) /\ p \in P
    BY <1>2, FS_Subset DEF IsState, Shaped
  <2>4. g[p].id = <<"inv-terminal", effect[2]>> /\ g[p] \in X
    BY <1>2, <2>3 DEF InvocationTerminal, Event
  <2>5. g = [i \in P |-> g[i]]
    OBVIOUS
  <2> HIDE DEF P, g
  <2>6. IsFiniteSet(X)
    BY <2>3, <2>5, ImageFinite
  <2> HIDE DEF X
  <2>7. \E i \in DOMAIN items : items[i] = g[p]
    BY <2>2, <2>4, <2>6, SetToSeqIs
  <2>8. QED
    BY <2>4, <2>7
<1>3. ASSUME effect[1] = "cred", s.wait # None
      PROVE  \E i \in DOMAIN items : items[i].id = <<"wait-expired", s.wait.at>>
  <2> DEFINE e == WaitExpired(s.wait.turn, s.wait.at)
             a == <<e>>
             c == TurnClosed(s.turn.id)
             b == IF s.turn = None THEN <<>> ELSE <<c>>
  <2>1. items = a \o b
    BY <1>3 DEF EffectFailedStep, WaitFailedStep, Output
  <2>2. e.id = <<"wait-expired", s.wait.at>>
    BY DEF WaitExpired, Event
  <2>3. b \in {<<>>, <<c>>}
    OBVIOUS
  <2> HIDE DEF b, c, e
  <2>5. IsSeq(a) /\ IsSeq(b) /\ DOMAIN a = {1} /\ a[1] = e
    BY <2>3, SeqEmpty, SeqSingle
  <2> HIDE DEF a
  <2>6. \A i \in DOMAIN a : i \in DOMAIN items /\ items[i] = a[i]
    BY <2>1, <2>5, ConcatHolds
  <2>7. QED
    BY <2>2, <2>5, <2>6
<1>4. QED
  BY <1>1, <1>2, <1>3 DEF EndsEffect

\* Once that is journaled, the effect is over.
LEMMA FailingOver ==
  ASSUME NEW l, IsLog(l), NEW l2, Books(l2), NEW e, Begun(l2, e), NEW in, in.type = "failed", in.arg.effect = e.id,
         NEW items, items = Step(TruthOf(l), in).append, \A i \in DOMAIN items : items[i].id \in IdsOf(l2),
         Begun(l, e), Safe(l, e.id) => Safe(l2, e.id), TruthOf(l2).wait \in {TruthOf(l).wait, None}
  PROVE  Safe(l2, e.id)
<1> DEFINE s == TruthOf(l)
           t == TruthOf(l2)
           E == IdsOf(l2)
<1>1. items = EffectFailedStep(s, e.id, in.arg.why).append
  BY DEF Step
<1>2. /\ CallOpen(E, t) /\ InvocationsOpen(E, t) /\ WaitOpen(E, Len(l2), t) /\ t.wait \in {s.wait, None}
  BY DEF Books, Ledger
<1>3. IsState(s)
  BY TruthIs DEF IsLog
<1>4. EndsEffect(s, e.id, items)
  BY <1>1, <1>3, FailureEnds
<1>5. SUFFICES ASSUME ~Over(IdsOf(l), s, e.id) PROVE Over(E, t, e.id)
  BY DEF Safe
<1> HIDE DEF s, t
<1>6. CASE e.id[1] = "model"
  <2>1. s.call # None /\ s.call.msg = e.id[2]
    BY <1>5, <1>6 DEF Over, Begun
  <2>2. <<"terminal", e.id[2]>> \in E
    BY <1>4, <1>6, <2>1 DEF EndsEffect
  <2>3. t.call = None \/ t.call.msg # e.id[2]
    BY <1>2, <2>2 DEF CallOpen
  <2>4. QED
    BY <1>6, <2>3 DEF Over, Begun
<1>7. CASE e.id[1] = "inv"
  <2>1. \E p \in s.pending : p.inv = e.id[2]
    BY <1>5, <1>7 DEF Over, Begun
  <2>2. <<"inv-terminal", e.id[2]>> \in E
    BY <1>4, <1>7, <2>1 DEF EndsEffect
  <2>3. \A p \in t.pending : p.inv # e.id[2]
    BY <1>2, <2>2 DEF InvocationsOpen
  <2>4. QED
    BY <1>7, <2>3 DEF Over, Begun
<1>8. CASE e.id[1] = "cred"
  <2>1. s.wait # None
    BY <1>5, <1>8 DEF Over
  <2>2. <<"wait-expired", s.wait.at>> \in E
    BY <1>4, <1>8, <2>1 DEF EndsEffect
  <2>3. t.wait = None
    BY <1>2, <2>2 DEF WaitOpen
  <2>4. QED
    BY <1>8, <2>3 DEF Over
<1>9. QED
  BY <1>6, <1>7, <1>8 DEF Begun, IsEffect

-----------------------------------------------------------------------------
(* What the store refuses.                                                 *)

\* The end of an effect is refused because the journal has it, or has moved.
LEMMA OutcomeRefused ==
  ASSUME NEW x, NEW items, items = <<x>>, NEW expected,
         AppendError(expected, items) \notin {None, "head-conflict"}
  PROVE  x.id \in IdsOf(log)
<1> DEFINE q == <<x>>
           p == Replayed(items)
<1>1. IsSeq(items) /\ Len(items) = 1 /\ items[1] = x
  BY SeqSingle
<1>2. p \in 0 .. 1 /\ \A i \in 1 .. p : Journaled(items[i].id)
  BY <1>1, ReplayedPrefix
<1>3. \/ \E i \in 1 .. p : ~SameContent(items[i])
      \/ \E i \in p + 1 .. 1 : Journaled(items[i].id)
      \/ p \in 1 .. 0
  BY <1>1 DEF AppendError
<1> HIDE DEF p
<1>4. p = 1 \/ (p = 0 /\ \E i \in 1 .. 1 : Journaled(items[i].id))
  BY <1>2, <1>3
<1>5. Journaled(items[1].id)
  BY <1>2, <1>4
<1>6. QED
  BY <1>1, <1>5 DEF Journaled, JournaledAt, IdsOf

\* A suspension is refused only because the call has its terminal.
LEMMA SuspendRefused ==
  ASSUME IsLog(log), Books(log), NEW msg, <<"started", msg>> \in IdsOf(log),
         NEW items, items = SuspendItems(TruthOf(log), msg), NEW expected, expected = Len(log),
         AppendError(expected, items) # None
  PROVE  <<"terminal", msg>> \in IdsOf(log)
<1> DEFINE p == Replayed(items)
<1>1. /\ IsSeq(items) /\ 1 \in DOMAIN items /\ items[1].id = <<"terminal", msg>>
      /\ \A j \in DOMAIN items : items[j].id \in IdsOf(log) => items[1].id \in IdsOf(log)
  BY SuspendFits
<1>2. Len(items) \in Nat /\ DOMAIN items = 1 .. Len(items)
  BY <1>1, SeqDomain
<1>3. p \in 0 .. Len(items) /\ \A i \in 1 .. p : Journaled(items[i].id)
  BY <1>1, ReplayedPrefix
<1>4. \/ \E i \in 1 .. p : ~SameContent(items[i])
      \/ \E i \in p + 1 .. Len(items) : Journaled(items[i].id)
      \/ p \in 1 .. Len(items) - 1
  BY DEF AppendError
<1> HIDE DEF p
<1>5. p >= 1 \/ (p = 0 /\ \E i \in 1 .. Len(items) : Journaled(items[i].id))
  BY <1>2, <1>3, <1>4
<1>6. \E i \in DOMAIN items : Journaled(items[i].id)
  <2>1. p >= 1 => 1 \in 1 .. p
    BY <1>3
  <2>2. QED
    BY <1>1, <1>2, <1>3, <1>5, <2>1
<1>7. \E i \in DOMAIN items : items[i].id \in IdsOf(log)
  BY <1>6 DEF Journaled, JournaledAt, IdsOf
<1>8. QED
  BY <1>1, <1>7

-----------------------------------------------------------------------------
(* The steps of the flow.                                                  *)

\* What each step is to keep.
RowsStep(f) ==
  RowsInv(f)' /\ DropsNone(EffectsOf(outbox), EffectsOf(outbox)', TruthOf(log))

\* The task under way has what it needs.
LEMMA CurrentFair ==
  ASSUME NEW f \in Flow, DriverInv, OneFlowInv(f), RowsInv(f), NEW do, At(f, do)
  PROVE  LET t == Current(f)
         IN  /\ t.do = do /\ TopFair(t, log, EffectsOf(outbox)) /\ (Suspends(t) => Len(flows[f]) = 1)
             /\ t.do \notin Loadings => Acts(t) = do
             /\ IsTask(t, IdsOf(log), DOMAIN loops) /\ IsLog(log) /\ IsSeq(log) /\ Books(log)
             /\ Rows(outbox)
<1>1. /\ flows[f] # <<>> /\ Current(f) = flows[f][1] /\ Current(f).do = do
      /\ IsTask(Current(f), IdsOf(log), DOMAIN loops)
  BY AtOne
<1>2. TopFair(flows[f][1], log, EffectsOf(outbox)) /\ (Suspends(flows[f][1]) => Len(flows[f]) = 1)
  BY <1>1 DEF RowsInv, StackFair
<1>3. IsLog(log) /\ Rows(outbox)
  BY DEF DriverInv, DurableInv
<1>4. QED
  BY <1>1, <1>2, <1>3 DEF Acts, RowsInv, IsLog

\* The flow goes on with other tasks, on the journal l.
LEMMA RowsGoOn ==
  ASSUME NEW f \in Flow, DriverInv, OneFlowInv(f), RowsInv(f), NEW do, At(f, do),
         NEW new, IsSeq(new), NEW instances, NEW map, Proceed(f, new \o Tail(flows[f]), instances, map),
         NEW l, l = log', Books(l), \A e : Begun(log, e) => Begun(l, e),
         Suspends(Current(f)) \/ \A e : Begun(log, e) /\ Safe(log, e.id) => Safe(l, e.id),
         RunningFair(running', l), NEW F, F = EffectsOf(outbox'), \A e \in F : Begun(l, e),
         \A k \in DOMAIN new : (k > 1 => Lower(new[k])) /\ new[k].do # "delete",
         new # <<>> => TopFair(new[1], l, F) /\ (Suspends(new[1]) => Len(new) = 1 /\ Suspends(Current(f))),
         \A e : Begun(log, e) /\ Failing(Current(f), e.id) =>
           Safe(l, e.id) \/ (new # <<>> /\ Failing(new[1], e.id))
  PROVE  RowsInv(f)'
<1> DEFINE q == flows[f]
<1>1. q # <<>> /\ Current(f) = q[1]
  BY AtOne
<1>2. IsSeq(q) /\ flows = [g \in Flow |-> flows[g]]
  BY FlowIs
<1>3. StackFair(q, log, EffectsOf(outbox))
  BY DEF RowsInv
<1>4. flows'[f] = new \o Tail(q)
  BY <1>2 DEF Proceed
<1> HIDE DEF q
<1>5. StackFair(new \o Tail(q), l, F)
  BY <1>1, <1>2, <1>3, StackGoesOn
<1>6. Books(log') /\ (\A e \in EffectsOf(outbox') : Begun(log', e)) /\ RunningFair(running', log')
  OBVIOUS
<1>7. StackFair(flows'[f], log', EffectsOf(outbox'))
  BY <1>4, <1>5
<1>8. QED
  BY <1>6, <1>7 DEF RowsInv

\* The first task goes on as another, and nothing else changes.
LEMMA RowsBecome ==
  ASSUME NEW f \in Flow, DriverInv, OneFlowInv(f), RowsInv(f), NEW do, At(f, do),
         NEW u, NEW instances, NEW map, Proceed(f, <<u>> \o Tail(flows[f]), instances, map),
         log' = log, outbox' = outbox, running' = running,
         u.do # "delete", TopFair(u, log, EffectsOf(outbox)), Suspends(u) => Suspends(Current(f)),
         \A id : Failing(Current(f), id) => Failing(u, id)
  PROVE  RowsStep(f)
<1> DEFINE new == <<u>>
<1>1. IsSeq(new) /\ Len(new) = 1 /\ DOMAIN new = {1} /\ new[1] = u /\ new # <<>>
  BY SeqSingle
<1>2. /\ Books(log) /\ (\A e \in EffectsOf(outbox) : Begun(log, e)) /\ RunningFair(running, log)
  BY DEF RowsInv
<1>3. Proceed(f, new \o Tail(flows[f]), instances, map)
  OBVIOUS
<1> HIDE DEF new
<1>4. \A k \in DOMAIN new : (k > 1 => Lower(new[k])) /\ new[k].do # "delete"
  BY <1>1
<1>5. RowsInv(f)'
  BY <1>1, <1>2, <1>3, <1>4, RowsGoOn
<1>6. QED
  BY <1>5 DEF RowsStep, DropsNone

\* The first task is done, on the same journal; no row is dropped that counts.
LEMMA RowsPop ==
  ASSUME NEW f \in Flow, DriverInv, OneFlowInv(f), RowsInv(f), NEW do, At(f, do),
         NEW instances, NEW map, Proceed(f, Tail(flows[f]), instances, map),
         log' = log, RunningFair(running', log), \A e \in EffectsOf(outbox') : Begun(log, e),
         DropsNone(EffectsOf(outbox), EffectsOf(outbox'), TruthOf(log)),
         \A e : Begun(log, e) /\ Failing(Current(f), e.id) => Safe(log, e.id)
  PROVE  RowsStep(f)
<1> DEFINE new == <<>>
<1>1. IsSeq(new) /\ \A k \in DOMAIN new : FALSE
  BY SeqEmpty
<1>2. flows[f] # <<>> /\ IsSeq(flows[f])
  BY AtOne, FlowIs
<1>3. new \o Tail(flows[f]) = Tail(flows[f])
  BY <1>2, SeqTail, EmptyConcat
<1>4. Books(log) /\ new = <<>>
  BY DEF RowsInv
<1>5. Proceed(f, new \o Tail(flows[f]), instances, map)
  BY <1>3
<1> HIDE DEF new
<1>6. RowsInv(f)'
  BY <1>1, <1>4, <1>5, RowsGoOn
<1>7. QED
  BY <1>6 DEF RowsStep

\* An error ends the flow.
LEMMA RowsThrow ==
  ASSUME NEW f \in Flow, DriverInv, OneFlowInv(f), RowsInv(f), NEW map, Proceed(f, <<>>, loops, map),
         log' = log, outbox' = outbox, running' = running
  PROVE  RowsStep(f)
<1>1. flows'[f] = <<>>
  BY FlowIs DEF Proceed
<1>2. StackFair(<<>>, log, EffectsOf(outbox))
  BY DEF StackFair, DeletesFair
<1>3. RowsInv(f)'
  BY <1>1, <1>2 DEF RowsInv
<1>4. QED
  BY <1>3 DEF RowsStep, DropsNone

\* A task that is being loaded.
LEMMA LoadingFair ==
  ASSUME NEW t, NEW u, u.kind = t.kind, u.in = t.in, u.items = t.items, u.row = t.row, Acts(u) = Acts(t),
         u.do # "stale", t.do \in Loadings, NEW l, NEW F, TopFair(t, l, F)
  PROVE  TopFair(u, l, F) /\ (Suspends(u) => Suspends(t)) /\ \A id : Failing(t, id) => Failing(u, id)
<1>1. TopFair(u, l, F)
  BY DEF TopFair, OutcomeFair, SuspendFair, Loadings
<1>2. QED
  BY <1>1 DEF Suspends, Failing, Stepping

\* Loading a loop.
LEMMA LoadingRows ==
  ASSUME NEW f \in Flow, DriverInv, OneFlowInv(f), RowsInv(f),
         LoadLive(f) \/ LoadCold(f) \/ GetLogHead(f) \/ CompareHead(f) \/ ReadTail(f) \/ LoadTail(f)
  PROVE  RowsStep(f)
<1> DEFINE t == Current(f)
<1>1. PICK do \in Loadings : At(f, do)
  BY DEF LoadLive, LoadCold, GetLogHead, CompareHead, ReadTail, LoadTail, Loadings
<1>2. log' = log /\ outbox' = outbox /\ running' = running
  BY DEF LoadLive, LoadCold, GetLogHead, CompareHead, ReadTail, LoadTail, durable
<1>3. t.do = do /\ TopFair(t, log, EffectsOf(outbox)) /\ IsTask(t, IdsOf(log), DOMAIN loops)
  BY <1>1, CurrentFair
<1>4. t = [x \in TaskFields |-> t[x]] /\ t.then \in Loadable
  BY <1>1, <1>3 DEF IsTask
<1>5. ASSUME NEW u, NEW instances, NEW map, Proceed(f, <<u>> \o Tail(flows[f]), instances, map),
             u.kind = t.kind, u.in = t.in, u.items = t.items, u.row = t.row,
             u.do = t.then \/ (u.do \in Loadings /\ u.then = t.then)
      PROVE  RowsStep(f)
  <2>1. Acts(u) = Acts(t) /\ u.do \notin {"stale", "delete"}
    BY <1>1, <1>3, <1>4, <1>5 DEF Acts, Loadable, Loadings
  <2>2. TopFair(u, log, EffectsOf(outbox)) /\ (Suspends(u) => Suspends(t)) /\ \A id : Failing(t, id) => Failing(u, id)
    BY <1>1, <1>3, <1>5, <2>1, LoadingFair
  <2>3. QED
    BY <1>1, <1>2, <1>5, <2>1, <2>2, RowsBecome
<1>6. ASSUME NEW s, Install(f, s) PROVE RowsStep(f)
  <2> DEFINE i == CHOOSE x \in Instance : ~Referenced(x, flows, live)
             u == [t EXCEPT !.do = t.then, !.then = None, !.loop = i, !.state = None, !.expected = 0]
             instances == [x \in DOMAIN loops \cup {i} |-> IF x = i THEN s ELSE loops[x]]
  <2>1. Proceed(f, <<u>> \o Tail(flows[f]), instances, i)
    BY <1>6 DEF Install
  <2>2. u.kind = t.kind /\ u.in = t.in /\ u.items = t.items /\ u.row = t.row /\ u.do = t.then
    BY <1>4 DEF TaskFields
  <2> HIDE DEF u, instances, i
  <2>3. QED
    BY <1>5, <2>1, <2>2
<1>7. CASE LoadLive(f)
  <2> DEFINE u == [t EXCEPT !.do = t.then, !.then = None, !.loop = live]
  <2>1. Proceed(f, <<u>> \o Tail(flows[f]), loops, live)
    BY <1>7 DEF LoadLive, Become
  <2>2. u.kind = t.kind /\ u.in = t.in /\ u.items = t.items /\ u.row = t.row /\ u.do = t.then
    BY <1>4 DEF TaskFields
  <2> HIDE DEF u
  <2>3. QED
    BY <1>5, <2>1, <2>2
<1>8. CASE LoadCold(f)
  <2> DEFINE u == [t EXCEPT !.do = "head"]
  <2>1. Proceed(f, <<u>> \o Tail(flows[f]), loops, live)
    BY <1>8 DEF LoadCold, Become
  <2>2. u.kind = t.kind /\ u.in = t.in /\ u.items = t.items /\ u.row = t.row /\ u.do \in Loadings /\ u.then = t.then
    BY <1>4 DEF TaskFields, Loadings
  <2> HIDE DEF u
  <2>3. QED
    BY <1>5, <2>1, <2>2
<1>9. CASE GetLogHead(f)
  <2> DEFINE u == [t EXCEPT !.do = "headreply", !.expected = Len(log)]
  <2>1. Proceed(f, <<u>> \o Tail(flows[f]), loops, live)
    BY <1>9 DEF GetLogHead, Become
  <2>2. u.kind = t.kind /\ u.in = t.in /\ u.items = t.items /\ u.row = t.row /\ u.do \in Loadings /\ u.then = t.then
    BY <1>4 DEF TaskFields, Loadings
  <2> HIDE DEF u
  <2>3. QED
    BY <1>5, <2>1, <2>2
<1>10. CASE CompareHead(f)
  <2> DEFINE base == IF CachedThrough(t.expected) = None THEN InitialState ELSE cache
             u == [t EXCEPT !.do = "tail", !.state = base]
  <2>1. Install(f, base) \/ Proceed(f, <<u>> \o Tail(flows[f]), loops, live)
    BY <1>10 DEF CompareHead, Become
  <2> HIDE DEF base
  <2>2. u.kind = t.kind /\ u.in = t.in /\ u.items = t.items /\ u.row = t.row /\ u.do \in Loadings /\ u.then = t.then
    BY <1>4 DEF TaskFields, Loadings
  <2> HIDE DEF u
  <2>3. QED
    BY <1>5, <1>6, <2>1, <2>2
<1>11. CASE ReadTail(f)
  <2> DEFINE s == FoldEvents(t.state, SubSeq(log, t.state.lastSeq + 1, Len(log)))
             u == [t EXCEPT !.do = "tailreply", !.state = s]
  <2>1. Proceed(f, <<u>> \o Tail(flows[f]), loops, live)
    BY <1>4, <1>11 DEF ReadTail, Become, TaskFields
  <2> HIDE DEF s
  <2>2. u.kind = t.kind /\ u.in = t.in /\ u.items = t.items /\ u.row = t.row /\ u.do \in Loadings /\ u.then = t.then
    BY <1>4 DEF TaskFields, Loadings
  <2> HIDE DEF u
  <2>3. QED
    BY <1>5, <2>1, <2>2
<1>12. CASE LoadTail(f)
  BY <1>6, <1>12 DEF LoadTail
<1>13. QED
  BY <1>7, <1>8, <1>9, <1>10, <1>11, <1>12

\* A step is run.
LEMMA RunStepRows ==
  ASSUME NEW f \in Flow, DriverInv, OneFlowInv(f), RowsInv(f), RunStep(f)
  PROVE  RowsStep(f)
<1> DEFINE t == Current(f)
           out == Step(State(f), t.in)
           u == [t EXCEPT !.do = "send", !.items = out.append, !.effects = out.effects]
<1>1. /\ At(f, "step") /\ log' = log /\ outbox' = outbox /\ running' = running
      /\ (out = Empty /\ Proceed(f, Tail(flows[f]), loops, live)) \/ Proceed(f, <<u>> \o Tail(flows[f]), loops, live)
  BY DEF RunStep, Pop, Become, durable
<1>2. /\ t.do = "step" /\ IsTask(t, IdsOf(log), DOMAIN loops) /\ IsLog(log) /\ Books(log)
      /\ State(f) = TruthOf(log)
  BY <1>1, AtOne, CurrentFair DEF WithLoop
<1>3. t.kind = "step" /\ out = Step(TruthOf(log), t.in) /\ t = [x \in TaskFields |-> t[x]] /\ Acts(t) = "step"
  BY <1>2 DEF IsTask, Acts, Loadings
<1> HIDE DEF out
<1>4. CASE out = Empty /\ Proceed(f, Tail(flows[f]), loops, live)
  <2> DEFINE items == out.append
  <2>1. items = Step(TruthOf(log), t.in).append /\ \A i \in DOMAIN items : items[i].id \in IdsOf(log)
    BY <1>3, <1>4 DEF Empty, Output
  <2> HIDE DEF items
  <2>2. \A e : Begun(log, e) /\ Failing(t, e.id) => Safe(log, e.id)
    <3>1. SUFFICES ASSUME NEW e, Begun(log, e), Failing(t, e.id) PROVE Safe(log, e.id)
      OBVIOUS
    <3>2. t.in.type = "failed" /\ t.in.arg.effect = e.id
      BY <3>1 DEF Failing
    <3>3. QED
      BY <1>2, <2>1, <3>1, <3>2, FailingOver
  <2>3. /\ RunningFair(running', log) /\ \A e \in EffectsOf(outbox') : Begun(log, e)
        /\ DropsNone(EffectsOf(outbox), EffectsOf(outbox'), TruthOf(log))
    BY <1>1 DEF RowsInv, DropsNone
  <2>4. QED
    BY <1>1, <1>4, <2>2, <2>3, RowsPop
<1>5. CASE Proceed(f, <<u>> \o Tail(flows[f]), loops, live)
  <2>1. u.do = "send" /\ u.kind = "step" /\ u.in = t.in
    BY <1>3 DEF TaskFields
  <2> HIDE DEF u
  <2>2. Acts(u) = "send"
    BY <2>1 DEF Acts, Loadings
  <2>3. TopFair(u, log, EffectsOf(outbox)) /\ ~Suspends(u) /\ \A id : Failing(t, id) => Failing(u, id)
    BY <1>3, <2>1, <2>2 DEF TopFair, Suspends, Failing, Stepping
  <2>4. u.do # "delete"
    BY <2>1
  <2>5. QED
    BY <1>1, <1>5, <2>3, <2>4, RowsBecome
<1>6. QED
  BY <1>1, <1>4, <1>5

\* An append goes to the store, or its reply is looked at.
LEMMA SendReplyRows ==
  ASSUME NEW f \in Flow, DriverInv, OneFlowInv(f), RowsInv(f), Send(f) \/ Reply(f)
  PROVE  RowsStep(f)
<1> DEFINE t == Current(f)
<1>1. PICK do \in {"send", "reply"} : At(f, do)
  BY DEF Send, Reply
<1>2. log' = log /\ outbox' = outbox /\ running' = running
  BY DEF Send, Reply, durable
<1>3. t.do = do /\ TopFair(t, log, EffectsOf(outbox)) /\ IsTask(t, IdsOf(log), DOMAIN loops)
  BY <1>1, CurrentFair
<1>4. t = [x \in TaskFields |-> t[x]]
  BY <1>3 DEF IsTask
<1>5. \E u : /\ Proceed(f, <<u>> \o Tail(flows[f]), loops, live)
             /\ u.kind = t.kind /\ u.in = t.in /\ u.items = t.items /\ u.row = t.row
             /\ u.do = IF do = "send" THEN "commit" ELSE "fold"
  <2>1. CASE Send(f)
    <3> DEFINE u == [t EXCEPT !.do = "commit", !.expected = State(f).lastSeq]
    <3>1. Proceed(f, <<u>> \o Tail(flows[f]), loops, live) /\ do = "send"
      BY <1>3, <2>1 DEF Send, Become, At
    <3>2. u.kind = t.kind /\ u.in = t.in /\ u.items = t.items /\ u.row = t.row /\ u.do = "commit"
      BY <1>4 DEF TaskFields
    <3> HIDE DEF u
    <3>3. QED
      BY <3>1, <3>2
  <2>2. CASE Reply(f)
    <3> DEFINE u == [t EXCEPT !.do = "fold", !.envs = After(t.envs, State(f).lastSeq)]
    <3>1. Proceed(f, <<u>> \o Tail(flows[f]), loops, live) /\ do = "reply"
      BY <1>3, <1>4, <2>2 DEF Reply, Become, At, TaskFields
    <3>2. u.kind = t.kind /\ u.in = t.in /\ u.items = t.items /\ u.row = t.row /\ u.do = "fold"
      BY <1>4 DEF TaskFields
    <3> HIDE DEF u
    <3>3. QED
      BY <3>1, <3>2
  <2>3. QED
    BY <2>1, <2>2
<1>6. PICK u : /\ Proceed(f, <<u>> \o Tail(flows[f]), loops, live)
               /\ u.kind = t.kind /\ u.in = t.in /\ u.items = t.items /\ u.row = t.row
               /\ u.do = IF do = "send" THEN "commit" ELSE "fold"
  BY <1>5
<1>7. Acts(t) = do /\ Acts(u) = u.do /\ do \in Appending /\ u.do \in Appending /\ u.do \notin {"stale", "delete"}
  BY <1>1, <1>3, <1>6 DEF Acts, Loadings, Appending
<1>8. TopFair(u, log, EffectsOf(outbox))
  <2>1. /\ t.kind = "outcome" => OutcomeFair(t, log, EffectsOf(outbox))
        /\ t.kind = "suspend" => SuspendFair(t, log)
        /\ t.kind = "stranded" => Strands(t.items)
    BY <1>3, <1>7 DEF TopFair
  <2>2. t.kind = "outcome" => OutcomeFair(u, log, EffectsOf(outbox))
    BY <1>6, <1>7, <2>1 DEF OutcomeFair
  <2>3. t.kind = "suspend" => SuspendFair(u, log)
    BY <1>3, <1>6, <1>7, <2>1 DEF SuspendFair
  <2>4. QED
    BY <1>6, <1>7, <2>1, <2>2, <2>3 DEF TopFair, Appending
<1>9. (Suspends(u) => Suspends(t)) /\ \A id : Failing(t, id) => Failing(u, id)
  BY <1>6, <1>7 DEF Suspends, Failing, Stepping, Appending
<1>10. QED
  BY <1>1, <1>2, <1>6, <1>7, <1>8, <1>9, RowsBecome

\* What is sent to the store fits.
LEMMA CommitFits ==
  ASSUME NEW f \in Flow, DriverInv, OneFlowInv(f), RowsInv(f), At(f, "commit")
  PROVE  Fits(log, Current(f).items) /\ (Current(f).kind # "suspend" => NoWait(Current(f).items))
<1> DEFINE t == Current(f)
           items == t.items
<1>1. /\ t.do = "commit" /\ TopFair(t, log, EffectsOf(outbox)) /\ Acts(t) = "commit" /\ "commit" \in Appending
      /\ IsTask(t, IdsOf(log), DOMAIN loops) /\ IsLog(log) /\ IsSeq(log) /\ Books(log)
  BY CurrentFair DEF Loadings, Appending
<1>2. TopOK(t, live, log, loops)
  BY AtOne
<1>3. t.kind \in {"step", "outcome", "suspend", "stranded"} /\ \E tags : Batch(items, tags)
  BY <1>1 DEF IsTask
<1>4. PICK tags : Batch(items, tags)
  BY <1>3
<1>5. CASE t.kind = "step"
  <2>1. items = Step(TruthOf(log), t.in).append /\ IsIncoming(t.in)
    BY <1>1, <1>2, <1>5 DEF TopOK, IsTask
  <2>2. IsState(TruthOf(log))
    BY <1>1, TruthIs
  <2>3. Settling(TruthOf(log), items) \/ SaysWaiting(TruthOf(log), items)
    BY <2>1, <2>2, StepSettles
  <2>4. QED
    BY <1>1, <1>4, <2>3, SettlingFits, WaitingFits
<1>6. CASE t.kind = "outcome"
  <2>1. OutcomeFair(t, log, EffectsOf(outbox))
    BY <1>1, <1>6 DEF TopFair
  <2>2. PICK x : items = <<x>> /\ x.id = EndId(t.row.effect)
    BY <2>1 DEF OutcomeFair
  <2>3. Begun(log, t.row.effect)
    BY <2>1 DEF OutcomeFair
  <2>4. IsEvent(x)
    BY <1>4, <2>2 DEF Batch
  <2>5. QED
    BY <1>1, <2>2, <2>3, <2>4, OutcomeFits
<1>7. CASE t.kind = "suspend"
  <2>1. SuspendFair(t, log)
    BY <1>1, <1>7 DEF TopFair
  <2>2. items = SuspendItems(TruthOf(log), t.row.effect.id[2]) /\ <<"started", t.row.effect.id[2]>> \in IdsOf(log)
    BY <1>1, <2>1 DEF SuspendFair, Begun
  <2>3. QED
    BY <1>1, <1>7, <2>2, SuspendFits
<1>8. CASE t.kind = "stranded"
  <2>1. Settling(TruthOf(log), items)
    BY <1>1, <1>8 DEF TopFair, Strands
  <2>2. QED
    BY <1>1, <1>4, <2>1, SettlingFits
<1>9. QED
  BY <1>3, <1>5, <1>6, <1>7, <1>8

\* The store commits an append.
LEMMA CommitRows ==
  ASSUME NEW f \in Flow, DriverInv, OneFlowInv(f), RowsInv(f), At(f, "commit"),
         AppendError(Current(f).expected, Current(f).items) = None,
         log' = log \o Inserted(Current(f).items), outbox' = outbox, running' = running,
         Become(f, [Current(f) EXCEPT !.do = "reply", !.envs = Envelopes(Current(f).items)])
  PROVE  RowsStep(f)
<1> DEFINE t == Current(f)
           items == t.items
           F == EffectsOf(outbox)
           l == log \o Inserted(items)
           u == [t EXCEPT !.do = "reply", !.envs = Envelopes(items)]
           new == <<u>>
<1>1. /\ t.do = "commit" /\ TopFair(t, log, F) /\ Acts(t) = "commit" /\ "commit" \in Appending
      /\ IsTask(t, IdsOf(log), DOMAIN loops) /\ IsLog(log) /\ IsSeq(log) /\ Books(log)
  BY CurrentFair DEF Loadings, Appending
<1>2. TopOK(t, live, log, loops)
  BY AtOne
<1>3. /\ t.kind \in {"step", "outcome", "suspend", "stranded"} /\ \E tags : Batch(items, tags)
      /\ t = [x \in TaskFields |-> t[x]]
  BY <1>1 DEF IsTask
<1>4. PICK tags : Batch(items, tags)
  BY <1>3
<1>5. Fits(log, items) /\ (t.kind # "suspend" => NoWait(items))
  BY CommitFits
<1>6. u.do = "reply" /\ u.kind = t.kind /\ u.items = items /\ u.row = t.row
  BY <1>3 DEF TaskFields
<1>7. Proceed(f, new \o Tail(flows[f]), loops, live)
  BY DEF Become
<1> HIDE DEF u
<1>8. IsSeq(new) /\ Len(new) = 1 /\ DOMAIN new = {1} /\ new[1] = u /\ new # <<>>
  BY SeqSingle
<1>9. l = log' /\ l = log \o Inserted(items) /\ AppendError(t.expected, items) = None
  OBVIOUS
<1> HIDE DEF l, new, items
<1>10. /\ Books(l) /\ \A e : Begun(log, e) => Begun(l, e)
       /\ \A id : Safe(log, id) /\ (id[1] = "cred" => NoWait(items)) => Safe(l, id)
       /\ NoWait(items) => TruthOf(l).wait \in {TruthOf(log).wait, None}
       /\ \A i \in DOMAIN items : items[i].id \in IdsOf(l)
  BY <1>1, <1>4, <1>5, <1>9, CommitKeeps
<1>11. Acts(u) = "reply" /\ "reply" \in Appending
  BY <1>6 DEF Acts, Loadings, Appending
<1>12. TopFair(u, l, F)
  <2>1. /\ t.kind = "outcome" => OutcomeFair(t, log, F)
        /\ t.kind = "suspend" => SuspendFair(t, log)
        /\ t.kind = "stranded" => Strands(items)
    BY <1>1 DEF TopFair, items
  <2>2. t.kind = "outcome" => OutcomeFair(u, l, F)
    BY <1>6, <1>10, <2>1 DEF OutcomeFair, items
  <2>3. t.kind = "suspend" => SuspendFair(u, l)
    BY <1>6, <1>10, <2>1 DEF SuspendFair
  <2>4. QED
    BY <1>6, <1>11, <2>1, <2>2, <2>3 DEF TopFair
<1>13. Suspends(u) => Suspends(t)
  BY <1>1, <1>6, <1>11 DEF Suspends
<1>14. Suspends(t) \/ \A e : Begun(log, e) /\ Safe(log, e.id) => Safe(l, e.id)
  <2>1. CASE t.kind = "suspend"
    BY <1>1, <2>1 DEF Suspends
  <2>2. CASE t.kind # "suspend"
    BY <1>5, <1>10, <2>2
  <2>3. QED
    BY <2>1, <2>2
<1>15. ASSUME NEW e, Begun(log, e), Failing(t, e.id) PROVE Safe(l, e.id)
  <2>1. t.kind = "step" /\ t.in.type = "failed" /\ t.in.arg.effect = e.id
    BY <1>15 DEF Failing, Stepping
  <2>2. items = Step(TruthOf(log), t.in).append
    BY <1>1, <1>2, <2>1 DEF TopOK, items
  <2>3. NoWait(items)
    BY <1>5, <2>1
  <2>4. Begun(l, e) /\ (Safe(log, e.id) => Safe(l, e.id)) /\ TruthOf(l).wait \in {TruthOf(log).wait, None}
    BY <1>10, <1>15, <2>3
  <2>5. QED
    BY <1>1, <1>10, <1>15, <2>1, <2>2, <2>4, FailingOver
<1>16. /\ F = EffectsOf(outbox') /\ (\A e \in F : Begun(l, e)) /\ RunningFair(running', l)
  BY <1>10 DEF RowsInv, RunningFair, RunFair
<1>17. \A k \in DOMAIN new : (k > 1 => Lower(new[k])) /\ new[k].do # "delete"
  BY <1>6, <1>8
<1> HIDE DEF F
<1>18. RowsInv(f)'
  <2>1. new # <<>> => TopFair(new[1], l, F) /\ (Suspends(new[1]) => Len(new) = 1 /\ Suspends(t))
    BY <1>8, <1>12, <1>13
  <2>2. \A e : Begun(log, e) /\ Failing(t, e.id) => Safe(l, e.id) \/ (new # <<>> /\ Failing(new[1], e.id))
    BY <1>15
  <2>3. QED
    BY <1>7, <1>8, <1>9, <1>10, <1>14, <1>16, <1>17, <2>1, <2>2, RowsGoOn
<1>19. QED
  BY <1>16, <1>18 DEF RowsStep, DropsNone, F

\* The store refuses an append.
LEMMA RefusedRows ==
  ASSUME NEW f \in Flow, DriverInv, OneFlowInv(f), RowsInv(f), At(f, "commit"),
         NEW error, error = AppendError(Current(f).expected, Current(f).items), error # None,
         log' = log, outbox' = outbox, running' = running,
         Become(f, [Current(f) EXCEPT !.do = "stale", !.code = error])
  PROVE  RowsStep(f)
<1> DEFINE t == Current(f)
           F == EffectsOf(outbox)
           u == [t EXCEPT !.do = "stale", !.code = error]
<1>1. /\ t.do = "commit" /\ TopFair(t, log, F) /\ Acts(t) = "commit" /\ "commit" \in Appending
      /\ IsTask(t, IdsOf(log), DOMAIN loops) /\ IsLog(log) /\ Books(log)
  BY CurrentFair DEF Loadings, Appending
<1>2. t.expected = Len(log)
  BY <1>1, AtOne DEF TopOK
<1>3. t = [x \in TaskFields |-> t[x]]
  BY <1>1 DEF IsTask
<1>4. u.do = "stale" /\ u.kind = t.kind /\ u.items = t.items /\ u.row = t.row /\ u.in = t.in /\ u.code = error
  BY <1>3 DEF TaskFields
<1>5. Proceed(f, <<u>> \o Tail(flows[f]), loops, live)
  BY DEF Become
<1> HIDE DEF u
<1>6. Acts(u) = "stale" /\ "stale" \in Appending
  BY <1>4 DEF Acts, Loadings, Appending
<1>7. TopFair(u, log, F)
  <2>1. /\ t.kind = "outcome" => OutcomeFair(t, log, F)
        /\ t.kind = "suspend" => SuspendFair(t, log)
        /\ t.kind = "stranded" => Strands(t.items)
    BY <1>1 DEF TopFair
  <2>2. ASSUME t.kind = "outcome" PROVE OutcomeFair(u, log, F)
    <3>1. OutcomeFair(t, log, F)
      BY <2>1, <2>2
    <3>2. PICK x : t.items = <<x>> /\ x.id = EndId(t.row.effect)
      BY <3>1 DEF OutcomeFair
    <3>3. error # "head-conflict" => x.id \in IdsOf(log)
      BY <3>2, OutcomeRefused
    <3>4. QED
      BY <1>4, <3>1, <3>2, <3>3 DEF OutcomeFair
  <2>3. ASSUME t.kind = "suspend" PROVE SuspendFair(u, log)
    <3>1. SuspendFair(t, log)
      BY <2>1, <2>3
    <3> DEFINE msg == t.row.effect.id[2]
    <3>2. t.items = SuspendItems(TruthOf(log), msg) /\ <<"started", msg>> \in IdsOf(log)
      BY <1>1, <3>1 DEF SuspendFair, Begun
    <3> HIDE DEF msg
    <3>3. <<"terminal", msg>> \in IdsOf(log)
      BY <1>1, <1>2, <3>2, SuspendRefused
    <3>4. QED
      BY <1>4, <3>1, <3>3 DEF SuspendFair, msg
  <2>4. QED
    BY <1>4, <1>6, <2>1, <2>2, <2>3 DEF TopFair
<1>8. (Suspends(u) => Suspends(t)) /\ \A id : Failing(t, id) => Failing(u, id)
  BY <1>1, <1>4, <1>6 DEF Suspends, Failing, Stepping
<1>9. u.do # "delete"
  BY <1>4
<1>10. QED
  BY <1>5, <1>7, <1>8, <1>9, RowsBecome

\* The store answers an append.
LEMMA AnsweredRows ==
  ASSUME NEW f \in Flow, DriverInv, OneFlowInv(f), RowsInv(f), Commit(f)
  PROVE  RowsStep(f)
<1> DEFINE error == AppendError(Current(f).expected, Current(f).items)
<1>1. At(f, "commit") /\ outbox' = outbox /\ running' = running
  BY DEF Commit
<1>2. CASE error = None
  <2>1. log' = log \o Inserted(Current(f).items) /\ Become(f, [Current(f) EXCEPT !.do = "reply", !.envs = Envelopes(Current(f).items)])
    BY <1>2 DEF Commit
  <2>2. QED
    BY <1>1, <1>2, <2>1, CommitRows
<1>3. CASE error # None
  <2>1. log' = log /\ Become(f, [Current(f) EXCEPT !.do = "stale", !.code = error])
    BY <1>3 DEF Commit
  <2> HIDE DEF error
  <2>2. error = AppendError(Current(f).expected, Current(f).items)
    BY DEF error
  <2>3. QED
    BY <1>1, <1>3, <2>1, <2>2, RefusedRows
<1>4. QED
  BY <1>2, <1>3

\* The flow goes on with tasks that need nothing, on the same journal; no row is
\* dropped that counts.
LEMMA RowsLower ==
  ASSUME NEW f \in Flow, DriverInv, OneFlowInv(f), RowsInv(f), NEW do, At(f, do),
         NEW new, IsSeq(new), NEW instances, NEW map, Proceed(f, new \o Tail(flows[f]), instances, map),
         log' = log, RunningFair(running', log), \A e \in EffectsOf(outbox') : Begun(log, e),
         DropsNone(EffectsOf(outbox), EffectsOf(outbox'), TruthOf(log)),
         \A k \in DOMAIN new : Lower(new[k]) /\ new[k].do # "delete",
         \A e : Begun(log, e) /\ Failing(Current(f), e.id) =>
           Safe(log, e.id) \/ (new # <<>> /\ Failing(new[1], e.id))
  PROVE  RowsStep(f)
<1>1. Books(log)
  BY DEF RowsInv
<1>2. new # <<>> => 1 \in DOMAIN new
  <2>1. SUFFICES ASSUME new # <<>> PROVE 1 \in DOMAIN new
    OBVIOUS
  <2>2. QED
    BY <2>1, SeqTail, SeqDomain
<1>3. new # <<>> => TopFair(new[1], log, EffectsOf(outbox')) /\ (Suspends(new[1]) => Len(new) = 1 /\ Suspends(Current(f)))
  BY <1>2, LowerIsFair
<1>4. RowsInv(f)'
  BY <1>1, <1>3, RowsGoOn
<1>5. QED
  BY <1>4 DEF RowsStep

\* A step that was appended begins the effects it asks for.
LEMMA StartedBegun ==
  ASSUME NEW items, NEW effects, Starts(items, effects), NEW l, ItemsIn(items, IdsOf(l)), NEW e \in effects
  PROVE  Begun(l, e)
<1>1. e.id[1] \in {"model", "inv"} /\ \E i \in DOMAIN items : items[i].id = StartId(e.id)
  BY DEF Starts
<1>2. StartId(e.id) \in IdsOf(l)
  BY <1>1 DEF ItemsIn
<1>3. QED
  BY <1>1, <1>2 DEF Begun, StartId, IsEffect

\* The row of an effect that the journal ends is deleted.
LEMMA EndedDrops ==
  ASSUME NEW l, Books(l), NEW e, IsEffect(e), EndId(e) \in IdsOf(l), NEW F, e.id[1] = "cred" => \A d \in F : d.id = e.id => d = e
  PROVE  DropsNone(F, {d \in F : d.id # e.id}, TruthOf(l))
<1>1. \A d \in F : d.id = e.id => d \notin PendingEffects(TruthOf(l))
  BY EndedNotPending
<1>2. QED
  BY <1>1 DEF DropsNone

\* The envelopes are folded, and the rows are what the caller makes of them.
LEMMA FoldRows ==
  ASSUME NEW f \in Flow, DriverInv, OneFlowInv(f), RowsInv(f), Fold(f)
  PROVE  RowsStep(f)
<1> DEFINE t == Current(f)
           s == FoldEvents(State(f), t.envs)
           next == CASE t.kind = "step" -> Cascade(t.loop, t.envs, t.retries)
                     [] t.kind = "outcome" -> Cascade(t.loop, t.envs, AppendRetries)
                     [] t.kind \in {"suspend", "stranded"} -> <<>>
           instances == [loops EXCEPT ![t.loop] = s]
           F == EffectsOf(outbox)
           F2 == EffectsOf(outbox')
<1>1. /\ At(f, "fold") /\ Proceed(f, next \o Tail(flows[f]), instances, live)
      /\ log' = log /\ running' = running
      /\ outbox' = CASE t.kind = "step" -> Insert(outbox, t.effects)
                     [] t.kind = "outcome" -> Delete(outbox, t.row.effect.id)
                     [] t.kind = "suspend" -> Reconciled(Delete(outbox, t.row.effect.id), s)
                     [] t.kind = "stranded" -> outbox
  BY DEF Fold
<1>2. /\ t.do = "fold" /\ TopFair(t, log, F) /\ Acts(t) = "fold" /\ "fold" \in Appending
      /\ IsTask(t, IdsOf(log), DOMAIN loops) /\ IsLog(log) /\ Books(log)
  BY <1>1, CurrentFair DEF Loadings, Appending
<1>3. /\ IsSeq(t.envs) /\ t.kind \in {"step", "outcome", "suspend", "stranded"}
      /\ ItemsIn(t.items, IdsOf(log)) /\ (t.kind = "step" => Starts(t.items, t.effects))
  BY <1>2 DEF IsTask, GoodEvents
<1>4. s = TruthOf(log)
  BY <1>1, <1>2, AtOne DEF TopOK, State
<1> HIDE DEF s, instances
<1>5. IsSeq(next) /\ \A k \in DOMAIN next : Lower(next[k]) /\ next[k].do # "delete"
  <2>1. \A r : LET c == Cascade(t.loop, t.envs, r)
               IN  IsSeq(c) /\ \A k \in DOMAIN c : c[k].do = "step"
    BY <1>3, CascadeOne
  <2>2. \/ next = Cascade(t.loop, t.envs, t.retries) \/ next = Cascade(t.loop, t.envs, AppendRetries)
        \/ next = <<>>
    BY <1>3
  <2> HIDE DEF next
  <2>3. IsSeq(next) /\ \A k \in DOMAIN next : next[k].do = "step"
    BY <2>1, <2>2, SeqEmpty
  <2>4. QED
    BY <2>3 DEF Lower, Acts, Loadings, Appending
<1> HIDE DEF next
<1>6. (\A e \in F : Begun(log, e)) /\ RunningFair(running', log)
  BY <1>1 DEF RowsInv
<1>7. (\A e \in F2 : Begun(log, e)) /\ DropsNone(F, F2, TruthOf(log))
  <2>1. CASE t.kind = "step"
    <3>1. outbox' = Insert(outbox, t.effects) /\ \A e \in t.effects : Begun(log, e)
      BY <1>1, <1>3, <2>1, StartedBegun
    <3>2. F \subseteq F2 /\ F2 \subseteq F \cup t.effects
      BY <3>1, EffectsInsert
    <3>3. QED
      BY <1>6, <3>1, <3>2 DEF DropsNone
  <2>2. CASE t.kind = "outcome"
    <3> DEFINE e == t.row.effect
    <3>1. outbox' = Delete(outbox, e.id)
      BY <1>1, <2>2
    <3>2. F2 = {d \in F : d.id # e.id}
      BY <3>1, EffectsDelete
    <3>3. OutcomeFair(t, log, F)
      BY <1>2, <2>2 DEF TopFair
    <3>4. IsEffect(e) /\ (e.id[1] = "cred" => \A d \in F : d.id = e.id => d = e)
      BY <3>3 DEF OutcomeFair, Begun
    <3>5. EndId(e) \in IdsOf(log)
      <4>1. PICK x : t.items = <<x>> /\ x.id = EndId(e)
        BY <3>3 DEF OutcomeFair
      <4>2. 1 \in DOMAIN t.items /\ t.items[1] = x
        BY <4>1
      <4>3. QED
        BY <1>3, <4>1, <4>2 DEF ItemsIn
    <3> HIDE DEF e, F, F2
    <3>6. DropsNone(F, F2, TruthOf(log))
      BY <1>2, <3>2, <3>4, <3>5, EndedDrops
    <3>7. QED
      BY <1>6, <3>2, <3>6
  <2>3. CASE t.kind = "suspend"
    <3> DEFINE rows == Delete(outbox, t.row.effect.id)
    <3>1. outbox' = Reconciled(rows, s)
      BY <1>1, <2>3
    <3>2. EffectsOf(rows) \subseteq F
      BY EffectsDelete
    <3> HIDE DEF rows
    <3>3. F2 \subseteq EffectsOf(rows) \cup PendingEffects(s) /\ \A e \in PendingEffects(s) : \E d \in F2 : d.id = e.id
      BY <3>1, EffectsReconciled
    <3>4. \A e \in PendingEffects(TruthOf(log)) : Begun(log, e)
      BY <1>2, PendingBegun
    <3> HIDE DEF F, F2
    <3>5. QED
      BY <1>4, <1>6, <3>2, <3>3, <3>4 DEF DropsNone
  <2>4. CASE t.kind = "stranded"
    <3>1. F2 = F
      BY <1>1, <2>4
    <3>2. QED
      BY <1>6, <3>1 DEF DropsNone
  <2>5. QED
    BY <1>3, <2>1, <2>2, <2>3, <2>4
<1>8. \A e : ~Failing(t, e.id)
  BY <1>2 DEF Failing, Stepping
<1>9. QED
  BY <1>1, <1>5, <1>6, <1>7, <1>8, RowsLower

-----------------------------------------------------------------------------
(* An append that is refused.                                              *)

\* Tasks that need nothing, and delete nothing.
Plain(q) == IsSeq(q) /\ \A k \in DOMAIN q : Lower(q[k]) /\ q[k].do # "delete"

\* A task that has to load its loop first, and needs nothing then.
LEMMA PlainTask ==
  ASSUME NEW t, t = [x \in TaskFields |-> t[x]], t.do \notin Appending \cup {"execute", "suspend"}
  PROVE  Lower(Loading(t)) /\ Loading(t).do # "delete"
<1> DEFINE u == Loading(t)
<1>1. u.do = "load" /\ u.then = t.do
  BY LoadingIs
<1> HIDE DEF u
<1>2. Lower(u) /\ u.do # "delete"
  BY <1>1 DEF Lower, Acts, Loadings
<1>3. QED
  BY <1>2 DEF u

\* A few of them.
LEMMA PlainFew ==
  /\ Plain(<<>>)
  /\ \A u : Lower(u) /\ u.do # "delete" => Plain(<<u>>)
  /\ \A u, w : Lower(u) /\ u.do # "delete" /\ Lower(w) /\ w.do # "delete" => Plain(<<u, w>>)
<1>1. Plain(<<>>)
  BY SeqEmpty DEF Plain
<1>2. ASSUME NEW u, Lower(u), u.do # "delete" PROVE Plain(<<u>>)
  BY <1>2, SingleTask DEF Plain
<1>3. ASSUME NEW u, Lower(u), u.do # "delete", NEW w, Lower(w), w.do # "delete" PROVE Plain(<<u, w>>)
  <2> DEFINE q == <<u, w>>
  <2>1. q \in Seq({u, w}) /\ DOMAIN q = 1 .. 2 /\ q[1] = u /\ q[2] = w
    OBVIOUS
  <2>2. IsSeq(q)
    BY <2>1 DEF IsSeq
  <2> HIDE DEF q
  <2>3. \A k \in 1 .. 2 : k = 1 \/ k = 2
    OBVIOUS
  <2>4. Plain(q)
    BY <1>3, <2>1, <2>2, <2>3 DEF Plain
  <2>5. QED
    BY <2>4 DEF q
<1>4. QED
  BY <1>1, <1>2, <1>3

\* Such tasks after such tasks.
LEMMA PlainConcat ==
  ASSUME NEW a, Plain(a), NEW b, Plain(b)
  PROVE  Plain(a \o b)
<1>1. IsSeq(a) /\ IsSeq(b)
  BY DEF Plain
<1>2. /\ IsSeq(a \o b)
      /\ \A i \in DOMAIN (a \o b) :
           (i \in DOMAIN a /\ (a \o b)[i] = a[i]) \/ \E k \in DOMAIN b : (a \o b)[i] = b[k]
  BY <1>1, ConcatElements
<1>3. QED
  BY <1>2 DEF Plain

\* settle, handleIncoming and wake.
LEMMA PlainEntries ==
  /\ Lower(Settle) /\ Settle.do # "delete"
  /\ \A in : Plain(HandleIncoming(in))
  /\ Plain(WakeTasks)
<1>1. \A do : Task(do) = [x \in TaskFields |-> Task(do)[x]] /\ Task(do).do = do
  BY TaskIs
<1>2. Lower(Settle) /\ Settle.do # "delete"
  BY <1>1, PlainTask DEF Settle, Appending
<1>3. ASSUME NEW in PROVE Plain(HandleIncoming(in))
  <2> DEFINE t == StepTask(in, AppendRetries)
  <2>1. t = [x \in TaskFields |-> t[x]] /\ t.do = "step"
    BY StepTaskIs
  <2> HIDE DEF t
  <2>2. Lower(Loading(t)) /\ Loading(t).do # "delete"
    BY <2>1, PlainTask DEF Appending
  <2>3. Plain(<<Loading(t), Settle>>)
    BY <1>2, <2>2, PlainFew
  <2>4. QED
    BY <2>3 DEF HandleIncoming, t
<1>4. Plain(WakeTasks)
  <2> DEFINE d == Task("drop")
             w == Loading(Task("wake"))
             r == Loading(Task("recover"))
             q == <<d, w, Settle, r>>
  <2>1. Lower(w) /\ w.do # "delete" /\ Lower(r) /\ r.do # "delete"
    BY <1>1, PlainTask DEF Appending
  <2>2. Lower(d) /\ d.do # "delete"
    BY <1>1 DEF Lower, Acts, Loadings, Appending
  <2>3. WakeTasks = q
    BY DEF WakeTasks
  <2> HIDE DEF d, w, r
  <2>4. q \in Seq({d, w, Settle, r}) /\ DOMAIN q = 1 .. 4 /\ \A k \in 1 .. 4 : q[k] \in {d, w, Settle, r}
    OBVIOUS
  <2> HIDE DEF q
  <2>5. QED
    BY <1>2, <2>1, <2>2, <2>3, <2>4 DEF Plain, IsSeq
<1>5. QED
  BY <1>2, <1>3, <1>4

\* What holds of the rows as they are.
LEMMA RowsSame ==
  ASSUME NEW f, RowsInv(f), running' = running, outbox' = outbox
  PROVE  /\ RunningFair(running', log) /\ \A e \in EffectsOf(outbox') : Begun(log, e)
         /\ DropsNone(EffectsOf(outbox), EffectsOf(outbox'), TruthOf(log))
BY DEF RowsInv, DropsNone

\* A step whose append was refused.
LEMMA StaleStepRows ==
  ASSUME NEW f \in Flow, DriverInv, OneFlowInv(f), RowsInv(f), StaleStep(f)
  PROVE  RowsStep(f)
<1> DEFINE t == Current(f)
           a == StepTask(t.in, t.retries - 1)
           again == [a EXCEPT !.loop = None]
           u == Loading(again)
<1>1. /\ At(f, "stale") /\ t.kind = "step" /\ log' = log /\ outbox' = outbox /\ running' = running
      /\ \/ Proceed(f, <<u>> \o Tail(flows[f]), loops, None)
         \/ t.in.type = "prompt" /\ Proceed(f, Tail(flows[f]), loops, live)
         \/ Proceed(f, <<>>, loops, live)
  BY DEF StaleStep, Pop, Throw, durable
<1>2. CASE Proceed(f, <<u>> \o Tail(flows[f]), loops, None)
  <2>1. /\ a = [x \in TaskFields |-> a[x]] /\ a.do = "step" /\ a.kind = "step" /\ a.in = t.in
    BY StepTaskIs
  <2> HIDE DEF a
  <2>2. /\ again = [x \in TaskFields |-> again[x]] /\ again.do = "step" /\ again.kind = "step" /\ again.in = t.in
    BY <2>1 DEF TaskFields
  <2> HIDE DEF again
  <2>3. u.do = "load" /\ u.then = "step" /\ u.kind = "step" /\ u.in = t.in
    BY <2>2, LoadingIs
  <2> HIDE DEF u
  <2>4. Acts(u) = "step" /\ Lower(u) /\ u.do # "delete"
    BY <2>3 DEF Acts, Loadings, Lower, Appending
  <2>5. TopFair(u, log, EffectsOf(outbox)) /\ ~Suspends(u)
    BY <2>4, LowerIsFair
  <2>6. \A id : Failing(t, id) => Failing(u, id)
    BY <2>3, <2>4 DEF Failing, Stepping
  <2>7. QED
    BY <1>1, <1>2, <2>4, <2>5, <2>6, RowsBecome
<1>3. CASE t.in.type = "prompt" /\ Proceed(f, Tail(flows[f]), loops, live)
  <2>1. \A id : ~Failing(t, id)
    BY <1>3 DEF Failing
  <2>2. QED
    BY <1>1, <1>3, <2>1, RowsSame, RowsPop
<1>4. CASE Proceed(f, <<>>, loops, live)
  BY <1>1, <1>4, RowsThrow
<1>5. QED
  BY <1>1, <1>2, <1>3, <1>4

\* applyOutcome: the row is deleted when the journal has the end of its effect.
LEMMA StaleOutcomeRows ==
  ASSUME NEW f \in Flow, DriverInv, OneFlowInv(f), RowsInv(f), StaleOutcome(f)
  PROVE  RowsStep(f)
<1> DEFINE t == Current(f)
           e == t.row.effect
           F == EffectsOf(outbox)
           F2 == EffectsOf(outbox')
           a == OutcomeTask(t.row, t.items)
           again == [a EXCEPT !.retries = t.retries - 1]
           u == Loading(again)
<1>1. /\ At(f, "stale") /\ t.kind = "outcome" /\ log' = log /\ running' = running
      /\ \/ Proceed(f, <<u>> \o Tail(flows[f]), loops, None) /\ outbox' = outbox
         \/ Proceed(f, <<>>, loops, live) /\ outbox' = outbox
         \/ /\ Proceed(f, Tail(flows[f]), loops, None) /\ t.code # "head-conflict"
            /\ outbox' = Delete(outbox, e.id)
  BY DEF StaleOutcome, Throw
<1>2. t.do = "stale" /\ TopFair(t, log, F) /\ Acts(t) = "stale" /\ "stale" \in Appending /\ Books(log)
  BY <1>1, CurrentFair DEF Loadings, Appending
<1>3. OutcomeFair(t, log, F)
  BY <1>1, <1>2 DEF TopFair
<1>4. \A id : ~Failing(t, id)
  BY <1>1 DEF Failing, Stepping
<1>5. CASE Proceed(f, <<u>> \o Tail(flows[f]), loops, None) /\ outbox' = outbox
  <2>1. /\ u.do = "load" /\ u.then = "send" /\ u.kind = "outcome" /\ u.row = t.row /\ u.items = t.items
    BY DEF OutcomeTask, Task, Loading
  <2> HIDE DEF u
  <2>2. Acts(u) = "send" /\ u.do # "delete" /\ ~Suspends(u)
    BY <2>1 DEF Acts, Loadings, Suspends
  <2>3. OutcomeFair(u, log, F)
    BY <1>3, <2>1 DEF OutcomeFair
  <2>4. TopFair(u, log, F)
    BY <2>1, <2>2, <2>3 DEF TopFair
  <2>5. QED
    BY <1>1, <1>4, <1>5, <2>2, <2>4, RowsBecome
<1>6. CASE Proceed(f, <<>>, loops, live) /\ outbox' = outbox
  BY <1>1, <1>6, RowsThrow
<1>7. CASE /\ Proceed(f, Tail(flows[f]), loops, None) /\ t.code # "head-conflict"
           /\ outbox' = Delete(outbox, e.id)
  <2>1. IsEffect(e) /\ EndId(e) \in IdsOf(log) /\ (e.id[1] = "cred" => \A d \in F : d.id = e.id => d = e)
    BY <1>2, <1>3, <1>7 DEF OutcomeFair, Begun
  <2>2. F2 = {d \in F : d.id # e.id}
    BY <1>7, EffectsDelete
  <2>3. (\A d \in F : Begun(log, d)) /\ RunningFair(running', log)
    BY <1>1 DEF RowsInv
  <2> HIDE DEF F, F2, e
  <2>4. DropsNone(F, F2, TruthOf(log)) /\ \A d \in F2 : Begun(log, d)
    BY <1>2, <2>1, <2>2, <2>3, EndedDrops
  <2>5. QED
    BY <1>1, <1>4, <1>7, <2>3, <2>4, RowsPop DEF F, F2
<1>8. QED
  BY <1>1, <1>5, <1>6, <1>7

\* suspendOnCredential: the call has its terminal, and its row is deleted.
LEMMA StaleSuspendRows ==
  ASSUME NEW f \in Flow, DriverInv, OneFlowInv(f), RowsInv(f), StaleSuspend(f)
  PROVE  RowsStep(f)
<1> DEFINE t == Current(f)
           e == t.row.effect
           F == EffectsOf(outbox)
           F2 == EffectsOf(outbox')
           new == <<Settle>>
<1>1. /\ At(f, "stale") /\ t.kind = "suspend" /\ log' = log /\ running' = running
      /\ Proceed(f, new \o Tail(flows[f]), loops, None) /\ outbox' = Delete(outbox, e.id)
  BY DEF StaleSuspend
<1>2. t.do = "stale" /\ TopFair(t, log, F) /\ Acts(t) = "stale" /\ "stale" \in Appending /\ Books(log)
  BY <1>1, CurrentFair DEF Loadings, Appending
<1>3. SuspendFair(t, log)
  BY <1>1, <1>2 DEF TopFair
<1>4. IsEffect(e) /\ e.id[1] = "model" /\ EndId(e) \in IdsOf(log)
  BY <1>2, <1>3 DEF SuspendFair, Begun, EndId
<1>5. F2 = {d \in F : d.id # e.id}
  BY <1>1, EffectsDelete
<1>6. (\A d \in F : Begun(log, d)) /\ RunningFair(running', log)
  BY <1>1 DEF RowsInv
<1> HIDE DEF F, F2, e
<1>7. DropsNone(F, F2, TruthOf(log)) /\ \A d \in F2 : Begun(log, d)
  BY <1>2, <1>4, <1>5, <1>6, EndedDrops
<1>8. Plain(new)
  BY PlainFew, PlainEntries
<1> HIDE DEF new
<1>9. IsSeq(new) /\ \A k \in DOMAIN new : Lower(new[k]) /\ new[k].do # "delete"
  BY <1>8 DEF Plain
<1>10. \A id : ~Failing(t, id)
  BY <1>1 DEF Failing, Stepping
<1>11. QED
  BY <1>1, <1>6, <1>7, <1>9, <1>10, RowsLower DEF F, F2

\* appendStrandedOpenTurnFailure after a reload.
LEMMA StaleStrandedRows ==
  ASSUME NEW f \in Flow, DriverInv, OneFlowInv(f), RowsInv(f), StaleStranded(f)
  PROVE  RowsStep(f)
<1> DEFINE t == Current(f)
           F == EffectsOf(outbox)
           again == [t EXCEPT !.do = "restrand", !.retries = 0]
           u == Loading(again)
<1>1. /\ At(f, "stale") /\ t.kind = "stranded" /\ log' = log /\ outbox' = outbox /\ running' = running
      /\ \/ Proceed(f, <<u>> \o Tail(flows[f]), loops, None)
         \/ Proceed(f, <<>>, loops, live)
  BY DEF StaleStranded, Throw, durable
<1>2. /\ t.do = "stale" /\ TopFair(t, log, F) /\ Acts(t) = "stale" /\ "stale" \in Appending
      /\ IsTask(t, IdsOf(log), DOMAIN loops)
  BY <1>1, CurrentFair DEF Loadings, Appending
<1>3. CASE Proceed(f, <<u>> \o Tail(flows[f]), loops, None)
  <2>1. again = [x \in TaskFields |-> again[x]] /\ again.do = "restrand" /\ again.kind = t.kind /\ again.items = t.items
    BY <1>2 DEF IsTask, TaskFields
  <2> HIDE DEF again
  <2>2. u.do = "load" /\ u.then = "restrand" /\ u.kind = "stranded" /\ u.items = t.items
    BY <1>1, <2>1, LoadingIs
  <2> HIDE DEF u
  <2>3. Acts(u) = "restrand" /\ u.do # "delete" /\ ~Suspends(u)
    BY <2>2 DEF Acts, Loadings, Suspends
  <2>4. TopFair(u, log, F)
    BY <1>1, <1>2, <2>2, <2>3 DEF TopFair
  <2>5. \A id : ~Failing(t, id)
    BY <1>1 DEF Failing, Stepping
  <2>6. QED
    BY <1>1, <1>3, <2>3, <2>4, <2>5, RowsBecome
<1>4. CASE Proceed(f, <<>>, loops, live)
  BY <1>1, <1>4, RowsThrow
<1>5. QED
  BY <1>1, <1>3, <1>4

\* A stranded turn is looked at again.
LEMMA RetryStrandedRows ==
  ASSUME NEW f \in Flow, DriverInv, OneFlowInv(f), RowsInv(f), RetryStranded(f)
  PROVE  RowsStep(f)
<1> DEFINE t == Current(f)
           F == EffectsOf(outbox)
           u == [t EXCEPT !.do = "send"]
<1>1. /\ At(f, "restrand") /\ log' = log /\ outbox' = outbox /\ running' = running
      /\ Proceed(f, <<u>> \o Tail(flows[f]), loops, live) \/ Proceed(f, Tail(flows[f]), loops, live)
  BY DEF RetryStranded, Pop, Become, durable
<1>2. /\ t.do = "restrand" /\ TopFair(t, log, F) /\ Acts(t) = "restrand" /\ "restrand" \in Appending
      /\ IsTask(t, IdsOf(log), DOMAIN loops)
  BY <1>1, CurrentFair DEF Loadings, Appending
<1>3. \A id : ~Failing(t, id)
  BY <1>2 DEF Failing, Stepping
<1>4. CASE Proceed(f, <<u>> \o Tail(flows[f]), loops, live)
  <2>1. u.do = "send" /\ u.kind = t.kind /\ u.items = t.items /\ u.row = t.row
    BY <1>2 DEF IsTask, TaskFields
  <2> HIDE DEF u
  <2>2. Acts(u) = "send" /\ u.do # "delete"
    BY <2>1 DEF Acts, Loadings
  <2>3. /\ t.kind = "outcome" => OutcomeFair(t, log, F)
        /\ t.kind # "suspend"
        /\ t.kind = "stranded" => Strands(t.items)
    BY <1>2 DEF TopFair, SuspendFair
  <2>4. t.kind = "outcome" => OutcomeFair(u, log, F)
    BY <2>1, <2>3 DEF OutcomeFair
  <2>5. TopFair(u, log, F) /\ ~Suspends(u)
    BY <2>1, <2>2, <2>3, <2>4 DEF TopFair, Suspends
  <2>6. QED
    BY <1>1, <1>3, <1>4, <2>2, <2>5, RowsBecome
<1>5. CASE Proceed(f, Tail(flows[f]), loops, live)
  BY <1>1, <1>3, <1>5, RowsSame, RowsPop
<1>6. QED
  BY <1>1, <1>4, <1>5

-----------------------------------------------------------------------------
(* Wake, recovery and the tasks that are done in one step.                 *)

\* The call that is in flight is taken up, unless somebody has it.
LEMMA WakeLoopRows ==
  ASSUME NEW f \in Flow, DriverInv, OneFlowInv(f), RowsInv(f), WakeLoop(f)
  PROVE  RowsStep(f)
<1> DEFINE t == Current(f)
           a == StepTask(Incoming("wake", None), AppendRetries)
           u == [a EXCEPT !.loop = t.loop]
<1>1. /\ At(f, "wake") /\ log' = log /\ outbox' = outbox /\ running' = running
      /\ Proceed(f, <<u>> \o Tail(flows[f]), loops, live) \/ Proceed(f, Tail(flows[f]), loops, live)
  BY DEF WakeLoop, Pop, Become, durable
<1>2. t.do = "wake" /\ Acts(t) = "wake"
  BY <1>1, CurrentFair DEF Loadings
<1>3. \A id : ~Failing(t, id)
  BY <1>2 DEF Failing, Stepping
<1>4. CASE Proceed(f, <<u>> \o Tail(flows[f]), loops, live)
  <2>1. a = [x \in TaskFields |-> a[x]] /\ a.do = "step"
    BY StepTaskIs
  <2> HIDE DEF a
  <2>2. u.do = "step"
    BY <2>1 DEF TaskFields
  <2> HIDE DEF u
  <2>3. Lower(u) /\ u.do # "delete"
    BY <2>2 DEF Lower, Acts, Loadings, Appending
  <2>4. TopFair(u, log, EffectsOf(outbox)) /\ ~Suspends(u)
    BY <2>3, LowerIsFair
  <2>5. QED
    BY <1>1, <1>3, <1>4, <2>3, <2>4, RowsBecome
<1>5. CASE Proceed(f, Tail(flows[f]), loops, live)
  BY <1>1, <1>3, <1>5, RowsSame, RowsPop
<1>6. QED
  BY <1>1, <1>4, <1>5

\* The failure of a stranded turn ends no effect.
LEMMA StrandedStrands ==
  ASSUME NEW turn
  PROVE  Strands(StrandedFailure(turn))
<1> DEFINE m == <<"recovery", turn>>
           x == [MessageFailed(m, "fatal") EXCEPT !.turn = turn]
           y == TurnClosed(turn)
           q == <<x, y>>
<1>1. x.id = <<"terminal", m>> /\ y.id = <<"closed", turn>>
  BY DEF MessageFailed, TurnClosed, Event
<1>2. StrandedFailure(turn) = q
  BY DEF StrandedFailure
<1>3. m[1] = "recovery"
  OBVIOUS
<1> HIDE DEF m, x, y
<1>4. x.id[1] = "terminal" /\ x.id[2] = m /\ y.id[1] = "closed"
  BY <1>1
<1>5. q \in Seq({x, y}) /\ DOMAIN q = 1 .. 2 /\ q[1] = x /\ q[2] = y /\ \A k \in 1 .. 2 : k = 1 \/ k = 2
  OBVIOUS
<1> HIDE DEF q
<1>6. \A s : Ends(s, x.id) /\ Ends(s, y.id)
  BY <1>3, <1>4 DEF Ends
<1>7. IsSeq(q)
  BY <1>5 DEF IsSeq
<1>8. QED
  BY <1>2, <1>5, <1>6, <1>7 DEF Strands, Settling

\* recoverOpenTurnAfterReplay.
LEMMA RecoverTurnRows ==
  ASSUME NEW f \in Flow, DriverInv, OneFlowInv(f), RowsInv(f), RecoverTurn(f)
  PROVE  RowsStep(f)
<1> DEFINE q == flows[f]
           t == Current(f)
           s == State(f)
           latest == log[CHOOSE i \in CascadesOf(s) : \A j \in CascadesOf(s) : j <= i]
           refeed == Cascade(t.loop, <<latest>>, AppendRetries)
           again == Loading([Task("recover") EXCEPT !.code = "fed"])
           failure == [Task("send") EXCEPT !.kind = "stranded", !.loop = t.loop, !.retries = 1,
                                           !.items = StrandedFailure(s.turn.id)]
           last == <<Settle, again>>
           first == refeed \o last
           second == <<failure, Settle>>
<1>1. /\ At(f, "recover") /\ log' = log /\ outbox' = outbox /\ running' = running
      /\ \/ Proceed(f, Tail(q), loops, live)
         \/ Proceed(f, first \o Tail(q), loops, live)
         \/ Proceed(f, second \o Tail(q), loops, live)
  BY DEF RecoverTurn, Pop, durable
<1>2. t.do = "recover" /\ Acts(t) = "recover" /\ Books(log)
  BY <1>1, CurrentFair DEF Loadings
<1>3. \A id : ~Failing(t, id)
  BY <1>2 DEF Failing, Stepping
<1>4. /\ RunningFair(running', log) /\ \A e \in EffectsOf(outbox') : Begun(log, e)
      /\ DropsNone(EffectsOf(outbox), EffectsOf(outbox'), TruthOf(log))
  BY <1>1, RowsSame
<1>5. CASE Proceed(f, Tail(q), loops, live)
  BY <1>1, <1>3, <1>4, <1>5, RowsPop
<1>6. CASE Proceed(f, first \o Tail(q), loops, live)
  <2> DEFINE a == [Task("recover") EXCEPT !.code = "fed"]
  <2>1. a = [x \in TaskFields |-> a[x]] /\ a.do = "recover"
    BY DEF Task, TaskFields
  <2> HIDE DEF a
  <2>2. Lower(again) /\ again.do # "delete"
    BY <2>1, PlainTask DEF a, Appending
  <2> HIDE DEF again
  <2>3. Plain(last)
    BY <2>2, PlainFew, PlainEntries
  <2> HIDE DEF last
  <2>4. Plain(refeed)
    <3> DEFINE envs == <<latest>>
    <3> HIDE DEF latest
    <3>1. IsSeq(envs)
      BY SeqSingle
    <3> HIDE DEF envs
    <3>2. IsSeq(Cascade(t.loop, envs, AppendRetries))
          /\ \A k \in DOMAIN Cascade(t.loop, envs, AppendRetries) : Cascade(t.loop, envs, AppendRetries)[k].do = "step"
      BY <3>1, CascadeOne
    <3>3. refeed = Cascade(t.loop, envs, AppendRetries)
      BY DEF envs
    <3> HIDE DEF refeed
    <3>4. QED
      BY <3>2, <3>3 DEF Plain, Lower, Acts, Loadings, Appending
  <2> HIDE DEF latest, refeed
  <2>5. Plain(first)
    BY <2>3, <2>4, PlainConcat
  <2> HIDE DEF first
  <2>6. IsSeq(first) /\ \A k \in DOMAIN first : Lower(first[k]) /\ first[k].do # "delete"
    BY <2>5 DEF Plain
  <2>7. QED
    BY <1>1, <1>3, <1>4, <1>6, <2>6, RowsLower
<1>7. CASE Proceed(f, second \o Tail(q), loops, live)
  <2> DEFINE items == StrandedFailure(s.turn.id)
  <2>1. Strands(items)
    BY StrandedStrands
  <2> HIDE DEF items
  <2>2. failure.do = "send" /\ failure.kind = "stranded" /\ failure.items = items
    BY DEF Task, items
  <2> HIDE DEF failure
  <2>3. Acts(failure) = "send" /\ ~Suspends(failure) /\ failure.do # "delete"
    BY <2>2 DEF Acts, Loadings, Suspends
  <2>4. TopFair(failure, log, EffectsOf(outbox'))
    BY <2>1, <2>2, <2>3 DEF TopFair
  <2>5. /\ second \in Seq({failure, Settle}) /\ DOMAIN second = 1 .. 2 /\ second[1] = failure
        /\ second[2] = Settle /\ second # <<>> /\ \A k \in 1 .. 2 : k = 1 \/ k = 2
    OBVIOUS
  <2> HIDE DEF second
  <2>6. IsSeq(second)
    BY <2>5 DEF IsSeq
  <2>7. \A k \in DOMAIN second : (k > 1 => Lower(second[k])) /\ second[k].do # "delete"
    BY <2>3, <2>5, PlainEntries
  <2>8. second # <<>> => TopFair(second[1], log, EffectsOf(outbox'))
          /\ (Suspends(second[1]) => Len(second) = 1 /\ Suspends(t))
    BY <2>3, <2>4, <2>5
  <2>9. RowsInv(f)'
    BY <1>1, <1>2, <1>3, <1>4, <1>7, <2>6, <2>7, <2>8, RowsGoOn
  <2>10. QED
    BY <1>4, <2>9 DEF RowsStep
<1>8. QED
  BY <1>1, <1>5, <1>6, <1>7

\* suspendOnCredential.
LEMMA SuspendRows ==
  ASSUME NEW f \in Flow, DriverInv, OneFlowInv(f), RowsInv(f), Suspend(f)
  PROVE  RowsStep(f)
<1> DEFINE t == Current(f)
           s == State(f)
           msg == t.row.effect.id[2]
           items == SuspendItems(s, msg)
           u == [t EXCEPT !.do = "send", !.kind = "suspend", !.items = items]
<1>1. /\ At(f, "suspend") /\ log' = log /\ outbox' = outbox /\ running' = running
      /\ Proceed(f, <<u>> \o Tail(flows[f]), loops, live)
  BY DEF Suspend, Become, durable, SuspendItems
<1>2. /\ t.do = "suspend" /\ TopFair(t, log, EffectsOf(outbox)) /\ Acts(t) = "suspend"
      /\ IsTask(t, IdsOf(log), DOMAIN loops) /\ s = TruthOf(log)
  BY <1>1, CurrentFair, AtOne DEF Loadings, WithLoop
<1> HIDE DEF items
<1>3. u.do = "send" /\ u.kind = "suspend" /\ u.row = t.row /\ u.items = items
  BY <1>2 DEF IsTask, TaskFields
<1> HIDE DEF u
<1>4. Acts(u) = "send" /\ u.do # "delete" /\ Suspends(t)
  BY <1>2, <1>3 DEF Acts, Loadings, Suspends
<1>5. SuspendFair(u, log)
  BY <1>2, <1>3 DEF TopFair, SuspendFair, items
<1>6. TopFair(u, log, EffectsOf(outbox))
  BY <1>3, <1>4, <1>5 DEF TopFair
<1>7. \A id : ~Failing(t, id)
  BY <1>2 DEF Failing, Stepping
<1>8. QED
  BY <1>1, <1>4, <1>6, <1>7, RowsBecome

\* The flow starts anew.
LEMMA RowsFresh ==
  ASSUME NEW f \in Flow, DriverInv, OneFlowInv(f), RowsInv(f),
         NEW todo, NEW instances, NEW map, Proceed(f, todo, instances, map),
         log' = log, RunningFair(running', log), \A e \in EffectsOf(outbox') : Begun(log, e),
         DropsNone(EffectsOf(outbox), EffectsOf(outbox'), TruthOf(log)),
         StackFair(todo, log, EffectsOf(outbox'))
  PROVE  RowsStep(f)
<1>1. flows'[f] = todo
  BY FlowIs DEF Proceed
<1>2. RowsInv(f)'
  BY <1>1 DEF RowsInv
<1>3. QED
  BY <1>2 DEF RowsStep

\* Tasks that need nothing.
LEMMA PlainStack ==
  ASSUME NEW q, Plain(q), NEW l, NEW F
  PROVE  StackFair(q, l, F)
<1>1. IsSeq(q) /\ \A k \in DOMAIN q : Lower(q[k]) /\ q[k].do # "delete"
  BY DEF Plain
<1>2. q # <<>> => 1 \in DOMAIN q
  <2>1. SUFFICES ASSUME q # <<>> PROVE 1 \in DOMAIN q
    OBVIOUS
  <2>2. QED
    BY <1>1, <2>1, SeqTail, SeqDomain
<1>3. q # <<>> => TopFair(q[1], l, F) /\ ~Suspends(q[1])
  BY <1>1, <1>2, LowerIsFair
<1>4. QED
  BY <1>1, <1>3 DEF StackFair, DeletesFair

\* flushDeferred.
LEMMA FlushLoopRows ==
  ASSUME NEW f \in Flow, DriverInv, OneFlowInv(f), RowsInv(f), FlushLoop(f)
  PROVE  RowsStep(f)
<1> DEFINE a == HandleIncoming(Incoming("flush", None))
           b == IF State(f).call = None THEN <<>> ELSE <<Task("abort")>>
<1>1. log' = log /\ outbox' = outbox /\ running' = running /\ Proceed(f, a \o b, loops, live)
  BY DEF FlushLoop, durable
<1>2. Lower(Task("abort")) /\ Task("abort").do # "delete"
  BY TaskIs DEF Lower, Acts, Loadings, Appending
<1>3. Plain(b) /\ Plain(a)
  BY <1>2, PlainFew, PlainEntries
<1> HIDE DEF a, b
<1>4. StackFair(a \o b, log, EffectsOf(outbox'))
  BY <1>3, PlainConcat, PlainStack
<1>5. QED
  BY <1>1, <1>4, RowsSame, RowsFresh

\* The rows are reconciled with the fold of the journal.
LEMMA ReconcileLoopRows ==
  ASSUME NEW f \in Flow, DriverInv, OneFlowInv(f), RowsInv(f), ReconcileLoop(f)
  PROVE  RowsStep(f)
<1> DEFINE t == Current(f)
           F == EffectsOf(outbox)
           F2 == EffectsOf(outbox')
           P == PendingEffects(TruthOf(log))
<1>1. /\ At(f, "reconcile") /\ log' = log /\ running' = running /\ outbox' = Reconciled(outbox, State(f))
      /\ Proceed(f, Tail(flows[f]), loops, live)
  BY DEF ReconcileLoop, Pop
<1>2. Acts(t) = "reconcile" /\ Books(log) /\ State(f) = TruthOf(log)
  BY <1>1, CurrentFair, AtOne DEF Loadings, WithLoop
<1>3. \A id : ~Failing(t, id)
  BY <1>2 DEF Failing, Stepping
<1>4. F2 \subseteq F \cup P /\ \A e \in P : \E d \in F2 : d.id = e.id
  BY <1>1, <1>2, EffectsReconciled
<1>5. (\A e \in P : Begun(log, e)) /\ (\A e \in F : Begun(log, e)) /\ RunningFair(running', log)
  BY <1>1, <1>2, PendingBegun DEF RowsInv
<1> HIDE DEF F, F2
<1>6. (\A e \in F2 : Begun(log, e)) /\ DropsNone(F, F2, TruthOf(log))
  BY <1>4, <1>5 DEF DropsNone
<1>7. QED
  BY <1>1, <1>3, <1>5, <1>6, RowsPop DEF F, F2

\* Executions that go on, or are given up.
LEMMA RunsGoOn ==
  ASSUME NEW rs, NEW l, RunningFair(rs, l), NEW v, NEW new,
         \A q \in new : \E r \in rs : q \in {r, [r EXCEPT !.abort = v]}
  PROVE  RunningFair(new, l)
<1>1. SUFFICES ASSUME NEW q \in new PROVE RunFair(q, l)
  BY DEF RunningFair
<1>2. PICK r \in rs : q \in {r, [r EXCEPT !.abort = v]}
  OBVIOUS
<1>3. RunFair(r, l)
  BY DEF RunningFair
<1>4. CASE q = [r EXCEPT !.abort = v]
  <2>1. r = [x \in {"row", "effect", "n", "abort"} |-> r[x]] /\ r.effect = r.row.effect /\ Begun(l, r.effect)
    BY <1>3 DEF RunFair
  <2>2. /\ q = [x \in {"row", "effect", "n", "abort"} |-> q[x]]
        /\ q.effect = r.effect /\ q.row = r.row
    BY <1>4, <2>1
  <2>3. QED
    BY <2>1, <2>2 DEF RunFair
<1>5. QED
  BY <1>2, <1>3, <1>4

\* A row's lease and attempts are changed, if it is still there.
LEMMA EffectsTouched ==
  ASSUME NEW rows, Rows(rows), NEW id, NEW new, HasRow(rows, id) => new.effect = RowOf(rows, id).effect,
         NEW rows2, rows2 = IF HasRow(rows, id) THEN Update(rows, id, new) ELSE rows
  PROVE  EffectsOf(rows2) = EffectsOf(rows)
<1>1. CASE HasRow(rows, id)
  <2> DEFINE x == RowOf(rows, id)
  <2>1. x \in rows /\ x.effect.id = id /\ new.effect = x.effect
    BY <1>1, RowOfIsRow
  <2>2. rows2 = Update(rows, id, new)
    BY <1>1
  <2> HIDE DEF x
  <2>3. QED
    BY <2>1, <2>2, EffectsUpdate
<1>2. CASE ~HasRow(rows, id)
  BY <1>2
<1>3. QED
  BY <1>1, <1>2

\* A row is executed.
LEMMA ExecuteRows ==
  ASSUME NEW f \in Flow, DriverInv, OneFlowInv(f), RowsInv(f), Execute(f)
  PROVE  RowsStep(f)
<1> DEFINE t == Current(f)
           row == t.row
           id == row.effect.id
           n == Cardinality({r \in running : r.effect.id = id})
           lost == {IF r.effect.id = id THEN [r EXCEPT !.abort = "lost"] ELSE r : r \in running}
           one == [row |-> row, effect |-> row.effect, n |-> n, abort |-> "armed"]
<1>1. /\ At(f, "execute") /\ log' = log /\ running' = lost \cup {one}
      /\ outbox' = IF HasRow(outbox, id)
                   THEN Update(outbox, id, [RowOf(outbox, id) EXCEPT !.lease = "held"])
                   ELSE outbox
      /\ Proceed(f, Tail(flows[f]), loops, live)
  BY DEF Execute, Pop
<1>2. /\ Acts(t) = "execute" /\ Rows(outbox) /\ TopFair(t, log, EffectsOf(outbox))
  BY <1>1, CurrentFair DEF Loadings
<1>3. \A x : ~Failing(t, x)
  BY <1>2 DEF Failing, Stepping
<1>4. Begun(log, row.effect)
  BY <1>2 DEF TopFair
<1>5. one.row = row /\ one.effect = row.effect
  OBVIOUS
<1>6. RunningFair(running', log)
  <2>1. \A q \in lost : \E r \in running : q \in {r, [r EXCEPT !.abort = "lost"]}
    OBVIOUS
  <2>2. RunningFair(running, log)
    BY DEF RowsInv
  <2> HIDE DEF lost
  <2>3. RunningFair(lost, log)
    BY <2>1, <2>2, RunsGoOn
  <2>4. one = [x \in {"row", "effect", "n", "abort"} |-> one[x]]
    OBVIOUS
  <2>5. RunFair(one, log)
    BY <1>4, <1>5, <2>4 DEF RunFair
  <2> HIDE DEF one
  <2>6. QED
    BY <1>1, <2>3, <2>5 DEF RunningFair, lost
<1>7. EffectsOf(outbox') = EffectsOf(outbox)
  <2> DEFINE x == RowOf(outbox, id)
             new == [x EXCEPT !.lease = "held"]
  <2>1. HasRow(outbox, id) => IsRow(x)
    BY <1>2, RowOfIsRow
  <2> HIDE DEF x
  <2>2. HasRow(outbox, id) => new.effect = x.effect
    BY <2>1 DEF IsRow
  <2>3. outbox' = IF HasRow(outbox, id) THEN Update(outbox, id, new) ELSE outbox
    BY <1>1 DEF x
  <2> HIDE DEF new
  <2>4. QED
    BY <1>2, <2>2, <2>3, EffectsTouched DEF x
<1>8. (\A e \in EffectsOf(outbox') : Begun(log, e)) /\ DropsNone(EffectsOf(outbox), EffectsOf(outbox'), TruthOf(log))
  BY <1>7 DEF RowsInv, DropsNone
<1>9. QED
  BY <1>1, <1>3, <1>6, <1>8, RowsPop

\* A row is deleted whose effect failed: it is over by now.
LEMMA DeleteRowRows ==
  ASSUME NEW f \in Flow, DriverInv, OneFlowInv(f), RowsInv(f), DeleteRow(f)
  PROVE  RowsStep(f)
<1> DEFINE t == Current(f)
           id == t.row.effect.id
           F == EffectsOf(outbox)
           F2 == EffectsOf(outbox')
<1>1. /\ At(f, "delete") /\ log' = log /\ running' = running /\ outbox' = Delete(outbox, id)
      /\ Proceed(f, Tail(flows[f]), loops, live)
  BY DEF DeleteRow, Pop
<1>2. t.do = "delete" /\ Acts(t) = "delete"
  BY <1>1, CurrentFair DEF Loadings
<1>3. \A x : ~Failing(t, x)
  BY <1>2 DEF Failing, Stepping
<1>4. flows[f] # <<>> /\ t = flows[f][1] /\ 1 \in DOMAIN flows[f]
  BY <1>1, AtOne, FlowIs
<1>5. Safe(log, id)
  <2>1. DeletesFair(flows[f], log)
    BY DEF RowsInv, StackFair
  <2>2. QED
    BY <1>2, <1>3, <1>4, <2>1 DEF DeletesFair
<1>6. F2 = {d \in F : d.id # id}
  BY <1>1, EffectsDelete
<1>7. (\A e \in F : Begun(log, e)) /\ RunningFair(running', log)
  BY <1>1 DEF RowsInv
<1>8. \A e \in PendingEffects(TruthOf(log)) : e.id # id
  BY <1>5, SafeNotPending
<1> HIDE DEF F, F2, id
<1>9. (\A e \in F2 : Begun(log, e)) /\ DropsNone(F, F2, TruthOf(log))
  BY <1>6, <1>7, <1>8 DEF DropsNone
<1>10. QED
  BY <1>1, <1>3, <1>7, <1>9, RowsPop DEF F, F2

\* Executors are aborted.
LEMMA AbortedFair ==
  ASSUME NEW l, RunningFair(running, l)
  PROVE  RunningFair(Aborted, l)
<1>1. \A q \in Aborted : \E r \in running : q \in {r, [r EXCEPT !.abort = "aborted"]}
  BY DEF Aborted
<1>2. QED
  BY <1>1, RunsGoOn

\* The tasks that are done without a look at the rows.
LEMMA DoneRows ==
  ASSUME NEW f \in Flow, DriverInv, OneFlowInv(f), RowsInv(f),
         DropLoop(f) \/ Acknowledge(f) \/ AbortChannel(f) \/ ScheduleLoop(f) \/ Unschedule(f)
  PROVE  RowsStep(f)
<1>1. PICK do \in {"drop", "ack", "abort", "schedule", "unschedule"} : At(f, do)
  BY DEF DropLoop, Acknowledge, AbortChannel, ScheduleLoop, Unschedule
<1>2. /\ log' = log /\ outbox' = outbox /\ (running' = running \/ running' = Aborted)
      /\ \E map : Proceed(f, Tail(flows[f]), loops, map)
  BY DEF DropLoop, Acknowledge, AbortChannel, ScheduleLoop, Unschedule, Pop, durable
<1>3. Acts(Current(f)) = do
  BY <1>1, CurrentFair DEF Loadings
<1>4. \A x : ~Failing(Current(f), x)
  BY <1>1, <1>3 DEF Failing, Stepping
<1>5. RunningFair(running', log)
  BY <1>2, AbortedFair DEF RowsInv
<1>6. (\A e \in EffectsOf(outbox') : Begun(log, e)) /\ DropsNone(EffectsOf(outbox), EffectsOf(outbox'), TruthOf(log))
  BY <1>2 DEF RowsInv, DropsNone
<1>7. QED
  BY <1>1, <1>2, <1>4, <1>5, <1>6, RowsPop

\* A step of the flow that is under way.
LEMMA ContinueRows ==
  ASSUME NEW f \in Flow, DriverInv, OneFlowInv(f), RowsInv(f), Continue(f)
  PROVE  RowsStep(f)
BY LoadingRows, RunStepRows, SendReplyRows, AnsweredRows, FoldRows, StaleStepRows, StaleOutcomeRows,
   StaleSuspendRows, StaleStrandedRows, RetryStrandedRows, ReconcileLoopRows, WakeLoopRows, RecoverTurnRows,
   ExecuteRows, SuspendRows, DeleteRowRows, FlushLoopRows, DoneRows
   DEF Continue

-----------------------------------------------------------------------------
(* The entry points of the driver.                                         *)

\* A first task with what it needs, and below it tasks that need nothing.
LEMMA FirstStack ==
  ASSUME NEW q, IsSeq(q), NEW l, NEW F, TopFair(q[1], l, F), ~Suspends(q[1]) \/ Len(q) = 1,
         \A k \in DOMAIN q : (k > 1 => Lower(q[k])) /\ q[k].do # "delete"
  PROVE  StackFair(q, l, F)
BY DEF StackFair, DeletesFair

\* One task.
LEMMA SingleStack ==
  ASSUME NEW u, NEW l, NEW F, TopFair(u, l, F), u.do # "delete"
  PROVE  StackFair(<<u>>, l, F)
<1> DEFINE q == <<u>>
<1>1. IsSeq(q) /\ Len(q) = 1 /\ DOMAIN q = {1} /\ q[1] = u
  BY SeqSingle
<1> HIDE DEF q
<1>2. StackFair(q, l, F)
  BY <1>1, FirstStack
<1>3. QED
  BY <1>2 DEF q

\* fail: the step for the failed effect comes before the deletion of its row.
LEMMA FailStack ==
  ASSUME NEW row, NEW why, NEW l, Begun(l, row.effect), NEW F
  PROVE  StackFair(FailEffect(row, why), l, F)
<1> DEFINE arg == [effect |-> row.effect.id, why |-> why]
           in == Incoming("failed", arg)
           a == StepTask(in, AppendRetries)
           u == Loading(a)
           d == [Task("delete") EXCEPT !.row = row]
           b == <<u, Settle>>
           c == <<d>>
           q == b \o c
<1>1. FailEffect(row, why) = q
  BY DEF FailEffect, HandleIncoming
<1>2. in.type = "failed" /\ in.arg.effect = row.effect.id
  BY DEF Incoming
<1> HIDE DEF in
<1>3. a = [x \in TaskFields |-> a[x]] /\ a.do = "step" /\ a.kind = "step" /\ a.in = in
  BY StepTaskIs
<1> HIDE DEF a
<1>4. u.do = "load" /\ u.then = "step" /\ u.kind = "step" /\ u.in = in
  BY <1>3, LoadingIs
<1> HIDE DEF u
<1>5. Acts(u) = "step" /\ Lower(u) /\ Failing(u, row.effect.id)
  BY <1>2, <1>4 DEF Acts, Loadings, Lower, Appending, Failing, Stepping
<1>6. d.do = "delete" /\ d.row = row
  BY DEF Task
<1> HIDE DEF d
<1>7. Lower(d)
  BY <1>6 DEF Lower, Acts, Loadings, Appending
<1>8. IsSeq(b) /\ Len(b) = 2 /\ b[1] = u /\ b[2] = Settle
  <2>1. b \in Seq({u, Settle}) /\ Len(b) = 2 /\ b[1] = u /\ b[2] = Settle
    OBVIOUS
  <2>2. QED
    BY <2>1 DEF IsSeq
<1>9. IsSeq(c) /\ Len(c) = 1 /\ c[1] = d
  BY SeqSingle
<1> HIDE DEF b, c
<1>10. IsSeq(q) /\ Len(q) = 3 /\ q[1] = u /\ q[2] = Settle /\ q[3] = d
  <2>1. /\ IsSeq(q) /\ Len(q) = Len(b) + Len(c)
        /\ \A i \in 1 .. Len(b) : q[i] = b[i]
        /\ \A i \in 1 .. Len(c) : q[Len(b) + i] = c[i]
    <3>1. IsSeq(b) /\ IsSeq(c)
      BY <1>8, <1>9
    <3>2. QED
      BY ONLY <3>1, SeqConcat
  <2>2. QED
    BY <1>8, <1>9, <2>1
<1>11. DOMAIN q = 1 .. 3
  BY <1>10, SeqDomain
<1>12. \A k \in 1 .. 3 : k = 1 \/ k = 2 \/ k = 3
  OBVIOUS
<1> HIDE DEF q
<1>13. TopFair(q[1], l, F) /\ ~Suspends(q[1])
  BY <1>5, <1>10, LowerIsFair
<1>14. \A k \in DOMAIN q : k > 1 => Lower(q[k])
  BY <1>7, <1>10, <1>11, <1>12, PlainEntries
<1>15. DeletesFair(q, l)
  <2>1. ASSUME NEW k \in DOMAIN q, q[k].do = "delete"
        PROVE  Begun(l, q[k].row.effect) /\ Failing(q[1], q[k].row.effect.id)
    <3>1. q[k] = d
      BY <1>4, <1>10, <1>11, <1>12, <2>1, PlainEntries
    <3>2. QED
      BY <1>5, <1>6, <1>10, <3>1
  <2>2. QED
    BY <2>1 DEF DeletesFair
<1>16. QED
  BY <1>1, <1>13, <1>14, <1>15 DEF StackFair

\* applyOutcome: the events of an outcome are one, and it ends the effect of the row.
LEMMA OutcomeStack ==
  ASSUME NEW row, NEW x, NEW items, items = <<x>>, x.id = EndId(row.effect), NEW l, Begun(l, row.effect), NEW F,
         row.effect.id[1] = "cred" => \A d \in F : d.id = row.effect.id => d = row.effect,
         NEW rest, Plain(rest)
  PROVE  StackFair(ApplyOutcome(row, items) \o rest, l, F)
<1> DEFINE u == Loading(OutcomeTask(row, items))
           b == <<u, Settle>>
           q == b \o rest
<1>1. ApplyOutcome(row, items) = b
  BY DEF ApplyOutcome
<1>2. u.do = "load" /\ u.then = "send" /\ u.kind = "outcome" /\ u.row = row /\ u.items = items
  BY DEF OutcomeTask, Task, Loading
<1> HIDE DEF u
<1>3. OutcomeFair(u, l, F)
  BY <1>2 DEF OutcomeFair
<1>4. Acts(u) = "send" /\ ~Suspends(u) /\ u.do # "delete"
  BY <1>2 DEF Acts, Loadings, Suspends
<1>5. TopFair(u, l, F)
  BY <1>2, <1>3, <1>4 DEF TopFair
<1>6. IsSeq(b) /\ Len(b) = 2 /\ b[1] = u /\ b[2] = Settle
  <2>1. b \in Seq({u, Settle}) /\ Len(b) = 2 /\ b[1] = u /\ b[2] = Settle
    OBVIOUS
  <2>2. QED
    BY <2>1 DEF IsSeq
<1>7. IsSeq(rest) /\ \A k \in DOMAIN rest : Lower(rest[k]) /\ rest[k].do # "delete"
  BY DEF Plain
<1>8. DOMAIN b = 1 .. 2 /\ \A k \in 1 .. 2 : k = 1 \/ k = 2
  BY <1>6, SeqDomain
<1> HIDE DEF b
<1>9. /\ IsSeq(q) /\ \A i \in DOMAIN b : i \in DOMAIN q /\ q[i] = b[i]
      /\ \A i \in DOMAIN q : (i \in DOMAIN b /\ q[i] = b[i]) \/ \E k \in DOMAIN rest : q[i] = rest[k]
  <2>1. IsSeq(b) /\ IsSeq(rest)
    BY <1>6, <1>7
  <2>2. IsSeq(q) /\ \A i \in DOMAIN q : (i \in DOMAIN b /\ q[i] = b[i]) \/ \E k \in DOMAIN rest : q[i] = rest[k]
    BY ONLY <2>1, ConcatElements
  <2>3. \A i \in DOMAIN b : i \in DOMAIN q /\ q[i] = b[i]
    BY ONLY <2>1, ConcatHolds
  <2>4. QED
    BY <2>2, <2>3
<1> HIDE DEF q
<1>10. q[1] = u
  BY <1>6, <1>8, <1>9
<1>11. \A k \in DOMAIN q : (k > 1 => Lower(q[k])) /\ q[k].do # "delete"
  BY <1>4, <1>6, <1>7, <1>8, <1>9, PlainEntries
<1>12. StackFair(q, l, F)
  BY <1>4, <1>5, <1>9, <1>10, <1>11, FirstStack
<1>13. QED
  BY <1>1, <1>12 DEF q

\* The rows that the pump sees.
LEMMA LiveRows ==
  ASSUME NEW f \in Flow, DriverInv, OneFlowInv(f), RowsInv(f), Free(f)
  PROVE  /\ Rows(LiveReconciled) /\ \A e \in EffectsOf(LiveReconciled) : Begun(log, e)
         /\ DropsNone(EffectsOf(outbox), EffectsOf(LiveReconciled), TruthOf(log))
         /\ \A row \in LiveReconciled : IsRow(row) /\ Begun(log, row.effect)
<1> DEFINE s == TruthOf(log)
           F == EffectsOf(outbox)
           F2 == EffectsOf(LiveReconciled)
<1>1. Rows(outbox) /\ Books(log) /\ (\A e \in F : Begun(log, e)) /\ IsState(s)
  BY FlowIs DEF DriverInv, DurableInv, RowsInv
<1>2. LiveReconciled = outbox \/ LiveReconciled = Reconciled(outbox, s)
  <2>1. live # None => live \in DOMAIN loops
    BY DEF DriverInv, FlowsInv
  <2>2. \A i \in DOMAIN loops : loops[i] = s
    BY DEF Free, Idle, OneFlowInv, OneFlowOK, Folding
  <2>3. QED
    BY <2>1, <2>2 DEF LiveReconciled
<1>3. Rows(LiveReconciled)
  BY <1>1, <1>2, ReconciledRows
<1>4. (\A e \in F2 : Begun(log, e)) /\ DropsNone(F, F2, s)
  <2>1. CASE LiveReconciled = outbox
    BY <1>1, <2>1 DEF DropsNone
  <2>2. CASE LiveReconciled = Reconciled(outbox, s)
    <3>1. F2 \subseteq F \cup PendingEffects(s) /\ \A e \in PendingEffects(s) : \E d \in F2 : d.id = e.id
      BY <2>2, EffectsReconciled
    <3>2. \A e \in PendingEffects(s) : Begun(log, e)
      BY <1>1, PendingBegun
    <3> HIDE DEF F, F2, s
    <3>3. QED
      BY <1>1, <3>1, <3>2 DEF DropsNone
  <2>3. QED
    BY <1>2, <2>1, <2>2
<1>5. \A row \in LiveReconciled : IsRow(row) /\ row.effect \in F2
  BY <1>3 DEF Rows, EffectsOf
<1>6. QED
  BY <1>3, <1>4, <1>5

\* pump, dispatchDue.
LEMMA DispatchRows ==
  ASSUME NEW f \in Flow, DriverInv, OneFlowInv(f), RowsInv(f), Dispatch(f)
  PROVE  RowsStep(f)
<1> DEFINE rows == LiveReconciled
<1>1. PICK row \in rows :
        /\ Free(f) /\ log' = log /\ running' = running
        /\ outbox' = Update(rows, row.effect.id, [row EXCEPT !.lease = "held"])
        /\ Proceed(f, <<Loading([Task("execute") EXCEPT !.row = row])>>, loops, live)
  BY DEF Dispatch
<1>2. /\ Rows(rows) /\ (\A e \in EffectsOf(rows) : Begun(log, e))
      /\ DropsNone(EffectsOf(outbox), EffectsOf(rows), TruthOf(log)) /\ IsRow(row) /\ Begun(log, row.effect)
  BY <1>1, LiveRows
<1> DEFINE new == [row EXCEPT !.lease = "held"]
           u == Loading([Task("execute") EXCEPT !.row = row])
<1>3. new.effect = row.effect
  BY <1>2 DEF IsRow
<1>4. outbox' = Update(rows, row.effect.id, new) /\ Proceed(f, <<u>>, loops, live)
  BY <1>1
<1> HIDE DEF new, rows
<1>5. EffectsOf(outbox') = EffectsOf(rows)
  BY <1>1, <1>2, <1>3, <1>4, EffectsUpdate
<1>6. u.do = "load" /\ u.then = "execute" /\ u.row = row
  BY DEF Task, Loading
<1> HIDE DEF u
<1>7. TopFair(u, log, EffectsOf(outbox')) /\ u.do # "delete"
  BY <1>2, <1>6 DEF TopFair, Acts, Loadings, Appending
<1>8. StackFair(<<u>>, log, EffectsOf(outbox'))
  BY <1>7, SingleStack
<1>9. RunningFair(running', log)
  BY <1>1 DEF RowsInv
<1>10. QED
  BY <1>1, <1>2, <1>4, <1>5, <1>8, <1>9, RowsFresh

\* dispatchDue: a credential wait past its expiry.
LEMMA ExpireWaitRows ==
  ASSUME NEW f \in Flow, DriverInv, OneFlowInv(f), RowsInv(f), ExpireWait(f)
  PROVE  RowsStep(f)
<1> DEFINE rows == LiveReconciled
<1>1. PICK row \in rows :
        /\ Free(f) /\ log' = log /\ running' = running /\ outbox' = rows
        /\ Proceed(f, FailEffect(row, "fatal"), loops, live)
  BY DEF ExpireWait
<1>2. /\ (\A e \in EffectsOf(outbox') : Begun(log, e))
      /\ DropsNone(EffectsOf(outbox), EffectsOf(outbox'), TruthOf(log)) /\ Begun(log, row.effect)
  BY <1>1, LiveRows
<1>3. StackFair(FailEffect(row, "fatal"), log, EffectsOf(outbox'))
  BY <1>2, FailStack
<1>4. RunningFair(running', log)
  BY <1>1 DEF RowsInv
<1>5. QED
  BY <1>1, <1>2, <1>3, <1>4, RowsFresh

\* An execution ends.
LEMMA EndedFair ==
  ASSUME NEW l, RunningFair(running, l), NEW r
  PROVE  RunningFair(Ended(r), l)
<1>1. \A q \in Ended(r) : \E x \in running : q \in {x, [x EXCEPT !.abort = "lost"]}
  BY DEF Ended
<1>2. QED
  BY <1>1, RunsGoOn

\* An execution ends with the event that ends its effect.
LEMMA FinishRows ==
  ASSUME NEW f \in Flow, DriverInv, OneFlowInv(f), RowsInv(f), NEW r \in running, running' = Ended(r),
         NEW x, NEW items, items = <<x>>, x.id = EndId(r.effect), r.effect.id[1] # "cred", Finish(f, r, items)
  PROVE  RowsStep(f)
<1>1. log' = log /\ outbox' = outbox /\ Proceed(f, ApplyOutcome(r.row, items), loops, live)
  BY DEF Finish, durable
<1>2. r.effect = r.row.effect /\ Begun(log, r.effect) /\ RunningFair(running', log)
  BY EndedFair DEF RowsInv, RunningFair, RunFair
<1> DEFINE q == ApplyOutcome(r.row, items)
           none == <<>>
<1>3. Plain(none)
  BY PlainFew
<1>4. IsSeq(q)
  BY FreshEntries DEF Fresh
<1>5. q \o none = q
  BY <1>4, SeqEmpty, EmptyConcat
<1> HIDE DEF none
<1>6. StackFair(q \o none, log, EffectsOf(outbox'))
  BY <1>2, <1>3, OutcomeStack
<1>7. StackFair(q, log, EffectsOf(outbox'))
  BY <1>5, <1>6
<1>8. (\A e \in EffectsOf(outbox') : Begun(log, e)) /\ DropsNone(EffectsOf(outbox), EffectsOf(outbox'), TruthOf(log))
  BY <1>1 DEF RowsInv, DropsNone
<1>9. QED
  BY <1>1, <1>2, <1>7, <1>8, RowsFresh

\* recordFailure: one more attempt has failed.
LEMMA FinishRetryRows ==
  ASSUME NEW f \in Flow, DriverInv, OneFlowInv(f), RowsInv(f), NEW r \in running, running' = Ended(r),
         FinishRetry(f, r)
  PROVE  RowsStep(f)
<1> DEFINE id == r.effect.id
           x == RowOf(outbox, id)
           new == [x EXCEPT !.attempts = @ + 1, !.lease = "none"]
<1>1. log' = log /\ outbox' = Failed(id)
  BY DEF FinishRetry
<1>2. PICK why : Proceed(f, IF HasRow(outbox, id) /\ x.attempts + 1 >= MaxAttempts
                            THEN FailEffect(x, why) ELSE <<>>, loops, live)
  BY DEF FinishRetry
<1>3. Rows(outbox)
  BY DEF DriverInv, DurableInv
<1>4. outbox' = IF HasRow(outbox, id) THEN Update(outbox, id, new) ELSE outbox
  BY <1>1 DEF Failed
<1>5. HasRow(outbox, id) => x \in outbox /\ IsRow(x)
  BY <1>3, RowOfIsRow
<1>6. HasRow(outbox, id) => new.effect = RowOf(outbox, id).effect
  <2> HIDE DEF x
  <2>1. HasRow(outbox, id) => new.effect = x.effect
    BY <1>5 DEF IsRow
  <2>2. QED
    BY <2>1 DEF x
<1> HIDE DEF new
<1>7. EffectsOf(outbox') = EffectsOf(outbox)
  BY <1>3, <1>4, <1>6, EffectsTouched
<1>8. (\A e \in EffectsOf(outbox') : Begun(log, e)) /\ DropsNone(EffectsOf(outbox), EffectsOf(outbox'), TruthOf(log))
  BY <1>7 DEF RowsInv, DropsNone
<1>9. RunningFair(running', log)
  BY EndedFair DEF RowsInv
<1>10. CASE HasRow(outbox, id) /\ Proceed(f, FailEffect(x, why), loops, live)
  <2>1. Begun(log, x.effect)
    BY <1>5, <1>10 DEF RowsInv, EffectsOf
  <2> HIDE DEF x
  <2>2. StackFair(FailEffect(x, why), log, EffectsOf(outbox'))
    BY <2>1, FailStack
  <2>3. QED
    BY <1>1, <1>8, <1>9, <1>10, <2>2, RowsFresh
<1>11. CASE Proceed(f, <<>>, loops, live)
  <2>1. StackFair(<<>>, log, EffectsOf(outbox'))
    BY PlainFew, PlainStack
  <2>2. QED
    BY <1>1, <1>8, <1>9, <1>11, <2>1, RowsFresh
<1>12. QED
  BY <1>2, <1>10, <1>11

\* outcomeEvents of a model call: one event, the terminal of the call.
LEMMA AnswersEnd ==
  ASSUME NEW r, r.effect.id[1] = "model", NEW items \in ModelAnswers(r)
  PROVE  \E x : items = <<x>> /\ x.id = EndId(r.effect)
<1> DEFINE msg == r.effect.id[2]
<1>1. EndId(r.effect) = <<"terminal", msg>>
  BY DEF EndId
<1>2. \A outcome, tools : MessageCompleted(msg, outcome, tools).id = <<"terminal", msg>>
  BY DEF MessageCompleted, Event
<1>3. \A why : MessageFailed(msg, why).id = <<"terminal", msg>>
  BY DEF MessageFailed, Event
<1>4. \/ \E outcome, tools : items = <<MessageCompleted(msg, outcome, tools)>>
      \/ \E why : items = <<MessageFailed(msg, why)>>
  BY DEF ModelAnswers
<1> HIDE DEF msg
<1>5. QED
  BY <1>1, <1>2, <1>3, <1>4

\* The outcome of an invocation: one event, its terminal.
LEMMA ToolEnds ==
  ASSUME NEW effect, effect.id[1] = "inv", NEW outcome
  PROVE  \E x : ToolOutcome(effect, outcome) = <<x>> /\ x.id = EndId(effect)
<1> DEFINE x == InvocationTerminal(effect.turn, effect.id[2], outcome)
<1>1. x.id = <<"inv-terminal", effect.id[2]>> /\ EndId(effect) = <<"inv-terminal", effect.id[2]>>
  BY DEF InvocationTerminal, Event, EndId
<1>2. ToolOutcome(effect, outcome) = <<x>>
  BY DEF ToolOutcome
<1> HIDE DEF x
<1>3. QED
  BY <1>1, <1>2

\* A model call ends.
LEMMA FinishModelRows ==
  ASSUME NEW f \in Flow, DriverInv, OneFlowInv(f), RowsInv(f), FinishModel(f)
  PROVE  RowsStep(f)
<1>1. PICK r \in running :
        /\ r.effect.id[1] = "model" /\ running' = Ended(r)
        /\ \/ \E items \in ModelAnswers(r) : Finish(f, r, items)
           \/ FinishRetry(f, r)
           \/ /\ Proceed(f, <<Loading([Task("suspend") EXCEPT !.row = r.row])>>, loops, live)
              /\ log' = log /\ outbox' = outbox
  BY DEF FinishModel, durable
<1>2. CASE \E items \in ModelAnswers(r) : Finish(f, r, items)
  <2>1. PICK items \in ModelAnswers(r) : Finish(f, r, items)
    BY <1>2
  <2>2. PICK x : items = <<x>> /\ x.id = EndId(r.effect)
    BY <1>1, AnswersEnd
  <2>3. r.effect.id[1] # "cred"
    BY <1>1
  <2>4. QED
    BY <1>1, <2>1, <2>2, <2>3, FinishRows
<1>3. CASE FinishRetry(f, r)
  BY <1>1, <1>3, FinishRetryRows
<1>4. CASE /\ Proceed(f, <<Loading([Task("suspend") EXCEPT !.row = r.row])>>, loops, live)
           /\ log' = log /\ outbox' = outbox
  <2> DEFINE u == Loading([Task("suspend") EXCEPT !.row = r.row])
  <2>1. r.effect = r.row.effect /\ Begun(log, r.effect) /\ RunningFair(running', log)
    BY <1>1, EndedFair DEF RowsInv, RunningFair, RunFair
  <2>2. u.do = "load" /\ u.then = "suspend" /\ u.row = r.row
    BY DEF Task, Loading
  <2>3. Proceed(f, <<u>>, loops, live)
    BY <1>4
  <2> HIDE DEF u
  <2>4. TopFair(u, log, EffectsOf(outbox')) /\ u.do # "delete"
    BY <1>1, <2>1, <2>2 DEF TopFair, Acts, Loadings, Appending
  <2>5. StackFair(<<u>>, log, EffectsOf(outbox'))
    BY <2>4, SingleStack
  <2>6. (\A e \in EffectsOf(outbox') : Begun(log, e)) /\ DropsNone(EffectsOf(outbox), EffectsOf(outbox'), TruthOf(log))
    BY <1>4 DEF RowsInv, DropsNone
  <2>7. QED
    BY <1>4, <2>1, <2>3, <2>5, <2>6, RowsFresh
<1>5. QED
  BY <1>1, <1>2, <1>3, <1>4

\* A local invocation ends.
LEMMA FinishToolRows ==
  ASSUME NEW f \in Flow, DriverInv, OneFlowInv(f), RowsInv(f), FinishTool(f)
  PROVE  RowsStep(f)
<1>1. PICK r \in running :
        /\ r.effect.id[1] = "inv" /\ running' = Ended(r)
        /\ Finish(f, r, ToolOutcome(r.effect, "completed")) \/ FinishRetry(f, r)
  BY DEF FinishTool
<1>2. CASE Finish(f, r, ToolOutcome(r.effect, "completed"))
  <2> DEFINE items == ToolOutcome(r.effect, "completed")
  <2>1. PICK x : items = <<x>> /\ x.id = EndId(r.effect)
    BY <1>1, ToolEnds
  <2>2. Finish(f, r, items) /\ r.effect.id[1] # "cred"
    BY <1>1, <1>2
  <2> HIDE DEF items
  <2>3. QED
    BY <1>1, <2>1, <2>2, FinishRows
<1>3. CASE FinishRetry(f, r)
  BY <1>1, <1>3, FinishRetryRows
<1>4. QED
  BY <1>1, <1>2, <1>3

\* deliverEffectOutcome, credentialConnected.
LEMMA DeliverResultRows ==
  ASSUME NEW f \in Flow, DriverInv, OneFlowInv(f), RowsInv(f), DeliverResult(f)
  PROVE  RowsStep(f)
<1>1. log' = log /\ outbox' = outbox /\ running' = running
  BY DEF DeliverResult, durable
<1>2. PICK row \in outbox :
        /\ row.effect.id[1] # "model"
        /\ Proceed(f,
             IF row.effect.id[1] = "inv" THEN ApplyOutcome(row, ToolOutcome(row.effect, "completed"))
             ELSE ApplyOutcome(row, <<WaitResolved(row.effect.turn, row.effect.at, "resolved")>>) \o WakeTasks,
             loops, live)
  BY DEF DeliverResult
<1> DEFINE F == EffectsOf(outbox')
           e == row.effect
<1>3. Rows(outbox)
  BY DEF DriverInv, DurableInv
<1>4. Begun(log, e) /\ (e.id[1] = "cred" => \A d \in F : d.id = e.id => d = e)
  BY <1>1, <1>3 DEF RowsInv, EffectsOf, Rows
<1>5. e.id[1] \in {"inv", "cred"}
  BY <1>2, <1>4 DEF Begun, IsEffect
<1>6. ASSUME NEW q, Proceed(f, q, loops, live), StackFair(q, log, F) PROVE RowsStep(f)
  BY <1>1, <1>6, RowsSame, RowsFresh
<1> HIDE DEF F
<1>7. CASE e.id[1] = "inv"
  <2> DEFINE items == ToolOutcome(e, "completed")
             q == ApplyOutcome(row, items)
             none == <<>>
  <2>1. Proceed(f, q, loops, live)
    BY <1>2, <1>7
  <2>2. PICK x : items = <<x>> /\ x.id = EndId(row.effect)
    BY <1>7, ToolEnds
  <2> HIDE DEF items
  <2>3. Plain(none)
    BY PlainFew
  <2>4. IsSeq(q)
    BY FreshEntries DEF Fresh
  <2>5. q \o none = q
    BY <2>4, SeqEmpty, EmptyConcat
  <2> HIDE DEF none
  <2>6. StackFair(q \o none, log, F)
    BY <1>4, <2>2, <2>3, OutcomeStack
  <2>7. QED
    BY <1>6, <2>1, <2>5, <2>6
<1>8. CASE e.id[1] = "cred"
  <2> DEFINE x == WaitResolved(e.turn, e.at, "resolved")
             items == <<x>>
             q == ApplyOutcome(row, items) \o WakeTasks
  <2>1. Proceed(f, q, loops, live)
    BY <1>2, <1>8
  <2>2. x.id = EndId(row.effect)
    BY <1>8 DEF WaitResolved, Event, EndId
  <2> HIDE DEF x
  <2>3. items = <<x>>
    OBVIOUS
  <2> HIDE DEF items
  <2>4. StackFair(q, log, F)
    BY <1>4, <2>2, <2>3, PlainEntries, OutcomeStack
  <2> HIDE DEF q
  <2>5. QED
    BY <1>6, <2>1, <2>4
<1>9. QED
  BY <1>5, <1>7, <1>8

\* The entry points that start with tasks that need nothing.
LEMMA PlainBegin ==
  ASSUME NEW f \in Flow,
         \/ \E m \in Message : Deliver(f, m)
         \/ Pause(f) \/ SendNow(f) \/ ScheduleResume(f) \/ ResumeAtReset(f) \/ Wake(f)
  PROVE  /\ log' = log /\ outbox' = outbox /\ (running' = running \/ running' = Aborted)
         /\ \E todo : Plain(todo) /\ Proceed(f, todo, loops, live)
<1> DEFINE ok == /\ log' = log /\ outbox' = outbox /\ (running' = running \/ running' = Aborted)
                 /\ \E todo : Plain(todo) /\ Proceed(f, todo, loops, live)
<1>1. ASSUME NEW m \in Message, Deliver(f, m) PROVE ok
  <2> DEFINE u == [Task("ack") EXCEPT !.in = m]
             a == HandleIncoming(Incoming("prompt", m))
  <2>1. u.do = "ack"
    BY DEF Task
  <2>2. log' = log /\ outbox' = outbox /\ running' = running /\ Proceed(f, a \o <<u>>, loops, live)
    BY <1>1 DEF Deliver, durable
  <2> HIDE DEF u
  <2>3. Lower(u) /\ u.do # "delete"
    BY <2>1 DEF Lower, Acts, Loadings, Appending
  <2>4. Plain(<<u>>) /\ Plain(a)
    BY <2>3, PlainFew, PlainEntries
  <2> HIDE DEF a
  <2>5. Plain(a \o <<u>>)
    BY <2>4, PlainConcat
  <2>6. QED
    BY <2>2, <2>5
<1>2. ASSUME Pause(f) PROVE ok
  BY <1>2, PlainEntries DEF Pause, durable
<1>3. ASSUME SendNow(f) PROVE ok
  <2>1. log' = log /\ outbox' = outbox /\ running' = running /\ Proceed(f, <<Loading(Task("flush"))>>, loops, live)
    BY <1>3 DEF SendNow, durable
  <2>2. Task("flush") = [x \in TaskFields |-> Task("flush")[x]] /\ Task("flush").do = "flush"
    BY TaskIs
  <2>3. Lower(Loading(Task("flush"))) /\ Loading(Task("flush")).do # "delete"
    BY <2>2, PlainTask DEF Appending
  <2>4. QED
    BY <2>1, <2>3, PlainFew
<1>4. ASSUME ScheduleResume(f) PROVE ok
  <2>1. PICK i : /\ log' = log /\ outbox' = outbox /\ running' = running
                 /\ Proceed(f, <<Loading([Task("schedule") EXCEPT !.in = log[i].about])>>, loops, live)
    BY <1>4 DEF ScheduleResume, durable
  <2> DEFINE t == [Task("schedule") EXCEPT !.in = log[i].about]
  <2>2. t = [x \in TaskFields |-> t[x]] /\ t.do = "schedule"
    BY DEF Task, TaskFields
  <2>3. Proceed(f, <<Loading(t)>>, loops, live)
    BY <2>1
  <2> HIDE DEF t
  <2>4. Lower(Loading(t)) /\ Loading(t).do # "delete"
    BY <2>2, PlainTask DEF Appending
  <2>5. QED
    BY <2>1, <2>3, <2>4, PlainFew
<1>5. ASSUME ResumeAtReset(f) PROVE ok
  <2>1. PICK msg : /\ log' = log /\ outbox' = outbox /\ running' = running
                   /\ Proceed(f, HandleIncoming(Incoming("resume", msg))
                                   \o <<[Task("unschedule") EXCEPT !.in = msg]>>, loops, live)
    BY <1>5 DEF ResumeAtReset, durable
  <2> DEFINE u == [Task("unschedule") EXCEPT !.in = msg]
             a == HandleIncoming(Incoming("resume", msg))
  <2>2. u.do = "unschedule"
    BY DEF Task
  <2>3. Proceed(f, a \o <<u>>, loops, live)
    BY <2>1
  <2> HIDE DEF u
  <2>4. Lower(u) /\ u.do # "delete"
    BY <2>2 DEF Lower, Acts, Loadings, Appending
  <2>5. Plain(<<u>>) /\ Plain(a)
    BY <2>4, PlainFew, PlainEntries
  <2> HIDE DEF a
  <2>6. Plain(a \o <<u>>)
    BY <2>5, PlainConcat
  <2>7. QED
    BY <2>1, <2>3, <2>6
<1>6. ASSUME Wake(f) PROVE ok
  BY <1>6, PlainEntries DEF Wake, durable
<1>7. QED
  BY <1>1, <1>2, <1>3, <1>4, <1>5, <1>6

\* An entry point of the driver is called.
LEMMA BeginRows ==
  ASSUME NEW f \in Flow, DriverInv, OneFlowInv(f), RowsInv(f), Begin(f)
  PROVE  RowsStep(f)
<1>1. CASE \/ \E m \in Message : Deliver(f, m)
           \/ Pause(f) \/ SendNow(f) \/ ScheduleResume(f) \/ ResumeAtReset(f) \/ Wake(f)
  <2>1. log' = log /\ outbox' = outbox /\ (running' = running \/ running' = Aborted)
    BY <1>1, PlainBegin
  <2>2. PICK todo : Plain(todo) /\ Proceed(f, todo, loops, live)
    BY <1>1, PlainBegin
  <2>3. RunningFair(running', log)
    BY <2>1, AbortedFair DEF RowsInv
  <2>4. (\A e \in EffectsOf(outbox') : Begun(log, e)) /\ DropsNone(EffectsOf(outbox), EffectsOf(outbox'), TruthOf(log))
    BY <2>1 DEF RowsInv, DropsNone
  <2>5. StackFair(todo, log, EffectsOf(outbox'))
    BY <2>2, PlainStack
  <2>6. QED
    BY <2>1, <2>2, <2>3, <2>4, <2>5, RowsFresh
<1>2. QED
  BY <1>1, DispatchRows, ExpireWaitRows, FinishModelRows, FinishToolRows, DeliverResultRows DEF Begin

-----------------------------------------------------------------------------
(* The theorem.                                                            *)

\* A late answer, or a lease that runs out.
LEMMA TouchRows ==
  ASSUME NEW f \in Flow, DriverInv, RowsInv(f), FinishDeferred \/ LeaseExpires
  PROVE  RowsStep(f)
<1>1. log' = log /\ flows' = flows
  BY DEF FinishDeferred, LeaseExpires
<1>2. Rows(outbox)
  BY DEF DriverInv, DurableInv
<1>3. EffectsOf(outbox') = EffectsOf(outbox) /\ RunningFair(running', log)
  <2>1. CASE FinishDeferred
    <3>1. PICK r \in running :
            /\ running' = Ended(r)
            /\ outbox' = IF HasRow(outbox, r.effect.id)
                         THEN Update(outbox, r.effect.id, [RowOf(outbox, r.effect.id) EXCEPT !.lease = "none"])
                         ELSE outbox
      BY <2>1 DEF FinishDeferred
    <3> DEFINE id == r.effect.id
               x == RowOf(outbox, id)
               new == [x EXCEPT !.lease = "none"]
    <3>2. HasRow(outbox, id) => IsRow(x)
      BY <1>2, RowOfIsRow
    <3> HIDE DEF x
    <3>3. HasRow(outbox, id) => new.effect = x.effect
      BY <3>2 DEF IsRow
    <3>4. outbox' = IF HasRow(outbox, id) THEN Update(outbox, id, new) ELSE outbox
      BY <3>1 DEF x
    <3> HIDE DEF new
    <3>5. EffectsOf(outbox') = EffectsOf(outbox)
      BY <1>2, <3>3, <3>4, EffectsTouched DEF x
    <3>6. QED
      BY <3>1, <3>5, EndedFair DEF RowsInv
  <2>2. CASE LeaseExpires
    <3>1. running' = running
      BY <2>2 DEF LeaseExpires
    <3>2. PICK row \in outbox : outbox' = Update(outbox, row.effect.id, [row EXCEPT !.lease = "expired"])
      BY <2>2 DEF LeaseExpires
    <3> DEFINE new == [row EXCEPT !.lease = "expired"]
    <3>3. IsRow(row)
      BY <1>2 DEF Rows
    <3>4. new.effect = row.effect
      BY <3>3 DEF IsRow
    <3>5. outbox' = Update(outbox, row.effect.id, new)
      BY <3>2
    <3> HIDE DEF new
    <3>6. EffectsOf(outbox') = EffectsOf(outbox)
      BY <1>2, <3>4, <3>5, EffectsUpdate
    <3>7. QED
      BY <3>1, <3>6 DEF RowsInv
  <2>3. QED
    BY <2>1, <2>2
<1>4. RowsInv(f)'
  BY <1>1, <1>3 DEF RowsInv
<1>5. QED
  BY <1>3, <1>4 DEF RowsStep, DropsNone

\* Every step keeps what the rows rely on, and drops none that counts.
LEMMA RowsKept ==
  ASSUME NEW f, Flow = {f}, DriverInv, OneFlowInv(f), RowsInv(f), [Next]_vars
  PROVE  RowsStep(f)
<1>0. f \in Flow /\ \A g \in Flow : g = f
  OBVIOUS
<1>1. CASE \E g \in Flow : Continue(g) \/ Begin(g)
  BY <1>0, <1>1, ContinueRows, BeginRows
<1>2. CASE FinishDeferred \/ LeaseExpires
  BY <1>0, <1>2, TouchRows
<1>3. CASE Crash
  <2>1. log' = log /\ outbox' = outbox /\ flows'[f] = <<>> /\ running' = {}
    BY <1>0, <1>3 DEF Crash, durable
  <2>2. StackFair(<<>>, log, EffectsOf(outbox)) /\ RunningFair({}, log)
    BY PlainFew, PlainStack DEF RunningFair
  <2>3. RowsInv(f)'
    BY <2>1, <2>2 DEF RowsInv
  <2>4. QED
    BY <2>1, <2>3 DEF RowsStep, DropsNone
<1>4. CASE UNCHANGED vars
  <2>1. log' = log /\ outbox' = outbox /\ flows' = flows /\ running' = running
    BY <1>4 DEF vars
  <2>2. RowsInv(f)'
    BY <2>1 DEF RowsInv
  <2>3. QED
    BY <2>1, <2>2 DEF RowsStep, DropsNone
<1>5. QED
  BY <1>1, <1>2, <1>3, <1>4 DEF Next

\* The agent starts with an empty journal and no rows.
LEMMA RowsInit ==
  ASSUME NEW f, Flow = {f}, Init
  PROVE  RowsInv(f)
<1>1. log = <<>> /\ outbox = {} /\ flows[f] = <<>> /\ running = {}
  BY DEF Init
<1>2. IdsOf(log) = {} /\ TruthOf(log) = InitialState
  <2>1. DOMAIN log = {}
    BY <1>1
  <2>2. QED
    BY <1>1, <2>1, FoldOne DEF IdsOf, TruthOf
<1>3. /\ InitialState.turn = None /\ InitialState.call = None /\ InitialState.pending = {}
      /\ InitialState.wait = None
  BY DEF InitialState
<1>4. Books(log)
  BY <1>2, <1>3 DEF Books, Ledger, CallOpen, InvocationsOpen, WaitOpen, TurnOpen
<1>5. StackFair(<<>>, log, EffectsOf(outbox)) /\ RunningFair({}, log) /\ EffectsOf(outbox) = {}
  BY <1>1, PlainFew, PlainStack DEF RunningFair, EffectsOf
<1>6. QED
  BY <1>1, <1>4, <1>5 DEF RowsInv

\* "append outcome events FIRST, then delete the row": while the entry points of an
\* agent are served one after the other, a row leaves the outbox only when the
\* journal settles its effect, whatever crash, expired lease, exhausted retry,
\* refused append or suspension that the executor reported came before.  (Of the
\* suspension that dispatchRow makes when the executor throws nothing is said: it
\* uses the loop loaded before the executor ran, and is not modelled.)
THEOREM RowsOutlive ==
  ASSUME NEW f, Flow = {f}
  PROVE  Spec => RowsOutliveIntentions
<1>1. Init => RowsInv(f)
  BY RowsInit
<1>2. DriverInv /\ OneFlowInv(f) /\ RowsInv(f) /\ [Next]_vars => RowsStep(f)
  BY RowsKept
<1>3. RowsStep(f) => RowsInv(f)'
  BY DEF RowsStep
<1>4. RowsStep(f) => \A r \in outbox : HasRow(outbox', r.effect.id) \/ r.effect \notin PendingEffects(Truth)
  BY DEF RowsStep, DropsNone, EffectsOf, HasRow, Truth, TruthOf
<1>5. Spec => [](DriverInv /\ OneFlowInv(f))
  BY OneFlowAlways
<1>6. Spec => RowsOutliveIntentions
  BY <1>1, <1>2, <1>3, <1>4, <1>5, PTL DEF Spec, RowsOutliveIntentions
<1>7. QED
  BY <1>6

=============================================================================
