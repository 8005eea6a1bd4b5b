----------------------------- MODULE AgentLoop -----------------------------
(***************************************************************************)
(* The pure half of the agent loop (workspace/packages/agent-loop): the    *)
(* state that is folded from a trajectory log, and the step function that  *)
(* answers a command, a journaled event or a failed effect with events to  *)
(* append and effects to start.                                            *)
(*                                                                         *)
(* A message a user sends is a member of Message; its text, sender and     *)
(* metadata are left out, except for the send-after-turn flag.  Ids are    *)
(* tuples that start with a tag, built from the same parts as the strings  *)
(* of ids.ts.  The credential a model call needs is the one of its         *)
(* provider, so there is at most one wait at a time.  Approvals, edits,    *)
(* retractions and configuration changes are not modelled.                 *)
(***************************************************************************)
EXTENDS Integers, Sequences, FiniteSets, SequencesExt

CONSTANTS
  Message,          \* messages users send to the channel
  AfterTurn,        \* those sent with deliverAfterTurn
  MaxModelCalls,    \* maxModelCallsPerTurn
  None

ASSUME AfterTurnType == AfterTurn \subseteq Message
ASSUME MaxModelCallsType == MaxModelCalls \in Nat \ {0}

-----------------------------------------------------------------------------
(* Ids (ids.ts) and events.                                                *)

RecvId(m) == <<"recv", m>>
PromotedId(m, seq) == <<"promoted", m, seq>>
TurnId(trigger) == <<"turn", trigger>>
MessageId(turn, count) == <<"msg", turn, count>>
DiagId(turn, what) == <<"diag", turn, what>>

\* What a row of the outbox must know of the effect it stands for: its id, and
\* the turn and the seq that its outcome's events are about.
Effect(id, turn, at) == [id |-> id, turn |-> turn, at |-> at]
ModelEffect(msg) == Effect(<<"model", msg>>, msg[2], 0)
InvocationEffect(inv, turn) == Effect(<<"inv", inv>>, turn, 0)
CredentialEffect(wait) == Effect(<<"cred">>, wait.turn, wait.at)

Event(kind, id) ==
  [kind |-> kind, id |-> id, seq |-> 0, src |-> None, after |-> FALSE, turn |-> None,
   about |-> None, outcome |-> None, tools |-> {}, through |-> 0]

Recv(m) ==
  [Event("user", RecvId(m)) EXCEPT !.src = m, !.after = (m \in AfterTurn)]
PromotedRecv(d, seq) == [Event("user", PromotedId(d.src, seq)) EXCEPT !.src = d.src]
TurnOpened(turn) == [Event("turn.opened", <<"opened", turn>>) EXCEPT !.turn = turn]
TurnClosed(turn) == [Event("turn.closed", <<"closed", turn>>) EXCEPT !.turn = turn]
TurnWaiting(turn, n) == [Event("turn.waiting", <<"waiting", turn, n>>) EXCEPT !.turn = turn]
MessageStarted(turn, msg, through) ==
  [Event("message.started", <<"started", msg>>) EXCEPT !.turn = turn, !.about = msg, !.through = through]
MessageCompleted(msg, outcome, tools) ==
  [Event("message.completed", <<"terminal", msg>>) EXCEPT
     !.about = msg, !.outcome = outcome, !.tools = tools]
MessageFailed(msg, outcome) ==
  [Event("message.failed", <<"terminal", msg>>) EXCEPT !.about = msg, !.outcome = outcome]
Diagnostic(turn, what) ==
  [Event("message.completed", DiagId(turn, what)) EXCEPT
     !.about = DiagId(turn, what), !.turn = turn, !.outcome = "completed"]
InvocationStarted(turn, inv) ==
  [Event("invocation.started", <<"inv-start", inv>>) EXCEPT !.turn = turn, !.about = inv]
InvocationTerminal(turn, inv, outcome) ==
  [Event("invocation.terminal", <<"inv-terminal", inv>>) EXCEPT
     !.turn = turn, !.about = inv, !.outcome = outcome]
WaitStarted(turn, msg, seq) ==
  [Event("wait.started", <<"wait-started", seq>>) EXCEPT !.turn = turn, !.about = msg]
WaitResolved(turn, seq, outcome) ==
  [Event("wait.resolved", <<"wait-resolved", seq>>) EXCEPT !.turn = turn, !.outcome = outcome]
WaitExpired(turn, seq) ==
  [Event("wait.expired", <<"wait-expired", seq>>) EXCEPT !.turn = turn]
Interrupt(turn) == [Event("interrupt", <<"interrupt", turn>>) EXCEPT !.turn = turn]
FlushSteers(turn, seq) == [Event("flush", <<"flush", turn, seq>>) EXCEPT !.turn = turn]
ResumeDue(turn, msg, seq) ==
  [Event("resume", <<"resume", msg, seq>>) EXCEPT !.turn = turn, !.about = msg]

-----------------------------------------------------------------------------
(* The folded state (state.ts) and the fold (fold.ts, applyEvent).         *)

OpenTurn(turn, seq) ==
  [id |-> turn, openedAt |-> seq, calls |-> 0, interrupted |-> FALSE, waits |-> 0, flush |-> FALSE]

InitialState ==
  [turn |-> None,       \* openTurn
   call |-> None,       \* inFlightModelCall
   pending |-> {},      \* pendingInvocations
   wait |-> None,       \* pendingCredentialWaits
   steering |-> <<>>,   \* steeringQueue
   prompt |-> None,     \* pendingPrompt
   deferred |-> <<>>,   \* deferredPostTurnQueue
   entries |-> <<>>,    \* the session entries
   lastSeq |-> 0]

\* The items at the positions in K, in their order.
Kept(items, K) ==
  LET kept[n \in 0 .. Len(items)] ==
        IF n = 0 THEN <<>>
        ELSE IF n \in K THEN Append(kept[n - 1], items[n]) ELSE kept[n - 1]
  IN  kept[Len(items)]

\* The items that come after a seq, and those of other messages:
\* filter((item) => item.seq > seq), filter((item) => item.src !== src).
After(items, seq) == Kept(items, {i \in DOMAIN items : items[i].seq > seq})
Without(items, src) == Kept(items, {i \in DOMAIN items : items[i].src # src})

OnTurnOpened(s, e) == [s EXCEPT !.turn = OpenTurn(e.turn, e.seq), !.prompt = None]

OnTurnClosed(s, e) ==
  IF s.turn # None /\ s.turn.id # e.turn THEN s ELSE [s EXCEPT !.turn = None, !.call = None]

OnTurnWaiting(s, e) == IF s.turn = None THEN s ELSE [s EXCEPT !.turn.waits = @ + 1]

\* A model call consumes the steers that its context covers.
OnMessageStarted(s, e) ==
  [s EXCEPT
     !.call = [msg |-> e.about, through |-> e.through],
     !.turn = IF @ = None THEN @ ELSE [@ EXCEPT !.calls = @ + 1, !.flush = FALSE],
     !.steering = After(@, e.through)]

\* A terminal of a call that is no longer the one in flight is ignored.
OnMessageTerminal(s, e) ==
  IF s.call # None /\ s.call.msg # e.about THEN s
  ELSE [s EXCEPT
          !.call = None,
          !.entries = IF e.kind = "message.failed" THEN @
                      ELSE Append(@, [kind |-> "assistant", id |-> e.about, tools |-> e.tools])]

\* Faulty: a message that is promoted stays in the queue it waited in.
OnUserMessageKeeps(s, e) ==
  LET item == [src |-> e.src, id |-> e.id, seq |-> e.seq]
      read == [s EXCEPT !.entries = Append(@, [kind |-> "user", id |-> e.id, tools |-> {}])]
  IN  IF e.after /\ s.turn # None THEN [s EXCEPT !.deferred = Append(@, item)]
      ELSE IF s.turn # None THEN [read EXCEPT !.steering = Append(@, item)]
      ELSE [read EXCEPT !.prompt = item]

\* A user message steers the open turn, waits behind it when it was sent for
\* after the turn, or becomes the pending prompt.
OnUserMessage(s, e) ==
  LET item == [src |-> e.src, id |-> e.id, seq |-> e.seq]
      read == [s EXCEPT
                 !.deferred = Without(@, e.src),
                 !.entries = Append(@, [kind |-> "user", id |-> e.id, tools |-> {}])]
  IN  IF e.after /\ s.turn # None THEN [s EXCEPT !.deferred = Append(@, item)]
      ELSE IF s.turn # None THEN [read EXCEPT !.steering = Append(@, item)]
      ELSE [read EXCEPT !.prompt = item]

OnInvocationStarted(s, e) ==
  [s EXCEPT !.pending = {i \in @ : i.inv # e.about} \cup {[inv |-> e.about, turn |-> e.turn]}]

OnInvocationTerminal(s, e) ==
  IF \A i \in s.pending : i.inv # e.about THEN s
  ELSE [s EXCEPT !.pending = {i \in @ : i.inv # e.about},
                 !.entries = Append(@, [kind |-> "tool-result", id |-> e.about, tools |-> {}])]

OnWaitStarted(s, e) ==
  [s EXCEPT !.wait = [at |-> e.seq, turn |-> e.turn],
            !.call = IF @ # None /\ @.msg = e.about THEN None ELSE @]

ApplyEvent(prev, e) ==
  LET s == [prev EXCEPT !.lastSeq = e.seq] IN
    CASE e.kind = "turn.opened" -> OnTurnOpened(s, e)
      [] e.kind = "turn.closed" -> OnTurnClosed(s, e)
      [] e.kind = "turn.waiting" -> OnTurnWaiting(s, e)
      [] e.kind = "message.started" -> OnMessageStarted(s, e)
      [] e.kind \in {"message.completed", "message.failed"} -> OnMessageTerminal(s, e)
      [] e.kind = "user" -> OnUserMessage(s, e)
      [] e.kind = "invocation.started" -> OnInvocationStarted(s, e)
      [] e.kind = "invocation.terminal" -> OnInvocationTerminal(s, e)
      [] e.kind = "wait.started" -> OnWaitStarted(s, e)
      [] e.kind \in {"wait.resolved", "wait.expired"} -> [s EXCEPT !.wait = None]
      [] e.kind = "interrupt" ->
           IF s.turn = None THEN s ELSE [s EXCEPT !.turn.interrupted = TRUE]
      [] e.kind = "flush" -> IF s.turn = None THEN s ELSE [s EXCEPT !.turn.flush = TRUE]
      [] OTHER -> s

FoldEvents(s, events) ==
  LET after[n \in 0 .. Len(events)] ==
        IF n = 0 THEN s ELSE ApplyEvent(after[n - 1], events[n])
  IN  after[Len(events)]

\* projectAppend: the state after a batch, under the seqs it would get.
ProjectAppend(s, items) ==
  FoldEvents(s, [i \in DOMAIN items |-> [items[i] EXCEPT !.seq = s.lastSeq + i]])

=============================================================================
