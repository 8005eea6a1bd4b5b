----------------------------- MODULE AgentStep -----------------------------
(***************************************************************************)
(* The step function of the agent loop (agent-loop/src/step.ts) and the    *)
(* two functions that relate effects to events (effects.ts).  An output is *)
(* a batch of events to append and a set of effects to start once the      *)
(* batch is journaled.                                                     *)
(***************************************************************************)
EXTENDS AgentLoop

Output(append, effects) == [append |-> append, effects |-> effects]
Empty == Output(<<>>, {})

-----------------------------------------------------------------------------
(* Building blocks.                                                        *)

\* modelStartItems: the call's context covers the log so far and the items
\* that precede it in its batch.
ModelStart(s, turn, count, before) ==
  Output(<<MessageStarted(turn, MessageId(turn, count), s.lastSeq + before)>>,
         {ModelEffect(MessageId(turn, count))})

\* nextModelCall: another call, or the close of a turn that used up its calls.
NextModelCall(s, before) ==
  IF s.turn.calls >= MaxModelCalls
  THEN Output(<<Diagnostic(s.turn.id, <<"max-calls">>), TurnClosed(s.turn.id)>>, {})
  ELSE ModelStart(s, s.turn.id, s.turn.calls, before)

Then(first, output) == Output(first \o output.append, output.effects)

\* promotePendingPrompt, promoteSteersAsTurn: open a turn for a message that
\* is already journaled.  s is the state after the items in first.
OpenTurnFor(s, trigger, first) ==
  LET turn == TurnId(trigger)
      opened == [s EXCEPT !.turn = OpenTurn(turn, s.lastSeq + 1)]
  IN  Then(Append(first, TurnOpened(turn)), ModelStart(opened, turn, 0, 1))

PromotePendingPrompt(s, first) == OpenTurnFor(s, s.prompt.id, first)
PromoteSteersAsTurn(s) == OpenTurnFor(s, s.steering[1].id, <<>>)

\* Faulty: the last message that was deferred goes first.
PromoteLastDeferred(s) ==
  LET recv == PromotedRecv(s.deferred[Len(s.deferred)], s.lastSeq)
  IN  PromotePendingPrompt(ProjectAppend(s, <<recv>>), <<recv>>)

PromoteDeferred(s) ==
  LET recv == PromotedRecv(s.deferred[1], s.lastSeq)
  IN  PromotePendingPrompt(ProjectAppend(s, <<recv>>), <<recv>>)

\* interruptCleanupItems: settle whatever is pending, close the turn.
CancelPending(s) ==
  SetToSeq({InvocationTerminal(i.turn, i.inv, "cancelled") : i \in s.pending})
InterruptCleanup(s) ==
  CancelPending(s)
    \o (IF s.wait = None THEN <<>> ELSE <<WaitResolved(s.wait.turn, s.wait.at, "cancelled")>>)
    \o (IF s.turn = None THEN <<>> ELSE <<TurnClosed(s.turn.id)>>)

ExpandToolCalls(turn, tools) ==
  Output(SetToSeq({InvocationStarted(turn, inv) : inv \in tools}),
         {InvocationEffect(inv, turn) : inv \in tools})

\* wakeGuardSatisfied: no call in flight, no invocation without a terminal.
WakeGuard(s) == s.call = None /\ s.pending = {}

LastEntry(s) == s.entries[Len(s.entries)]
HasFreshInput(s) ==
  s.steering # <<>> \/ (s.entries # <<>> /\ LastEntry(s).kind = "tool-result")

-----------------------------------------------------------------------------
(* commandStep.                                                            *)

AlreadyIngested(s, m) ==
  \/ s.prompt # None /\ s.prompt.id = RecvId(m)
  \/ \E i \in DOMAIN s.steering : s.steering[i].id = RecvId(m)
  \/ \E i \in DOMAIN s.entries : s.entries[i].kind = "user" /\ s.entries[i].id = RecvId(m)

\* A prompt opens a turn; while a turn is open it steers that turn (or waits
\* behind it), and continues it when nothing else is going to.
PromptStep(s, m) ==
  LET turn == TurnId(<<"src", m>>)
      opened == [s EXCEPT !.turn = OpenTurn(turn, s.lastSeq + 2)]
      continues == ~s.turn.interrupted /\ s.call = None /\ s.pending = {}
  IN  CASE AlreadyIngested(s, m) -> Empty
        [] ~AlreadyIngested(s, m) /\ s.turn = None ->
             Then(<<Recv(m), TurnOpened(turn)>>, ModelStart(opened, turn, 0, 2))
        [] ~AlreadyIngested(s, m) /\ s.turn # None ->
             IF m \notin AfterTurn /\ continues
             THEN Then(<<Recv(m)>>, NextModelCall(s, 1))
             ELSE Output(<<Recv(m)>>, {})

\* flushStep: one step of "send now".
FlushStep(s) ==
  IF s.steering # <<>> THEN
    IF s.turn = None THEN PromoteSteersAsTurn(s)
    ELSE IF s.call # None THEN Output(<<FlushSteers(s.turn.id, s.lastSeq)>>, {})
    ELSE IF ~s.turn.interrupted /\ WakeGuard(s) THEN NextModelCall(s, 0)
    ELSE Output(InterruptCleanup(s), {})
  ELSE
    IF s.turn = None THEN PromoteDeferred(s)
    ELSE IF s.call # None THEN Output(<<Interrupt(s.turn.id)>>, {})
    ELSE Output(InterruptCleanup(s), {})

InterruptStep(s) ==
  IF s.turn = None THEN Empty
  ELSE IF s.call # None THEN Output(<<Interrupt(s.turn.id)>>, {})
  ELSE Output(<<Interrupt(s.turn.id)>>
                \o InterruptCleanup(ProjectAppend(s, <<Interrupt(s.turn.id)>>)), {})

\* Tool calls of the last answer that were never turned into invocations.
Unprocessed(s) ==
  LET answers == {i \in DOMAIN s.entries : s.entries[i].kind = "assistant"}
      last == s.entries[CHOOSE i \in answers : \A j \in answers : j <= i]
      settled == {s.entries[i].id : i \in {j \in DOMAIN s.entries : s.entries[j].kind = "tool-result"}}
  IN  IF answers = {} THEN {}
      ELSE (last.tools \ {p.inv : p \in s.pending}) \ settled

\* The wake command: no executor is running, so a call in flight is an orphan.
WakeStep(s) ==
  LET orphan == IF s.call = None THEN <<>> ELSE <<MessageFailed(s.call.msg, "recoverable")>>
      t == ProjectAppend(s, orphan)
      idle == t.turn # None /\ ~t.turn.interrupted
  IN  CASE t.turn # None /\ t.turn.interrupted -> Output(orphan \o InterruptCleanup(t), {})
        [] idle /\ Unprocessed(t) # {} -> Then(orphan, ExpandToolCalls(t.turn.id, Unprocessed(t)))
        [] /\ idle /\ Unprocessed(t) = {}
           /\ WakeGuard(t) /\ (HasFreshInput(t) \/ t.turn.calls = 0 \/ orphan # <<>>) ->
             Then(orphan, NextModelCall(t, Len(orphan)))
        [] t.turn = None /\ t.prompt # None -> PromotePendingPrompt(t, orphan)
        [] OTHER -> Output(orphan, {})

\* resumeAfterReset, once the reset time has passed.
ResumeStep(s, msg) ==
  IF s.turn = None \/ ~WakeGuard(s) THEN Empty
  ELSE IF s.turn.interrupted \/ msg[2] # s.turn.id THEN Empty
  ELSE Then(<<ResumeDue(s.turn.id, msg, s.lastSeq)>>, NextModelCall(s, 1))

-----------------------------------------------------------------------------
(* eventStep: s is the state after the event e was folded.                 *)

\* Faulty: only an answer that was cut short respects the interrupt.
AnswerStepUngated(s, e) ==
  IF s.turn = None THEN Empty
  ELSE IF e.outcome = "interrupted" THEN Output(InterruptCleanup(s), {})
  ELSE IF e.tools # {} THEN ExpandToolCalls(s.turn.id, e.tools)
  ELSE IF s.steering # <<>> THEN NextModelCall(s, 0)
  ELSE Output(<<TurnClosed(s.turn.id)>>, {})

AnswerStep(s, e) ==
  IF s.turn = None THEN Empty
  ELSE IF e.outcome = "interrupted" \/ s.turn.interrupted
       THEN IF s.turn.flush /\ ~s.turn.interrupted /\ s.steering # <<>> /\ WakeGuard(s)
            THEN NextModelCall(s, 0)
            ELSE Output(InterruptCleanup(s), {})
  ELSE IF e.tools # {} THEN ExpandToolCalls(s.turn.id, e.tools)
  ELSE IF s.steering # <<>> THEN NextModelCall(s, 0)
  ELSE Output(<<TurnClosed(s.turn.id)>>, {})

\* Faulty: steers that no model call consumed are not promoted at the close.
ClosedStepDrops(s) ==
  IF s.turn # None \/ s.deferred = <<>> THEN Empty ELSE PromoteDeferred(s)

ClosedStep(s) ==
  IF s.turn # None THEN Empty
  ELSE IF s.steering # <<>> THEN PromoteSteersAsTurn(s)
  ELSE IF s.deferred # <<>> THEN PromoteDeferred(s)
  ELSE Empty

FailedStep(s, e) ==
  IF s.turn = None THEN Empty
  ELSE IF s.turn.interrupted THEN Empty
  ELSE IF e.outcome = "reset" THEN Output(<<TurnWaiting(s.turn.id, s.turn.waits)>>, {})
  ELSE IF e.outcome = "fatal" THEN Output(<<TurnClosed(s.turn.id)>>, {})
  ELSE IF WakeGuard(s) THEN NextModelCall(s, 0)
  ELSE Empty

\* Faulty: the first tool result starts the next call.
ToolStepFirst(s) ==
  IF s.turn = None THEN Empty
  ELSE IF s.turn.interrupted \/ s.call # None \/ s.wait # None THEN Empty
  ELSE NextModelCall(s, 0)

ToolStep(s) ==
  IF s.turn = None THEN Empty
  ELSE IF s.turn.interrupted \/ ~WakeGuard(s) \/ s.wait # None THEN Empty
  ELSE NextModelCall(s, 0)

ResolvedStep(s) ==
  IF s.turn = None THEN Empty
  ELSE IF s.turn.interrupted \/ ~WakeGuard(s) THEN Empty
  ELSE NextModelCall(s, 0)

EventStep(s, e) ==
  CASE e.kind = "message.completed" -> AnswerStep(s, e)
    [] e.kind = "turn.closed" -> ClosedStep(s)
    [] e.kind = "message.failed" -> FailedStep(s, e)
    [] e.kind = "invocation.terminal" -> ToolStep(s)
    [] e.kind = "interrupt" ->
         IF s.turn # None /\ s.call = None THEN Output(InterruptCleanup(s), {}) ELSE Empty
    [] e.kind = "wait.resolved" /\ e.outcome = "resolved" -> ResolvedStep(s)
    [] OTHER -> Empty

-----------------------------------------------------------------------------
(* effectFailedStep: an effect ran out of attempts.                        *)

\* Faulty: the turn is closed, but the call gets no terminal.
ModelFailedStepSilent(s, effect, why) ==
  Output(IF s.turn = None \/ why = "reset" THEN <<>>
         ELSE <<Diagnostic(s.turn.id, effect), TurnClosed(s.turn.id)>>, {})

\* A failure with a reset time leaves the turn open, to be resumed.
ModelFailedStep(s, effect, why) ==
  Output((IF s.call = None THEN <<>> ELSE <<MessageFailed(s.call.msg, why)>>)
           \o (IF s.turn = None \/ why = "reset" THEN <<>>
               ELSE <<Diagnostic(s.turn.id, effect), TurnClosed(s.turn.id)>>), {})

WaitFailedStep(s) ==
  Output((IF s.wait = None THEN <<>> ELSE <<WaitExpired(s.wait.turn, s.wait.at)>>)
           \o (IF s.turn = None THEN <<>> ELSE <<TurnClosed(s.turn.id)>>), {})

InvocationFailedStep(s, inv) ==
  Output(SetToSeq({InvocationTerminal(i.turn, i.inv, "failed") : i \in {p \in s.pending : p.inv = inv}}), {})

EffectFailedStep(s, effect, why) ==
  CASE effect[1] = "model" -> ModelFailedStep(s, effect, why)
    [] effect[1] = "cred" -> WaitFailedStep(s)
    [] effect[1] = "inv" -> InvocationFailedStep(s, effect[2])

\* coreStep.
Step(s, in) ==
  CASE in.type = "prompt" -> PromptStep(s, in.arg)
    [] in.type = "interrupt" -> InterruptStep(s)
    [] in.type = "flush" ->
         IF s.steering # <<>> \/ s.deferred # <<>> THEN FlushStep(s) ELSE InterruptStep(s)
    [] in.type = "wake" -> WakeStep(s)
    [] in.type = "resume" -> ResumeStep(s, in.arg)
    [] in.type = "event" -> EventStep(s, in.arg)
    [] in.type = "failed" -> EffectFailedStep(s, in.arg.effect, in.arg.why)

-----------------------------------------------------------------------------
(* effects.ts.                                                             *)

\* derivePendingEffects: intentions in the log without an outcome.
PendingEffects(s) ==
  (IF s.call = None THEN {} ELSE {ModelEffect(s.call.msg)})
    \cup {InvocationEffect(i.inv, i.turn) : i \in s.pending}
    \cup (IF s.wait = None THEN {} ELSE {CredentialEffect(s.wait)})

=============================================================================
