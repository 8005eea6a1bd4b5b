---------------------------- MODULE AgentDriver ----------------------------
(***************************************************************************)
(* The driver of the agent loop (agentic-do/src/agent-loop-driver.ts) with *)
(* its outbox of effects and its fold cache: one agent on one channel.     *)
(*                                                                         *)
(* The durable state is the journal (the agent's log in the gad store, see *)
(* UnifiedLog; here one linear log, so that its head hash is its length),  *)
(* the fold cache, the outbox and the scheduled resumes.  The rest is the  *)
(* memory of the isolate, which a crash erases.                            *)
(*                                                                         *)
(* An entry point of the driver is a flow: a stack of tasks, the first of  *)
(* which is under way.  Flows run on one thread and interleave where they  *)
(* wait for the store, the blobstore or the channel; an await of what is   *)
(* already there does not let another flow in.  An append waits up to four *)
(* times: for the encoding of payloads that go to the blobstore, for the   *)
(* store to commit or refuse it, for the reply, and for the broadcast of   *)
(* what it published.                                                      *)
(***************************************************************************)
EXTENDS AgentStep

CONSTANTS
  Flow,           \* flows that may be under way at the same time
  Tool,           \* tools of the model
  Remote,         \* those whose result is delivered after the call returned
  MaxAttempts,    \* of an effect, before it is given up
  Scenarios       \* what the environment may do: one is chosen for a behaviour

\* A scenario: the messages that are sent, the sets of tools an answer may call,
\* the ways in which a model call may fail, and how often something disturbs.
Scenario ==
  [messages : SUBSET Message, answers : SUBSET SUBSET Tool,
   failures : SUBSET {"retry", "suspend", "fatal", "reset"},
   deliveries : Nat, crashes : Nat, expiries : Nat, pauses : Nat, wakes : Nat]

AppendRetries == 1
HeadConflictRetries == 3

ASSUME DriverTypes ==
  /\ Remote \subseteq Tool /\ IsFiniteSet(Tool)
  /\ MaxAttempts \in Nat
  /\ \A s \in Scenarios : s \in Scenario

VARIABLES
  log, cache, outbox, resumes,    \* durable
  loops, live,                    \* the loops that are held, and the one in the map
  flows, running,                 \* flows and executions under way
  sent, acked,                    \* messages delivered, and acknowledged
  world                           \* the scenario, and what is left of its disturbances

durable == <<log, cache, outbox, resumes>>
vars == <<log, cache, outbox, resumes, loops, live, flows, running, sent, acked, world>>

-----------------------------------------------------------------------------
(* The journal: appendLogEvent on one head.                                *)

JournaledAt(id) == {i \in DOMAIN log : log[i].id = id}
Journaled(id) == JournaledAt(id) # {}
Position(item) == CHOOSE i \in JournaledAt(item.id) : TRUE
SameContent(item) == [log[Position(item)] EXCEPT !.seq = 0] = item

\* The items before the first one that is new.
Replayed(items) ==
  Cardinality({n \in DOMAIN items : \A i \in 1..n : Journaled(items[i].id)})

\* Faulty: the expected head is not compared.
AppendErrorNoHead(expected, items) ==
  LET p == Replayed(items) IN
    IF \E i \in 1..p : ~SameContent(items[i]) THEN "id-collision"
    ELSE IF \E i \in p+1..Len(items) : Journaled(items[i].id) THEN "replay-mismatch"
    ELSE None

AppendError(expected, items) ==
  LET p == Replayed(items) IN
    IF \E i \in 1..p : ~SameContent(items[i]) THEN "id-collision"
    ELSE IF \E i \in p+1..Len(items) : Journaled(items[i].id) THEN "replay-mismatch"
    ELSE IF p = 0 /\ expected # Len(log) THEN "head-conflict"
    ELSE IF p \in 1..Len(items)-1 /\ Position(items[p]) # Len(log) THEN "replay-mismatch"
    ELSE None

Inserted(items) ==
  LET p == Replayed(items)
  IN  [i \in 1..Len(items) - p |-> [items[p + i] EXCEPT !.seq = Len(log) + i]]
Envelopes(items) ==
  [i \in 1..Replayed(items) |-> log[Position(items[i])]] \o Inserted(items)

-----------------------------------------------------------------------------
(* The fold cache and the outbox.                                          *)

Truth == FoldEvents(InitialState, log)

\* loadState: the cached state, unless it is ahead of the head that was read.
CachedThrough(head) ==
  IF cache = None THEN None ELSE IF cache.lastSeq > head THEN None ELSE cache

Row(effect) == [effect |-> effect, attempts |-> 0, lease |-> "none"]
HasRow(rows, id) == \E r \in rows : r.effect.id = id
RowOf(rows, id) == CHOOSE r \in rows : r.effect.id = id

\* Faulty: a row that is there does not keep another one out.
InsertAlways(rows, effects) == rows \cup {Row(e) : e \in effects}

Insert(rows, effects) == rows \cup {Row(e) : e \in {x \in effects : ~HasRow(rows, x.id)}}
Delete(rows, id) == {r \in rows : r.effect.id # id}
Update(rows, id, new) == {IF r.effect.id = id THEN new ELSE r : r \in rows}

\* Faulty: what the fold expects and the outbox lacks is not inserted.
ReconciledDeleteOnly(rows, s) == {r \in rows : \E e \in PendingEffects(s) : e.id = r.effect.id}

\* reconcile: the rows are the effects that are pending in the fold.
Reconciled(rows, s) ==
  Insert({r \in rows : \E e \in PendingEffects(s) : e.id = r.effect.id}, PendingEffects(s))

-----------------------------------------------------------------------------
(* Flows.                                                                  *)

Task(do) ==
  [do |-> do, then |-> None, kind |-> None, loop |-> None, in |-> None, items |-> <<>>,
   effects |-> {}, retries |-> 0, expected |-> 0, envs |-> <<>>, row |-> None, state |-> None,
   code |-> None]

Incoming(type, arg) == [type |-> type, arg |-> arg]
Loading(task) == [task EXCEPT !.do = "load", !.then = task.do]
StepTask(in, retries) == [Task("step") EXCEPT !.kind = "step", !.in = in, !.retries = retries]
Cascade(loop, envs, retries) ==
  [i \in DOMAIN envs |-> [StepTask(Incoming("event", envs[i]), retries) EXCEPT !.loop = loop]]

Settle == Loading(Task("reconcile"))
HandleIncoming(in) == <<Loading(StepTask(in, AppendRetries)), Settle>>
WakeTasks == <<Task("drop"), Loading(Task("wake")), Settle, Loading(Task("recover"))>>
FailEffect(row, why) ==
  HandleIncoming(Incoming("failed", [effect |-> row.effect.id, why |-> why]))
    \o <<[Task("delete") EXCEPT !.row = row]>>
OutcomeTask(row, items) ==
  [Task("send") EXCEPT !.kind = "outcome", !.row = row, !.items = items,
                       !.retries = HeadConflictRetries]
ApplyOutcome(row, items) == <<Loading(OutcomeTask(row, items)), Settle>>

\* Names for loop instances: a flow holds at most two, and the map one.
Instance == 1..2 * Cardinality(Flow) + 1

ASSUME NoInstance == None \notin Instance
ASSUME NoError == None \notin {"id-collision", "replay-mismatch", "head-conflict"}

Idle(f) == flows[f] = <<>>
Current(f) == Head(flows[f])

\* encodeStorageClasses: arguments and results go to the blobstore first, ...
ByReference(item) ==
  item.tools # {} \/ (item.kind = "invocation.terminal" /\ item.outcome = "completed")

\* broadcastPublications: ... and all but what was received goes to the channel.
Published(env) == env.kind # "user"

\* A flow that waits lets the others run.
Waiting(t) ==
  CASE t.do = "send" -> \E i \in DOMAIN t.items : ByReference(t.items[i])
    [] t.do = "fold" -> \E i \in DOMAIN t.envs : Published(t.envs[i])
    [] OTHER -> t.do \in {"head", "headreply", "tail", "tailreply", "commit", "reply", "stale"}
Waits(f) == ~Idle(f) => Waiting(Current(f))
Quiescent == \A f \in Flow : Waits(f)

Free(f) == Idle(f) /\ Quiescent
At(f, do) == ~Idle(f) /\ Current(f).do = do /\ (Waits(f) => Quiescent)
State(f) == loops[Current(f).loop]

Referenced(i, todos, map) ==
  map = i \/ \E f \in Flow : \E k \in DOMAIN todos[f] : todos[f][k].loop = i

\* A flow goes on with the tasks of todo; instances nobody holds are forgotten.
Proceed(f, todo, instances, map) ==
  LET todos == [flows EXCEPT ![f] = todo]
  IN  /\ flows' = todos
      /\ live' = map
      /\ loops' = [i \in {x \in Instance : Referenced(x, todos, map)} |-> instances[i]]

Pop(f) == Proceed(f, Tail(flows[f]), loops, live)
Become(f, task) == Proceed(f, <<task>> \o Tail(flows[f]), loops, live)
Throw(f) == Proceed(f, <<>>, loops, live)

Environment == <<sent, acked, world>>

-----------------------------------------------------------------------------
(* Loading a loop: loop(), FoldCache.loadState.                            *)

LoadLive(f) ==
  /\ At(f, "load") /\ live # None
  /\ Become(f, [Current(f) EXCEPT !.do = Current(f).then, !.then = None, !.loop = live])
  /\ UNCHANGED <<durable, running, Environment>>

LoadCold(f) ==
  /\ At(f, "load") /\ live = None
  /\ Become(f, [Current(f) EXCEPT !.do = "head"])
  /\ UNCHANGED <<durable, running, Environment>>

\* The store answers getLogHead.
GetLogHead(f) ==
  /\ At(f, "head")
  /\ Become(f, [Current(f) EXCEPT !.do = "headreply", !.expected = Len(log)])
  /\ UNCHANGED <<durable, running, Environment>>

\* A new instance with state s takes the place in the map of loops.
Install(f, s) ==
  LET t == Current(f)
      i == CHOOSE x \in Instance : ~Referenced(x, flows, live)
      done == [t EXCEPT !.do = t.then, !.then = None, !.loop = i, !.state = None, !.expected = 0]
  IN  /\ \E x \in Instance : ~Referenced(x, flows, live)
      /\ Proceed(f, <<done>> \o Tail(flows[f]),
                 [x \in DOMAIN loops \cup {i} |-> IF x = i THEN s ELSE loops[x]], i)

\* The cached state is the head's, or precedes it, or is of no use.
CompareHead(f) ==
  LET t == Current(f)
      base == IF CachedThrough(t.expected) = None THEN InitialState ELSE cache
  IN  /\ At(f, "headreply")
      /\ IF base.lastSeq = t.expected THEN Install(f, base)
         ELSE Become(f, [t EXCEPT !.do = "tail", !.state = base])
      /\ UNCHANGED <<durable, running, Environment>>

\* The store answers readLog, with all that is in the log by now.
ReadTail(f) ==
  LET t == Current(f)
  IN  /\ At(f, "tail")
      /\ Become(f, [t EXCEPT !.do = "tailreply",
                             !.state = FoldEvents(@, SubSeq(log, @.lastSeq + 1, Len(log)))])
      /\ UNCHANGED <<durable, running, Environment>>

LoadTail(f) ==
  /\ At(f, "tailreply")
  /\ Install(f, Current(f).state)
  /\ cache' = Current(f).state
  /\ UNCHANGED <<log, outbox, resumes, running, Environment>>

-----------------------------------------------------------------------------
(* runStep and append.                                                     *)

RunStep(f) ==
  LET t == Current(f)
      out == Step(State(f), t.in)
  IN  /\ At(f, "step")
      /\ IF out = Empty THEN Pop(f)
         ELSE Become(f, [t EXCEPT !.do = "send", !.items = out.append, !.effects = out.effects])
      /\ UNCHANGED <<durable, running, Environment>>

\* The items are encoded; the head that is expected is read only now.
Send(f) ==
  /\ At(f, "send")
  /\ Become(f, [Current(f) EXCEPT !.do = "commit", !.expected = State(f).lastSeq])
  /\ UNCHANGED <<durable, running, Environment>>

Commit(f) ==
  LET t == Current(f)
      error == AppendError(t.expected, t.items)
  IN  /\ At(f, "commit")
      /\ IF error = None
         THEN /\ log' = log \o Inserted(t.items)
              /\ Become(f, [t EXCEPT !.do = "reply", !.envs = Envelopes(t.items)])
         ELSE /\ Become(f, [t EXCEPT !.do = "stale", !.code = error])
              /\ UNCHANGED log
      /\ UNCHANGED <<cache, outbox, resumes, running, Environment>>

\* Faulty: replayed envelopes are folded again.
ReplyAll(f) ==
  /\ At(f, "reply")
  /\ Become(f, [Current(f) EXCEPT !.do = "fold"])
  /\ UNCHANGED <<durable, running, Environment>>

\* Only the envelopes that are new to the loop's state are kept.
Reply(f) ==
  LET t == Current(f)
  IN  /\ At(f, "reply")
      /\ Become(f, [t EXCEPT !.do = "fold",
                             !.envs = After(@, State(f).lastSeq)])
      /\ UNCHANGED <<durable, running, Environment>>

\* The envelopes are folded and the state is cached; then what the caller does.
Fold(f) ==
  LET t == Current(f)
      s == FoldEvents(State(f), t.envs)
      next == CASE t.kind = "step" -> Cascade(t.loop, t.envs, t.retries)
                [] t.kind = "outcome" -> Cascade(t.loop, t.envs, AppendRetries)
                [] t.kind \in {"suspend", "stranded"} -> <<>>
  IN  /\ At(f, "fold")
      /\ Proceed(f, next \o Tail(flows[f]), [loops EXCEPT ![t.loop] = s], live)
      /\ cache' = s
      /\ outbox' = CASE t.kind = "step" -> Insert(outbox, t.effects)
                     [] t.kind = "outcome" -> Delete(outbox, t.row.effect.id)
                     [] t.kind = "suspend" -> Reconciled(Delete(outbox, t.row.effect.id), s)
                     [] t.kind = "stranded" -> outbox
      /\ UNCHANGED <<log, resumes, running, Environment>>

\* Faulty: a step that could not be appended is dropped.
StaleStepDropped(f) ==
  /\ At(f, "stale") /\ Current(f).kind = "step"
  /\ Pop(f)
  /\ UNCHANGED <<durable, running, Environment>>

\* isStaleStateAppendError in runStep: reload and run the step again, once.
StaleStep(f) ==
  LET t == Current(f)
      again == [StepTask(t.in, t.retries - 1) EXCEPT !.loop = None]
  IN  /\ At(f, "stale") /\ t.kind = "step"
      /\ IF t.retries > 0
           THEN Proceed(f, <<Loading(again)>> \o Tail(flows[f]), loops, None)
         ELSE IF t.in.type = "prompt" /\ Journaled(RecvId(t.in.arg))
           THEN Pop(f)
         ELSE Throw(f)
      /\ UNCHANGED <<durable, running, Environment>>

\* applyOutcome: a moved head is tried again, a terminal in the log wins.
StaleOutcome(f) ==
  LET t == Current(f)
      again == [OutcomeTask(t.row, t.items) EXCEPT !.retries = t.retries - 1]
  IN  /\ At(f, "stale") /\ t.kind = "outcome"
      /\ IF t.code = "head-conflict" /\ t.retries > 0
           THEN /\ Proceed(f, <<Loading(again)>> \o Tail(flows[f]), loops, None)
                /\ UNCHANGED outbox
         ELSE IF t.code = "head-conflict"
           THEN Throw(f) /\ UNCHANGED outbox
         ELSE /\ Proceed(f, Tail(flows[f]), loops, None)
              /\ outbox' = Delete(outbox, t.row.effect.id)
      /\ UNCHANGED <<log, cache, resumes, running, Environment>>

StaleSuspend(f) ==
  /\ At(f, "stale") /\ Current(f).kind = "suspend"
  /\ Proceed(f, <<Settle>> \o Tail(flows[f]), loops, None)
  /\ outbox' = Delete(outbox, Current(f).row.effect.id)
  /\ UNCHANGED <<log, cache, resumes, running, Environment>>

-----------------------------------------------------------------------------
(* settle, wake and recovery.                                              *)

ReconcileLoop(f) ==
  /\ At(f, "reconcile")
  /\ outbox' = Reconciled(outbox, State(f))
  /\ Pop(f)
  /\ UNCHANGED <<log, cache, resumes, running, Environment>>

DropLoop(f) ==
  /\ At(f, "drop")
  /\ Proceed(f, Tail(flows[f]), loops, None)
  /\ UNCHANGED <<durable, running, Environment>>

\* inFlightModelCallIsQueuedOrRunningHere.
CallIsOwned(s) ==
  /\ s.call # None
  /\ LET id == ModelEffect(s.call.msg).id
     IN  /\ HasRow(outbox, id)
         /\ \/ RowOf(outbox, id).lease # "expired"
            \/ \E r \in running : r.effect.id = id /\ r.abort # "lost"

WakeLoop(f) ==
  /\ At(f, "wake")
  /\ IF CallIsOwned(State(f)) THEN Pop(f)
     ELSE Become(f, [StepTask(Incoming("wake", None), AppendRetries) EXCEPT !.loop = Current(f).loop])
  /\ UNCHANGED <<durable, running, Environment>>

\* Faulty: every open turn is taken for a stranded one.
StrandedAlways(s) == s.turn # None

\* isOpenTurnStranded: an open turn that nothing is going to continue.
Stranded(s) ==
  /\ s.turn # None /\ s.call = None /\ s.turn.waits = 0
  /\ PendingEffects(s) = {} /\ outbox = {}
  /\ \A msg \in resumes : msg[2] # s.turn.id

\* latestCascadeEnvelopeForOpenTurn.
CascadesOf(s) ==
  {i \in s.turn.openedAt..Len(log) :
     LET e == log[i] IN
       \/ /\ e.kind \in {"message.completed", "message.failed"}
          /\ e.turn = s.turn.id \/ e.about[2] = s.turn.id
       \/ /\ e.kind \in {"invocation.terminal", "wait.resolved", "interrupt"}
          /\ e.turn = s.turn.id}

StrandedFailure(turn) ==
  <<[MessageFailed(<<"recovery", turn>>, "fatal") EXCEPT !.turn = turn], TurnClosed(turn)>>

\* Faulty: a stranded turn is left as it is.
RecoverNothing(f) ==
  /\ At(f, "recover")
  /\ Pop(f)
  /\ UNCHANGED <<durable, running, Environment>>

\* recoverOpenTurnAfterReplay: feed the latest cascade again, else give up the turn.
RecoverTurn(f) ==
  LET t == Current(f)
      s == State(f)
      latest == log[CHOOSE i \in CascadesOf(s) : \A j \in CascadesOf(s) : j <= i]
      refeed == Cascade(t.loop, <<latest>>, AppendRetries)
      again == Loading([Task("recover") EXCEPT !.code = "fed"])
      failure == [Task("send") EXCEPT !.kind = "stranded", !.loop = t.loop, !.retries = 1,
                                      !.items = StrandedFailure(s.turn.id)]
  IN  /\ At(f, "recover")
      /\ IF ~Stranded(s) THEN Pop(f)
         ELSE IF t.code = None /\ CascadesOf(s) # {}
           THEN Proceed(f, refeed \o <<Settle, again>> \o Tail(flows[f]), loops, live)
         ELSE Proceed(f, <<failure, Settle>> \o Tail(flows[f]), loops, live)
      /\ UNCHANGED <<durable, running, Environment>>

\* appendStrandedOpenTurnFailure after a reload: only if the turn is still stranded.
StaleStranded(f) ==
  LET t == Current(f)
  IN  /\ At(f, "stale") /\ t.kind = "stranded"
      /\ IF t.retries = 0 THEN Throw(f)
         ELSE Proceed(f, <<Loading([t EXCEPT !.do = "restrand", !.retries = 0])>> \o Tail(flows[f]),
                      loops, None)
      /\ UNCHANGED <<durable, running, Environment>>

RetryStranded(f) ==
  /\ At(f, "restrand")
  /\ IF Stranded(State(f)) THEN Become(f, [Current(f) EXCEPT !.do = "send"]) ELSE Pop(f)
  /\ UNCHANGED <<durable, running, Environment>>

-----------------------------------------------------------------------------
(* The pump and the executors.                                             *)

Due(row) == row.lease # "held"
LiveReconciled == IF live = None THEN outbox ELSE Reconciled(outbox, loops[live])

\* pump, dispatchDue: a due row is leased and dispatched in the background.
Dispatch(f) ==
  \E row \in LiveReconciled :
    /\ Free(f) /\ Due(row)
    /\ outbox' = Update(LiveReconciled, row.effect.id, [row EXCEPT !.lease = "held"])
    /\ Proceed(f, <<Loading([Task("execute") EXCEPT !.row = row])>>, loops, live)
    /\ UNCHANGED <<log, cache, resumes, running, Environment>>

\* dispatchDue: a credential wait past its expiry is a failure.
ExpireWait(f) ==
  \E row \in LiveReconciled :
    /\ Free(f) /\ Due(row) /\ row.effect.id[1] = "cred"
    /\ outbox' = LiveReconciled
    /\ Proceed(f, FailEffect(row, "fatal"), loops, live)
    /\ UNCHANGED <<log, cache, resumes, running, Environment>>

\* dispatchRow: the executor of the row that ran before loses its controller.
Execute(f) ==
  LET row == Current(f).row
      id == row.effect.id
      n == Cardinality({r \in running : r.effect.id = id})
      lost == {IF r.effect.id = id THEN [r EXCEPT !.abort = "lost"] ELSE r : r \in running}
  IN  /\ At(f, "execute")
      /\ running' = lost \cup {[row |-> row, effect |-> row.effect, n |-> n, abort |-> "armed"]}
      /\ outbox' = IF HasRow(outbox, id)
                   THEN Update(outbox, id, [RowOf(outbox, id) EXCEPT !.lease = "held"])
                   ELSE outbox
      /\ Pop(f)
      /\ UNCHANGED <<log, cache, resumes, Environment>>

\* An execution ends; the controller under its key is removed.
Ended(r) ==
  {IF x.effect.id = r.effect.id THEN [x EXCEPT !.abort = "lost"] ELSE x : x \in running \ {r}}

\* recordFailure: the rows after one more failed attempt.
Failed(id) ==
  IF ~HasRow(outbox, id) THEN outbox
  ELSE Update(outbox, id, [RowOf(outbox, id) EXCEPT !.attempts = @ + 1, !.lease = "none"])

\* retryEffect, and the exception path of dispatchRow.
FinishRetry(f, r) ==
  LET id == r.effect.id
      exhausted == HasRow(outbox, id) /\ RowOf(outbox, id).attempts + 1 >= MaxAttempts
  IN  /\ outbox' = Failed(id)
      /\ \E why \in {"fatal"} \cup (world.failures \cap {"reset"}) :
           Proceed(f, IF exhausted THEN FailEffect(RowOf(outbox, id), why) ELSE <<>>, loops, live)
      /\ UNCHANGED <<log, cache, resumes>>

\* Faulty: the row is deleted before the outcome is appended.
FinishDeletesFirst(f, r, items) ==
  /\ Proceed(f, ApplyOutcome(r.row, items), loops, live)
  /\ outbox' = Delete(outbox, r.effect.id)
  /\ UNCHANGED <<log, cache, resumes>>

Finish(f, r, items) ==
  /\ Proceed(f, ApplyOutcome(r.row, items), loops, live)
  /\ UNCHANGED durable

\* outcomeEvents of a model call.
ModelAnswers(r) ==
  LET msg == r.effect.id[2] IN
    IF r.abort = "aborted" THEN {<<MessageCompleted(msg, "interrupted", {})>>}
    ELSE {<<MessageCompleted(msg, "completed", {<<msg, t>> : t \in tools})>> : tools \in world.answers}
           \cup {<<MessageFailed(msg, why)>> : why \in world.failures \cap {"fatal", "reset"}}

\* The executor reports a failure as an outcome.  When it throws instead (a lookup
\* or a read around the stream fails), dispatchRow retries, fails the call, or
\* suspends on the loop that it loaded before the executor ran: that path is not
\* modelled.
FinishModel(f) ==
  \E r \in running :
    /\ Free(f) /\ r.effect.id[1] = "model"
    /\ running' = Ended(r)
    /\ \/ \E items \in ModelAnswers(r) : Finish(f, r, items)
       \/ "retry" \in world.failures /\ r.abort # "aborted" /\ FinishRetry(f, r)
       \/ /\ "suspend" \in world.failures /\ r.abort # "aborted"
          /\ Proceed(f, <<Loading([Task("suspend") EXCEPT !.row = r.row])>>, loops, live)
          /\ UNCHANGED durable
    /\ UNCHANGED Environment

\* suspendOnCredential: the call fails for now, and the turn waits.
Suspend(f) ==
  LET t == Current(f)
      s == State(f)
      msg == t.row.effect.id[2]
      turn == IF s.turn = None THEN None ELSE s.turn.id
      items == <<MessageFailed(msg, "recoverable"), WaitStarted(turn, msg, s.lastSeq + 1)>>
                 \o (IF s.turn = None THEN <<>> ELSE <<TurnWaiting(turn, s.turn.waits)>>)
  IN  /\ At(f, "suspend")
      /\ Become(f, [t EXCEPT !.do = "send", !.kind = "suspend", !.items = items])
      /\ UNCHANGED <<durable, running, Environment>>

IsRemote(effect) == effect.id[1] # "cred" => effect.id[2][2] \in Remote
ToolOutcome(effect, outcome) == <<InvocationTerminal(effect.turn, effect.id[2], outcome)>>

FinishTool(f) ==
  \E r \in running :
    /\ Free(f) /\ r.effect.id[1] = "inv" /\ ~IsRemote(r.effect)
    /\ running' = Ended(r)
    /\ \/ Finish(f, r, ToolOutcome(r.effect, "completed"))
       \/ "retry" \in world.failures /\ FinishRetry(f, r)
    /\ UNCHANGED Environment

\* deferRedrive: the result of a remote call, or a credential, arrives later.
FinishDeferred ==
  \E r \in running :
    /\ Quiescent /\ r.effect.id[1] # "model" /\ IsRemote(r.effect)
    /\ running' = Ended(r)
    /\ outbox' = IF HasRow(outbox, r.effect.id)
                 THEN Update(outbox, r.effect.id, [RowOf(outbox, r.effect.id) EXCEPT !.lease = "none"])
                 ELSE outbox
    /\ UNCHANGED <<log, cache, resumes, loops, live, flows, Environment>>

\* deliverEffectOutcome; credentialConnected also wakes the loop.
DeliverResult(f) ==
  \E row \in outbox :
    /\ Free(f) /\ row.effect.id[1] # "model" /\ IsRemote(row.effect)
    /\ Proceed(f,
         IF row.effect.id[1] = "inv" THEN ApplyOutcome(row, ToolOutcome(row.effect, "completed"))
         ELSE ApplyOutcome(row, <<WaitResolved(row.effect.turn, row.effect.at, "resolved")>>) \o WakeTasks,
         loops, live)
    /\ UNCHANGED <<durable, running, Environment>>

DeleteRow(f) ==
  /\ At(f, "delete")
  /\ outbox' = Delete(outbox, Current(f).row.effect.id)
  /\ Pop(f)
  /\ UNCHANGED <<log, cache, resumes, running, Environment>>

-----------------------------------------------------------------------------
(* What reaches the vessel: messages, pauses, resumes, wakes; and failures. *)

Spend(what) == world[what] > 0 /\ world' = [world EXCEPT ![what] = @ - 1]

UnderDelivery == \E f \in Flow : \E k \in DOMAIN flows[f] : flows[f][k].do = "ack"

\* The channel delivers messages one at a time, and each once.  The replay of a
\* subscription delivers again, also while a live delivery is under way.
Deliver(f, m) ==
  /\ Free(f) /\ m \in world.messages
  /\ IF m \in sent \/ UnderDelivery THEN Spend("deliveries") ELSE UNCHANGED world
  /\ sent' = sent \cup {m}
  /\ Proceed(f, HandleIncoming(Incoming("prompt", m)) \o <<[Task("ack") EXCEPT !.in = m]>>, loops, live)
  /\ UNCHANGED <<durable, running, acked>>

Acknowledge(f) ==
  /\ At(f, "ack")
  /\ acked' = acked \cup {Current(f).in}
  /\ Pop(f)
  /\ UNCHANGED <<durable, running, sent, world>>

Aborted == {IF r.abort = "armed" THEN [r EXCEPT !.abort = "aborted"] ELSE r : r \in running}

\* The pause method: abort the executors, then interrupt the turn.
Pause(f) ==
  /\ Free(f) /\ Spend("pauses")
  /\ running' = Aborted
  /\ Proceed(f, HandleIncoming(Incoming("interrupt", None)), loops, live)
  /\ UNCHANGED <<durable, sent, acked>>

\* Pause with flushDeferred ("send now"): the abort comes last, and only if a
\* call was in flight.
SendNow(f) ==
  /\ Free(f) /\ Spend("pauses")
  /\ Proceed(f, <<Loading(Task("flush"))>>, loops, live)
  /\ UNCHANGED <<durable, running, sent, acked>>

FlushLoop(f) ==
  /\ At(f, "flush")
  /\ Proceed(f, HandleIncoming(Incoming("flush", None))
                  \o (IF State(f).call = None THEN <<>> ELSE <<Task("abort")>>), loops, live)
  /\ UNCHANGED <<durable, running, Environment>>

AbortChannel(f) ==
  /\ At(f, "abort")
  /\ running' = Aborted
  /\ Pop(f)
  /\ UNCHANGED <<durable, Environment>>

\* scheduleResumeAtReset, for the call that hit the limit.
ScheduleResume(f) ==
  \E i \in DOMAIN log :
    /\ Free(f) /\ log[i].kind = "message.failed" /\ log[i].outcome = "reset"
    /\ log[i].about \notin resumes
    /\ Spend("pauses")
    /\ Proceed(f, <<Loading([Task("schedule") EXCEPT !.in = log[i].about])>>, loops, live)
    /\ UNCHANGED <<durable, running, sent, acked>>

ScheduleLoop(f) ==
  LET s == State(f)
      msg == Current(f).in
  IN  /\ At(f, "schedule")
      /\ resumes' = IF s.turn # None /\ s.call = None THEN
                      IF msg[2] = s.turn.id THEN resumes \cup {msg} ELSE resumes
                    ELSE resumes
      /\ Pop(f)
      /\ UNCHANGED <<log, cache, outbox, running, Environment>>

\* processScheduledModelResumes.
ResumeAtReset(f) ==
  \E msg \in resumes :
    /\ Free(f)
    /\ Proceed(f, HandleIncoming(Incoming("resume", msg)) \o <<[Task("unschedule") EXCEPT !.in = msg]>>,
               loops, live)
    /\ UNCHANGED <<durable, running, Environment>>

Unschedule(f) ==
  /\ At(f, "unschedule")
  /\ resumes' = resumes \ {Current(f).in}
  /\ Pop(f)
  /\ UNCHANGED <<log, cache, outbox, running, Environment>>

\* A ready envelope, a new subscription or the resume method.  Nothing sees to it
\* that one follows a restart: resumeAfterRestart does nothing, the alarm pumps
\* and does not wake, and a channel sends ready only when it is subscribed to.
Wake(f) ==
  /\ Free(f)
  /\ IF world.restarted THEN world' = [world EXCEPT !.restarted = FALSE] ELSE Spend("wakes")
  /\ Proceed(f, WakeTasks, loops, live)
  /\ UNCHANGED <<durable, running, sent, acked>>

InHand(id) ==
  \/ \E r \in running : r.effect.id = id
  \/ \E f \in Flow : \E k \in DOMAIN flows[f] :
       flows[f][k].row # None /\ flows[f][k].row.effect.id = id

\* A lease runs out: its executor died with the isolate, or is just slow.
LeaseExpires ==
  \E row \in outbox :
    /\ Quiescent /\ row.lease = "held"
    /\ IF InHand(row.effect.id) THEN Spend("expiries") ELSE UNCHANGED world
    /\ outbox' = Update(outbox, row.effect.id, [row EXCEPT !.lease = "expired"])
    /\ UNCHANGED <<log, cache, resumes, loops, live, flows, running, sent, acked>>

\* The isolate dies between two awaits.  What it had not journaled may be
\* delivered again, by the replay of the subscription that also wakes it.
Crash ==
  /\ world.crashes > 0
  /\ world' = [world EXCEPT !.crashes = @ - 1, !.crashed = TRUE, !.restarted = TRUE]
  /\ loops' = [i \in {} |-> InitialState] /\ live' = None
  /\ flows' = [f \in Flow |-> <<>>] /\ running' = {}
  /\ sent' = {m \in sent : Journaled(RecvId(m))}
  /\ UNCHANGED <<durable, acked>>

-----------------------------------------------------------------------------
Init ==
  /\ log = <<>> /\ cache = None /\ outbox = {} /\ resumes = {}
  /\ loops = [i \in {} |-> InitialState] /\ live = None
  /\ flows = [f \in Flow |-> <<>>] /\ running = {}
  /\ sent = {} /\ acked = {}
  /\ \E s \in Scenarios :
       world = [x \in DOMAIN s \cup {"crashed", "restarted"} |-> IF x \in DOMAIN s THEN s[x] ELSE FALSE]

Continue(f) ==
  \/ LoadLive(f) \/ LoadCold(f) \/ GetLogHead(f) \/ CompareHead(f) \/ ReadTail(f) \/ LoadTail(f)
  \/ RunStep(f) \/ Send(f) \/ Commit(f) \/ Reply(f) \/ Fold(f)
  \/ StaleStep(f) \/ StaleOutcome(f) \/ StaleSuspend(f) \/ StaleStranded(f) \/ RetryStranded(f)
  \/ ReconcileLoop(f) \/ DropLoop(f) \/ WakeLoop(f) \/ RecoverTurn(f)
  \/ Execute(f) \/ Suspend(f) \/ DeleteRow(f) \/ Acknowledge(f)
  \/ FlushLoop(f) \/ AbortChannel(f) \/ ScheduleLoop(f) \/ Unschedule(f)

Begin(f) ==
  \/ Dispatch(f) \/ ExpireWait(f) \/ FinishModel(f) \/ FinishTool(f) \/ DeliverResult(f)
  \/ \E m \in Message : Deliver(f, m)
  \/ Pause(f) \/ SendNow(f) \/ ScheduleResume(f) \/ ResumeAtReset(f) \/ Wake(f)

Next ==
  \/ \E f \in Flow : Continue(f) \/ Begin(f)
  \/ FinishDeferred \/ LeaseExpires \/ Crash

Spec == Init /\ [][Next]_vars

\* The store, the channel and the executors answer, the alarm pumps what is due,
\* and leases and waits run out.  The channel delivers its messages, but after a
\* restart only to an agent that has been woken; and no wake is promised.
Fairness ==
  /\ WF_vars(\E f \in Flow : Continue(f))
  /\ WF_vars(\E f \in Flow : Dispatch(f))
  /\ WF_vars(\E f \in Flow : FinishModel(f))
  /\ WF_vars(\E f \in Flow : FinishTool(f))
  /\ SF_vars(\E f \in Flow : ExpireWait(f))
  /\ WF_vars(FinishDeferred)
  /\ WF_vars(LeaseExpires)
  /\ \A m \in Message : WF_vars(m \notin sent /\ ~world.restarted /\ \E f \in Flow : Deliver(f, m))

LiveSpec == Spec /\ Fairness

-----------------------------------------------------------------------------
(* Properties.                                                             *)

TaskType ==
  {"load", "head", "headreply", "tail", "tailreply", "step", "send", "commit", "reply", "fold",
   "stale", "reconcile", "drop", "wake", "recover", "restrand", "execute", "suspend", "delete",
   "ack", "flush", "abort", "schedule", "unschedule"}

\* The journal is numbered without gaps and holds an id once; a row is unique for
\* its effect; a flow under way holds a loop that still exists.
TypeOK ==
  /\ \A i \in DOMAIN log : log[i].seq = i /\ JournaledAt(log[i].id) = {i}
  /\ \A r, q \in outbox : r.effect.id = q.effect.id => r = q
  /\ \A r \in outbox : r.attempts \in Nat /\ r.lease \in {"none", "held", "expired"}
  /\ live \in Instance \cup {None} /\ (live # None => live \in DOMAIN loops)
  /\ \A f \in Flow : \A k \in DOMAIN flows[f] :
       /\ flows[f][k].do \in TaskType
       /\ flows[f][k].loop # None => flows[f][k].loop \in DOMAIN loops
  /\ sent \subseteq Message /\ acked \subseteq Message

\* "fold of the log through folded_seq": the cached state is what a cold refold
\* of the journal gives, whatever crash, reload or replay came before.
FoldFaithful ==
  cache # None => cache = FoldEvents(InitialState, SubSeq(log, 1, cache.lastSeq))

\* A delivery is acknowledged only when its message is in the journal.
AckedIsJournaled == \A m \in acked : Journaled(RecvId(m))

\* No message enters the model's context twice, however often it is delivered,
\* deferred and promoted.
ReadOnce ==
  LET s == Truth
      users == {i \in DOMAIN s.entries : s.entries[i].kind = "user"}
  IN  \A i, j \in users : s.entries[i].id[2] = s.entries[j].id[2] => i = j

\* What reconcile is for: when no flow is under way, every intention in the
\* journal that has no outcome has its row, so that the pump will get to it.  The
\* time between a restart and the wake that follows it, if one does, is left out:
\* nothing reconciles then.  (After a crash a row may also stand for an effect that
\* is already settled.)
EffectsCovered ==
  live # None /\ ~world.restarted /\ (\A f \in Flow : Idle(f)) =>
    \A e \in PendingEffects(Truth) : HasRow(outbox, e.id)

\* Two messages may be taken in at the same time.
Overlapping == Cardinality(Flow) > 1 /\ Cardinality(world.messages) > 1

\* A credential wait expired, and effectFailedStep closed the open turn although a
\* message that arrived meanwhile had started a call in it.
ExpiryCutCall ==
  \E i \in DOMAIN log \ {1} :
    /\ log[i - 1].kind = "wait.expired" /\ log[i].kind = "turn.closed"
    /\ FoldEvents(InitialState, SubSeq(log, 1, i - 1)).call # None

\* "Pending effect <=> logged intention without logged outcome (P2)": whatever the
\* journal starts and does not settle is pending in its fold, so that no call or
\* invocation is ever dropped.  Two cases are left out: the retried close of a
\* turn drops the call that an overlapping message has started in it (runStep
\* reloads the fold and closes all the same), and so does an expired wait.  (With
\* crashes the row of a wait that was resolved may expire too, and leaves no trace.)
UnsettledIsPending ==
  LET s == Truth
      started(kind) == {log[i].about : i \in {j \in DOMAIN log : log[j].kind = kind}}
  IN  ~Overlapping /\ ~ExpiryCutCall =>
        /\ \A msg \in started("message.started") :
             Journaled(<<"terminal", msg>>) \/ (s.call # None /\ s.call.msg = msg)
        /\ \A inv \in started("invocation.started") :
             Journaled(<<"inv-terminal", inv>>) \/ (\E p \in s.pending : p.inv = inv)

\* P holds of every event that a step appends, and of the fold before it.
Appends(P(_, _)) ==
  \A i \in Len(log) + 1..Len(log') : P(FoldEvents(InitialState, SubSeq(log', 1, i - 1)), log'[i])

\* A turn is opened only when the journal has no open turn.
OneTurnOpen == [][Appends(LAMBDA s, e : e.kind = "turn.opened" => s.turn = None)]_vars

\* A model call starts in its open turn, when no other call is in flight and
\* every invocation of the turn has its terminal.  (The late answer to a call that
\* an expired wait has cut is taken for the answer of the turn that is open.)
CallsWhenReady ==
  [][~ExpiryCutCall =>
       Appends(LAMBDA s, e : e.kind = "message.started" =>
         s.turn # None /\ s.turn.id = e.turn /\ s.call = None /\ s.pending = {})]_vars

\* After the interrupt marker of a turn no model call starts in that turn.
InterruptGates ==
  [][Appends(LAMBDA s, e : e.kind = "message.started" => ~s.turn.interrupted)]_vars

\* A message that waits for the end of the turn is promoted in its order.
DeferredInOrder ==
  [][Appends(LAMBDA s, e : e.kind = "user" /\ e.id[1] = "promoted" =>
       s.turn = None /\ s.deferred # <<>> /\ s.deferred[1].src = e.src)]_vars

\* "append outcome events FIRST, then delete the row": a row leaves the outbox
\* only when the journal settles its effect, on every path where the executor
\* reports an outcome (FinishModel says which path is left out).
RowsOutliveIntentions ==
  [][\A r \in outbox : HasRow(outbox', r.effect.id) \/ r.effect \notin PendingEffects(Truth)]_vars

\* A model call was started on a context that contains the message.
Served(m) ==
  \E j \in DOMAIN log :
    /\ log[j].kind = "message.started"
    /\ LET context == FoldEvents(InitialState, SubSeq(log, 1, log[j].through)).entries
       IN  \E i \in DOMAIN context : context[i].kind = "user" /\ context[i].id[2] = m

\* Every turn comes to its end, also when the isolate died in the middle of it and
\* all that is left are the journal and the outbox, provided that a restarted
\* agent is woken in the end (wake, which recovers the turn).
TurnsClose == []<>(~world.restarted) => []<>(Truth.turn = None)

\* While the isolate lives every message reaches the model: as a prompt, as a
\* steer of the turn it met, or after the turn it was sent behind.
MessagesServed == \A m \in Message : <>(Served(m) \/ m \notin world.messages \/ world.crashed)
=============================================================================
