---------------------------- MODULE ChannelCalls ----------------------------
(***************************************************************************)
(* Method calls over a channel (pubsub-channel/calls.ts and its entry      *)
(* points in channel-do.ts).                                               *)
(*                                                                         *)
(* The truth is the channel's log in the gad store: a call is pending when *)
(* its start has no terminal.  Starts and terminals have ids of their own  *)
(* (the invocation id and terminal:{transportCallId}), so that the log     *)
(* holds each once.  The table pending_calls is a cache of what is pending *)
(* and calls_reconciled_through the seq it was last compared at; both are  *)
(* durable.  The barrier startInFlight is memory.                          *)
(*                                                                         *)
(* A request is a handler: a stack of frames, the first of which waits for *)
(* the store.  One thread runs them all, so a step is either what the      *)
(* store does for a waiting handler, or the code from one reply to the     *)
(* next request.  A reply that only leads to the next request is taken     *)
(* together with it.                                                       *)
(***************************************************************************)
EXTENDS Integers, Sequences, FiniteSets

CONSTANTS
  Call,        \* transport call ids; also their invocation ids
  Timed,       \* those issued with a timeout
  Handler,     \* requests that may be under way at the same time
  Scenarios,   \* how often participants and faults act
  None

Outcome == {"completed", "failed", "cancelled", "abandoned"}

Scenario ==
  [calls : Nat, answers : Nat, progress : Nat, cancels : Nat, leaves : Nat, posts : Nat,
   crashes : Nat, faults : Nat]

ASSUME CallTypes ==
  /\ Timed \subseteq Call /\ None \notin Handler
  /\ \A s \in Scenarios : s \in Scenario

VARIABLES
  log,        \* the channel's log
  rows,       \* pending_calls: "none", "plain" or "timed" (with a deadline)
  through,    \* calls_reconciled_through
  starts,     \* startInFlight: the handler that journals the start of a call
  handlers,   \* the stacks
  target,     \* the participant that is called: "rpc", "do" or "gone"
  late,       \* calls whose deadline has passed
  answered,   \* calls with an acknowledged answer
  left        \* what is left of the scenario

store == <<log, rows, through>>
world == <<target, late, answered, left>>
vars == <<log, rows, through, starts, handlers, target, late, answered, left>>

\* The requests, and the alarm, of which there is one at a time.
Task == Handler \cup {"alarm"}

-----------------------------------------------------------------------------
(* The log.                                                                *)

Started(c, by) == [kind |-> "started", call |-> c, as |-> by]
Terminal(c, outcome) == [kind |-> "terminal", call |-> c, as |-> outcome]
Output(c) == [kind |-> "output", call |-> c, as |-> None]
Other == [kind |-> "other", call |-> None, as |-> None]

At(kind, c) == {i \in DOMAIN log : log[i].kind = kind /\ log[i].call = c}
IsStarted(c) == At("started", c) # {}
IsSettled(c) == At("terminal", c) # {}

\* idempotent-by-id: the first write wins, and its seq is the one returned.
SeqOf(kind, c) == IF At(kind, c) = {} THEN Len(log) + 1 ELSE CHOOSE i \in At(kind, c) : TRUE
AppendOnce(event) ==
  log' = IF At(event.kind, event.call) = {} THEN Append(log, event) ELSE log

\* derivePendingCalls.  Only a start made by callMethod carries a deadline.
DerivePendingCalls ==
  [c \in Call |->
     IF ~IsStarted(c) \/ IsSettled(c) THEN "none"
     ELSE IF c \in Timed /\ log[SeqOf("started", c)].as = "call" THEN "timed" ELSE "plain"]

-----------------------------------------------------------------------------
(* Frames.  "in" is the method that runs: resolveSubmitterForCall (or the  *)
(* same lines of cancelMethodCall), settleCall, settleMissingCall, or the  *)
(* sweep of the alarm; "for" is whom it runs for.  "why", which is kept    *)
(* for the property RootsAreStray, says how the request came past the      *)
(* barrier without a start in the log: there was none when it came and     *)
(* none in flight ("stray"); the one that it waited for has failed; or it  *)
(* waited for one, and by then the call was being issued "again".          *)

Frame(do) ==
  [do |-> do, in |-> "none", for |-> "none", call |-> None, out |-> None, on |-> None, seq |-> 0,
   seen |-> None, todo |-> {}, why |-> "no"]

Came(c) == IF IsStarted(c) \/ starts[c] # None THEN "no" ELSE "stray"
LetGo(c, inflight) ==
  IF IsStarted(c) THEN "no" ELSE IF inflight[c] = None THEN "failed" ELSE "again"

Resolving(for, c, out) ==
  [Frame("begin") EXCEPT !.in = "resolve", !.for = for, !.call = c, !.out = out,
                         !.why = Came(c)]
Settling(for, c, out) ==
  [Frame("begin") EXCEPT !.in = "settle", !.for = for, !.call = c, !.out = out]

Idle(h) == handlers[h] = <<>>
Top(h) == Head(handlers[h])
Waits(h, do) == ~Idle(h) /\ Top(h).do = do

\* The first frame becomes the frames fs.
Replace(h, fs) == handlers' = [handlers EXCEPT ![h] = fs \o Tail(@)]
Goto(h, do) == Replace(h, <<[Top(h) EXCEPT !.do = do]>>)

\* A request that was acknowledged leaves a mark when it was an answer.
Return(h) ==
  /\ Replace(h, <<>>)
  /\ answered' = IF Top(h).for = "answer" THEN answered \cup {Top(h).call} ELSE answered
Unanswered == UNCHANGED <<target, late, left>>

RecordObservedHead(seq) == through' = IF seq > through THEN seq ELSE through

-----------------------------------------------------------------------------
(* The beginning that all methods share: wait for a start in flight, look  *)
(* at the table, and only then ask the store.                              *)

\* The row is there: a resolver goes on to its own work.
Found(f, table, inflight) ==
  LET settle == [f EXCEPT !.in = "settle", !.on = None, !.seq = 0, !.seen = None]
      entered == IF inflight[f.call] # None THEN [settle EXCEPT !.do = "wait", !.on = inflight[f.call]]
                 ELSE [settle EXCEPT !.do = "root"]
  IN  IF f.in = "settle" \/ f.for = "progress"
      THEN <<[f EXCEPT !.do = "root", !.on = None, !.seq = 0, !.seen = None]>>
      ELSE IF f.for = "timeout" THEN <<entered, Frame("feedback")>> ELSE <<entered>>

\* peek
Peek(f, table, inflight) ==
  IF table[f.call] # "none" THEN Found(f, table, inflight)
  ELSE <<[f EXCEPT !.do = "lookup", !.on = None]>>

\* Faulty: the barrier is not awaited.
BeginWithoutBarrier(h) == Replace(h, Peek(Top(h), rows, starts))

\* awaitInFlightStart, then peek.
Begin(h) ==
  IF starts[Top(h).call] # None
  THEN Replace(h, <<[Top(h) EXCEPT !.do = "wait", !.on = starts[Top(h).call]]>>)
  ELSE Replace(h, Peek(Top(h), rows, starts))

\* The loops over rows: of failPendingCallsTargeting and of
\* timeoutExpiredPendingCalls.
Iterate(h) ==
  LET f == Top(h) IN
    IF f.todo = {} THEN Replace(h, <<>>)
    ELSE \E c \in f.todo :
           Replace(h, <<IF f.do = "abandon" THEN Settling("abandon", c, "abandoned")
                        ELSE Resolving("timeout", c, "cancelled"),
                        [f EXCEPT !.todo = @ \ {c}]>>)

SelectExpired(h) ==
  Replace(h, <<[Frame("expire") EXCEPT !.todo = {c \in late : rows[c] = "timed"}]>>)

\* Code that runs at once, before anything else gets a turn.
Urgent(h) == ~Idle(h) /\ Top(h).do \in {"begin", "abandon", "select", "expire"}
AtOnce(h) ==
  /\ Urgent(h)
  /\ \/ Top(h).do = "begin" /\ Begin(h)
     \/ Top(h).do \in {"abandon", "expire"} /\ Iterate(h)
     \/ Top(h).do = "select" /\ SelectExpired(h)
  /\ UNCHANGED <<store, starts, world>>

-----------------------------------------------------------------------------
(* callMethod.                                                             *)

\* The barrier of h is lifted: those that wait for it look at the table, also if
\* the call has been issued again meanwhile and its barrier is another one now.
Lifted(h, rest, table, inflight) ==
  [g \in Task |->
     IF g = h THEN rest
     ELSE IF Waits(g, "wait") /\ Top(g).on = h
          THEN Peek([Top(g) EXCEPT !.why = LetGo(Top(g).call, inflight)], table, inflight)
                 \o Tail(handlers[g])
          ELSE handlers[g]]

\* Faulty: the barrier stays when the start has failed or is done.
BarrierKept(h) == starts

\* The finally of callMethod.
Cleared(h) == [c \in Call |-> IF starts[c] = h THEN None ELSE starts[c]]

\* The steps of journalCallStart, which the barrier is for.
Journaling == {"look", "start", "recheck", "insert", "drop"}

\* journalCallStart: a terminal that is there already is broadcast again.
LookForTerminal(h) ==
  /\ Waits(h, "look") /\ Goto(h, IF IsSettled(Top(h).call) THEN "drop" ELSE "start")
  /\ UNCHANGED <<store, starts, world>>

AppendStarted(h) ==
  LET c == Top(h).call
  IN  /\ Waits(h, "start")
      /\ AppendOnce(Started(c, "call"))
      /\ Replace(h, <<[Top(h) EXCEPT !.do = "recheck", !.seq = SeqOf("started", c)]>>)
      /\ UNCHANGED <<rows, through, starts, world>>

RecheckTerminal(h) ==
  /\ Waits(h, "recheck") /\ Goto(h, IF IsSettled(Top(h).call) THEN "drop" ELSE "insert")
  /\ UNCHANGED <<store, starts, world>>

DropRow(h) ==
  LET c == Top(h).call
  IN  /\ Waits(h, "drop")
      /\ rows' = [rows EXCEPT ![c] = "none"]
      /\ starts' = Cleared(h)
      /\ handlers' = Lifted(h, <<>>, rows', starts')
      /\ UNCHANGED <<log, through, world>>

\* insertRow, then dispatchCallStart: a vessel is called, an absent target fails
\* the call, any other target answers when it has received the broadcast.
InsertRow(h) ==
  LET f == Top(h)
      dispatch == CASE target = "gone" -> <<Settling("dispatch", f.call, "failed")>>
                    [] target = "do" -> <<[Frame("method") EXCEPT !.call = f.call]>>
                    [] target = "rpc" -> <<>>
  IN  /\ Waits(h, "insert")
      /\ rows' = [rows EXCEPT ![f.call] = IF f.call \in Timed THEN "timed" ELSE "plain"]
      /\ RecordObservedHead(f.seq)
      /\ starts' = Cleared(h)
      /\ handlers' = Lifted(h, dispatch, rows', starts')
      /\ UNCHANGED <<log, world>>

\* deliverDoMethodCall: the vessel returns a result or an error.
OnMethodCall(h) ==
  /\ Waits(h, "method")
  /\ \E out \in {"completed", "failed"} : Replace(h, <<Settling("deliver", Top(h).call, out)>>)
  /\ UNCHANGED <<store, starts, world>>

-----------------------------------------------------------------------------
(* resolveSubmitterForCall, settleCall, cancelMethodCall: no row was found. *)

\* Is it settled already?
LookupTerminal(h) ==
  /\ Waits(h, "lookup")
  /\ IF IsSettled(Top(h).call) THEN Return(h) ELSE Goto(h, "head") /\ UNCHANGED answered
  /\ UNCHANGED <<store, starts>> /\ Unanswered

\* reconcilePendingCalls: first the head, ...
GetHeadSeq(h) ==
  /\ Waits(h, "head")
  /\ Replace(h, <<[Top(h) EXCEPT !.do = IF Top(h).in = "sweep" THEN "compare" ELSE "read",
                                 !.seq = Len(log)]>>)
  /\ UNCHANGED <<store, starts, world>>

\* ... which the sweep compares with what it has seen, ...
CompareHead(h) ==
  /\ Waits(h, "compare")
  /\ IF Top(h).seq = through THEN Replace(h, <<>>) ELSE Goto(h, "read")
  /\ UNCHANGED <<store, starts, world>>

\* ... then the log, ...
ReadLog(h) ==
  /\ Waits(h, "read")
  /\ Replace(h, <<[Top(h) EXCEPT !.do = "apply", !.seen = DerivePendingCalls]>>)
  /\ UNCHANGED <<store, starts, world>>

\* ... and the table becomes what the log said.
ReconcileRows(seen) ==
  [c \in Call |-> IF seen[c] = "none" \/ rows[c] = "none" THEN seen[c] ELSE rows[c]]

\* After it the methods look again.
LookAgain(h, f, table) ==
  CASE f.in = "sweep" -> Replace(h, <<>>)
    [] f.in # "sweep" /\ table[f.call] # "none" -> Replace(h, Found(f, table, starts))
    [] OTHER -> IF f.in = "resolve" /\ f.for \in {"cancel", "timeout"} THEN Replace(h, <<>>)
                ELSE Replace(h, <<[f EXCEPT !.do = "confirm", !.seq = 0, !.seen = None]>>)

ApplyReconcile(h) ==
  /\ Waits(h, "apply")
  /\ rows' = ReconcileRows(Top(h).seen) /\ through' = Top(h).seq
  /\ LookAgain(h, Top(h), rows')
  /\ UNCHANGED <<log, starts, world>>

\* Faulty: the answer of a missing call is dropped as well.
DropMissing(h) ==
  Waits(h, "confirm") /\ Return(h) /\ UNCHANGED <<store, starts>> /\ Unanswered

\* Still no row: it is settled, or it is missing.  A missing call is recovered
\* when its answer was submitted; otherwise the result is dropped.
ConfirmMissing(h) ==
  LET f == Top(h)
  IN  /\ Waits(h, "confirm")
      /\ IF ~IsSettled(f.call) /\ f.in = "resolve" /\ f.for = "answer"
         THEN Replace(h, <<[f EXCEPT !.in = "missing", !.do = "root"]>>) /\ UNCHANGED answered
         ELSE Return(h)
      /\ UNCHANGED <<store, starts>> /\ Unanswered

-----------------------------------------------------------------------------
(* Settling.                                                               *)

Rooted(f) == IF f.for = "progress" THEN "output" ELSE "check"

\* Faulty: a terminal is appended whether or not there is a start.
NoRootNeeded(h) ==
  Waits(h, "root") /\ Goto(h, Rooted(Top(h))) /\ UNCHANGED <<store, starts, world>>

\* ensureMethodRoot
HasRoot(h) ==
  /\ Waits(h, "root") /\ Goto(h, IF IsStarted(Top(h).call) THEN Rooted(Top(h)) ELSE "plant")
  /\ UNCHANGED <<store, starts, world>>

PlantRoot(h) ==
  /\ Waits(h, "plant") /\ ~IsStarted(Top(h).call)
  /\ log' = Append(log, Started(Top(h).call, "root"))
  /\ Goto(h, Rooted(Top(h)))
  /\ UNCHANGED <<rows, through, starts, world>>

CheckTerminal(h) ==
  LET c == Top(h).call
  IN  /\ Waits(h, "check")
      /\ Replace(h, <<[Top(h) EXCEPT !.do = IF IsSettled(c) THEN "finish" ELSE "append",
                                     !.seq = SeqOf("terminal", c)]>>)
      /\ UNCHANGED <<store, starts, world>>

AppendTerminal(h) ==
  LET c == Top(h).call
  IN  /\ Waits(h, "append")
      /\ AppendOnce(Terminal(c, Top(h).out))
      /\ Replace(h, <<[Top(h) EXCEPT !.do = "finish", !.seq = SeqOf("terminal", c)]>>)
      /\ UNCHANGED <<rows, through, starts, world>>

\* The row goes after the terminal is durable; a missing call has none.
FinishSettle(h) ==
  LET f == Top(h)
  IN  /\ Waits(h, "finish")
      /\ rows' = IF f.in = "settle" THEN [rows EXCEPT ![f.call] = "none"] ELSE rows
      /\ RecordObservedHead(f.seq)
      /\ Return(h)
      /\ UNCHANGED <<log, starts>> /\ Unanswered

\* submitMethodProgress
AppendOutput(h) ==
  /\ Waits(h, "output")
  /\ log' = Append(log, Output(Top(h).call))
  /\ Replace(h, <<[Top(h) EXCEPT !.do = "noted", !.seq = Len(log')]>>)
  /\ UNCHANGED <<rows, through, starts, world>>

NoteOutput(h) ==
  /\ Waits(h, "noted") /\ RecordObservedHead(Top(h).seq) /\ Replace(h, <<>>)
  /\ UNCHANGED <<log, rows, starts, world>>

\* publishPresenceEvent and publishMethodCallFeedback.
AppendOther(h) ==
  /\ ~Idle(h) /\ Top(h).do \in {"presence", "feedback"}
  /\ log' = Append(log, Other) /\ Replace(h, <<>>)
  /\ UNCHANGED <<rows, through, starts, world>>

-----------------------------------------------------------------------------
(* Requests, the alarm, and faults.                                        *)

Spend(what) == left[what] > 0 /\ left' = [left EXCEPT ![what] = @ - 1]
Open(h, fs) == Idle(h) /\ handlers' = [handlers EXCEPT ![h] = fs]

CallMethod(h, c) ==
  /\ Open(h, <<[Frame("look") EXCEPT !.call = c]>>) /\ Spend("calls")
  /\ starts' = [starts EXCEPT ![c] = h]
  /\ UNCHANGED <<store, target, late, answered>>

SubmitMethodResult(h, c) ==
  /\ Spend("answers") /\ Open(h, <<Resolving("answer", c, "completed")>>)
  /\ UNCHANGED <<store, starts, target, late, answered>>

SubmitMethodProgress(h, c) ==
  /\ Spend("progress") /\ Open(h, <<Resolving("progress", c, None)>>)
  /\ UNCHANGED <<store, starts, target, late, answered>>

CancelMethodCall(h, c) ==
  /\ Spend("cancels") /\ Open(h, <<Resolving("cancel", c, "cancelled")>>)
  /\ UNCHANGED <<store, starts, target, late, answered>>

\* The participant row goes first, then its calls are abandoned.
Leaving ==
  <<[Frame("abandon") EXCEPT !.todo = {c \in Call : rows[c] # "none"}], Frame("presence")>>

Unsubscribe(h) ==
  /\ target # "gone" /\ target' = "gone" /\ Spend("leaves") /\ Open(h, Leaving)
  /\ UNCHANGED <<store, starts, late, answered>>

Subscribe(h) ==
  /\ target = "gone" /\ target' \in {"rpc", "do"} /\ Open(h, <<Frame("presence")>>)
  /\ UNCHANGED <<store, starts, late, answered, left>>

\* The alarm evicts a target that was not heard of, cancels what is too late,
\* and sweeps.
Alarm ==
  LET sweep == <<Frame("select"), [Frame("head") EXCEPT !.in = "sweep"]>>
  IN  /\ \/ Open("alarm", sweep) /\ UNCHANGED <<target, left>>
         \/ /\ target = "rpc" /\ target' = "gone"
            /\ Spend("leaves") /\ Open("alarm", Leaving \o sweep)
      /\ UNCHANGED <<store, starts, late, answered>>

\* Something else is published.
Publish == Spend("posts") /\ log' = Append(log, Other)
           /\ UNCHANGED <<rows, through, starts, handlers, target, late, answered>>

DeadlinePasses(c) ==
  /\ c \in Timed \ late /\ IsStarted(c)
  /\ late' = late \cup {c}
  /\ UNCHANGED <<store, starts, handlers, target, answered, left>>

\* A request to the store fails, or its reply is lost.  The loop of abandoned
\* calls, the sweep and the feedback go on; a vessel's result that could not be
\* stored becomes an error; anything else is thrown to the caller.
Thrown(h) ==
  LET f == Top(h)
      stack == handlers[h]
  IN  IF f.for = "abandon" \/ f.in = "sweep" \/ f.do = "feedback" THEN Tail(stack)
      ELSE IF f.for = "deliver" THEN <<Settling("retry", f.call, "failed")>> ELSE <<>>

Throws(h) == ~Idle(h) /\ ~Urgent(h) /\ Top(h).do # "wait"
Released(h) == IF Top(h).do \in Journaling THEN Cleared(h) ELSE starts

\* Faulty: only a start that succeeds lets the others go.
ThrowWithoutFinally(h) ==
  /\ Throws(h)
  /\ starts' = Released(h) /\ handlers' = [handlers EXCEPT ![h] = Thrown(h)]
  /\ UNCHANGED <<store, target, late, answered>>

Throw(h) ==
  /\ Throws(h)
  /\ starts' = Released(h) /\ handlers' = Lifted(h, Thrown(h), rows, starts')
  /\ UNCHANGED <<store, target, late, answered>>

\* The start that ensureMethodRoot wants to append is there by now, with another
\* content.
PlantRefused(h) == Waits(h, "plant") /\ IsStarted(Top(h).call) /\ Throw(h) /\ UNCHANGED left

Fault(h) == Spend("faults") /\ Throw(h)

Crash ==
  /\ Spend("crashes")
  /\ starts' = [c \in Call |-> None] /\ handlers' = [h \in Task |-> <<>>]
  /\ UNCHANGED <<store, target, late, answered>>

-----------------------------------------------------------------------------
Init ==
  /\ log = <<>> /\ rows = [c \in Call |-> "none"] /\ through = 0
  /\ starts = [c \in Call |-> None] /\ handlers = [h \in Task |-> <<>>]
  /\ target \in {"rpc", "do"} /\ late = {} /\ answered = {}
  /\ left \in Scenarios

Continue(h) ==
  \/ LookForTerminal(h) \/ AppendStarted(h) \/ RecheckTerminal(h) \/ DropRow(h) \/ InsertRow(h)
  \/ LookupTerminal(h) \/ GetHeadSeq(h) \/ CompareHead(h) \/ ReadLog(h) \/ ApplyReconcile(h)
  \/ ConfirmMissing(h) \/ HasRoot(h) \/ PlantRoot(h) \/ PlantRefused(h) \/ CheckTerminal(h)
  \/ AppendTerminal(h) \/ FinishSettle(h) \/ AppendOutput(h) \/ NoteOutput(h) \/ AppendOther(h)

Request(h) ==
  \/ \E c \in Call : \/ CallMethod(h, c) \/ SubmitMethodResult(h, c)
                     \/ SubmitMethodProgress(h, c) \/ CancelMethodCall(h, c)
  \/ Unsubscribe(h) \/ Subscribe(h)

Quiescent == \A h \in Task : ~Urgent(h)

Next ==
  \/ \E h \in Task : AtOnce(h)
  \/ /\ Quiescent
     /\ \/ \E h \in Task : Continue(h) \/ OnMethodCall(h) \/ Fault(h)
        \/ \E h \in Handler : Request(h)
        \/ \E c \in Call : DeadlinePasses(c)
        \/ Alarm \/ Publish \/ Crash

Spec == Init /\ [][Next]_vars

\* The store replies, time passes, and the alarm goes off again: the caller is a
\* subscribed rpc participant, whose own sweep keeps the alarm set.  Strong
\* fairness, because code that runs at once disables everything else meanwhile.
Fairness ==
  /\ \A h \in Task : WF_vars(AtOnce(h)) /\ SF_vars(Quiescent /\ Continue(h))
  /\ \A c \in Call : SF_vars(Quiescent /\ DeadlinePasses(c))
  /\ SF_vars(Quiescent /\ Alarm)

LiveSpec == Spec /\ Fairness

-----------------------------------------------------------------------------
(* Properties.                                                             *)

FrameType ==
  {"begin", "wait", "look", "start", "recheck", "insert", "drop", "method", "lookup", "head",
   "compare", "read", "apply", "confirm", "root", "plant", "check", "append", "finish", "output",
   "noted", "presence", "feedback", "abandon", "select", "expire"}

\* A start and a terminal occur once in the log; a barrier belongs to a handler
\* that journals a start of that call.
TypeOK ==
  /\ \A c \in Call : Cardinality(At("started", c)) <= 1 /\ Cardinality(At("terminal", c)) <= 1
  /\ rows \in [Call -> {"none", "plain", "timed"}]
  /\ through \in 0..Len(log)
  /\ \A c \in Call : starts[c] # None =>
       ~Idle(starts[c]) /\ Top(starts[c]).call = c /\ Top(starts[c]).do \in Journaling
  /\ \A h \in Task : \A k \in DOMAIN handlers[h] : handlers[h][k].do \in FrameType
  /\ target \in {"rpc", "do", "gone"} /\ late \subseteq Timed /\ answered \subseteq Call

\* The ledger that the log is.
ledger ==
  [c \in Call |-> IF IsSettled(c) THEN log[SeqOf("terminal", c)].as
                  ELSE IF IsStarted(c) THEN "pending" ELSE "none"]
Ledger == INSTANCE CallLedger WITH ledger <- ledger

\* Whatever races, is retried or crashes: a call is issued once and settled once,
\* never before it was issued and never with a second outcome.
ImplementsLedger == Ledger!Spec

\* "Dropping the result here strands the caller forever": an answer that was
\* acknowledged has settled its call, or found it settled.
AnswersSettle == \A c \in answered : IsSettled(c)

\* Nobody waits for ever: the start that a method waits for is under way, and
\* does not itself wait for one.  A start that fails lets them go as well.
WaitersAreReleased ==
  \A h \in Task : Waits(h, "wait") =>
    LET g == Top(h).on IN ~Idle(g) /\ Top(g).do \in Journaling /\ Top(g).call = Top(h).call

\* A start is synthesized only for an answer that came past the barrier when the
\* log had no start and none was in flight: none when it came, or the one that it
\* waited for has failed.  An answer that finds the start, or waits for one that
\* is appended, is settled against it.  Excepted is a call that was issued again
\* while its first start was in flight, which failed: awaitInFlightStart waits
\* once, and the second start does not hold the answer back.
RootsAreStray ==
  [][\A h \in Task : Waits(h, "plant") /\ log' = Append(log, Started(Top(h).call, "root"))
        => Top(h).why \in {"stray", "failed", "again"}]_vars

\* A call issued with a timeout comes to an end: its deadline is "journaled with
\* the call so it survives cache amnesia" (agentic-protocol, events.ts).
DeadlinesSettle ==
  \A c \in Timed : (IsStarted(c) /\ log[SeqOf("started", c)].as = "call") ~> IsSettled(c)
=============================================================================
