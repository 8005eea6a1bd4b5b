-------------------------- MODULE ChannelDelivery --------------------------
(***************************************************************************)
(* How the events of a channel reach a subscriber.  The channel object     *)
(* appends an event to its log, then emits it to the participants that it  *)
(* has rows for.  The emits to one subscriber are chained, an emit that    *)
(* fails is not tried again, and unsubscribing cuts the chain off: what is *)
(* queued on it still runs, beside the chain that is started next.         *)
(*                                                                         *)
(* The client (connectViaRpc) subscribes and is sent the log as a replay,  *)
(* which the answer to its call repeats; it asks again for what a jump in  *)
(* the sequence numbers shows it has missed, and when its session is lost  *)
(* it unsubscribes and subscribes again from the last event it has seen.   *)
(*                                                                         *)
(* An event is its sequence number.  Signals and roster snapshots are not  *)
(* sequenced and are left out, and so is the second dedup that presence    *)
(* events have.                                                            *)
(***************************************************************************)
EXTENDS Integers, Sequences, SequencesExt

CONSTANTS
  Early,       \* events in the log before the client subscribes
  Window,      \* REPLAY_AFTER_LIMIT, and the largest initial replay
  MaxGapSize,  \* MAX_GAP_SIZE: a wider gap is not repaired
  MaxSeq,      \* bounds the log
  MaxSubs,     \* bounds the subscriptions of the client
  Hasty,       \* the client may be recovered before its last subscription is done
  Faults       \* what may go wrong, and how often: a function of Fault

Fault == {"live", "replay", "ready", "fatal", "repair", "unsubscribe", "answer"}

ASSUME DeliveryBounds ==
  /\ {Early, Window, MaxGapSize, MaxSeq, MaxSubs} \subseteq Nat
  /\ Early <= MaxSeq /\ Window > 0 /\ MaxSubs > 0 /\ Hasty \in BOOLEAN
  /\ \A f \in Faults : f \in [Fault -> Nat]

VARIABLES
  head,     \* the last sequence number of the channel's log
  unsent,   \* appended, not broadcast yet
  row,      \* the client has a row in participants
  chain,    \* its emit chain
  strays,   \* the chains that were cut off with emits still queued
  subs,     \* the subscribe calls, in the order the client made them
  unsub,    \* the unsubscribe call
  cl,       \* the client's view of the channel
  streamed, \* streamedReplayLogEvents
  repair,   \* the gap repair that is under way, or the record with trigger 0
  gapBuffer,
  recon,    \* where attemptResubscription is
  faults,   \* faults that may still happen
  lost,     \* history: events whose live emit has failed
  waived    \* history: events that the code gives up or overlooks, each for
            \* the reason that is said where it is added

server == <<head, unsent, row, chain, strays, unsub>>
client == <<cl, streamed, repair, gapBuffer>>
history == <<lost, waived>>
vars == <<server, subs, client, recon, faults, history>>

Smaller(a, b) == IF a < b THEN a ELSE b
Span(a, b) == [i \in 1 .. b - a |-> a + i]     \* the events after a, up to b

Ready == [phase |-> "ready", id |-> 0]
Replayed(i) == [phase |-> "replay", id |-> i]
Live(i) == [phase |-> "live", id |-> i]

-----------------------------------------------------------------------------
(* The client's view.                                                      *)

\* handleServerMessage for a log event.  A listener that has opened events()
\* with includeReplay hears live events, and replayed ones after ready.
Take(c, m) ==
  IF m.phase = "replay" /\ m.id \in c.keys THEN c
  ELSE [c EXCEPT !.cursor = m.id,
                 !.taken = @ \cup {m.id},
                 !.keys = IF m.phase = "replay" THEN @ \cup {m.id} ELSE @,
                 !.buffer = IF m.phase = "replay" THEN @ \cup {m.id} ELSE @,
                 !.heard = IF m.phase = "live" \/ c.done THEN @ \cup {m.id} ELSE @]

TakeAll(c, ms) == FoldLeft(Take, c, ms)

\* handleServerMessage for ready.  The listener waits for the first one, then
\* is given the replay that was buffered.
TakeReady(c) ==
  [c EXCEPT !.done = TRUE, !.opened = TRUE, !.heard = IF c.opened THEN @ ELSE @ \cup c.buffer]

\* ingestReplayEnvelope
Ingest(c, events) ==
  IF c.done THEN c ELSE TakeReady(TakeAll(c, [i \in DOMAIN events |-> Replayed(events[i])]))

\* A repair's answer: an event at or before the cursor is passed over.
TakeRepair(c, events) ==
  FoldLeft(LAMBDA d, i : IF i <= d.cursor THEN d ELSE Take(d, Live(i)), c, events)

Repairing == repair.trigger # 0
NoRepair == [trigger |-> 0, phase |-> "live", since |-> 0, events |-> <<>>, read |-> FALSE]
Idle == "idle"

-----------------------------------------------------------------------------
(* The channel object.                                                     *)

Fails(f) == faults[f] > 0 /\ faults' = [faults EXCEPT ![f] = @ - 1]

\* cleanupDeliveryChain
CutOff ==
  /\ strays' = IF chain = <<>> THEN strays ELSE Append(strays, chain)
  /\ chain' = <<>>

AppendEvent == head < MaxSeq /\ head' = head + 1 /\ unsent' = unsent \cup {head'}

\* publish, and every other operation that journals and then broadcasts.
Publish ==
  /\ AppendEvent
  /\ UNCHANGED <<row, chain, strays, unsub, subs, client, recon, faults, history>>

\* broadcast, as far as it concerns the client.
Broadcast ==
  \E i \in unsent :
    /\ unsent' = unsent \ {i}
    /\ chain' = IF row THEN Append(chain, Live(i)) ELSE chain
    /\ UNCHANGED <<head, row, strays, unsub, subs, client, recon, faults, history>>

\* Faulty: the client asks from one event later.
NewCallPast(since) == [pc |-> "sent", since |-> since + 1, own |-> 0, events |-> <<>>]

\* A subscribe call, with sinceId.
NewCall(since) == [pc |-> "sent", since |-> since, own |-> 0, events |-> <<>>]
NoUnsub == [pc |-> "none", own |-> 0]
At(k, pc) == subs[k].pc = pc
Goes(k, pc) == subs' = [subs EXCEPT ![k].pc = pc]

\* subscribe: an existing row is replaced, after a leave event.
SubscribeEnters(k) ==
  /\ At(k, "sent")
  /\ \/ /\ row /\ AppendEvent
        /\ subs' = [subs EXCEPT ![k].pc = "leaving", ![k].own = head']
        /\ UNCHANGED row
     \/ ~row /\ Goes(k, "inserted") /\ row' = TRUE /\ UNCHANGED <<head, unsent>>
  /\ UNCHANGED <<chain, strays, unsub, client, recon, faults, history>>

SubscribeReplaces(k) ==
  /\ At(k, "leaving") /\ subs[k].own \notin unsent
  /\ Goes(k, "inserted") /\ row' = TRUE /\ CutOff
  /\ UNCHANGED <<head, unsent, unsub, client, recon, faults, history>>

SubscribeJoins(k) ==
  /\ At(k, "inserted") /\ AppendEvent
  /\ subs' = [subs EXCEPT ![k].pc = "joined", ![k].own = head']
  /\ UNCHANGED <<row, chain, strays, unsub, client, recon, faults, history>>

\* getChannelReplayWindow: one page of the log.
Page(from) == Span(from, Smaller(head, from + Window))

\* replayAfter or replayInitial, of which each gives one page: the older events
\* wait for getReplayBefore, the newer ones for a gap that is noticed.
SubscribeReads(k) ==
  /\ At(k, "joined") /\ subs[k].own \notin unsent
  /\ LET since == subs[k].since
         from == IF since > 0 THEN since ELSE head - Smaller(head, Window)
         to == Smaller(head, from + Window)
     IN /\ subs' = [subs EXCEPT ![k].pc = "read", ![k].events = Page(from)]
        /\ waived' = waived \cup (IF since > 0 THEN {} ELSE 1 .. from) \cup (to + 1 .. head)
  /\ UNCHANGED <<server, client, recon, faults, lost>>

\* queueReplayEnvelope, and the answer.
SubscribeReplays(k) ==
  /\ At(k, "read")
  /\ chain' = chain \o [i \in DOMAIN subs[k].events |-> Replayed(subs[k].events[i])] \o <<Ready>>
  /\ Goes(k, "answered")
  /\ UNCHANGED <<head, unsent, row, strays, unsub, client, recon, faults, history>>

\* unsubscribeParticipant
UnsubscribeDeletes ==
  /\ unsub.pc = "sent"
  /\ unsub' = [unsub EXCEPT !.pc = "deleted"] /\ row' = FALSE /\ CutOff
  /\ UNCHANGED <<head, unsent, subs, client, recon, faults, history>>

UnsubscribeLeaves ==
  /\ unsub.pc = "deleted" /\ AppendEvent
  /\ unsub' = [pc |-> "left", own |-> head']
  /\ UNCHANGED <<row, chain, strays, subs, client, recon, faults, history>>

-----------------------------------------------------------------------------
(* The client.                                                             *)

\* The listener on channel:message.
Receive(m) ==
  \/ /\ m.phase = "ready"
     /\ cl' = Ingest(cl, streamed)
     /\ streamed' = IF cl.done THEN streamed ELSE <<>>
     /\ UNCHANGED <<repair, gapBuffer, waived>>
  \/ /\ m.phase = "replay" /\ ~cl.done
     /\ streamed' = Append(streamed, m.id)
     /\ UNCHANGED <<cl, repair, gapBuffer, waived>>
  \/ /\ m.phase = "live" \/ (m.phase = "replay" /\ cl.done)
     /\ LET gap == IF cl.cursor = 0 THEN 0 ELSE m.id - cl.cursor - 1
        IN \/ /\ Repairing
              /\ gapBuffer' = Append(gapBuffer, m)
              /\ UNCHANGED <<cl, repair, waived>>
           \/ /\ ~Repairing /\ gap > 0 /\ gap <= MaxGapSize
              /\ repair' = [NoRepair EXCEPT !.trigger = m.id, !.phase = m.phase, !.since = cl.cursor]
              /\ UNCHANGED <<cl, gapBuffer, waived>>
           \/ /\ ~Repairing /\ ~(gap > 0 /\ gap <= MaxGapSize)
              /\ cl' = Take([cl EXCEPT !.cursor = m.id], m)
              /\ waived' = waived \cup (cl.cursor + 1 .. cl.cursor + gap)   \* too wide to repair
              /\ UNCHANGED <<repair, gapBuffer>>
     /\ UNCHANGED streamed

\* The head of a chain is emitted and arrives.
Emit ==
  \/ /\ chain # <<>>
     /\ Receive(Head(chain)) /\ chain' = Tail(chain)
     /\ UNCHANGED <<head, unsent, row, strays, unsub, subs, recon, faults, lost>>
  \/ \E j \in DOMAIN strays :
       /\ Receive(Head(strays[j]))
       /\ strays' = IF Len(strays[j]) = 1 THEN RemoveAt(strays, j)
                    ELSE [strays EXCEPT ![j] = Tail(@)]
       /\ UNCHANGED <<head, unsent, row, chain, unsub, subs, recon, faults, lost>>

\* An emit fails, and the chain goes on; a fatal code also removes the row.
EmitFails ==
  /\ chain # <<>>
  /\ \/ /\ Fails(Head(chain).phase)
        /\ chain' = Tail(chain) /\ UNCHANGED <<row, strays>>
     \/ /\ Fails("fatal")
        /\ row' = FALSE
        /\ strays' = IF Len(chain) = 1 THEN strays ELSE Append(strays, Tail(chain))
        /\ chain' = <<>>
  /\ lost' = IF Head(chain).phase = "live" THEN lost \cup {Head(chain).id} ELSE lost
  /\ waived' = IF Head(chain).phase = "replay" THEN waived \cup {Head(chain).id} ELSE waived
  /\ UNCHANGED <<head, unsent, unsub, subs, client, recon>>

\* applySubscribeAckFallback, on the answer of a subscribe call.
Acked(k) ==
  /\ At(k, "answered")
  /\ Goes(k, "acked")
  /\ \/ /\ cl' = Ingest(cl, subs[k].events)
        /\ streamed' = IF cl.done THEN streamed ELSE <<>>
        /\ UNCHANGED faults
     \/ Fails("answer") /\ UNCHANGED <<cl, streamed>>
  /\ recon' = IF k = Len(subs) /\ recon = "subscribing" THEN Idle ELSE recon
  /\ UNCHANGED <<server, repair, gapBuffer, history>>

\* Faulty: the page asked for is the one after the event that showed the gap.
RepairReadsPast ==
  /\ Repairing /\ ~repair.read
  /\ repair' = [repair EXCEPT !.read = TRUE, !.events = Page(repair.trigger)]
  /\ UNCHANGED <<server, subs, cl, streamed, gapBuffer, recon, faults, history>>

\* getReplayAfter
RepairReads ==
  /\ Repairing /\ ~repair.read
  /\ repair' = [repair EXCEPT !.read = TRUE,
                              !.events = Page(repair.since)]
  /\ UNCHANGED <<server, subs, cl, streamed, gapBuffer, recon, faults, history>>

\* The repair ends: the event that showed the gap and what came after it are
\* handled as they are.  The buffered events are not checked for gaps: what they
\* jump over comes by itself or not at all, and nothing says so.
RepairEnds(c, givenUp) ==
  /\ cl' = TakeAll(Take(c, [phase |-> repair.phase, id |-> repair.trigger]), gapBuffer)
  /\ LET overlooked == repair.trigger + 1 .. cl'.cursor
     IN  waived' = waived \cup ((givenUp \cup overlooked) \ cl'.taken)
  /\ repair' = NoRepair /\ gapBuffer' = <<>>
  /\ UNCHANGED <<server, subs, streamed, recon, lost>>

RepairSucceeds ==
  /\ Repairing /\ repair.read
  /\ RepairEnds(TakeRepair(cl, repair.events), {})
  /\ UNCHANGED faults

\* The client warns, and goes on without the events of the gap.
RepairFails ==
  /\ Repairing /\ Fails("repair")
  /\ RepairEnds(cl, repair.since + 1 .. repair.trigger - 1)

\* attemptResubscription, when the session is lost or the heartbeat fails: it
\* unsubscribes, as far as it can.
Recover ==
  /\ recon = Idle /\ Len(subs) < MaxSubs
  /\ Hasty \/ (cl.done /\ \A k \in DOMAIN subs : At(k, "acked"))
  /\ recon' = "unsubscribing" /\ unsub' = [NoUnsub EXCEPT !.pc = "sent"]
  /\ UNCHANGED <<head, unsent, row, chain, strays, subs, client, faults, history>>

\* Then it resets, and subscribes from the cursor.
Resubscribe ==
  /\ recon = "unsubscribing"
  /\ \/ unsub.pc = "left" /\ unsub.own \notin unsent /\ UNCHANGED faults
     \/ unsub.pc = "sent" /\ Fails("unsubscribe")
  /\ recon' = "subscribing" /\ unsub' = NoUnsub
  /\ cl' = [cl EXCEPT !.keys = {}, !.buffer = {}, !.done = FALSE]
  /\ subs' = Append(subs, NewCall(cl.cursor))
  /\ UNCHANGED <<head, unsent, row, chain, strays, streamed, repair, gapBuffer, history>>

-----------------------------------------------------------------------------

Init ==
  /\ head = Early /\ unsent = {} /\ row = FALSE /\ chain = <<>> /\ strays = <<>>
  /\ subs = <<NewCall(0)>>
  /\ unsub = NoUnsub
  /\ cl = [cursor |-> 0, done |-> FALSE, opened |-> FALSE,
           keys |-> {}, taken |-> {}, buffer |-> {}, heard |-> {}]
  /\ streamed = <<>> /\ repair = NoRepair /\ gapBuffer = <<>>
  /\ recon = Idle /\ faults \in Faults /\ lost = {} /\ waived = {}

Subscribing ==
  \E k \in DOMAIN subs :
    \/ SubscribeEnters(k) \/ SubscribeReplaces(k) \/ SubscribeJoins(k)
    \/ SubscribeReads(k) \/ SubscribeReplays(k) \/ Acked(k)

Next ==
  \/ Publish \/ Broadcast \/ Subscribing \/ UnsubscribeDeletes \/ UnsubscribeLeaves
  \/ Emit \/ EmitFails \/ RepairReads \/ RepairSucceeds \/ RepairFails
  \/ Recover \/ Resubscribe

Spec == Init /\ [][Next]_vars

-----------------------------------------------------------------------------
(* Properties.                                                             *)

\* Event i is still to come: it is queued or buffered, or a repair or a
\* subscription that is under way will bring it.
Due(i) ==
  \/ \E ms \in {chain, gapBuffer} \cup Range(strays) : \E m \in Range(ms) : m.id = i
  \/ i \in Range(streamed) \/ (row /\ i \in unsent)
  \/ Repairing /\ repair.since < i
  \/ \E k \in DOMAIN subs :
       \/ subs[k].pc \in {"sent", "leaving", "inserted", "joined"} /\ subs[k].since < i
       \/ At(k, "read") /\ i \in Range(subs[k].events)

\* The cursor of a client that is ready never passes an event for good: what lies
\* before it was taken or is still to come, also if its live emit failed, because
\* the gap is noticed and repaired.  Waived are, and no others: what a page of a
\* replay leaves out, an event of a replay whose emit failed, a gap too wide to
\* repair or whose repair failed, and what the events buffered during a repair
\* jump over.
NothingSkipped ==
  cl.done => \A i \in 1 .. cl.cursor : i \in cl.taken \cup waived \/ Due(i)

Quiet ==
  /\ row /\ unsent = {} /\ chain = <<>> /\ strays = <<>> /\ ~Repairing /\ recon = Idle
  /\ \A k \in DOMAIN subs : At(k, "acked")

\* However its subscriptions, the publishing and the chains interleave, a
\* subscriber that lost no live emit has every event that is not waived once all
\* is quiet (subscribe inserts the row before it reads the replay).
QuietIsComplete == Quiet /\ lost = {} => 1 .. head \subseteq cl.taken \cup waived

\* A listener that asked for replays hears all that the client takes (events,
\* handleServerMessage).
ListenersHear == Quiet /\ cl.opened => cl.taken \subseteq cl.heard
=============================================================================
