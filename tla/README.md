# Verification of natstack

natstack is a workspace host in TypeScript: a server and an Electron shell that run panels, workers
and agents, keep every agent conversation and every repository in one content-addressed store, and
let agents talk to people and tools over channels. This directory holds TLA+ models of its core, the
TLC configurations that check them on small instances, and TLAPS proofs.

Paths below are relative to the repository root. `PROJECT.json` maps each definition to the lines it
models.

## 1. Inventory

| Part | State it keeps | Operations | Interacts with | What is hard |
|---|---|---|---|---|
| **gad-store, unified log** (`workspace/workers/gad-store/index.ts`) | `log_heads`, `log_events` | `appendLogEvent`, `forkLog`, `readLog`, `getLogHead`, `checkLogIntegrity` | called by drivers, channels, the VCS | competing writers, lost replies and retries, forks that share rows, publications in the same transaction |
| **gad-store, repo logs / workspace VCS** (same file, `src/server/gadVcs/`) | `gad_worktree_heads`, working edits, refs | ingest, commit, fork a context, merge, archive, restore, delete | unified log | renaming heads, deleting and re-creating a path, compare-and-set on worktree states |
| **agent-loop** (`workspace/packages/agent-loop`) | a state folded from a trajectory log | `applyEvent`, `step`, `derivePendingEffects`, `outcomeEvents` | pure; driven by the driver | which event continues a turn, queues (steers, deferred), interrupts, waits |
| **loop driver** (`workspace/packages/agentic-do`: `agent-loop-driver.ts`, `effect-outbox.ts`, `fold-cache.ts`) | fold cache, effect outbox, scheduled resumes (durable); loop instances, abort controllers (memory) | `handleIncoming`, `wake`, `runStep`, `append`, `settle`, `reconcile`, `dispatchRow`, `applyOutcome`, `suspendOnCredential`, recovery, alarms | store, channel, blobstore, model and tool executors | several flows on one loop with awaits in between, crashes at every await, leases, duplicate outcomes |
| **agent vessel** (`agent-vessel.ts`) | subscriptions, participant cache | intake of channel events, pause, resume, credential events | driver, channel | redelivery, order of abort and interrupt |
| **channel** (`workspace/workers/pubsub-channel`) | participants, pending calls, emit chains, policies | publish, subscribe and replay, unsubscribe, broadcast, alarm | unified log, every participant | emits that fail once, chains that are cut off, events published while a subscriber joins |
| **method calls** (`pubsub-channel/calls.ts`) | `pending_calls`, `calls_reconciled_through` (durable caches of the log), `startInFlight` (memory) | `callMethod`, `submitMethodResult`, progress, cancel, time out, abandon, reconcile | channel log, callers, targets | answers that race starts, deadlines that race answers, a crash between log and table |
| **channel client** (`workspace/packages/pubsub/src/rpc-client.ts`) | cursor, replay buffer, gap buffer, ready flag | intake, gap repair, resubscription, `events()` | channel | lost, repeated and reordered events, a session lost at any time |
| **channel-fork** (`workspace/packages/channel-fork`) | none of its own | fork a channel with its agents' trajectories | unified log, vessels | one of several forks failing |
| **RPC** (`packages/rpc`) | sessions, recovery generations, stream frames | negotiate, reconnect, resubscribe | everything remote | reconnects that race, handlers registered during recovery |
| **panel runtime coordinator** (`src/server/panelRuntimeCoordinator.ts`) | leases of panels on hosts, grace timers, default marks, pins | register, acquire, take over, release, expire, unload, retire, connect, pin | RPC server, CDP bridge | disconnect and return within the grace period, hosts that leave, reassignment |
| **CDP bridge** (`src/server/cdpBridge.ts`) | providers, registered targets, attached clients | connect, register, attach, detach, follow a lease | coordinator, panel hosts, automation | a registration that awaits while the lease moves, pins that must go with their clients |
| **RPC server** (`src/server/rpcServer.ts`) | sockets by connection | admit, replace, close | coordinator, panels | late closes of replaced sockets |
| **approval queue, credentials, egress** (`src/server/services`) | queued approvals, grants | request, resolve, cancel, expire | user, agents | decisions for requests that are gone |
| **build system** (`src/server/buildV2`), **shells and apps** (`src/main`, `apps/`), **panels** | caches, windows, views | – | – | file system, compilers, platforms: not modelled |

What makes the core correct:

* the store: a head is a verifiable chain; an id occurs once in what a head reads; what a head reads
  only grows at its end; a retry of what was applied is acknowledged; publications follow origins;
* the repo logs: no sequence of delete, create and restore loses a history or lets one head inherit
  another's rows;
* the loop and its driver: the log is the truth, the cache is its fold, the outbox is what is
  pending in it; a message enters the context once; a call starts when its turn is ready for it; an
  interrupted turn stays quiet; whatever was started is settled; messages are served and turns end;
* the channel: a method call is issued once and settled once, and an acknowledged answer has settled
  it; a subscriber's cursor skips nothing, and once all is quiet it has every event;
* the panels: a lease belongs to a registered host, a grace timer to a connection that is lost, and
  automation is attached to a host that holds the lease and is kept.

`PROJECT.json` lists the hazards behind these properties, each at the line where it bites.

## 2. Modules

| Module | Models | Extends |
|---|---|---|
| `UnifiedLog` | the two tables of the log, appends and forks | |
| `RepoLog` | the log of one repo under the VCS's operations | `UnifiedLog` |
| `AgentLoop` | ids, events, the folded state and the fold | |
| `AgentStep` | the step function and the pending effects of a state | `AgentLoop` |
| `AgentDriver` | the driver, its outbox and cache, the vessel's entry points, crashes | `AgentStep` |
| `CallLedger` | what a channel promises about method calls (abstract) | |
| `ChannelCalls` | the call transport of a channel; implements `CallLedger` | instantiates `CallLedger` |
| `ChannelDelivery` | the way of an event from the log to a listener: channel and client composed | |
| `PanelRuntime` | coordinator, panel sockets and CDP bridge composed | |
| `MCUnifiedLog`, `MCRepoLog`, `MCAgentDriver`, `MCChannelCalls`, `MCChannelDelivery`, `MCPanelRuntime` | instances for TLC | the above |
| `SequenceFacts` | induction and facts about sequences that proofs share | |
| `UnifiedLog_proofs`, `RepoLog_proofs`, `ChannelCalls_proofs`, `PanelRuntime_proofs` | proofs about the module of that name | that module |
| `AgentDriver_proofs` | proofs about the driver, the fold and the step | `AgentDriver`, `SequenceFacts` |
| `AgentDriverOneFlow_proofs` | proofs about the driver when one flow is under way at a time | `AgentDriver_proofs` |
| `AgentDriverRows_proofs` | proofs about the rows of the outbox, under the same condition | `AgentDriverOneFlow_proofs` |

A definition marked `Faulty:` is a mutant of the definition that follows it. It is used by no
specification; with it in place of the original, the property it belongs to is violated.

### UnifiedLog

`heads` is `log_heads` and `rows` is `log_events`. A key stands for a `(logId, head)` pair. A hash is
the set of cells `<<key, seq, id, content>>` mixed into it, so that equal hashes mean equal chains;
this is what a collision-free digest over the previous hash and the envelope gives. `AppendLogEvent`
is one transaction: the rejections are the conjuncts of `AppendAccepted` in the code's terms
(`id-collision`, `head-conflict`, `replay-mismatch`, an already opened turn, the `UNIQUE` constraint,
a colliding publication), and a rejected append changes nothing. A batch inserts its remaining events
into its own log and their publications into channels; `InsertSeq`, `InsertPrevHash` and
`AdvancedHead` are the loop over the batch in closed form. `Lineage` and `Reads` are `logLineage` and
`readLog`: parent links followed to the root, each ancestor cut at the smallest fork seq on the way.
Agents append with any expectation they may have folded, fresh or stale; channels append without one.

### RepoLog

Adds `gad_worktree_heads` as `worktree` and the operations that break the append-only shape:
`DeleteLogHead`, `ArchiveRepoMain` and `RestoreRepoMain` (`Rekey` is the `UPDATE ... SET head`
statements, which leave the stored hashes alone). Archive heads are named after the archived state,
as in `deleteRepo`. `restoreRepo` picks the newest archive; the model allows any, which includes it.

### AgentLoop and AgentStep

`ApplyEvent` is `applyEvent` by cases, over the fields that steps and effects depend on. Events are
records built by one operator per kind; ids are tagged tuples with the parts of `ids.ts`, so two ids
are equal exactly when the strings are. `Step` is `coreStep`: one operator per command, per kind of
appended event and per kind of failed effect, each returning the batch to append and the effects to
start. `PendingEffects` is `derivePendingEffects`.

### AgentDriver

Durable state: `log` (the trajectory; its head hash is its length, because this log has no forks and
is append-only, which is what `UnifiedLog` establishes), `cache`, `outbox`, `resumes`. Memory:
`loops` (instances), `live` (the entry of the map of loops), `flows`, `running` (executions with their
abort controllers). `sent`, `acked` and `world` belong to the environment: `world` is the scenario of
the behaviour (which messages are sent, what the model may answer, how calls may fail, how often
something disturbs) and what is left of it. A run explores several scenarios from its initial states.

A durable object runs on one thread, so a flow keeps running until it awaits something outside the
isolate. `loops` is a function on the instances that something still refers to; `Install` gives a new
one a free name, of which there are `2 * |Flow| + 1`. A flow is a stack of tasks; `Waiting` says which tasks are such awaits: `getLogHead` and
`readLog` (request and reply are separate steps), the blobstore writes before an append, the append
itself (commit and reply are separate), and the broadcast after it. `At` and `Free` let another flow
run only when every flow waits. `append` reads the expected head after the blobstore writes (`Send`),
filters the new envelopes against the loop's state before the broadcast (`Reply`), and the caller
folds them after it (`Fold`), exactly as in the code; `Fold` then inserts or deletes outbox rows and
pushes the cascade, whose steps run on the instance they were started with.

`StaleStep`, `StaleOutcome`, `StaleSuspend` and `StaleStranded` are the four ways in which the driver
handles a refused append. `WakeTasks` is `wake` followed by `recoverOpenTurnAfterReplay`. `Dispatch`
is the pump. `Crash` erases the memory at any step, also between the commit of an append and its
reply. Time is abstracted: a backoff has always passed, a lease or a credential wait may expire.

### CallLedger and ChannelCalls

The log of the channel is the truth about calls; `rows` is the table `pending_calls` and `through` is
`calls_reconciled_through`, both durable; `starts` is the barrier `startInFlight`, which a crash
erases. A request under way is a stack of frames, whose first frame waits for the store; the methods
`settleCall`, `resolveSubmitterForCall` and `cancelMethodCall` share their beginning (wait for the
barrier, peek, look for a terminal, reconcile, peek again), so `in` and `for` say which of them runs
and for whom. Code between two awaits is one step: `AtOnce` runs to the next await before anything
else gets a turn. A request to the store may fail or its reply be lost (`Throw`), and `Thrown` says
who catches it. `Alarm` evicts a silent target, times out what is late and sweeps. `why`, which nothing
but `RootsAreStray` reads, records how an answer without a start in the log came past the barrier: no
start was in flight when it came (`stray`), the one it waited for failed (`failed`), or that one
failed while a start of a second drive of the call is in flight (`again`).

`ImplementsLedger` is a refinement: with `ledger` read off the log, every step of `ChannelCalls` is a
step of `CallLedger` or a stutter. Its `Settle` needs a pending call, so a second terminal, a terminal
without a start or a start after the terminal would break it.

### ChannelDelivery

An event is its sequence number. The channel appends (`unsent` holds what is appended and not yet
broadcast), broadcasts to its rows, and emits over a chain per subscriber; `strays` are chains that
`cleanupDeliveryChain` has forgotten while emits were queued on them. A subscribe call goes through
its awaits (`sent`, `leaving`, `inserted`, `joined`, `read`, `answered`), and its replay arrives twice,
over the chain and in the answer. The client keeps the cursor `lastSeenSeq`, the dedup keys, the
buffer of streamed replay events, the gap buffer and whether it is ready; `heard` is what a listener
on `events({includeReplay: true})`, opened at the first ready, has been given.

`waived` collects the events that the client goes past for a reason that is not a broken replay or
repair, and no others: what lies outside the one page of a replay; a replay emit that failed (the
answer repeats it, but only when ready was not there yet); a gap wider than `MAX_GAP_SIZE`; the gap
of a repair whose read failed; and what the events that were buffered during a repair jump over.
The last is silent in the code: `rpc-client.ts:1327-1333` hands the buffered events on with no gap
check, so that an emit that is lost while a repair is under way is noticed by nobody. A repair that
succeeds waives nothing of its gap. `Hasty = FALSE` keeps the client from recovering before its
previous subscription is done, which the code does not: `attemptResubscription` asks only whether a
recovery is under way. With `Hasty = TRUE` two replays mix in `streamedReplayLogEvents` and
`NothingSkipped` fails.

### PanelRuntime

One thread runs the coordinator, the RPC server and the bridge, and each calls the others in the same
turn: `LeaseMoved` is `emitChange` with the bridge's `handleRuntimeLeaseChanged` and the unpin that
the bridge calls back. A lease is written by `WriteLease`, dropped by `DropLeases`, which also assigns
a default lease again. Connection ids are fresh (`conns`) except in `Reacquire`. `sockets` are the
panels' connections: a socket the server has closed (`closing`) still delivers its close event later.
`registering` is the registration that a provider's queue works on between the check of the lease and
the registration. `retired` holds the entities whose change event of the last step has the reason
`retired`. It tells a lease that was asked to be retired from one that an expiry or an unload dropped,
which leave the same tables behind. It is history, which no action reads, so the view of the run leaves
it out.

## 3. Runs

| Run | Configuration | Shows |
|---|---|---|
| `unified_log` | three trajectories (symmetric), one channel, three ids, four batches, seq ≤ 3 | all store properties |
| `repo_log` | main, one context, two archives, two states, four commits | repo properties |
| `driver_crash` | one flow, a message and a deferred one (either may come first, so that the other steers), tools, one crash; fairness | `FoldFaithful`, `EffectsCovered`, `RowsOutliveIntentions`, `TurnsClose`, `MessagesServed` |
| `driver_turns` | one flow; one message with two parallel tools of which one is answered late, every failure, two attempts, a wake, a pause / send-now / scheduled resume; or three messages, two of them deferred, a redelivery, a lease that expires under a running executor, a pause or send-now; or a second message while a call waits for a credential | `UnsettledIsPending`, `ReadOnce`, `CallsWhenReady`, `DeferredInOrder`, `InterruptGates` |
| `driver_flows` | two flows (symmetric); a crash and a wake; a suspension and a pause; or two messages and a redelivery | `UnsettledIsPending`, `AckedIsJournaled`, `OneTurnOpen` |
| `channel_calls` | one call with a timeout, two requests and the alarm at once; seven scenarios (a second drive, a cancellation, a crash, a fault, a target that leaves, progress, another event) | `ImplementsLedger`, `AnswersSettle`, `RootsAreStray`, `WaitersAreReleased` |
| `channel_delivery` | log of 5, pages of 3, gaps of 1, two subscriptions, one fault of any kind or two lost emits | `NothingSkipped`, `QuietIsComplete` |
| `panel_runtime` | two entities (symmetric) of one slot, a desktop, a headless host and a phone, three connections | `HoldersAreRegistered`, `MarksAreLeases`, `TimersAreForTheLost`, `AutomationIsKept`, `PinnedIsNotYanked` |

`MessagesServed` says nothing of behaviours with a crash (see below). `EffectsCovered` says nothing of
the time between a restart and the wake, and `TurnsClose` is for behaviours in which the agent is not
left unwoken for ever after a restart (see below). `TypeOK` and `RepoTypeOK` are
the type invariants of the modules that have one.

The store needs a second head that forks from the first (an inherited id, an inherited turn), a
third that forks from the second (a cut inside a cut), a batch of two (a partial replay) and one
channel; more of any adds only symmetric cases. Seqs stop at `MaxSeq`. The repo needs the same state
to be archived twice and two different repos at one path, hence two states and two archives. The
driver's races involve two flows at a time, each of which may hold one loop, so that at most
`2 * |Flow| + 1` instances are referenced. A turn of two model calls has a first call, a call that
continues it and the limit. One crash is enough for the recovery properties because recovery starts
from durable state only: a second crash restarts from a state of the same kind. The numbers of a
scenario bound what the environment does; nothing the program does by itself is bounded, except by
`MaxModelCalls` and `MaxAttempts`, which are the program's own limits.

A call's frames touch no other call, except through `through`; that is what `calls_masked` is for, and
elsewhere one call is enough. Two requests and the alarm give three methods at once, of which a third
sees the state that two others are between. In `channel_delivery` a replay of more than one page, a
gap that is repaired and one that is too wide all occur within five events; an instance of seven
events with two lost emits was explored to 14 million states without a violation. `panel_runtime`
needs two entities of a slot (only one of which a pin or an unload sees first) and three connection
ids: one to lose, one that takes over, one reassigned. With these bounds the environment stops, so
deadlock is not checked; nor in the log models, whose seqs are bounded.

Runs that are expected to fail, each of which shows a disagreement between the code and a comment
in the repository:

* `repo_archive`: the comment at `archiveRepoMain` calls the rename integrity-safe, but the head's
  name is part of every hash, so `checkLogIntegrity` fails on an archive head.
* `overlap_fold`: two flows on one instance fold each other's envelopes with a gap or twice, because
  new envelopes are selected before the broadcast is awaited and folded after it.
* `calls_masked`: `recordObservedHead` claims the whole prefix of the log for the table. A start that
  was journaled right before a crash has no row; a later call moves the mark past it, the sweep skips,
  and the first call's deadline never fires.
* `replay_stranded`: after a resubscription the catch-up replay goes into the replay buffer, which
  only later iterators read: a listener that is already open never hears those events.

### What else the models show

These follow from the code and are visible in the models; no comment or test of the repository
speaks of them, or a property is stated so that it excludes them. The exceptions are the next two,
where a document and a comment say otherwise.

* Driver. Nothing wakes an agent after every restart. `docs/ws1-agent-loop-spec.md` says that `wake` is
  "driver-synthesized on every DO wake" (238), that `reconcileOutbox` runs "on DO wake" and "on alarm"
  (678) and that the driver's `alarm()` validates the fold and reconciles for each loop (811); the
  crash between an intention and its row is "safe by construction" because of it (614-617). In the
  code `resumeAfterRestart` (`workspace/packages/runtime/src/worker/durable-base.ts:937`) does nothing and
  the vessel does not override it, `alarm()` (`agent-loop-driver.ts:1255-1258`) pumps the rows that there
  are, and the channel sends `ready` when the vessel subscribes (`channel-do.ts:714`). After a crash
  between the append of an intention and the insertion of its row, the effect therefore waits until
  something else wakes or settles the loop: a new subscription, a command, an outcome of another row. No
  wake is assumed below, `TurnsClose` has the wake as its condition, and with the condition dropped TLC
  finds the turn that stays open.
* Calls. `awaitInFlightStart` (`calls.ts:164-167`) waits once. When a call is driven again while its
  first start is being journaled, and the first start fails, an answer that waited for it goes on while
  the second is being appended, and may synthesize a root for a call whose start is in flight, against
  the comments at 155-157 and 685-690. `RootsAreStray` excepts this case by name (`again`).

* Driver. With two flows and two messages a message may start a call while the close of its turn is
  being appended; the close loses the race and its retry closes all the same, which drops the call
  from the fold. `UnsettledIsPending` excludes this case (`Overlapping`). `EffectsCovered` fails there
  as well: `loop()` does not share a load under way, the slower of two loads installs an older state,
  and the reconcile of `settle` deletes a row that was just inserted; and `ReadOnce`, through the
  double fold. `FoldFaithful`, `EffectsCovered`, `ReadOnce` and `InterruptGates` are therefore checked
  with one flow.
* Driver. A credential wait that expires drops a call, with one flow and no crash. A message that
  arrives during the wait starts a call in the waiting turn (`steer` asks for no call in flight and no
  pending invocation, not for no wait); when the wait expires, `effectFailedStep` (`step.ts:1234`)
  closes whatever turn is open, and the fold of `turn.closed` forgets the call, which was started and
  has no outcome ("Pending effect ⟺ logged intention without logged outcome (P2)", `effects.ts:215`).
  Its executor goes on. If another turn is open when it answers, `eventStep` takes the answer for that
  turn's: it closes the turn over its own call, expands the tools in it, or, when a message steers it,
  starts a second call beside the first. `UnsettledIsPending` and `CallsWhenReady` exclude this
  (`ExpiryCutCall`); without the exclusion TLC finds the first with two messages, in the third scenario
  of `driver_turns`, and the second with four. After a crash the row of a wait that was already
  resolved can expire as well, and closes the turn without a `wait.expired`; the runs have no crash
  together with a suspended call and a second message.
* Driver. The row of one credential wait may stand in for another. Credential effects are keyed by the
  credential, not by the wait, and rows are inserted with `INSERT OR IGNORE`. With one flow: a call is
  suspended, a second message starts another call, the connect of the first wait is journaled and the
  isolate dies before its row is deleted; the second call is suspended too, and the reconcile keeps the
  stale row because its id is that of the new wait. The next delivery on that row replays the
  `wait.resolved` of the first wait, which changes nothing, and deletes the row while the second wait
  is pending; the `settle` that follows inserts a new one, and the user is asked again.
  `RowsOutliveIntentions` therefore compares the effect of a row, wait included, with those that are
  pending, and not its id.
* Driver. A row may be claimed more than `MaxAttempts` times: when a lease expires under an executor
  that is still running, the row is claimed again, and an executor that then finishes as retryable
  asks for another attempt. `TypeOK` says no more of `attempts` than that it is a number.
* Driver. A crash between `turn.closed` and its cascade leaves a deferred message waiting until some
  later turn closes: neither `wake` nor the recovery of open turns looks at the deferred queue.
* Calls. A sweep that read the log before a start was appended deletes the row that was inserted
  meanwhile; progress on the call then hides it from the next sweep. A second drive of a call that is
  settled between its check and its `insertRow` leaves a row for a settled call until a sweep runs.
* Delivery. An event whose emit is lost while a gap repair is under way is jumped over in silence when
  the buffer is handed on (see `waived` in section 2).
* Panels. A pinned release or expiry clears the grace timer and nothing sets it again, so that after
  the unpin a lost lease stays until its host leaves. A registration that comes back after the lease
  moved overwrites the registry entry; `providerForTarget` asks for the lease again, so that nobody
  attaches through it. `unloadSlot` drops one lease of the slot. `takeOver` closes the old connection
  before it finds that the new host is unknown. `cdp:unregister` closes the clients of a target without
  the unpin, and the slot stays pinned until a client attaches and leaves.

### Fairness

`LiveSpec` assumes weak fairness of: a flow that can continue (the store, the blobstore and the
channel answer), dispatching a due row (the alarm is set to the earliest due row after every step),
an executor finishing (it answers, fails or is aborted), a lease running out once nobody holds its
row, and the first delivery of each message to an agent that has been woken since its last restart. A
credential wait expires under strong fairness: a deadline that has passed stays passed while the row is
leased and due in turn. Nothing is assumed of redelivery, pauses, crashes or wakes: the code does not
wake an agent after every restart (see above), so that `TurnsClose` says of a behaviour in which every
restart is followed by a wake that no turn stays open for ever, and nothing of one in which the agent is
left alone. What is checked of recovery is thereby what a wake does, not that it comes.

`ChannelCalls` has `LiveSpec` for `DeadlinesSettle`: the store answers, time passes, and the alarm goes
off again and again, because the caller is a subscribed rpc participant whose eviction check keeps it
set. Strong fairness is used because code that runs to its next await disables everything else for a
step. The other modules are checked for safety only: nothing in the channel promises that a lost emit
is followed by another event, and leases last as long as their hosts please.

## 4. Proofs

Every theorem below is proved by TLAPS for every value of the constants that satisfies the
assumptions of the module; every invariant in it is also checked by a run on a small instance, and so
was each inductive invariant before it was proved. `SequenceFacts` holds what several proofs share.
The library's induction theorems take a predicate as a parameter, which the provers cannot
instantiate, so `NatSetInduction` states induction for a set: its proof takes a minimal interval
among those that end outside the set, by the well-foundedness of inclusion on finite sets. With it
the folds and filters of the driver can be reasoned about.

### The store

* `UnifiedLogTypeOK`. Inductive as it stands. The work is in `AppendType`: what an append inserts into
  a log is a finite set of positions of its batch (`InsertsFinite`), and each insertion has an id and
  a content of the right kind (`InsertTypes`), which needs that only trajectories publish, as the
  guard of `ChannelAppend` says.
* `UnifiedLogChainIntact`: what `checkLogIntegrity` verifies. Not inductive alone: a head whose
  pointer lay before its fork would satisfy it with no rows and number its next row below the fork.
  `ChainInv` adds `ForkBelowHead` and `TypeOK`. The model gives a row its seq by counting the
  insertions up to it, where the code increments a counter; `Ranks` shows by the pigeonhole principle
  that these counts are 1..n in order, and `RankSteps` that the insertion counted just before a row is
  the one whose cells its `prevHash` contains.
* `UnifiedLogViewMatchesHead`, `UnifiedLogLineageIdsUnique`, `UnifiedLogTurnsOpenedOnce`: what a head
  reads through its ancestors ends where its pointer says, with the hash that the pointer holds; no id
  and, in a trajectory, no turn opening occurs twice in it. The invariant `ViewsInv` adds to `ChainInv`
  that the parents form a tree and that a fork lies within its parent (`TreeInv`). Lineage is a path of
  any length; `Ancestor` says it without one (every set closed under parents that holds the key holds
  the ancestor), so that a lemma about ancestry chooses a set instead of counting steps.
* `UnifiedLogViewsAppendOnly`: a step extends what a head reads at its end or leaves it alone.
* `UnifiedLogRetryAcknowledged`: the batch of an append that was applied is accepted again, as a
  replay, whatever was appended since.
* `UnifiedLogPublicationsFollowOrigins`: a publication has its origin in a trajectory, and two
  publications of one trajectory in one channel are in the order of their origins.

Assumed: trajectories and channels are disjoint (`KindsDisjoint`), batches are non-empty sequences of
events (`BatchType`), `MaxSeq` is a natural number, a client's envelope id is never the id that the
store derives for a publication (`ClientIds`: the store puts
`pub:` before the id of the origin),
and the markers for a missing head, parent or turn are none (`NoHeadType`, `Sentinels`).

### The repo logs

`RepoLogTypeOK`, `RepoLogLiveHeadsIntact`, `RepoLogWorktreeMatchesHead`, `RepoLogForkPointsKept` and the
action property `RepoLogMainHistoryKept`, from one invariant `RepoInv`. An archive head does not pass
the integrity check under its own name (`repo_archive`), so the invariant says of every head that it
passes it under the name its rows were hashed with (`HashedAs`): an archive is a main under another
name, and restoring one gives back a head that is intact. Assumed: `RepoHeads` (main, contexts and
archives are different trajectories, the empty state is no state).

### Method calls

* `CallsImplementLedger`: `ChannelCalls` implements `CallLedger`, so that a call is issued at most once
  and settled at most once, after its start. `CallsInv` says of every frame of every stack what it has
  seen: one that is about to append a terminal has a start in the log and no other frame can slip a
  terminal in between, because check and append are one transaction of the store; one that is about
  to confirm an answer has a terminal in the log; one that waits waits for a start that some handler
  is journaling (`TopOK`, `BarrierOK`). `LogStep` then says what a step may do to the log.
* `CallsAnswersSettle`, `CallsWaitersAreReleased`, `CallsRootsAreStray` and `CallsTypeOK`, from the same
  invariant. `RootsAreStray` follows `why` from the barrier to the append of the root: an answer that
  found a start, or waited for one that was appended, never gets there. That there is a second start in
  flight when the first fails is the case it excepts (section 3). `WaitersAreReleased` is the deadlock
  question of the start barrier; its proof is that whoever waits is waiting for the first frame of a
  stack that is journaling.

Assumed: `CallTypes`.

### Panels

`PanelTypeOK`, `PanelHoldersAreRegistered`, `PanelMarksAreLeases`, `PanelTimersAreForTheLost`,
`PanelAutomationIsKept` and the action property `PanelPinnedIsNotYanked`. `PanelInv` adds that a
connection id is held by one lease at a time and was given out (`ConnsDistinct`, `ConnsGivenOut`):
without it, dropping one lease could clear the mark or the timer of another. `PinnedIsNotYanked` lets a
pinned lease go only with its host or when `retired` says that it was asked to; an expiry, an unload or
a release that forgets the pin violates it. Leases of a slot that is
reassigned get connection ids numbered by counting, whence the lemma `Numbering`. Assumed:
`PanelTypes` and `NoLease`.

### The driver

* `TypeCorrect`: for any number of flows, messages, tools, attempts and disturbances. It is the whole
  of the fold and the step once over: that `ApplyEvent` takes states to states and every batch that
  `Step` returns consists of events.
* `AcknowledgedIsJournaled`: a message that the vessel has acknowledged to the channel is in the
  trajectory, whatever crashes, conflicts, retries and overlapping flows there were.

The invariant `DriverInv` has three parts. `DurableInv`: the log is a sequence of envelopes numbered
1..n with distinct ids, the cache is a state that knows only ids in the log, the outbox holds rows,
what is acknowledged is in the log. `FlowsInv`: every loop instance is a state that knows only ids in
the log; every flow is a stack of well-formed tasks; and before a task that acknowledges a message its
receipt is in the log, or an earlier task of the same stack `Carries` it, that is, is a step on that
message or an append whose batch contains the receipt. The crux is the step on a prompt: it appends
the receipt or finds the id among those that the state knows, and a state knows only ids in the log;
and a refused append goes back to such a step, never past it. Assumed: `DriverTypes` (the model asks
for finitely many tools), `NoInstance` and `NoError` (markers), and those of `AgentLoop`.

#### One flow at a time

`overlap_fold` shows that two overlapping flows break `FoldFaithful`, and section 3 that they break
others. `AgentDriverOneFlow_proofs` and `AgentDriverRows_proofs` prove what holds when the entry points of an agent are served one
after the other (`Flow = {f}`), with any number of messages, tools, attempts, crashes, restarts,
replays and stale appends:

* `CacheIsFold` (`FoldFaithful`): the cached state is what a cold refold of the journal up to its seq
  gives. The invariant `OneFlowInv` says that every loop instance that is held is the fold of the
  whole journal, except between an append and its fold, when it becomes that by folding the envelopes
  of the answer that are new to it (`TopOK`, for every place a task can be at). The hard case is the
  stale append: `StaleStep` evicts the loop and the reload makes another instance, while steps below in
  the stack still hold the old one. A single flow reaches `stale` only when the store is bound to
  refuse the same batch again (`Refused`: nobody else appends, so neither the journal nor the answer of
  the step changes), so that the whole stack is dropped in the end and never folds into the old instance
  (`Doomed`); otherwise all tasks share the loop in the map (`SameLoop`, `LowerOK`).
* `OneTurn`, `InterruptHolds` and `PromotedInOrder` (the action properties `OneTurnOpen`, `InterruptGates`
  and `DeferredInOrder`). `StepIsOrderly` says in which order the batch of any step has its events, for
  every state and every input: before `turn.opened` and, in a turn that is open, before
  `message.started` come only events that leave the turn alone; a promoted message comes first.
  `BatchInOrder` carries this over to the journal when a prefix of the batch was there before:
  `ReplayedOpening` is the case of a crash that left `turn.opened` as the last event.
* `MessagesReadOnce` (`ReadOnce`). `WrittenInOrder` says that every event of the journal was in order
  for the fold of what was before it; it is kept by every commit (`OrderStep`). From it, by induction
  over the journal, the fold of every prefix is as `ReadOK` says: each message was read at most once,
  none that waits as deferred was read, and all that was read or waits is in the prefix. That the journal
  refuses an id it holds rules out the second reading of a redelivered message; that a promoted message
  has another id than its first receipt is why the queue of deferred messages must say what was read.
* `RowsOutlive` (the action property `RowsOutliveIntentions`): a row leaves the outbox only when its
  effect is not pending in the journal, unless a row of the same id takes its place. The invariant
  `RowsInv` comes on top of `OneFlowInv` and has four parts. The books of the journal (`Ledger`): the
  call, the invocations, the wait and the turn of its fold were begun in the journal and not ended, and
  an id that ends something follows the one that began it. Every row, and every execution under way,
  is for an effect that was begun (`Begun`, `RunFair`). And every task of the stack has what it relies
  on (`StackFair`): one that appends an outcome carries exactly the event that ends its effect; one that
  is refused for another reason than the head finds that event in the journal; one that is going to
  delete a row stands below a step that fails its effect, or its effect is over. `Over` is what makes the
  deletion safe, and it lasts: `LedgerStep` shows that no event makes pending again what was ended,
  because the id of a start is in the journal and the journal refuses it a second time. The suspension
  of a call is the delicate case. It ends the call and begins a wait in one batch whose ids depend on the
  seq and on the number of waits of the turn, so that its replay must be shown to be the same batch.
  This is the suspension that an executor reports as its outcome; the one in the exception path of
  `dispatchRow` is not in the model (section 5).

### What the proofs changed

* `CASE` with overlapping guards denotes an arbitrary choice, and TLC takes the first. In
  `ChannelCalls` (`Found`, `Thrown`) and `AgentDriver` (`AppendError`) the guards overlapped, and the
  proofs could not be completed; they are chains of `IF` now, in the order in which the code tests.
* `RowsOutliveIntentions` asked that no pending effect has the id of a row that is deleted. This is false
  of one flow with two waits for one credential (section 3); the run was too small to show it.
* In the driver, `TypeOK` bounded `attempts` by `MaxAttempts`; this is not inductive, and TLC found the
  behaviour that breaks it (see above).
* The fold's two filters are the recursive function `Kept` (`After`, `Without`); the provers know
  nothing about `SelectSeq`.

### Only model-checked

* Liveness (`TurnsClose`, `MessagesServed`, `DeadlinesSettle`), which needs `ENABLED`.
* The driver's `UnsettledIsPending` and `CallsWhenReady`. They are not true of one flow for every
  scenario: looking for the invariant behind them led to the expired wait described in section 3.
* The driver's `EffectsCovered`: it needs, on top of `RowsInv`, an account of which task of the stack is
  going to insert the row of an effect that has none yet.
* `NothingSkipped` and `QuietIsComplete` of `ChannelDelivery`. They hold for few faults only. Examples
  of what breaks them: the ready message and the answer of a subscription are both lost, which leaves
  a client that is never ready, with the replay in `streamedReplayLogEvents`; two emits are lost while
  the cursor is 0, where there is no gap check.


## 5. What is left out

* In the driver: approvals, edits and retractions, configuration and roster changes, compaction (it
  does nothing below 24 entries), `publish_envelope` effects (they never touch the log or the fold),
  the deferral of model calls, heartbeats, unsubscribing, policies that transform appends, the await
  of the connect spec in `suspendOnCredential`, and the exception path of `dispatchRow`
  (`agent-loop-driver.ts:867-880`). The latter suspends with the loop that was loaded at dispatch (816),
  whose head may be stale by then; its append may be refused, and the row deleted (1162) while its call
  is pending. `RowsOutliveIntentions` and its theorem say nothing of it. Recovery reads the log
  in one step, where the code awaits the read (334-348) and other flows may run. One agent writes the
  log.
* In the store: blobs and their garbage collection, projections, the search index, owners.
* In the VCS: working edits, commits, merges, file contents.
* In `ChannelCalls`: only the target answers (anyone else is refused before anything changes), payloads,
  redelivered calls (signals, which change nothing in the channel), and the paging of the log read.
* In `ChannelDelivery`: signals, roster snapshots, the second dedup of presence events, the eviction of
  dedup keys, `replay: "skip"`, a subscribe that is refused or fails, DO participants (whose envelopes
  have a chain of their own), a channel object that restarts (its chains are memory), and failures on
  a chain that was cut off.
* In `PanelRuntime`: labels, owners and snapshots; a host's session id and connection id are one; client
  ids choose fresh connection ids; a command in flight and the frames of CDP.
* The components with status `not_modelled` in `PROJECT.json`, with their reasons.

## 6. Plan

In this order, the most consequential first:

1. Proofs. `EffectsCovered` of one flow, from `OneFlowInv` and `RowsInv`; the exact set of
   faults for which `QuietIsComplete` holds, found with TLC, and its proof for any log, page
   and gap size.
2. `RepoLog`: working edits, `commitRepo`, `ingestRepoGroup` and merges, and what a context reads
   after its repo was replaced.
3. An abstract journal (a sequence of unique ids with compare-and-set) that both `UnifiedLog`, for one
   head, and the `log` of `AgentDriver` refine, so that the driver's use of a linear log is checked.
4. `RecoveryCoordinator` and `ApprovalQueue`: one module each; the first composed with the
   resubscription of `ChannelDelivery`, which it triggers.
5. In the loop: approvals, a second author on the log, compaction. In the channel: a restart of the
   channel object, which loses its emit chains.
