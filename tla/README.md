# xiaok-cli: a TLA+ model of its core

xiaok-cli is an agent runtime: a command line and a desktop host that run model-driven
agents, let agents spawn and direct other agents, and keep tasks, goals, reminders and
plugin providers alive across failures.  This directory holds TLA+ modules of the parts
whose correctness is a matter of ordering, TLC instances of them, and TLAPS proofs.
Line numbers below are those of the commit that is modelled; `PROJECT.json` maps every
definition to its lines.

## 1. Inventory

**SubAgent coordinator** (`src/src/ai/agents/multi-agent-coordinator.ts`).
State: one `AgentRecord` per agent (status, queue of messages, inbox, controller, the
promises `execution` and `cleanup`, session or session factory, closing, residence and
reservation), the set of sleeping waiters, prepared turns, `disposed`.  Operations: spawn,
followupTask, sendMessage, waitForUpdate, interruptAgent, closeAgent, dispose, the
prepare / activate / roll back protocol of the external mode, and the continuations of
every await: createSession, run, suspend, deactivate, dispose, publication, the watchdogs
and bounded waits.  It calls sessions, observers and a publication callback; it is called
by the tools of its own agents, by the terminal and by the desktop service.  Hard: one
thread, but every await of every agent interleaves with every call; sessions arrive or
fail late; a subtree is closed while its agents spawn, wait for each other and are cleaned
up in parallel.  Correct when: slots bound the live sessions; a disposed session is not in
use; what is reported released is released, with its descendants; nothing starts in a
closing subtree; no accepted message is stranded; an interrupt is not overtaken by a late
result; executions and closes end; a wait never sleeps over its answer.

**Desktop multi-agent service** (`src/desktop/electron/desktop-multi-agent-service.ts`).
The host of the external mode: it reserves a turn with the coordinator, makes it durable
in its own store and only then activates it, or rolls it back.  It rejects calls of agents
in preparation or aborted, and owns a mailbox of its own.

**Provider slot directory** (`src/src/platform/provider-runtime/provider-slot-directory.ts`).
State: per slot the generations prepared, committed and retiring; per generation a ledger of
leases, tombstones, the group of protected leases, `closeOnce`; per lease its phase, abort
source, deadline timer, grace and invocation handles; one gate for all transitions to
finalizing.  Operations: prepare, commit, markFailed, acquire, beginFinalizing, abort,
release, retire, beginShutdown, abortNonProtected.  Hard: a lease may be released, aborted,
overdue, revoked and finalizing in any order while its generation is replaced, retired or
shut down.  Correct when the ledger is exact, the scope outlives the leases, a protected
lease is left alone, and every retirement ends.

**Lifecycle reconciler** (`src/src/platform/provider-runtime/lifecycle-reconciler.ts`).
State per component: desired and actual state, a desired revision, the committed
generation, the reconcile in flight, pending health signals.  Operations: enable, disable,
retry, replaceGeneration, health signals; it prepares, commits and retires generations in
the slot.  Hard: every await of an activation may see another desired state; replacements
and health signals are not part of the single flight.  Correct when the component converges
to what was asked for last and no generation is left behind.

**Reminders** (`src/src/runtime/reminder/`).
State: one row per reminder in an SQLite file (status, due time, retries, occurrence, time of
the last update) and one row per delivery attempt.  Operations: create, cancel (one, or the
chain of a recurring one), and the calls of `runOnce`: recover stale deliveries, claim a batch,
deliver each row, record it, mark it, create the next occurrence, or retry and give up.  Hard:
ticks overlap, because the timer does not wait for the last one and processes share the file; a
crash or an error of the store falls between any two writes; a row is taken back after ten
minutes from a call that may only be slow.  Correct when a due reminder is shown, once unless
it was taken back or failed after its delivery, and its outcome stays.

**Goal runtime** (`src/src/runtime/goal/`, with `approved-publication-operation.ts` and the
journal and receiver of `src/src/runtime/verification/`).
State: a goal with a revision, a completion claim with its publication attempts, an execution
lease with expiry, a ledger of turns, budgets; of an attempt, its status in the store, the
controller's request, operation and journal, the receiver's record.  Operations of a
publication: create, prepare, approve, settle, stage, commit, recover, reconcile, finalize,
complete.  Hard: several processes resume one claim, each of the stores is a different
transaction, every call may fail before or after it took effect, and an approval may still be
shown while the attempt is given up.  Correct when a claim publishes at most once, a goal is
complete only over a committed receipt, and a committed receipt completes it.

**Daemon host and its clients** (`src/src/runtime/daemon/host.ts`,
`src/src/runtime/reminder/client.ts`, `src/src/runtime/reminder/daemon-registry.ts`).
State: of each daemon its connections, the last connection of every client, the client registered
for a session; of a client its socket, the connect in hand, its two timers; the socket path, which
leads to one daemon.  Operations: connect, launch, hello, heartbeat, expiry, close at either end,
start and stop of a daemon.  Hard: the two ends see a socket end at different times, a client
reconnects before its old connection is seen to be gone, and a launched daemon takes the socket
path from one that runs.  Correct when no registry names a client without a connection, and a
client that believes to be connected is registered.

**Task host** (`src/src/runtime/task-host/`), **agent runtime and sessions**
(`src/src/ai/runtime/`), **channels** (`src/src/channels/`), **loops and timed actions**
(`src/desktop/electron/loop-*.ts`, `timed-action-*.ts`), **observation and delegation**
(`src/src/runtime/sol-pi/`, `src/src/runtime/intent-delegation/`), **verification
authorities** (`src/src/runtime/verification/`), **isolated execution**, **MCP, plugins,
worktrees**, and the user interfaces (terminal, desktop, mobile): surveyed from their
interfaces only.  `PROJECT.json` lists each one with the reason it is not modelled.

How they interact: a turn of an agent runs a session, whose model may call the
multi-agent tools, which call the coordinator back; the desktop service wraps the
coordinator; goals, reminders, channels and timed actions start tasks in the task host,
which runs the agent runtime; plugin providers are leased by the tasks that use them.

## 2. Modules

| module | models | state |
|---|---|---|
| `AgentLifecycle` | the coordinator without its mailbox, both execution modes | `agents`, `closers`, `disposed` |
| `AgentOwnership` | what the coordinator promises about agents and sessions | `phase`, `ancestors`, `live` |
| `AgentRefinement` | that `AgentLifecycle` implements `AgentOwnership` | refinement mapping only |
| `AgentMailbox` | inboxes and waitForUpdate, over a reduced coordinator | `nodes`, `inbox`, `waits`, `disposed` |
| `AgentLifecycle_proofs` | theorems about the slots and follow-ups of `AgentLifecycle` | |
| `AgentClosing_proofs` | theorems about its tree of agents, and its refinement | |
| `AgentMailbox_proofs` | theorems about `AgentMailbox` | |
| `ProviderGenerations` | what a slot promises about the generations of a provider | `life` |
| `ProviderSlots` | one slot of the directory: generations and leases | one function per field, `gateOpen` |
| `LifecycleReconciler` | the reconciler of one component, over a reduced slot | `desired`, `runtime`, `committed`, `slot`, `flight`, `replacement`, `health` |
| `ProviderSlots_proofs`, `LifecycleReconciler_proofs` | theorems about them | |
| `ReminderDelivery` | the reminders of a workspace: rows, and the calls that deliver them | `status` and the other columns, `sent`, a program counter, batch and row per call |
| `GoalPublication` | the publication of a completion claim: workflow, controller, receiver | `goal`, `intent`, `status`, a run per process, `request`, `op`, `journal`, `receiver` |
| `ClaimPublication` | what the publication of a claim promises | `attempt`, `intent`, `goal` |
| `DaemonClients` | connections between clients and the daemon, and the registry | `clientEnd`, `serverEnd`, `clientsById`, `bySession`, the client's socket and timers |
| `ReminderDelivery_proofs`, `GoalPublication_proofs`, `DaemonClients_proofs` | theorems about them | |
| `MC...` | instances for TLC, one for each of the seven detailed modules | |

### AgentLifecycle

The code runs on one thread, so an action is one synchronous section: from a call, or from
the settling of an awaited promise, to the next await.  A record is the `AgentRecord`:
`queue` is the length of the queue, `signal` the state of `controller`, `exec` where the
promise `execution` stands, `cleanup` where the promise `cleanup` stands, `session` whether
the record holds a factory, a session or neither, `resident` / `reserved` / `released` the
fields runtimeResident, preparedReservation and resourcesReleased.  `native` is no field:
it is what the session holds outside, so that "released" can be compared with the truth.
`ancestors` is the chain of parentId.

The functions on records follow the code: `BeginTurn` is one iteration of `processQueue`
up to its first await, `EndTurn` its catch and finally blocks with the next iteration,
`FinishExecution` the end of the finally callback of `schedule` with its rescheduling,
`CloseRecord` the synchronous part of `closeRecord`, and `AfterDrain`,
`PublishUnlessFailed` and `Confirm` the stages of `cleanup()`.  A late session that
`cleanup()` finds is deactivated and disposed in one await pair (`DisposeSettled`).
`closers` holds the closeAgent calls that still have records to close: the loop waits for
each at most `closeSettlementTimeoutMs`, so `CloseNext` may come at any time.  A second
closeAgent of an agent that is being closed comes to the same records in the same order;
`closeRecord` returns the cleanup in hand, so what the first call has closed stays closed, and
one entry stands for both.  A timeout
closes its whole subtree in one section.  In the external mode, `PrepareSpawn`,
`PrepareFollowup`, `ActivatePreparedTurn`, `RollbackSpawn` and `AbortExecution` are the
calls of the host.  A follow-up is rolled back by the host only inside the section that
prepared it and leaves the record as it was; it is no action.

Observers (`onEvent`) are passive: no host in the repository calls the coordinator from one.

### AgentOwnership and AgentRefinement

An agent is absent, open, closing, released or unconfirmed; a close takes a set of agents
closed under descendants in one step; an agent settles after everything below it, and is
released only over a released subtree with its own session gone; a session is acquired
only when there is capacity.  `PhaseOf` maps a record to what a snapshot shows of it.
The external mode does not implement it: `rollbackPrepared` shows a spawn that was prepared
and is being closed as released at once, while the cleanup that a closeAgent call above it is
about to start, or has started, goes on behind the snapshot.

### AgentMailbox

A wait is asleep in `waitForSignal`, woken (its promise has resolved, its code has not
run), or over.  `Notified` and `Aborted` are what notifyWaiters and an abort do to waits,
in the order in which each section does them: a wait woken first has lost its abort
listener.  Woken waits resume as microtasks, therefore a watchdog, or the host of a wait,
fires only when no wait is woken (`NoneWoken`); all other sections may come first.  Every
agent exists from the start, and the coordinator is reduced to what an inbox or a wait can
see of it: status, execution, queue, abort, closing.  `RunReturns` waits for the waits made
by the turn, because the runtime awaits its tools without racing them against the signal.

### ProviderSlots and ProviderGenerations

The slot of one provider; slots share only the gate.  Every field is a function of
generations or of leases.  `state` merges the state of a generation with its place in the
slot; "overwritten" is a generation that a second prepare displaced.  `phase` is the phase
of a lease, and "settled" also its released flag, which `release` sets in the same section.
`deadline` follows runtimeDeadlineReached: armed, in its grace, disposing the handles
(revoking), or revoked; BeginFinalizing clears the timer but not a grace that has begun.
`active`, `tombstones` and `protected` are the ledger of a generation.  `retire` is the
program counter of the call of retire, `watched` the leases whose promise `settled` it
races.  Bound: one call of retire for a generation; a second would wait for the same leases.
`LifeOf` maps a generation to ProviderGenerations, where it is prepared, serves once, and
is then retired for good, and where a swap is one step.

### LifecycleReconciler

`flight` is the reconcile in flight, with the generation and the await it stands at;
"over" is the instant before its callers look at the state once more, which is a microtask
and therefore precedes any new call (`Quiet`).  Instead of a revision a flag `stale` of
each attempt says that the desired revision has moved since it began.  The slot is
reduced: a generation is prepared, committed, retiring, retired or failed, or "stuck", when
its retirement was rejected.  Leases do not occur: they decide only when a retirement ends,
and it may end at any time.  At most one replacement, and one health signal, is under way.

`overlapped` is no field.  It latches the moments in which a replacement or a health signal
runs beside a reconcile, or beside the other, without learning of it: the header of the
file promises one single flight, replaceGeneration and applyPendingHealthSignals run
outside it, and no host in the repository calls them yet.  Three promises of the reconciler
are stated up to such an overlap; the fourth, the refinement, without exception.

### ReminderDelivery

An action is one SQL statement, with the decision the code takes on its result, or the outcome of
a delivery.  The calls of the store are no transactions, so `recoverStaleDelivering` is a SELECT
(`SelectStale`) and then, row by row, hasSentDelivery (`Judge`) and an UPDATE that looks at the
status again (`TakeBack`) or does not (`MarkFoundSent`); `claimDueReminders` is a SELECT
(`SelectDue`), and row by row an UPDATE that looks again at what the SELECT has seen (`ClaimRow`,
or `MissRow` when it changes nothing) and a read of the row (`ReadClaimed`); `cancelTaskChain` is
two UPDATEs (`CancelReminder`, `CancelLater`).  Between processes that share the file all of
these interleave.  Within one process the statements of a call do not, the model lets them: it
does not say which calls share a process, so its safety holds of any distribution of calls over
processes.  A read is an action of its own where what it reads may change before the statement
behind it; the reads of cloneNextOccurrence and cancelTaskChain are of columns that nothing
changes, and createDeliveryAttempt adds a row that nobody reads while it is under way.  A statement
that fails because another process has the file (SQLITE_BUSY) is an error of the store, `StoreError`
or `Lose`.  A call's `now` is not compared: a row found due that waits for a retry when the UPDATE
comes is taken when it is due by then.  `pending` and `retry_wait` are one status, because every statement treats them
alike.  Times are two booleans of a row: `due` (next_attempt_at has come) and `stale`
(updated_at is `staleAfterMs` ago); every statement that writes updated_at resets `stale`.  A
call of `runOnce` is an element of `Ticks` with its phase, the rows its last SELECT has found
(`found`), the claimed rows it has not come to (`batch`), the one in hand, and the retry counts it has read (`seen`): it decides about a retry
by what it read when it claimed, not by the row.  `sent` counts delivery rows in status 'sent':
an error after markDeliverySent turns the recorded delivery into a failed one.  `Lose` is a
crash, or an error outside the try; `StoreError` one inside it, after the delivery.  `shown`
and `lapses` are no columns: they count the deliveries that reached a sink, and the times a
row was taken back, or failed after its delivery.  Left out: parsing and listing, the contents,
updateExecution, which nothing calls.

### GoalPublication

One run of the workflow per process, resumed as often as it likes.  An action is one await: of
the store (a compare-and-set of the attempt's revision), of the controller, or, inside the
controller, of the native approval or of the receiver.  `fresh` stands for revisions: whether
the revision a run has read is still that of the attempt.  `knows` is whether that copy has the
challenge, without which a recovery saves 'prepared' first.  A request that was sent is in
`asked` or `submitted` and reaches the controller later, also after the process that sent it
has stopped.  `booted` are the operations the running controller has prepared, the only ones it
approves.  `journal` is the reservation of a settled operation, the receiver's reply moves it;
`Stage` and `Commit` are the receiver's own steps, enabled once something may have been sent to
it.  `StopBeforeSettlement` is a stop between the two stores of SettleApproved.  Left out: the
turns before the claim, the blocked goal, the contents of manifests and digests, the deadline
(a commit that is too late is one of the two outcomes of `Commit`).

`ClaimPublication` is what all of them promise together: attempts are made one after another,
each may be given up until its operation is approved and by nobody afterwards, the receiver
decides it once, the goal is complete only over a commit.  `ImplementsClaim` maps an attempt
to it from the four places that keep its outcome: the store, the request, the operation with
its journal, and the receiver.

### DaemonClients

A socket has two ends, and each sees it close in a step of its own: `clientEnd` and `serverEnd`.
The client's actions are those of `reminder/client.ts` (ensureConnected, the two attempts of
connect with the launch in between, handleDisconnect, the two timers), the host's those of
`daemon/host.ts` (handleHello, handleHeartbeat, handleDisconnect, expireStaleConnections), the
registry's those of `daemon-registry.ts`.  Faithful to the code, the close of any socket makes
the client forget the socket it has, and the end of any connection removes the client's entry.
`Starving` is a connection that no heartbeat reaches.

Nothing keeps daemons apart.  A client launches one after any first attempt that failed, for want
of a listener or because a close rejected its hello (`Launch`); `daemon serve` does not ask for a
running one either (`Serve`); and `start` removes the socket file, whoever listens on it
(`StartDaemon`).  So each daemon has registry, connections and clients of its own, `host` says
which of them a connection is with, and `path` which of them a new one would reach.  The one that
lost the path keeps what it has, and its `stop` removes the file of the other (`Stop`).  A launch
that comes to nothing is possible, and so is a second attempt, 300 ms later, that comes before any
daemon listens (`GiveUp`).  This is the POSIX behaviour; on win32 the second `listen` fails and the
process ends, which is a launch that comes to nothing.

What this means for reminders is disclosed here and is no property, for nothing in the repository
promises otherwise: two daemons of a workspace scan one file, and the one that claims a reminder
may not be the one that has its session; it finds the session offline and fails the reminder for
good.  `SessionReachable` says that some daemon has a connected client registered, not that every
daemon has; `ShownOnce` says that together they do not show a reminder twice.

Left out: calls and their pending replies, protocol versions, the control client.

## 3. Runs

| run | instance | shows |
|---|---|---|
| `agent_automatic` | 2 agents, depth 2, one slot beside Root, 3 messages each, every operation may fail, fair | slots, releases, follow-ups, interrupts; executions and closes end |
| `agent_subtree` | 3 agents, depth 3, two slots, dispose may fail | closing of subtrees; refinement of AgentOwnership |
| `agent_external` | as the first, in the external mode | the prepare / activate / roll back protocol: a release is one, a closing subtree stays still |
| `mailbox` | a chain of two agents, two waits of the parent or one of Root, inbox of 2, 1 taken at once, fair | lost updates, order, closed inboxes, termination of waits |
| `mailbox_abort` | two siblings, one waits for the other | a violation, see section 6 |
| `provider_slots` | 2 generations, 2 leases on the one, which has a child, fair | ledger, protection, revocation, ends of retirement and shutdown; refinement |
| `provider_drain` | 1 generation, 2 leases, fair | a violation, see section 6 |
| `reconciler` | 3 requests, 1 replacement, 1 health signal, fair | convergence, no orphan, projection; refinement |
| `reconciler_retry` | 3 requests | a violation, see section 6 |
| `reminders` | a recurring row with two occurrences, two overlapping calls of processes that share the file, batch and retries of 2, one fault, fair | shown once, final outcomes, every due row settles |
| `goal_publication` | 2 processes, 2 attempts, 1 fault, fair | one publication, completion backed by a receipt, a receipt completes; refinement of ClaimPublication |
| `daemon` | 1 client, 2 sockets, 2 daemons, 3 faults, fair | honest registries, no silent connection |

Bounds.  `MaxTurns` bounds the messages an agent is ever given, `MaxQueue` those queued at
once, `MaxInboxMessages` is the code's own limit set low so that it is met.  Two agents are
enough for everything that relates one agent to the capacity: with one slot beside Root
the second agent may only live when the first has let go.  Three turns let an agent be
suspended, resumed and queued behind a suspension.  A tree of three gives a parent with a
child that has a child, and a parent with two children; the code treats longer chains by
the same per-level waits; the two of them that cannot be suspended are interchangeable, and
the run, which checks no liveness, uses that symmetry.  Two waits for one child and an inbox of two are the
least in which a wait takes a message another one also wants, and in which order matters; the
chain in which they wait is closed while they do, and `WaitCalls` and `SendCalls` name the
calls that are made: the child sends to its parent, two calls of the parent, or one of Root, wait.
Two leases are the least for a group of protected leases, and for a ledger that is not empty
when one lease has gone; they are both taken on the first generation (`Leasable`), which also has a
child to close (`Closable`).  The second generation is prepared, committed, displaced, failed and
retired beside it, also while the leases live: generations meet only in prepare, commit and the
gate, and leases of two generations not at all (373,088 states).  Three requests let the desired state change, change back and be confirmed
around one attempt.  Two calls of runOnce over the occurrences of one row are the least in
which one call claims what another has recovered, one records over the other, and a batch is
left half done by a crash; they are also the least in which both have read a row before either
marks it, and in which one takes back what the other has just claimed anew (192,288 states).  One
fault is a crash, an error after a delivery, or a delivery of more than ten minutes.  Two processes and two attempts are the least in which
an old attempt is retired by one process while another still publishes it (468,615 states).
Two sockets let the end of one connection cross with the hello of the next, two daemons let
each take the path from the other, and three faults, each a stop or a late heartbeat, let a
connection end at either daemon in either way and a daemon come back (104,516 states).  Three
sockets with one fault (1,232,796 states), and two clients with sessions of their own
(`OwnSessions` of `MCDaemonClients`) with a socket each and one fault (116,040 states), were checked
once, without a violation; the first takes longer than a kept run may, and the theorems cover both.
Deadlock is not checked: a coordinator with nothing left to do, or disposed, stops, and so
does a slot whose leases are used up, a component nobody asks anything of, a workspace whose
reminders are settled, a claim that is finished and a client that has left.

Fairness.  `AgentLifecycle!Fairness`: every continuation that is due runs (the event loop),
every session operation that was called settles in the end, and the bounded waits end by
their timers.  The settling is what the session implementations promise, with timeouts of
their own; the coordinator has no other way to free a slot.  No call, activation or
watchdog is fair.  `AgentMailbox!Fairness`: a woken wait is resumed, and time passes.
Nothing else is needed for a wait to return.  `ProviderSlots!Fairness`: the timers of
deadline and grace fire, and the awaited promises of closeOnce, scope and handles settle.
Callers are not fair; that they release, which the gateways do in a finally block, is the
hypothesis `CallersRelease` of the two properties that need it, and `OverdueLeaseEnds` says
what holds without it.  `LifecycleReconciler!Fairness`: adapters and retirements settle in
either way, and due continuations run.  `ReminderDelivery!Fairness`: timers fire, times come,
and a call that has begun goes on; no daemon has to be started (`DueSettles` supposes that one
runs from some point on) and no fault has to happen.  `GoalPublication!Fairness`: what is sent
to the controller is answered, and somebody goes on recovering an open attempt or a committed
one, as the resumption of a session does; nobody has to start or to retry, and nothing sent to
the receiver has to arrive.  `DaemonClients!Fairness`: both ends learn what happens to a socket,
timers fire, a connect goes on, and a connection without heartbeats expires; no call has to be
made, so a client whose two attempts failed may rest (`GivenUp`), and no daemon has to start.

Each property of each run has a mutant in `PROJECT.json`: a plausible slip in one
definition, whose operator stands just before that definition under the comment
"Variant of", and under which TLC finds the property violated.

## 4. Proofs

`AgentLifecycle_proofs` proves, for every set of agents, every limit, both modes and
every set of failing operations, from the three named assumptions on the constants:

* `TypeCorrect`: `Spec => []TypeOK`;
* `LiveSessionsBounded`: `Spec => []BoundedLiveSessions`;
* `FollowupsNotLost`: `Spec => []NoLostFollowup`.

`BoundedLiveSessions` is not inductive: it counts live sessions, while the code counts
slots.  `SlotInvariant` connects them.  `SlotSafe`, of one record by itself, says that a
live session has a slot, and what keeps it true: an agent with an execution is resident, a
session in use is there, a record past its drain has no execution, a live session without
a session in the record has a cleanup error (the creation that leaked), a released record
has nothing.  `SlotsBounded`, of all records, says that the slots do not exceed the limit.
Only the actions that take a slot check the capacity, hence each action is shown either to
give nobody a slot (`StepMany`) or to give one agent a slot when there is one (`StepOne`).
There is one lemma per function on records, one per action on top of them, and the three
theorems follow.

`AgentClosing_proofs` proves of the tree, in either mode:

* `NothingBeginsBelowClosing`: `Spec => ClosingSubtreeStill`;
* `InterruptsStick`: `Spec => InterruptSticks`;
* `ReleasedHoldNothing`: `Spec => []ReleasedHoldsNothing`;
* `DisposalOverGone`: `Spec => []DisposedOverGone`;
* `ReleasesLast`: `Spec => ReleasedStaysGone`;
* `NothingBeginsAfterDispose`: `Spec => DisposedStill`;
* `ClosingNeverStuck`: `Spec => []ClosingGoesOn`;
* `ClosingRunsOut`: `Spec => ClosingRunsDown`;

and in the automatic mode, in which nothing reports a release but a cleanup:

* `DisposalAfterUse`: `Spec => []DisposedAfterUse`;
* `ReleasedSubtreeHolds`: `Spec => []ReleasedSubtree`;
* `ReleasesFinal`: `Spec => ReleaseIsFinal`;
* `CoordinatorImplementsOwnership`: `Spec => ImplementsOwnership`.

`ClosingInvariant` is `SlotInvariant` with `TreeSafe` and `CleanupSafe`.  `TreeSafe` says that
`ancestors` is the chain of parents, that below a closing agent all are closing, and that what
a closeAgent call still has to close is frozen.  `CleanupSafe` says that the cleanup of an agent
comes past its wait for the descendants only when theirs are over (`CleanupBelow`), that a close
goes from the leaves upwards (`ClosersInOrder`), and what a reported release means
(`ReleaseSafe`).  What "over" means is where the modes differ: in the automatic mode the cleanup
has ended; in the external one it may instead be that of an agent that was rolled back, which
holds nothing whatever its cleanup still does (`Gone`).  None of this is about one record, so the
actions are not taken one by one: each is shown to be a step of a turn, of a close or of a
cleanup, births and rollbacks apart, each with what it leaves alone in all other records, and the
parts of the invariant are shown of these kinds of step (`TurnStepSafe`, `CloseStepSafe`,
`CleanStepSafe`).  The refinement follows from the same kinds: a turn is a stutter or an Acquire
or Yield, a close is a Close, the end of a cleanup a Settle; it needs in addition that a creation
in progress holds a slot.

`ClosingNeverStuck` and `ClosingRunsOut` are the safety half of `ClosingEnds`, for every tree,
limit and set of failing operations.  The first says that, until the cleanup of a closing agent
has ended or the agent was rolled back, a step of it or of an agent below it is due, where `Due`
lists the guards of the actions that `Fairness` names: parents, children, executions and the
closeAgent calls above never wait in a circle.  The argument takes the deepest agent of the
subtree whose cleanup has not ended (`DeepestExists`, by well-founded induction on the depth): what
it waits for is its own execution or session, which has a step due, or a closeAgent call that is
still to come to it (`CallComes`).  The second says that every such step takes the execution or
the cleanup of a closing agent nearer to its end and that nothing sets them back: at most two
sections of the execution (`ExecLeft`) and five of the cleanup (`CleanupLeft`) are left.  That
fairness turns the two into `ClosingEnds` is a temporal argument and stays with TLC.

`AgentMailbox_proofs` proves, for every tree of agents, every set of waits and every limit, from
the assumptions on the constants and that no agent is above its own parent (`TreeAssumption`):

* `TypeCorrect`: `Spec => []TypeOK`;
* `NothingMissed`: `Spec => []NoMissedUpdate`;
* `ClosedStaysEmpty`: `Spec => []ClosedInboxEmpty`;
* `OrderKept`: `Spec => NoOvertaking`;
* `WaitNeverStuck`: `Spec => []DeadlineAhead`, and `WaitRunsOut`: `Spec => WaitsRunDown`.

A section either wakes every wait (`LoudStep`) or only takes messages (`QuietStep`), and what is
taken cannot answer a wait.  `ClosedInboxEmpty` needs that an agent in cleanup is closing, for
that is what sendMessage and notifyParent ask.  Order is a relation between an inbox before and
after (`Ordered`), shown of each way to take messages: what `drainMessages` leaves is numbered by
its ranks (`DrainedIs`), and a message of a target left behind has all later ones of its sender
left behind.  It needs that the ids in an inbox differ, and that a section which reports and takes
does so in two inboxes, which is where `TreeAssumption` comes in.  The last two theorems are the
safety half of `WaitsEnd`: a wait that sleeps has its deadline ahead, and once it is past, the wait
stays awake until it is over, however often it is woken for nothing, aborted while it is awake, or
overtaken by another wait of its caller.

`ProviderSlots_proofs` proves, for every set of generations and leases:

* `TypeCorrect`: `Spec => []TypeOK`;
* `LedgerNeverDrifts`: `Spec => []LedgerExact`;
* `ScopeDisposedAfterUse`: `Spec => []ScopeOutlivesLeases`;
* `ChildClosedLast`: `Spec => []GroupClosedLast`;
* `FinalizingIsProtected`: `Spec => FinalizingProtected`, an action property;
* `SlotImplementsGenerations`: `Spec => ImplementsGenerations`;
* `RetirementNeverStuck`: `Spec => []RetirementGoesOn`, `ShutdownNeverStuck`:
  `Spec => []GroupGoesOn`, and `RetirementRunsOut`: `Spec => RetirementRunsDown`.

`LedgerExact` is inductive only with `TombstonesRevoked`, because `release` decides by the
tombstone whether the lease is still in the ledger; `ScopeOutlivesLeases` needs `LoopLeft`
(a retirement past its loop has an empty ledger), which is kept by `RetirementState` (a
generation being retired is not committed, hence grants no lease).  `SlotInvariant` is
their conjunction with `TypeOK`, shown inductive with one lemma per action; the action
property and the refinement are then shown of each action under that invariant.
`GroupClosedLast` needs `GroupState` beside it: until a generation is retired only a shutdown,
which shuts the gate, lets its group close the child, and a lease that finalizes is in the
group; so the release that closes the child is the last of the group, and no lease can join.

The last three theorems are the safety halves of `RetirementEnds` and `ShutdownClosesChild`.  A
retirement awaits a promise of the child that is to settle, or a set of leases of its own
generation that contains its ledger and is not empty (`WatchedState`); one of them has settled or
is in its caller's hands, and while it executes its deadline or its revocation lies ahead
(`Timed`).  A group frozen by a shutdown with its child still open has a retirement that will
close it, or a member left (`GroupLeft`): one that finalizes, or one that was revoked while it
did, which never leaves the group and is the hazard of beginFinalizing.  `RetirementRunsDown` is
the variant: a retirement only moves towards its end, and each round of its loop awaits strictly
fewer leases than the one before.

`LifecycleReconciler_proofs` proves, for any number of requests, replacements and signals:

* `SettlesAsDesired`: `Spec => []SettledMatchesDesired`;
* `ProjectionIsTruthful`: `Spec => []ProjectionTruthful`;
* `NothingOrphaned`: `Spec => []NoOrphan` (which contains `TypeOK`);
* `ReconcilerImplementsGenerations`: `Spec => ImplementsGenerations`;
* `OneGenerationServes`: `Spec => []OneServes`, and `NothingRevived`: `Spec => NoneRevived`;
* `NoAttemptUnasked`: `Spec => []AttemptsAsked`.

`ReconcilerSafe` has a part that always holds, `Owned` (an attempt has a prepared generation of
its own, numbers are handed out once), which gives the refinement, and three that hold up to an
overlap: `Agree` (what committedGeneration, the slot and the attempts say of each other),
`Settled` and `Kept`.  None of the three is inductive alone: that a settled component serves
what was asked needs that a reconcile leaves only when there is no work (`Settled`), which needs
that nothing else clears the committed generation meanwhile (`Agree`, without an overlap).  Each
action has a lemma that first says field by field what it does.  `OneGenerationServes` and
`NothingRevived` are what the refinement is good for: they say in the reconciler's own variables that two generations never
serve at a time and that none comes back, and follow from the moves of one generation
(`StepMoves`).

`AttemptsAsked` is the safety half of `ReconcilesEnd`: there are never more attempts than calls
asked for (a replacement counts twice: a failed one may have its reconcile tried again), so the
callers of one reconcile do not repeat a failed attempt for ever.  The invariant `Counted` adds
to the attempts made those that are still to come: one for a reconcile that a request has
overtaken or whose callers find work left (`Pending`), one for a replacement and one for a health
signal under way.  It also shows that the bound on `Generations` never withholds an attempt from
the callers of a reconcile.

`ReminderDelivery_proofs` proves, for any number of rows, calls, retries and faults:

* `TypeCorrect`: `Spec => []TypeOK`;
* `DeliveredOnce`: `Spec => []ShownOnce`;
* `OutcomeIsFinal`: `Spec => SettledIsFinal`;
* `OccurrencesOnce`: `Spec => []OccurrenceOnce`.

`DeliverySafe` counts.  Of a row, the calls that may still show it, those that have shown it and
may still give it a next occurrence, and those that have recorded a delivery are finite sets;
`ShownBound` says that the times it was shown and the calls that may still show it exceed the
lapses by at most one, `NextBound` the same of occurrences and shows, `RecordedBound` that a
recorded delivery that a call may take back is there (without it `sent` could be negative), and
`Sole` that a row that was never taken back is in the hands of one call, and of none when it is
not being delivered.  A call has a row in its hands (`Bearers`) from the UPDATE that claims it, not
from the SELECT that finds it: whatever the other calls have found before, their UPDATEs look again.
`SettledIsFinal` follows of each step under that invariant.  `OccurrenceOnce`
is about the rows of one recurring reminder, which copy themselves: two rows of the same
occurrence (`Twins`) have a row before them that lapsed (`LapsedBefore`).  `ChainSafe` says that
each row but the first is the next occurrence of the one it was copied from, so twins either
come from one row, which `NextBound` allows only after a lapse, or from twins before them.

`GoalPublication_proofs` proves, for any number of processes, attempts and faults:

* `TypeCorrect`: `Spec => []TypeOK`;
* `PublishedOnce`: `Spec => []OnePublication`;
* `CompletionIsBacked`: `Spec => []CompletionBacked`;
* `PublicationImplementsClaim`: `Spec => ImplementsClaim`.

The invariant says what each place that keeps an outcome may have.  The receiver acts only on
settled operations, and a settled operation is never closed as not approved (`ControllerSafe`,
`ReceiverSafe`); an operation is prepared only for an attempt that is in the store
(`RequestSafe`); what a terminal status says, and what a run is about to save, is true of the
request, the operation or the receiver (`Truth`, `RunSafe`); an attempt is made only when all
before it are retired (`OneAtATime`).  So the operation of a retired attempt can never be
committed any more, and `OnePublication` follows.  The refinement is shown of each action under
the same invariant; most are stutters, and those that are not map to one step of
`ClaimPublication` each, for one attempt.

`DaemonClients_proofs` proves, for any number of clients (also several of one session), sockets,
daemons that run at a time, and faults:

* `RegistryIsHonest`: `Spec => []RegistryHonest`, which contains `TypeOK`;
* `NobodyForgotten`: `Spec => []SomethingDue`.

`RegistryHonest` follows from `Honest`: connections belong to daemons that run (`Hosted`), the
latest connection of a client at a daemon is with that daemon (`LatestHosted`), and `Backed(d, s)`,
the part of one daemon and session, is kept by every step that keeps a registered client's latest
connection, while the steps that do not, remove the entry.  A daemon that takes the path over
changes no connection, so none of this can be lost to it.  `SomethingDue` is the safety half of
`SessionReachable`: the only client of a session is reached by some daemon, or has given up, or something that `Fairness` names is due at one of its timers or
sockets.  It follows from `ConnectionsSafe`: both ends agree on an open socket (`EndsAgree`), a
hello in hand waits on the client's own socket (`HelloOpen`), a connect is made only without a
usable one (`OpensWithout`), and the latest connection holds the session's entry
(`LatestRegistered`), so that a greeted connection of an unregistered client starves and expires.
It needs that there is a socket at all (`SocketsAssumption`).

Model-checked only: the liveness properties themselves, which the prover cannot reach; of
`ClosingEnds`, `WaitsEnd`, `RetirementEnds`, `ShutdownClosesChild`, `ReconcilesEnd` and
`SessionReachable` the safety half is proved.  `DisposedAfterUse`,
`ReleasedSubtree`, `ReleaseIsFinal` and the refinement of `AgentOwnership` are about the
automatic mode; what holds of them in the external mode, in which `rollbackPrepared` reports a
release beside a cleanup, is `DisposedOverGone`, `ReleasedHoldsNothing` and `ReleasedStaysGone`.

## 5. Not modelled

Contents and limits of texts, names and their validation, timestamps and progress reports;
`listAgents` and the read-only witnesses; the external mailbox, which belongs to the
desktop service; observers that call back; `waitForDisposedResources`, which only reads.
Follow-ups queued behind a creation that leaked stay in the queue of an agent that will
never run again: `NoLostFollowup` excepts them, because nothing in the repository says
what should become of them.

The host of the coordinator in the desktop, its durable saga and mailbox; the task host; the turn
loop of the agent runtime; loops and timed actions; channels; isolated execution: see the notes
of `PROJECT.json`.  They are stores and adapters of their own, each the size of one of the
modules here.  Most of the repository is user interface, text, schemas, vendored tools and
adapters to models, services and operating systems, whose behaviour is content and I/O.

Of the goals: turns, budgets and their ledger, the execution lease (a file of its own, which the
publication does not consult), the file store's compare-and-set, which is taken as atomic, as its lock makes it.

Of the providers: the handles in an effect scope and the order of their disposal, the queue
of health signals, diagnostics and hooks, the order in which dependencies are activated,
and the facade with its shutdown phases.

## 6. Findings

**An abort is lost when the wait has just been woken** (`mailbox_abort`).  See
`PROJECT.json`.  Closing an agent wakes all waits before it aborts the turns, in one
synchronous section.  The wait of the closed agent has then no abort listener; it resumes,
finds nothing, and sleeps again on a signal that has fired already, until its deadline (ten
seconds to an hour for the wait_agent tool).  The execution of the closed agent, hence its
cleanup and its slot, waits with it.

**A retirement does not notice a revocation** (`provider_drain`).  retire races the promises
`settled` of the leases in its ledger.  forceRevoke empties the ledger without settling: a
retirement that has begun waits on for the caller that overran its deadline, one that begins
later does not wait at all.  `RetirementEnds` shows that it ends when the caller releases.

**A request during an attempt that fails is dropped** (`reconciler_retry`).  An attempt that
succeeds compares the revision and is followed by another; one that throws does not, the
component is failed, and the request that came meanwhile returns without an attempt.

Met on the way, listed as hazards without a run: a lease that begins to finalize while its
handles are disposed is revoked all the same and stays in protectedLeases; in a retirement
the last protected lease closes the child under leases that still execute; a health
signal's retirement clears the committed generation of a reconcile beside it; a replacement
that throws after the component was disabled projects `active_degraded`; a second prepare of
an attempt drops the scope of the first; a recurring reminder whose process stops between the
mark and the next occurrence has none any more; an operation that was settled and never staged
leaves its attempt pending; a connection that was forgotten expires thirty seconds later and
takes the registration of the newer one with it, again and again; of two clients of one
session, the end of the first unregisters the second; a second daemon takes the socket path of a
running one, and each fails the reminders of sessions that are registered with the other.

## 7. Plan

Done so far, in the order of their weight: the coordinator (`AgentOwnership`,
`AgentLifecycle`, `AgentRefinement`, `AgentMailbox`), the providers (`ProviderGenerations`,
`ProviderSlots`, `LifecycleReconciler`), the reminders, the publication of goals, the clients of
the daemon.  What would come next:

1. `GoalExecution`: the lease and the ledger of turns of `runtime/goal`; one holder, a turn
   counted once.
2. `TaskHost`: tasks, questions and cancellation of `runtime/task-host`, with a restart.
3. `TimedActions`: the store and the scheduler of `src/desktop/electron/timed-action-*.ts`.
4. The saga of the desktop multi-agent service over the external mode of `AgentLifecycle`.
5. A module that composes `ProviderSlots` and `LifecycleReconciler`, for the overlap of
   retirement, revocation and reconcile in one model.

Every safety property of a passing run has a theorem.  What would be worth proving next are the
safety halves of the liveness properties left: that a claim of `GoalPublication` that is committed
always has a recovery that can complete it, and that a reminder taken by a crashed process is due
again.
