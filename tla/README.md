# TLA+ models of underchat's command path

underchat connects operators to WhatsApp. Its APIs turn an operator's action
(send this message in this chat) into a *worker command*; a worker process that
holds the WhatsApp session carries the command out. The repository is large
(APIs, web, mobile, billing, AI), but what is hard to get right is the way a
command travels: it must be carried out in the order of its chat, at most once,
and end in an outcome somebody is told. The models here are about that path.
All source paths below are relative to `src/`.

## 1. Inventory

### Components, state and operations

| component | source | state it keeps | operations |
|---|---|---|---|
| admission | `packages/services/workerCommandAdmission` | none of its own | reserve an identity, allocate a lane position, register the deadline, publish to JetStream, retry the publication |
| command lane | `.../workerCommandLane` | one Redis hash per entity (chat): per operation its sequence, predecessor, successor, lease, terminal state; the tail | allocate, assert predecessor terminal, mark/renew/release active, record retry, mark terminal, expire, finalize as ambiguous |
| command ingress | `.../workerCommandJetStreamIngress` | deliveries in progress, lane lease held | consume, wait for predecessor, own the lane, run the handler, finish, fail, nak |
| parker, relay | `.../workerCommandDeferredParker`, `...DeferredRelay` | a second stream of parked copies | park a copy and acknowledge the original; put a ready copy back; fail an expired one |
| deadline registry, reconciler | `.../workerCommandDeadlineRegistry`, `...DeadlineReconciler` | Redis index of due commands with claims and leases; admission tombstones (24 h) | register, claim due, complete, reschedule; expire or finalize in the lane, publish the failure |
| worker epochs | `.../workerCommandEpoch` | JetStream KV record per worker: epoch, state, runtime generation | activate, drain, close by compare-and-set; watch |
| operational barrier | `.../workerCommandOperationalBarrier` | Redis: generation, paused or open, permits with leases | acquire, renew and release a permit, pause, resume |
| send ledger | `.../messageSendIdempotency` | one Redis hash per send operation: state, owner, lease, metadata, recovery; watchdog and recovery indexes | claim, transitions by compare-and-set, release, compaction, watchdog, recovery claims |
| sender (Baileys) | `packages/consumer/message/MessageSend.consume` | maps from operation to claim, guard, deadline; the set `providerInvokedSendClaims` | claim, prepare, cross the provider boundary, record and publish the outcome |
| recovery drainer | `.../messageSendRecoveryDrainer`, `common/functions/messageSendRecoveryPlan` | recovery claims in the ledger | publish what a dead sender left unpublished, step by step, then compact |
| schedulers | `common/functions/fairKeyedScheduler`, `providerInvocationSingleFlight`, `keyedSequencer` | in-process queues | one handler at a time per entity, bounded parallelism |
| runtime fence | `.../whatsappRuntimeFence` | Redis: which process and connection is active | activate, capture, assert |
| others | inbound spool, event outbox, operator-reply redistribution, Kafka runner, command handler, APIs, clients | see `PROJECT.json` | |

### Interaction

Admission allocates a position in the lane and publishes the command with its
predecessor's identity. JetStream delivers it at least once. The ingress waits
(or parks the command) until the lane says that everything before it is
terminal, acquires the lane under a renewable lease, and runs the handler through
the fair scheduler. For a send, the handler is the sender: it *claims* the
operation in the ledger, prepares the message, writes `provider_invoked`, calls
the SDK, and writes the outcome; then it publishes the update and compacts the
ledger record. The ingress closes the lane position with the handler's outcome
and acknowledges. The deadline reconciler closes what nobody closed; the
drainer publishes what a sender recorded and did not publish.

### What is hard

* Redis is shared by many processes. A script is atomic, but a client waits for
  a reply at most 3 s (`runCriticalRedisOperation`) and then goes on as after an
  error although the script may yet run.
* Leases lapse under holders that still work; connections change between a check
  and the step it protects.
* The pre-provider deadline ends a delivery by `Promise.race` and does not stop
  the code it raced with.
* An operation can reach its outcome through its runner, a redelivery, the
  reconciler, its successor or the watchdog.
* Evidence is deleted (cleanup, compaction, key expiry) while others rely on it.

`PROJECT.json` lists each hazard with the line at which it bites.

### What makes each component correct

* lane: per-entity order; a successor is never stranded; outcomes are final and
  are about executions that took place; cleanup drops nothing that matters
* ledger and sender: one SDK call per operation; it is on record before it
  starts; recorded outcomes are true and final; one story told to the user; no
  invocation stays open
* recovery: every recorded outcome is published, each step effectively once
* ingress, parker, relay: a command is never in nobody's hands; a failure is
  told, and only what the lane recorded is told; the provider is called in order;
  commands of one chat do not wait for each other for ever
* registry, reconciler: every admitted command gets evidence before its record goes
* epochs: a closed epoch is never reopened; a generation has one writer; a runtime
  that was replaced is told
* barrier: a pause stands until its owner ends it; once it is seen drained,
  whatever still works is told to stop, or finds its permit gone when its timer fires
* schedulers: one at a time per key, in order, no lost wakeup, no chat starves another

## 2. Modules

### `CommandLane`: the lane of one entity

`Op` is the set of operations addressed to the entity. What the hash stores
under `op:<digest>:<field>` is the variable `<field>` at that operation; a flag
is the set of operations that have it; `live` is the set of operations whose
fields are stored. `operation_id` and `command_id` are one value, because the
admission tombstone binds them for 24 hours, far longer than a lane lives.

| script | action |
|---|---|
| `ALLOCATE` | `Allocate` (cleanup and the satisfied shortcut included) |
| `ASSERT_PREDECESSOR` | `PassUnchecked`, `PassTerminal`, `PassExpiring` (its three ready replies) |
| `MARK_LANE_ACTIVE`, `RENEW`, `RELEASE` | `MarkActive`, `RenewActive`, `ReleaseActive` |
| `RECORD_TECHNICAL_RETRY` | `RecordTechnicalRetry` |
| `MARK_LANE_TERMINAL` | `MarkTerminal(o, t)` |
| `EXPIRE_NEVER_ACTIVE`, `FINALIZE_EVER_ACTIVE_AMBIGUOUS`, `CLEAR_TERMINAL_TAIL` | the actions of those names |
| Redis clock, key expiry | `Tick`, `KeyExpires` |

Replies that change nothing are stuttering. The caller's protocol is kept where
the lane relies on it: the ingress acquires only after a ready reply
(`cleared`). `cleared` is never taken back, so an acquisition can come at any
time after the reply, from any delivery. `dependencies_terminal` walks back along the predecessors; it is stated
as the existence of a closed set of operations containing the walk. Its limit of
256, and the limit of 100 entries cleaned per allocation, are left out.

### `EntityQueue`: what a lane promises

The abstract specification that `CommandLane` implements (`ServesInOrder`): operations stand
in line in the order of admission, one is started only when everything before it in line
is decided, each is decided once (success and doubt only for what was started), and only
what is decided, with nothing undecided before it, is forgotten, unless the entity is forgotten
as a whole. It has no predecessors, marks, leases or timers; the mapping renames `known`, `live`, `seq`,
`everActive` and `terminal` and hides everything else.

### `SendLedger`: one send operation, its deliveries and processes

An `Attempt` is a delivery and, since each claim draws a fresh UUID, also the
claim's owner. A `Host` is a sender process; `slot` stands for the maps that
`finally` clears, `marker` for `providerInvokedSendClaims`. `pc` follows
`processPayload` and `providerInvocationBoundary`:

```
idle --claim--> held --check--> invoking --CAS--> resuming --> crossed --> calling
                 |                                   |             |        |     |
             fail/release                        reverting --> refused   answered doubtful
                 ^                                                 |        \      /
                 +------------------- fallback --------------------+   tell_* -> compact -> over
```

Every await that matters is a boundary between two actions. The CAS before the
call has three (sent, applied, resumed), because the pre-provider deadline can
fall in each: `TimeOut` ends the delivery and leaves the rest of the boundary
code in `stray`, which goes on by `StrayInvoke`, `StrayResume`, `StrayRevert` and, when
the revert's reply comes late, `StrayReverted`.

`Run` is a script and its reply: made (or answered as made to who has made it
before, `Repeated`), refused or *lost*. A lost script goes to
`pending` and is applied by `LateScript` at any later time, or never. `Lossy`
says which scripts can lose their reply; in the code, all can. A reply that is only late
is told apart from a lost one in one place, the revert of stray code, whose reply clears a
mark that a later delivery of the process may rely on by then: `StrayReverted`, part of
`Lossy` too. A reply comes within three seconds or counts as lost, so no tick passes before it.

A delivery calls the SDK once. `processForwardMessage` does go on to a fallback
handler after `tryNativeForward` (`MessageSend.consume.ts:2217-2262`), but only when
nothing has been called: an SDK call that throws leaves the mark, and the error is thrown
on (2231-2239), and one that returns has a result with a key, or throws
(`services/baileys/methods/helpers.service.ts`, `send`), so `!nativeForward` does not
follow a call. A start that was refused before the call has reverted and unmarked:
that is `Fallback`, and the fallback's boundary starts again at `held`. What is told can
fail to be published, whether or not it has arrived, and so can the compaction:
`TellFails`.

`Watchdog`, `Expire`, `Reconnect`, `Restart`, `Accept` and `Tick` are the
environment. A message is accepted by the provider at any time after the call,
or never. The connection epoch stands for the runtime fence. Retention is one number, counted from the claim, at the
shortest value of the TTL table (30 minutes against a command deadline of 5),
so the model drops records earlier than the code ever does.

Left out: the recovery plan and its index (for `SendRecovery`), the `expired`
state (written by other senders), identity conflicts, malformed records, legacy
migration.

### `OneShotSend`: what a send promises

The abstract specification that `SendLedger` implements (`SendsOnce`): no owners,
leases, processes or scripts, only who has called the SDK, whether the provider
took the message, the verdict, whether the deadline has passed, and what the user
has been told. The mapping hides `reserved` and `provider_invoked` (no verdict
yet) and takes the rest as it is. Beyond the single invariants it says that an
outcome is decided only while nothing has been told, that what is told is
the recorded outcome or, once that has been forgotten after the deadline, what
its teller learnt, and that a recorded success or failure rules out a call.

### `CommandDeadlines`: who closes what nobody closed

Composes the lane (`Lane == INSTANCE CommandLane`, its scripts used as they are)
with admission's two writes, the deadline registry and two reconcilers. Time is
the lane's: `Pass` is a tick of the lane, the clock of every command and the due
index together.

| code | action |
|---|---|
| `admit`: allocate, then register | `Allocate`, `Register` (may never follow) |
| ingress, in any order the lane allows | `Deliver` |
| `claimDue` | `Claim`: leases a due record, whoever holds it; decides whether this is the last look |
| `expireNeverActive` and the branches on its reply | `LookExpire`, `LookClosed`, `LookPending`, `LookStarted` |
| `finalizeEverActiveAmbiguous` | `Finalize`, or `LookClosed` when it finds the operation closed or gone |
| `publishFailure`, `complete`, `reschedule` | `Publish` (the PubAck may be lost), `Complete`, `Reschedule` (both only for the owner) |
| `catch`, process death, a script that runs late | `Throw`, `Crash`, `LateFinalize` |
| queued reconciler, past the deadline | `QueuedExpire` |

A reconciler's place in this protocol is kept per record (`pc`), because it works on
a batch with `Promise.all`. `published` is a set of codes: the event identity makes
a repeated publication the same event. `Outage` is a constant: FALSE means that no
call fails and no time passes while a record is due.

Left out: the admission tombstones (their effect, one operation one identity,
is the lane's `known`), the capacity limits, the schedule projection.

### `CommandIngress`: from the stream to the handler and back

Composes the lane (`Lane == INSTANCE CommandLane`, used as it is) with the ingress of
the worker, the parker, the relay, the scheduler's queue of the entity and the
reconciler as one step. A `Msg <<o, n>>` is the n-th copy of `o`'s command in the
stream: parking acknowledges a copy after storing its schedule, the relay stores the next
one. `pc` follows `process()`:

```
idle --Deliver--> predecessor --ready--> ownership --MarkActive--> queued --Start--> handler
                       |  must wait           | Duplicate                              | Return
                    parked --Ack             publishing / acking <--AfterMark-- closing <--+
          any error:  before the deadline  release -> retry -> idle (or closing as failed)
                      after it             closing as expired
```

| code | action |
|---|---|
| admission: allocate, publish | `Allocate`, `Publish` (may never follow) |
| `consume`, `process` up to the predecessor's reply | `Deliver`, `PredecessorReady`, `Refuse`, `Disturb` |
| `deferredParker.park` and its acknowledgement | `Park`, `ParkFails`, `ParkExpires`, `Ack`, `AckFails` |
| `waitForLaneOwnership`, duplicate recovery | `MarkActive`, `Duplicate` |
| scheduler, handler, provider boundary | `Start`, `Cross`, `Return`, `HandlerThrows` |
| the progress timer | `Renew`, `RenewFails` |
| `finish`, `failAndAck` | `MarkTerminal`, `AlreadyTerminal`, `MarkFails`, `PublishFailure`, `PublishFails`, `Ack`, `AckFails` |
| technical retry | `Release`, `Retry` |
| process death | `Crash`: every copy in work becomes `unheard`, redelivered after AckWait |
| relay | `RelayPublish`, `RelayAck`, `RelayExpires` |
| deadline reconciler | `Reconcile` |

`Fails` is one failed call, with its effect or without, and costs one of `MaxFaults`.
`Unreliable` are the operations whose handler may throw although nothing failed around it; an error that is
not a failed call costs no fault. `mode` distinguishes errors inside `try`, after the lane was acquired, and inside
`catch`, which the code treats differently. The handler is reduced to what the
rest of the system sees: it crosses the boundary at most once for an operation
(that is `SendLedger`'s theorem) and settles. A handler that returns without a recorded outcome has
succeeded (`outcome ?? 'succeeded'`), also when it had nothing to send, so `Return` asks for no call.
An error of the parker or of a handler may be one that is not retried (`nonRetryable`): an oversized
command, an acknowledgement from the wrong stream, after which the copy is parked and the command closed
as failed (`ThrowsAny`).

Left out: envelope validation, dispatch gate and epoch, but for the refusals they
lead to; MaxAge and the TTL of ready messages, which end deliveries only after
the deadline; the lane's own TTL; consumer management.

### `OperationalBarrier`: pausing the command plane

The six Lua scripts are actions; `pc` of a `Job` is `runWithPermit`, `since` the time since its
interval timer last fired (any delay: a blocked event loop, a suspended process), `refused`
the jobs whose failed renewal is not handled yet, `aborted` those whose abort signal is set.
A script whose caller gave up
(`Lossy`) is `pending` until the job's next script on the same connection, and
`LateScript` runs it. Operators read the status (`ReadStatus`), pause with the
generation they read and resume with the token they were given; a token is
named by the pause that drew it. `PauseLost` commits a pause whose token reaches nobody.

### `WorkerEpoch`: who is the worker

One action per access to the bucket: `activateRuntime` is `ReadRecord` and one of
`Refuse`, `Reuse`, `Write`, `WriteConflicts`, `WriteLost`; `watchActive` is
`AssertRuntimeActive`, `OpenWatch` and the watch: `Deliver`, its end with an error (`WatchFails`)
and without one (`WatchEnds`, after which the runtime is `blind`). A delivery is of the latest record: the ones
before it need not be seen one by one, because a record that has ceased to match a runtime is not followed by one
that does (`SkippedDeliveries`, proved). The lifecycle's drain and close are `BeginTransition`, `Transition`,
`TransitionConflicts`, `TransitionLost` (written, the reply lost). Runtimes restart with the same identity.

### `FairScheduler`: one handler at a time per chat

`FairKeyedScheduler` whole. A synchronous stretch of the event loop is one action, with
the pump it ends in: `Enqueue`, `Settle` (the task's promise, after which its caller
may go on), `Finally`, `CloseAndDrain`. `Hung` are keys whose handler may never settle.
`accepted` and `passed` are history variables.

### MC modules and proofs

Each `MC` module gives the constants of its component values for TLC; each `_proofs`
module holds the theorems about its component; `DeadlineCap_proofs` has those about the
deadlines that need the timers. Definitions named
`X_Something` next to or above a definition `X` are faulty variants of it: no action uses
them; each makes the property it is paired with in `PROJECT.json` fail.

## 3. Runs

| run | instance | distinct states | shows |
|---|---|---|---|
| `lane` | 3 operations, symmetric; lease 1, deadline 2, TTL 6 ticks; 1 counted retry | 1.27 M | order, links, outcomes and cleanup of a lane under every interleaving, and the refinement `ServesInOrder` |
| `send_ledger` | 3 deliveries, 2 processes (two deliveries share one), leases 1 tick, deadline and retention 2 ticks, 1 reconnection; every reply but the revert's can be lost | 0.93 M | `AtMostOneCall`, `FailureIsTrue`, `CallIsRecorded`, the refinement `SendsOnce`, and `InvocationEnds` under fairness |
| `send_ledger_lost` | as above, every reply can be lost, the revert's also late | 1.50 M | `SuccessIsTrue`, `OneStory`, `OutcomeIsFinal` |
| `send_ledger_marker` | as above, no reconnection | violation | finding 1 |
| `deadlines` | 2 commands, 1 reconciler, no outage; deadline 2, lane TTL 4, last look at 5, cap 7 ticks | 0.34 M | `ResolvedByCap`, `NoStartAfterReport` |
| `deadlines_leaders` | 1 command, 2 reconcilers, outage; cap 6 | 0.08 M | `ReportsAgree`, `RemovedWithEvidence` |
| `scheduler` | 5 calls for 3 chats, 2 lanes, 4 places, 1 chat that may hang | 0.02 M | order, rotation, exact counter, complete drain; `HungChatHoldsOnlyItsLane` under fairness |
| `barrier` | 2 jobs, 2 operators, lease 2 ticks, 5 generations, late timers, every reply can be lost | 1.04 M | `DrainSparesOnlyLapsed`, `PauseHolds`; `PauseDrains` under fairness |
| `epoch` | 3 runtimes of generations 1, 2, 2; 2 attempts, 4 writes, lost replies, watches that end | 0.44 M | `RecordMovesForward`, `TransitionHolds`, `GuardIsCurrent`; `ReplacedIsRevoked` under fairness |
| `ingress` | 2 commands of one chat, 2 copies of each, deadline 2, lease 1, 1 fault anywhere | 1.20 M | `CustodyKept`, `FailureNotSwallowed`, `OneVerdictTold`, `CallsInOrder` |
| `ingress_order` | the same, deadline 1, handlers that succeed or fail, no fault | 0.23 M | `CarriedOut` under fairness |
| `ingress_expired` | the same, deadline 3, lease 2, 2 faults | violation | finding 2 |

**Bounds.** Three operations are the smallest lane in which a middle one can be
closed before its predecessor and its successor must look through it; a cleanup
needs a dropped entry, a tail and an allocation, also three. The TTL exceeds the
deadline as in the code (15 against 5 minutes). Three deliveries give a
first holder, a taker and a third that meets what both left, on the same and
on another process. With a lease of one tick and a deadline of two, a lease
lapses and a redelivery still starts in time. Timers saturate at the values the
code compares them with, so bounding them loses no behaviour; `MaxRetries` and
`MaxConnection` are the only bounds on counters. The deadline runs
keep the code's order deadline < TTL < last look < cap (5 min, 15 min, 24 h less
5 min, 24 h). The margin before the cap is two ticks: in the code it is ten looks long
(5 minutes, a look each 30 s), and a command can need one look more than its predecessor. `ResolvedByCap`
depends on it: with a margin of one tick TLC finds a second command that is dropped at its
cap unreported, so in the code a chat whose first command hangs is safe with about ten open commands
(three commands with a margin of three ticks were explored in full, 22 million states, without a violation;
`DeadlinesResolved` proves it for any number that does not exceed the margin). Two commands are a
predecessor and a successor; two reconcilers are a leader and a former leader. In the
ingress, two copies are an original and the relayed one; the last copy is not
parked again, so a command that must wait longer waits there for its deadline.
In `ingress` a handler throws only by the one fault, in `ingress_order` any handler may throw.
`ArrivalTicks` bounds how far apart the two admissions are. One fault is one failed call or dead process
at any of some twenty places: enough for each handover to break once. A lease of
two ticks (three in the code) lets a permit lapse under a late timer, and be renewed between two ticks. Five generations are two
pauses and two resumes. Four writes of the epoch record are a creation, a replacement,
a drain and a close; two processes of one generation race for it. In the scheduler, three
chats on two lanes make one wait, and five calls overflow four places.
Deadlock checking is off where a finite set of operations, deliveries or tasks comes
to its end; the barrier's clock always goes on and it is on there.

**Fairness.** Each liveness property names what it needs.
`InvocationEnds`: time passes, and the drainer polls the watchdog index every second for
as long as the service runs; nothing is assumed of senders, deliveries or replies.
`HungChatHoldsOnlyItsLane`: the event loop runs the handlers that are due, and handlers of chats
that are not hung settle, because SDK calls have timeouts. `PauseDrains`: Redis keeps time, a failed
renewal is handled, a protected action settles; nothing is assumed of the timers, and a dead
process does nothing. `ReplacedIsRevoked`: the bucket's changes reach a watcher whose watch is open; a runtime whose watch has ended
without an error is excepted in the property (see the observations).
`CarriedOut`: the event loops go on (each copy's next step), the broker delivers, the relay
relays, an admission that has allocated publishes, the reconciler runs; and nothing
is assumed of time, so the property says that two commands of a chat are never stuck until a
deadline frees them.

**Properties.** Lane: `EntityOrder` (what has acquired the lane has only terminal
operations before it), `NoStrandedSuccessor`, `OutcomeHasExecution`,
`TerminalIsFinal`, `ReaperSparesStarted`, `CleanupKeepsOpenWork`, `ServesInOrder`. Ledger:
`AtMostOneCall`, `CallIsRecorded`, `FailureIsTrue`, `SuccessIsTrue`, `OneStory`
(never told both "sent" and "failed"), `OutcomeIsFinal`, `InvocationEnds`, `SendsOnce`.
Deadlines: `ResolvedByCap` (no registered command is
dropped unreported, provided that admission registers what it allocates), `ReportsAgree` (what is
published is the lane's verdict; only what the lane has dropped is called ambiguous), `RemovedWithEvidence`,
`NoStartAfterReport`. The first holds only for a reconciler that keeps up, which is
what `KeepingUp` states; the others under every failure modelled.
Ingress: `CustodyKept` (before its deadline, an open published command has a copy
in the stream or with the scheduler), `FailureNotSwallowed` (a recorded
failure nobody has published has a copy that will), `OneVerdictTold` (what
ingress and reconciler publish is what the lane recorded), `CallsInOrder`, `CarriedOut`.
The relay's own expiry reports are not part of `OneVerdictTold`: see the observations.
Barrier, epoch, scheduler: see section 1; each is stated with its comment in the module.

## 4. Findings

1. `send_ledger_marker` (property `CallIsRecorded`). `docs/architecture/worker-command-jetstream.md:350`:
"O worker escreve `provider_invoked` **antes** de chamar o provedor." The code can
skip it. The deadline fires while `markProviderInvoked` is pending; `finally`
clears the marker; the abandoned code resumes, sets the marker again
(`MessageSend.consume.ts:2468`), finds itself unregistered and reverts; the revert is applied but its reply is
lost, so the marker stays (2485-2498) while the ledger is back at `reserved`.
A later delivery in the same process takes the reservation, finds the marker and
calls the SDK without the CAS (2440). If that delivery loses its reservation
(lapse, reconnection), another can call again. It takes a lost reply in a narrow
window, and, with the default time limits, a reconnection so that the
reopened reservation is taken before the command's deadline. A reply that is merely late
is enough as well (`StrayReverted`): the later delivery has then passed 2440 on a mark that
the reply removes under it, and its own outcome is taken for that of a send that has not called.
The proofs show
that this is the only such hole at this level: with prompt and durable replies of the revert,
`AtMostOneCall` and `CallIsRecorded` hold for all instances.

2. `ingress_expired` (property `ExpiredNeverCalled`).
`docs/architecture/worker-command-jetstream.md:133`: "Operação que nunca adquiriu a lane
vira `expired`; operação que cruzou a fronteira mas não tem terminal comprovado vira
`ambiguous`." The catch block of `process()` tests `isExpired` first
(`workerCommandJetStreamIngress.service.ts:419`), which is true of any error once the
deadline has passed. A handler that has called the provider and then throws
(`MessageSend.consume.ts:1007-1047`, when the update cannot be published) after the
deadline has its command recorded and reported as expired.

### Observations

Met while modelling, each documented otherwise or worth knowing; no run is spent on them.

* A command that never acquired its lane ends as `ambiguous` when Redis dropped the
  lane 15 minutes after its last write (`workerCommandDeadlineReconciler.service.ts:233`;
  the document promises `expired`). The code errs on the safe side.
* A success can be reported as ambiguous. The lane keeps a terminal entry for as long as a command
  may live (`workerCommandLane.service.ts:8-9`), and the reconciler looks every 5 s
  (`workerCommandDeadlineRegistry.service.ts:135`). When a command succeeds within
  those 5 s of its admission and two further admissions come just after its deadline, the second
  drops its entry (73-110) before the reconciler looks; the reconciler then finds it missing, which
  `failureCode` maps to `ambiguous` (`workerCommandDeadlineReconciler.service.ts:231-233`), while a test
  expects that succeeded commands end without failure evidence
  (`packages/tests/contracts/services/workerCommandDeadlineReconciler.service.contract.test.ts:133`). TLC
  shows it on an instance with three commands, too large to be among the runs. `ReportsAgree` states what is left: a verdict is never
  contradicted, only forgotten.
* An admission that dies between allocating and registering leaves an entry nobody will
  deliver and no deadline covers. Its successor's delivery expires it; a successor that is itself never
  delivered is answered `predecessor_pending` at every look, for as long as further admissions
  renew the lane's TTL. `ResolvedByCap` therefore supposes that what is allocated is registered.
* The queued reconciler marks a message expired when the lane's evidence is gone
  (`workerCommandQueuedReconciler.service.ts:316`), although its comment (241-243)
  calls the lane the authority against that.
* The relay reports `expired` for what it cannot bring back before the deadline, without
  asking the lane (`workerCommandDeferredRelay.service.ts:227-244`); another copy may
  have carried the command out.
* `ack_wait` is five minutes, as long as a command's life: after a dead process or a lost
  NAK the redelivery comes too late, and the reconciler ends the command. The document (147)
  promises redelivery after a crash in any interval.
* The parker gives a command up as expired when its schedule would come due at the
  deadline, up to one delay before it (`ParkExpires`).
* A drained barrier does not mean that nothing runs, although the comment of `runWithPermit`
  (`workerCommandOperationalBarrier.service.ts:323-328`) says that work "that already started
  remains visible until it completes". A job whose timer is late by a lease, or whose renewals
  fail, loses its permit while it works (the comment at 140-145 provides for the first case); the
  abort signal comes with the next renewal, and no caller looks at it.
  `DrainSparesOnlyLapsed` says which jobs an operator cannot see.
* A watch of the epoch record that ends without an error is not noticed: `for await`
  (`workerCommandEpoch.service.ts:311`) is over, only its `catch` revokes the guard, and `assertActive`
  goes on to succeed on what was last seen. A replaced runtime would then keep its guard until it is closed, and
  `ReplacedIsRevoked` says so. Whether the NATS client ends a watch that way, when its connection is given up
  after the last reconnection attempt for one, is outside this repository.
* The token of a pause whose reply is lost is gone: the barrier then stays paused.
* Restarts count as technical retries of the commands they interrupt.

## 5. Proofs

All are for arbitrary sets of operations, deliveries, chats, processes and any timer
values; the assumptions are the modules' `ASSUME`s (types, and retention at
least as long as the deadline).

**Lane.** `LaneInv` strengthens `EntityOrder` with: sequence numbers increase
along predecessor links; an operation not marked satisfied is linked to its
stored predecessor; a satisfied or cleared one has only terminal operations
before it; active implies ever active implies cleared. `EntityOrder` alone is not
inductive: readiness is learnt through the walk, and the walk is sound
(`WalkSound`, by well-founded induction on the sequence numbers) only if the links are. Conversely it
never fails for want of a mark or a link (`WalkComplete`): together they say that the walk from a stored operation
succeeds exactly when nothing before it is open.
Theorems: `LaneTypeCorrect`, `LaneOrdered`, `LaneNeverStrands`, `LaneOutcomes`,
`LaneTerminalFinal`, `LaneReaperSpares`, `LaneCleanup`. `LaneServesInOrder` is the refinement:
`QueueStep` maps every script to one step of `EntityQueue` or to a stutter. An allocation is an
`Admit` because sequence numbers are below the counter and `WalkSound` covers what it drops; an acquisition is a
`Start` because what has been cleared has only terminal operations before it; every script
that records a verdict, the successor's included, is one `Decide`.

**Ledger.** `Inv` = `TypeOK` and three groups. `Shape`: one handler per process,
what stray code and scripts in flight imply about their delivery, and that a
record outlives the deadline. `Record`: whoever stands at the boundary or has
called is the one the ledger names, until the deadline; at most one place at the
boundary, and nobody has called while it is taken or can still be; who has yet to invoke
has not invoked (so a script is not answered as made, `Repeated`, before its time). `Marks`: a
process is marked only for somebody at the boundary or when the operation is
settled, never while a handler has yet to cross, and always while a call is under way; stray code beside a
working handler (`StraysBehind`) can only find its claim gone. `Marks` is needed because
`Check` trusts the marker; it is what a lost or late revert breaks, so these theorems
assume `"revert" \notin Lossy`: `LedgerAtMostOneCall`, `LedgerFailureIsTrue`,
`LedgerCallIsRecorded`. `LedgerTypeCorrect` and `LedgerOutcomeIsFinal` need no such assumption.

Two more parts carry the rest. `Confirmed`: whoever is about to record or tell a
success, or has sent the script that does, has the provider's word for it; with
it `LedgerSuccessIsTrue`, whatever replies are lost. `Story`: what is told, or about
to be, agrees with the record, and once the record has expired after the deadline
the only reservation that can still appear belongs to a delivery that is over;
with it `LedgerOneStory`. What only durable reverts give (no revert is ever applied or answered late) is kept apart
as `Answered`, and `Story` is inductive without it: `LedgerOneStory` holds whatever replies are lost. `LedgerSendsOnce` is the refinement: `OneShotStep` maps
every step to one of `OneShotSend` or to a stutter from `Inv`, `Story` and `Confirmed`.

**Deadlines.** Every step is a lane step or leaves the lane alone (`LaneStep`), so
the lane's theorems hold in the composition; `DeadlinesKeepOrder` and `DeadlinesServeInOrder` (the
composition implements `EntityQueue`) carry two over by instantiating `CommandLane_proofs`. From the lane the protocol needs four facts
only (`LaneKeeps`): allocations are not forgotten, nothing is reopened, a terminal
state stays, only open work starts. The invariant adds `SaidWhenClosed` (a report,
or the intention to make one, is about an operation that is no longer open) and
`Working` (what is about to be published is the lane's word; whoever removes a record has
its evidence). Theorems: `DeadlinesTypeCorrect`, `DeadlinesReportsAgree`,
`DeadlinesEvidence`, `DeadlinesNoStart`, for any number of commands and reconcilers,
with or without an outage. That ownership plays no part in these proofs says that
it saves work and is not what makes the reports right.

`DeadlineCap_proofs` adds the timers. `LooksAnswered`, whatever fails: the lane and the registry agree on the
age of an open command up to the deadline (`Aging`) and a record is never due before it (`Asking`), so a reconciler finds what it asks about
closed or due. The lane's expiring scripts check no deadline themselves, and the model's guard `Due`
on them therefore takes no behaviour away. `DeadlinesResolved` is `ResolvedByCap`, for `Outage = FALSE`, any number of commands and any timers,
and from one hypothesis about the load (`[]FewLate`): the commands of the chat that are open past their
last look are never more than the margin before the cap has ticks. Without the hypothesis the property is false: see the bounds. Its invariant `CapInv` has
three parts. `Scheduled`: a record is due at its deadline and within a tick of each look, a reconciler works only
on a record it owns, and a look is the last exactly if the clock says so. `InLine`: the line is finite, and what is earlier in it is older. `Budget`, which needs that whatever
is a tick old is registered: for each command past its last look, the open commands up to it and its clock together do
not exceed the cap, and there is one to spare once the first of the line has been seen in this tick (`OnTime`);
a record that is put off has a tick for another look (`AnotherLook`); a record that has gone has left its evidence
(`Evidence`). The argument: the first open command of the line is never pending (`WalkComplete`), so its last look closes it, which takes
one from everybody's count (`OnTimeKept`); a tick comes only when everything due has been seen, so it finds that
one spare and makes the first of the line due again (`PassOnTime`); a command enters the
budget at its last look with nothing but late commands before it, and `FewLate` pays for those. `DeadlinesNeverDrop` says of the
steps what `ResolvedByCap` says of the states: under the same conditions the cap removes no record.

**Ingress.** Three parts. *One verdict*: as with the deadlines, every step is a lane
step or leaves the lane alone, a terminal state stays, and whoever is about to publish has
read it there. *Custody*: for every copy
ever stored of an unsettled command there is one as late or later in the stream or parked (`Chain`); a
copy about to be acknowledged is of a settled command, or has been parked or relayed on
(`Leaving`); the ingress's clock is the lane's, so what the lane expires is late, and a
recorded failure without a code is late (`InTime`). `CustodyKept` alone is not inductive: an acknowledgement
removes a copy, and only `Leaving` and `Chain` say that another one is left. *Order*: `LaneInv` and
`EntityOrder` are carried over by instantiating `CommandLane_proofs`; `Numbered` says that sequence
numbers are the operations themselves and that only what is before all open work has been cleaned up; `Queued`
that the queue holds operations that have acquired the lane, in order, the handler at its
head, and all that was called before them. `CallsInOrder` follows.
Theorems: `IngressOneVerdict`, `IngressCustody`,
`IngressFailureTold`, `IngressKeepsOrder`, `IngressServesInOrder`, `IngressCallsInOrder`, for any number of commands, copies
and faults.

**Barrier.** `Inv` adds to the types that a running job which was not told to stop holds a permit
for the rest of a lease since its timer fired (`Covered`), that a script which could take a permit away
runs late only when its job is over, and a renewal only when it has failed (`LateWhenOver`), that what was seen drained is a pause (`SawPause`), and that
the token of the standing pause is with its owner only (`TokensHeld`). Theorems: `BarrierDrains`, `BarrierHolds`.

**Epochs.** `Inv` adds that a snapshot of the current revision is the current record
(`Snapshots`), which is why compare-and-set on the revision moves the record forward, and that a guard belongs to
an open watch and a watch to a record that exists (`Watches`). Theorems: `EpochTransitionHolds`,
`EpochGuardCurrent`, `EpochForward`, for any number of runtimes, of any generations.

**Scheduler.** `Inv` says of the queues, the ready list, the lanes and the calls on their way, each as a
predicate over the values it relates so that it can be stated before and after the pump: a key is queued or
active exactly if it has tasks there (`Shape`, `Holds`, `Lanes`), no key waits twice and none that is active waits
(`Rotates`), keys wait only while all lanes are taken (`LanesFull`), the counter is the number of
tasks accepted and not over (`Counted`), what was accepted and has not started stands in the queues in
that order (`Ordered`), whoever passed a waiting key stands behind it (`PassedIsAhead`), and a drain that has
returned found nothing (`Drains`). The pump is a loop in the code and takes up to `Lanes` keys; the key
lemma is `PumpStartsAtMostOne`: because keys wait only while all lanes are taken, and a synchronous stretch of
the event loop frees at most one lane or adds at most one key, the pump it ends in starts at most one task. With it each
step is a removal, an insertion and at most one start, and each part of `Inv` is kept by each of these.
Theorems: `SchedulerInvariant`, `WakeupsAreKept`, `CounterNeverDrifts`, `NothingRunsAfterDrain`,
`AcceptedOrderIsKept`, `RotationIsFair`, for any number of chats, calls, lanes and places.

**Only model-checked:** the liveness properties (`InvocationEnds`, `CarriedOut`, `PauseDrains`,
`ReplacedIsRevoked`, `HungChatHoldsOnlyItsLane`), which are out of the prover's
reach: it has no rule for fairness and ENABLED. Every other property of the passing runs is stated by a
theorem; `ResolvedByCap` under the load `FewLate`, without which it fails.

## 6. Plan

Done: lane and its refinement, ledger and its refinement, deadlines, scheduler, barrier, epochs,
ingress, each with its proofs. What is left, in order:

1. `SendRecovery`: the recovery index, the drainer's claims, steps and
   compaction, beside `SendLedger`; published exactly what is recorded, nothing
   lost when a drainer dies between two steps.
2. Runtime fence and connection sequencing, which the ledger sees as one connection epoch.
3. Outbox and spool, operator-reply redistribution, the Kafka runner.

## 7. Not modelled

* Of the command path: the recovery drainer, the runtime fence, the identity reservation
  of public retries, administration of streams and consumers, the ledger's
  non-send payloads and migration, the other senders (they share the ledger's
  protocol and repeat the boundary), the provider's single flight.
* Off it: inbound spool, event outbox, redistribution of operator replies, Kafka runner.
* `workerCommandHandler`, `MessageUpsert.consume`, the chatbot, the request handlers, the web, mobile
  and extension clients, billing and AI: nearly all of the repository's 0.9 million lines. They
  are business logic, data over databases and third parties, and user
  interfaces rather than protocols; a state machine of them would restate their
  assignments. This is why the models map a small share of the repository's lines
  although they follow most of the command path.
