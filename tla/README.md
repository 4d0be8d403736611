# Agent Bridge: specification and proofs

Agent Bridge lets people drive Codex sessions and terminal agents from instant
messaging. A **Gateway** receives messages from IM accounts and turns them into
native turns of a Codex App Server; **Connectors** on other machines do the same
for terminals that only they can reach. A message must have its effect at most
once, in the conversation it was written for, and its result must come back, though
every acknowledgement on the way can be lost, every file write can fail and every
process can die.

These modules model the parts of the Gateway and the Connector that keep that
promise: the journals, and the handlers, timers and recoveries that work on them.
Paths that do not begin with `src/` or `docs/` are relative to `src/src`. The `map` of
`PROJECT.json` names the source lines of every definition, `hazards` the lines at which the code
could go wrong and the properties that watch over them.

Contents: [inventory](#1-inventory) · [modules](#2-modules-and-the-code) ·
[runs](#3-what-the-runs-check) · [fairness](#4-fairness) ·
[disagreements](#5-where-code-and-documentation-disagree) ·
[proofs](#6-what-is-proved) · [limits](#7-what-is-left-out) · [plan](#8-plan)

## 1. Inventory

One Node process is a Gateway, another a Connector. Inside a process everything runs
on one event loop, so code between two `await`s is never interrupted: such a piece of
code is one action of the models. The interleavings are those of handlers, timers and
callbacks at the awaits, of the processes, and of the native services behind them.

Durable state is JSON files: replaced whole by rename (`state/json-store.ts`, whose
`writeJsonFile` may fail *after* the rename, when it syncs the directory) or appended
to (the inbound receipts). Both leave memory and file different when they fail.

### 1.1 Modelled

| Component | State | Operations | Works with |
| --- | --- | --- | --- |
| **Inbound receipt journal** `bridge/inbound-receipts.ts` | `receipts`, `claimed`, `processing`, the append-only file and whether it can still be appended to | `claim`, `process`, `submitting`, `accepted`, `completed`, `abandon`, native observation, recovered duty, compaction, restart | driven by `AccountManager.dispatchChannelMessage`, `BridgeService.handleMessage`, `TurnSubmission.run`; the inbox's retry and cancel |
| **Forwarding inbox** `bridge/forwarding-inbox.ts` | rows in order (target, state, attempted), the file, who is being delivered | `claim`/`stage`, `deliver`, `prepared`, `accepted`, `retry`, `cancel`, `tick`, restart | the receipt journal; the binding (session, thread, generation) in `state/runtime-state.ts` |
| **Runtime writes** `peer/runtime-service.ts`, `agents/handoff.ts`, `agents/lifecycle.ts`, `agents/write-gate.ts`, `agents/json-line-client.ts` | three journals, the gate, the calls in progress | send, interrupt, create, rename, close, each with intent, final check, write, outcome | the Herdr adapters; the Gateway that repeats a call whose answer it lost |
| **Connector execution** `peer/execution-service.ts` (its native writes), `peer/receipts.ts`, `peer/backend.ts`, `peer/registry.ts`, `peer/rpc.ts` | the device's receipts; the origin's pending calls, connections, callback leases | forward, begin, guard, write, accept, complete, fail; lines that drop, restart of the device | the runner on the device; the origin's session record |
| **Native queue coordinator** `bridge/native-queue.ts` | receipts, the control lane, one dispatch per thread | `enqueue`, `cancel`, `reconcile`, `dispatch`, restart | `queue/add`, `delete`, `start` of the App Server through `codex/app-server-runner.ts`; other writers of the same queue |
| **Prompt buffer** `bridge/prompt-buffer.ts` | collecting, preparing, submitting; the services of an account | `start`, `append`, `begin`, `submitting`, `settle`, `cancel`, expiry, rebind, restart | `handlePromptCommand` and `runCodexTurn` of `bridge/service.ts`; the inbox, which hands it its messages |
| **Session control** `bridge/session-control.ts` | steering receipts, choices, a queue per thread, refusal after an unreadable file | `submit`, `createChoice`, `claimChoice`, failed saves, restart | a steer of the running turn, or the native queue |
| **Capacity recovery** `server/capacity-recovery.ts` | one record per thread, timers, failures being checked | `offer`, `cancel`, `reconcile`, `settleKnownCompletion`, `attempt`, restart | event hub and runner report failures; `resumeCapacity` of the runner; user input cancels |
| **System error recovery** `server/system-error-recovery.ts`, `peer/recovery-journal.ts` | the Gateway's ledger, the device's rows, the guard before inputs | archive, confirm, restore, settle, stop, restart on both sides | the runner's archive and unarchive; the callbacks of the execution bridge |
| **Approvals** `codex/interaction-fanout.ts`, `bridge/approval.ts`, `bridge/approval-journal.ts`, `bridge/approval-notice-delivery.ts` | the client's request, the fanout's offers, in every room a journal, open cards, notices | ask, offer, decide, report, retire, join, leave, close a card, restart | the App Server client, the rooms' services, the IM cards |
| **Thread event hub** `server/thread-event-hub.ts`, `server/follow-history-boundary.ts`, the final frame of `channels/progress.ts` | the binding's `FollowState` (turn, pending and kept results, completed, boundary), the checkpoint of each card | observe, reconcile, start, activity and completion hints, retries of kept results, restart | the snapshots and rollout files of the native thread; the IM cards |
| **Process lock** `server/process-lock.ts` | `service.lock`, `service.lock.recovery` | take, recover from a dead owner, release | every Gateway process of one state root |
| **npm update** `server/npm-release.ts`, `server/restart-helper.ts` | the plan's phase, four directories, the processes | back up, place, start, verify, roll back, retry | the process lock; whoever installs another runtime |
| **Release admission** `server/release-admission.ts`, the gate of `server/account-manager.ts`, `src/scripts/release-local.mjs` | the gate, its journal, the work that forbids a cutover, the releases | close, wait, stop, switch, confirm, open, roll back | every hand-off of a message; launchd |

What is hard, and what makes each correct:

- *Receipts.* The intent is durable before the request, the acknowledgement after it.
  A message must reach the core at most once whatever dies in between, its result must
  have one owner (the live handler or the recovered duty), and a turn the core took
  must be recognised although its acknowledgement was lost.
- *Inbox.* A message waits in the inbox while the user may switch, reset or rebind the
  conversation. It must never be redirected, never overtake an earlier input of its
  target, never lose its body before its fate is known, and a row that cannot be
  delivered must not lock the conversation.
- *Runtime writes.* Two requests of one operation, and two operations on one terminal,
  overlap between intent and outcome; creating a terminal is two writes. No write may
  happen twice, no report may claim more than is known, no gate may stay locked.
- *Connector execution.* The origin forwards an input again when the answer is lost, while
  the handler of the first call still runs on the device. The device's row decides, and
  what the origin is told must agree with it.
- *Queue.* Three activities share the receipts and two of them hold no lock, while the
  native queue consumes items on its own. No item twice, none after its cancellation,
  none out of order, and every result delivered.
- *Prompt buffer.* A submission ends long after it began: meanwhile the buffer may be
  cancelled and opened again, the conversation bound elsewhere, the account stopped and
  started. Nothing submitted twice or under another binding, nothing lost.
- *Session control.* Memory changes before the file, and the file takes memory's place when a
  save throws. A steer that was taken must not become a second message, and a choice is used once.
- *Capacity.* The same failure is reported by several observers, late and repeatedly,
  while the user types. No failure may be resumed twice, no attempt made while an
  earlier one is in doubt, and the chain must end.
- *System error recovery.* Between archive and restore either process may die. The duty to
  restore must survive, no input may meet an archived thread, and the thread must come back.
- *Approvals.* Two rooms, Desktop, the end of the turn and a dropped connection settle one
  request. No silence or failure becomes a grant, only the room whose answer was sent is told
  it was confirmed, and no card stays actionable for a request that is over.
- *Following.* A snapshot is older than the state it is applied to, a hint older than a snapshot, a
  reader that has not loaded the thread reports running turns as ended. Each turn's result must
  be shown once, on the card of its turn, and be kept until it was shown.
- *Lock, update, release.* Processes and their deaths interleave at every system call. One
  Gateway at a time, no runtime lost, no work cut, and the program serves again at the end.

### 1.2 Not modelled

| Component | State and operations | Hard behaviour, and what would be correct | Why not (yet) |
| --- | --- | --- | --- |
| User input `bridge/user-input*.ts`, `bridge/interaction-routing.ts`, `codex/async-user-input.ts` | open questions, drafts, answers | the same first-answer-wins fanout as the approvals; answers prepared before the question is asked again | next in the plan |
| Rest of the Connector: observation, interactions and queue controls of `peer/execution-service.ts`; enrolment, sharing, files | streams, callbacks, certificates | a callback of an old connection must not settle a new call (modelled for writes) | observation only reads; cryptography and file transfer are out of reach |
| Binding expiry `server/binding-expiry.ts` | idle probe | a binding used again between probe and removal (line 61) | planned |
| Web IDE `ide/*` | one-time links, approvals, revocation | a link used once, nothing after revocation | planned last; proxying and TLS are I/O |
| Codex backends `codex/*` | connections and caches | the parts the queue, the recoveries and the approvals use are in their models | the rest is protocol plumbing |
| Progress presentation `channels/progress.ts`, … | cards, checkpoints, pages | a card whose creation has an unknown acknowledgement: its last frame is in `Following`, stages and pages are not | planned |
| Bridge service, commands, account manager, update manager, AI intent, Taskboard client, channels, monitors, catalogs, credentials, web pages, scripts | composition, parsing, rendering, HTTP | no durable protocol of several steps of its own, or in the model of the component it drives | see the `note` of each in `PROJECT.json` |
| Taskboard, embedded under `src/taskboard` | a web application with its own server and cloud service | — | a separate program: nothing of it takes part in the promises above |

Hazards that were met and that no property covers: a row whose user is told that the binding
changed although an earlier input created its thread (`bridge/forwarding-inbox.ts:244`, harmless);
a program recorded as "partial" although it was started, because the read-back after the App's
single write failed (`agents/herdr/app.ts:197`); and observations 5 to 9 of section 5.

## 2. Modules and the code

| Module | Models | Extends / instantiates |
| --- | --- | --- |
| `AtMostOnce` | the promise of any journal in front of a write that cannot be undone | – |
| `InboundReceipts` | the receipt journal and the handler that drives it | – |
| `Forwarding` | the inbox of one conversation and its binding | extends `InboundReceipts` |
| `RuntimeWrites` | the Connector's terminal writes | implements `AtMostOnce` |
| `PeerExecution` | one native write forwarded to a Connector | implements `AtMostOnce` |
| `NativeQueue` | the queue journal and the native queue on one thread | implements `AtMostOnce` |
| `SessionControl` | one steer or one choice | implements `AtMostOnce` |
| `PromptBuffer` | the buffer of one conversation | – |
| `CapacityRecovery` | the coordinator on one thread | – |
| `SystemRecovery` | one failed thread, Gateway and device | – |
| `Approvals` | one approval and the rooms that may answer it | – |
| `Following` | one binding that follows a native thread, and its cards | – |
| `ServiceLock`, `NpmUpdate`, `ReleaseGate` | the lock, the npm update, the release switch | – |
| `InboundReceiptsProofs`, `RuntimeWritesProofs`, `ServiceLockProofs` | theorems | extend the module of the name |
| `ForwardingProofs` | theorems about `Forwarding` and `Following` | extends both and `InboundReceiptsProofs` |
| `QueueProofs` | theorems about `NativeQueue` and `Approvals` | extends both |
| `InputProofs` | theorems about `PromptBuffer`, `PeerExecution`, `SessionControl` | extends them |
| `RecoveryProofs` | theorems about `SystemRecovery` and `CapacityRecovery` | extends both |
| `CutoverProofs` | theorems about `NpmUpdate` and `ReleaseGate` | extends both |
| `MCForwarding`, `MCNativeQueue`, `MCCapacityRecovery` | instances for TLC: model values and symmetry | extend the module of the name |
| `MCFollowing`, `MCRooms`, `MCRuntimeWrites`, `MCComponents` | instances of components that share no state, side by side: `part` names the one a behaviour is about, the others stand still | extend those components |

In every module: `mem` (or `inbox`, `rec`, …) is the object in memory and `disk`/`file`
the value a restart reads; a save chooses whether it succeeds and, if not, whether the
file changed; `Restart` reads the file back and forgets everything in progress except
requests already on their way; a variable `…faults` counts the failures so far and a constant
`Max…Faults` bounds them. Source identities are model values; contents, names and wording are
left out. An operator whose comment begins "Mutant:" is a plausible bug beside the code it
would replace; no specification uses it. The names of the modules that are composed in one
instance carry a prefix (`Peer`, `Buf`, `Steer`, `Appr`, `Fol`, `Lock`, `Npm`, `Gate`, `Sys`).

**AtMostOnce.** `written` counts the external writes of an item, `report` is what the
journal says: none, unknown, not-sent, confirmed. `Move` lists what may happen to one
item: an intent is recorded before the write, a write never follows `confirmed`, and
only an item known to be unsent may be begun again (`retryable`) or forgotten.

**InboundReceipts.** `kind[m]` says what the message becomes (turn, queue submission,
terminal input, control command), because the handler's catch clause treats them
differently. `stage[m]` is the position of the handler; each stage boundary is an
await. A receipt keeps its phase, the identity it carries (`scope`), whether thread and
turn are known, and whether its result is a recovered duty. `inflight` and `turns` are
the native side: requests sent and not yet taken or lost, turns created. `Save` models
the append, the truncation after a failed append, the refusal to append once that
fails too (`appendUnavailable`) and the occasional compaction, which writes *memory*
over the file. `Observe`, `RecoverAccepted`, `RecoverOwned` model the native history
read: `expected` is the receipt it was started for, so a read outlived by a handler is
discarded as in the code. `Legacy` are the messages an older release recorded.

**Forwarding.** Adds the rows, their file, the binding and the handler's `lease`
(the target it captured). Every outcome of one uninterrupted run of `deliver()` is one
action: clean up, keep, hold, postpone, wait for the Gateway, dispatch, or a dispatch
whose save fails. `ClaimReceipt` and `Stage` are the two saves of `claim()`; only a
restart comes between them. `Attach`, `Detach` and `Reset` change the binding at any
await. Handler steps of the journal are guarded by the lease where the code checks it
(`Prepared`, `SubmitLeased`, `SendLeased`) and followed by the inbox's callback where
the code makes it (`OnAccepted`, inside the action). Time is abstract: a row is due at
any moment.

**RuntimeWrites.** A `call` is one RPC, so one operation can be in two calls at once.
`BeginInterrupt` starts after the awaited `inspect()`; `Admit` is the synchronous run
from reading the receipt to taking the gate and saving the intent. `sent` counts
writes at the terminal, `started` the program starts of a create, which is a second
write on the TUI adapter and part of the first on the App. `AccessChanges` revokes or
restores the source's authority at any await.

**NativeQueue.** `lane`, `watch` and `disp` are the three activities. An observation
is a snapshot taken by one step and applied by another; `EndWatches` makes obsolete
those whose receipt changed meanwhile, as the code's comparison does. `queue`, `turn`,
`indexed`, `busy`, `wire`, `deletion` and `start` are the native side, with foreign
items and foreign turns. `executed` is history: messages whose execution the journal
ever took up.

**CapacityRecovery.** `turns` is the native thread. `check` is `reconcile()`, `settle`
is `settleKnownCompletion()`, each with the snapshot (`view`) it read; `exec` is the
position of `attempt()`; `timer` is the timer of the record. `clients[c]` is the failed
turn that client id was made for. `forgiven` and `rearmed` are history: failures
whose resumption user input cancelled, and those of its own predecessor that a record
was begun for again (section 5). A cancellation that no save wrote dies with the process, and
leaves `forgiven` at a restart.

**PeerExecution.** A call is one forwarding of the input, with the connection it went over.
The origin's side of a call (`told`) and the device's handler are separate: the origin may
give a call up while its handler goes on, finds the origin silent at the next callback, or
is past asking. `PeerGuard` is the check before the native write; `PeerThreadMade` and
`PeerNote` are the two callbacks. `peerMem` and `peerFile` are the row of the input, other rows
exist only through the saves that rewrite the shared file.

**PromptBuffer.** `batch` are the handlers that took a buffer for submission, each with the
service that owns it and the binding it was begun under. `overtaken` is history: a
suspended service wrote its copy over the file of its successor (section 5).

**SessionControl.** A call is a hand-over of the message or a click on its card, and goes
through offer or claim, the thread's queue, the steer, and the receipt. `SteerUnsaved` has the
three outcomes of a failed save: the file's content is taken back, or it cannot be read and the
journal refuses everything until a restart.

**SystemRecovery.** `ledger` is the Gateway's record, `sysRow` its copy on disk, `deviceRow` the
device's journal, `thread` the native thread with what is still under way to it. An operation
(`sysOp`) runs on the device and calls back; it outlives its connection. `slips` is history: an
answer to "restored" that was lost, and a stopped coordinator that answered.

**Approvals.** `apprReq`, `apprSeen` are the App Server client, `apprAsk`, `apprWinner`,
`apprOffer` the fanout, `apprRoute` the row a result is reported to, `apprRows` the rooms'
journals with card and notice, `apprOpen` the cards that still decide. `ApprDecided` runs from the
click to the line to Codex, which the code does without a save in between. `apprLate` are rooms
still preparing a card when their offer ended; the card may then be made too late.

**Following.** `folTurns` is the native thread, `folState` the durable `FollowState`, `folCards` the
checkpoint of each turn's card. `folRead` is a snapshot in the two reads that make it (history, then
runtime), `folJob` the snapshot being applied, turn after turn; the other handlers of the
binding wait until it is done, as `SessionControlQueue` makes them, but a new read, the native thread and the
retries of kept results (`folRetry`) do not. `folHints` is what the rollout file told. `folShown` is what
the chat has seen; `folMissed` is history: turns that were passed though nobody delivered or kept
their result (section 5).

**ServiceLock, NpmUpdate, ReleaseGate.** Here the actors are processes, so every system call,
save or rename is a step of its own and a process may die between any two. In `NpmUpdate` a
directory is what it holds and the lock is taken at its promise; a later run of a dead helper
(`NpmRetry`) starts only while the target holds the entry file it looks for; in `ReleaseGate` a release's
calls may be lost, or carried out after it gave up (`late`).

## 3. What the runs check

A mutant in `PROJECT.json` for every property of every passing run shows that the
property can be broken by a bug in the code it is about: each one replaces a mapped
definition by the operator beside it, under the run's own configuration.

| Run | Question | Bounds |
| --- | --- | --- |
| `forwarding_order` | Is the source order kept through thread creation and a detach or reset? | 2 messages of every lane, one new session, 1 detach or reset |
| `forwarding_rebind` | Is an input confined to its target and the journal used as it allows? | 1 input of every kind, 2 sessions, 2 rebinds, one fault of each file |
| `forwarding_faults` | Does one row's failed save spare the others, and does the head of a conversation always move? | 2 inputs, 1 inbox fault, `PreparingLimit` 1 |
| `runtime_shared` | Do two operations on one terminal exclude each other, and are their records right? Is a forwarded input, a collected message, a steer or choice submitted once, and truthfully reported? | 2 operations of any kind, 2 calls, 1 terminal, both adapters, 2 faults; 3 forwardings, 3 faults; 2 messages, 2 submissions, 2 bindings, 2 services, 2 faults; 3 hand-overs or clicks, 3 faults |
| `queue_one` | Is a message submitted once, in order, cancelled for good, and its result delivered? Is each followed turn's result shown rightly, and in the end? | 1 message, 1 foreign item, 2 faults; 2 native turns, 1 hint on its way, 1 fault |
| `queue_two` | Do two messages of two accounts leave each other alone? Is an approval granted, told and shown only as it happened? | 2 messages, 1 or 2 accounts, no faults; 2 rooms, 2 cards, 2 attempts to close a card, 1 fault |
| `capacity` | Is a failure resumed once, doubt respected, a cancellation kept, the chain bounded, and does waiting end? | 4 native turns, 3 attempts, limit 2, 1 fault |
| `components` | Receipts: once, with durable evidence and one result owner? A repeated terminal operation? The lock, the npm update, the release switch, the recovery of a failed thread? | 2 messages of every kind, 1 of them recorded by an older release, 3 faults; 1 operation, 2 calls with 2 inputs, 3 faults; 3 starters, 2 deaths; 2 runs of the helper, 1 foreign installation, 2 faults; 2 releases, 1 hand-off, 4 processes, 2 faults; 2 operations on the device, 2 faults |
| `forwarding_follow`, `forwarding_overtake`, `queue_unconfirmed`, `sys_cleared` | disagreements, section 5 | the smallest that show them |

Several components in one run are never interleaved with one another: they share no state, so
nothing is lost by that. The two operations of `SystemRecovery` differ in name only: of two that are
free the first one begins (`MCFirstSysOp`).

**Why these bounds are enough to be interesting.** The receipts of different messages
meet only in the file, where one message's compaction rewrites the other's entry; two
messages show that, and three faults allow a failed save, the death of the process and
a failed save of the recovery in one behaviour. In the inbox an order needs two
inputs, and a rebind away and back needs two sessions and two new identities (`MaxFresh` 3: the
first is given); with
`PreparingLimit` 1 the second row really waits for the limit. On a terminal the gate
and the rewriting of a shared journal file relate two operations, and a repetition
needs two concurrent calls of one. In the queue the item of another writer at the head
is what "in order" is about, and two faults allow a lost answer followed by a restart
or a failed save. In the capacity model four turns hold two chains of the limit of
two, or a chain around a foreign turn. Three forwardings let a call that is still running meet
two later ones, over different lines. Two submissions and two services are what a late outcome
needs to meet a later buffer. Three starters are the least for a recovery that is itself
overtaken. A second operation on the device is what outlives a connection. In the approvals a
winner and a loser need two rooms, a request that is asked again needs a second card, and one
fault is a lost connection, a death, a failed save or a room that leaves; with two faults the
module alone was checked on the side (2.4 million states), too long for a run here. Following needs a turn
before and a turn after the one whose snapshot is being applied, which two give; a snapshot that is older than
a hint needs one hint on its way; its fault is a failed read or card operation, a reader that has not
loaded the thread, or a restart.  Faults
are the most expensive bound; `queue_two` has none because `queue_one` shows them for each message, and a `VIEW` that leaves
out the history variable `executed`, which no step and none of its properties reads.

`CHECK_DEADLOCK FALSE` is set throughout: the programs are reactive and may rest when
every message is settled, and a behaviour ends when its bounds are used up.

**The properties, by component.** One that joins several parts names them; the parts are
stated one by one in the module.

- `InboundReceipts`: `NativeOnce` (no second request while the fate of the first is
  open, no second turn), `JournalIsSound` (types; `AttemptIsDurable`: what may have been taken,
  a restart reads as attempted; `MemoryNotStronger`: a settled phase is settled in the file,
  through other messages' failed saves and compactions), `OneResultOwner`, `AcceptedIsFinal`,
  `TurnIsRecognised` (liveness).
- `Forwarding`: `SourceOrder`, `TargetConfined`, `InboxIsKept` (types; `BodyOutlivesDoubt`),
  `HeadOfLineMoves` (liveness), `JournalSpec` (the inbox implements `InboundReceipts!Spec`).
- `RuntimeWrites`: `WritesAtMostOnce` (it implements `AtMostOnce`), `ToldIsDurable` (a
  requester is told nothing a restart contradicts), `HandoffIsExclusive` (types; `OneHandoff`),
  `CreateIsRecorded` (`TopologyIsDurable`, `PartialNotStarted`), and of a repeated operation
  `RepeatedInput` (the first two, and that the gate is released: liveness). `PartialNotStarted` is
  stated for the TUI adapter: on the App, where create and start are one write, a failed
  read-back is recorded as "partial" though the program runs.
- `PeerExecution`: `PeerHandoff` (the device's row implements `AtMostOnce`; `PeerToldTrue`: what
  the origin is told of a call agrees with it).
- `NativeQueue`: `SubmittedAtMostOnce` (it implements `AtMostOnce`), `ReceiptsAreTrue` (types;
  `CancelledNeverRuns`; `CompletedHasEnded`), `NoReopenNoSkip` (`CancelIsFinal`; `HeadFirst`: only the head of the native queue is started),
  `MessagesApart` (the receipts and the order, of two messages), `ResultSettles` (liveness, half of
  `ResultsArrive`).
- `PromptBuffer`: `BufKept` (`BufSubmittedOnce`: no message twice or under another binding;
  `BufNothingLost`: what the user was told is collected is on disk until Codex has it).
- `SessionControl`: `SteerPromise` (it implements `AtMostOnce`; `SteerToldTrue`;
  `SteerChoiceOnce`).
- `CapacityRecovery`: `ResumesAreBounded` (types; `ResumedOnce`; `ChainBounded`),
  `DoubtBlocks`, `CancelHolds`, `WaitingMovesOn` (liveness).
- `SystemRecovery`: `SysDutyKept` (an archived thread is on record), `SysInputApart` (no input
  meets an archive), `SysRestoreEnds` (liveness: the thread comes back, a duty known to be met is
  struck off). `sys_cleared` shows why the answer to "restored" is excepted.
- `Approvals`: `ApprPromise` (types; `ApprAuthorised`: nothing is authorised without a user's
  choice on record; `ApprConfirmedRight`: only the chosen room hears "confirmed", and only
  when the request is over; `ApprCardsCurrent`: a card decides only while its request is open;
  `ApprCardsClosed`: a notice counts as delivered only if the card is closed; `ApprFinal`: a
  confirmation and a known card stay).
- `Following`: `FolPromise` (types; `FolShownRight`: a card shows one result, of a turn that ended
  after following began, and what counts as delivered was shown; `FolHeldIsKept`: a pending or kept result stays until
  it is delivered). `FolRepaired` (liveness, the other half of `ResultsArrive`): a turn that ends while it is
  followed is delivered, but for `folMissed` and cards that refuse it.
- `ServiceLock`: `LockSafe` (types; one owner, whose record stays), `LockRecovers` (a start is not
  refused because of the dead; a clean stop leaves nothing).
- `NpmUpdate`: `NpmPlanHolds` (types; no runtime is lost; the phase is true of the directories),
  `NpmVerifiedByOwnChild`, `NpmEndsServing` (liveness: the update, or a later run of a helper
  that died, ends with a Gateway that serves; `stranded` excepts the deaths no later run mends).
- `ReleaseGate`: `GateHolds` (no new work behind a closed gate, also after a crash),
  `GateCutsNothing` (no hand-off is cut), `GateSettles` (a finished release leaves its artifact or
  the old one, and an open gate).

## 4. Fairness

Safety never assumes fairness. The liveness properties assume only what the scheduling
of the code gives:

- *Receipts*: a started handler runs to its end, because requests time out and the
  event loop runs every continuation (WF of `HandlerStep`); the inbox timer repeats
  the history read every five seconds (WF of `Observe`, `ObservationEnds`,
  `RecoverAccepted`). That the core applies a request is *not* assumed.
- *Inbox*: handlers and notices end (WF); the timer ticks every second, and the Gateway
  is writable at one tick or another although it may be closed at many (SF of
  `Dispatch`); `claim()` is not interrupted between its saves (WF of `StageStep`). The
  user, redelivery and the native core owe nothing.
- *Runtime writes*: every await of a call ends; the adapter's requests and the origin's
  answer have timeouts (WF of `CallStep`). Nobody has to call.
- *npm update*: the helper runs on or its deadline passes, and a process that was started comes
  up, serves or exits, and ends its shutdown (WF of each). A helper that died runs again only if
  somebody starts it.
- *System error recovery*: inputs wait for the restore, so it is requested again and again
  (WF of `SysRequestRestore`), an operation that was begun ends or loses its line, and both
  processes are started again by their supervisor (WF). That the binding stays is a premise
  of `SysRestoreEnds`, not an assumption.
- *Following*: the timer fires, reads and card operations are answered or time out, and what waits its turn in the
  binding's queue is served (WF of each). The native thread owes nothing, and hints may be missed.
- *Lock, release, execution, buffer, control, approvals*: no liveness is claimed.
- *Queue*: `recoverNativeQueue` (`src/src/bridge/service.ts:2719-2764`) reconciles, then
  dispatches for every account, again and again, although either may be disabled at
  the moment it looks (SF of `ObserveList` and `Dispatch`); awaits end (WF); a native turn ends and reaches the
  history (WF): without that no result exists to be delivered. `ResultSettles` is
  excused once receipts can no longer be saved (`down`), when the code stops on purpose.
- *Capacity*: a history read ends (WF of `ReconcileRead`, `Reconciled`) and the timer
  fires. An attempt at a moment when reported failures are being checked does nothing;
  strong fairness of `Attempt` outside a check says that observers do not renew stale
  reports exactly in time with the timer for ever. `WaitingMovesOn` is excused after a
  fault: a failed save or a lapsed binding leaves the record waiting for a restart.

## 5. Where code and documentation disagree

Each of the first four is a run that TLC must find violated.

1. `forwarding_follow`: *pending input follows a detach and rebind.* The comment at
   `src/src/bridge/forwarding-inbox.ts:283-284` says "Pending messages cannot follow a
   detach/rebind or reset by name". When the acceptance of the input that creates the
   thread arrives after the user detached the session and attached it again, `base()`
   (line 289) drops generation and thread before comparing, so the rows saved before the
   detach are moved to the new generation and sent.
2. `forwarding_overtake`: *a later input overtakes.* The barrier (line 253) compares
   the targets of two rows. A row saved after the first thread was stored names the
   thread, an earlier row still waits without it, and the third input is sent before the
   second. The comment at line 248 says "Preserve the source order through native
   acceptance". `SourceOrder` holds for two inputs (`forwarding_order`); three are needed.
3. `queue_unconfirmed`: *a failed read marks a delivery as unconfirmed.* The catch of
   `dispatch()` (`src/src/bridge/native-queue.ts:281`) marks every running receipt of
   the group, also when only the list or the inspection at the start failed;
   `docs/architecture/modules/input-controls.md:35` says that only an unknown external
   handoff does so. The mark is never cleared and the queue never delivers that result.

4. `sys_cleared`: *a duty is struck off while the thread is archived.* After the answer to
   "restored" is lost, the device keeps its settled row (`peer/recovery-journal.ts:25`). A
   second archive of the same failed turn inherits it, and the next restore reads "restored"
   and strikes off the Gateway's duty, though the thread is archived. With that answer excepted
   (`slips`), `SysDutyKept` and `SysRestoreEnds` hold.

The following were met while modelling and have no run of their own. Where a property holds
only without them, the history variable named here excepts exactly that case.

5. *Capacity: a finished or cancelled record is begun again* (`rearmed`). `offer()` adds a
   failure to a running check before it consults the record
   (`src/src/server/capacity-recovery.ts:171`). If an older unknown failure opened the check, the
   last turn of a record that had used up its attempts, or that the user cancelled, is begun
   again with all its attempts.
6. *Capacity: the newest failure is answered as superseded.* When `accepted()`, or the save before
   it, fails after a continuation was taken up, the record's `turnId` still names the
   predecessor, and until a restart the failure of the continuation is answered as
   "Superseded native failure" (line 173), though nothing supersedes it.
   `NewestIsNotSuperseded` states what the comment promises; one fault violates it.
7. *Process lock: two Gateways* (`undercut`). The comment at
   `src/src/server/process-lock.ts:44-46` says that the recovery claim rules this out. If the owner
   shuts down cleanly after a claimant read its record, and a third starter takes the lock before the
   claimant removes the file, the claimant removes the new owner's lock.
8. *System error recovery.* The Connector's preflight refuses a restore whose binding is gone
   (`peer/execution-service.ts:420`), while the document of the feature promises the restore also
   then; a stopped coordinator answers `archived` and `restored` without saving them
   (`server/system-error-recovery.ts:246`, `muted`); only the Gateway's own `archiveConfirmed`
   allows a restore, so a duty whose archive was never sent holds inputs back.
9. *Prompt buffer* (`overtaken`). A handler that outlives the stop of its account settles its own
   copy and overwrites the file of the new service. The notices of approvals guard against this
   (`bridge/approval-notice-delivery.ts:74-77`), the buffer does not; `BufSubmittedOnce` is violated
   without the exception. Also: a buffer opened before the session's first thread stays
   stuck once the thread exists, because its scope no longer matches.
10. *Session control.* `claimChoice` uses a choice up before it is steered, so a death or a failed
    save in between loses it, while the user is told that it was already handled; a refusal of
    the guard inside a steer is recorded as "uncertain" although nothing was sent.
11. *Connector execution.* A fresh run whose thread was created, but whose input is known to be
    unsent, keeps its row as "accepted" and is never retried.
12. *Approvals* (`apprLeft`). A result that arrives while `requestApproval` awaits the progress card
    (`bridge/service.ts:3894`) finds no notice, and the card is made afterwards, for a request that is
    over; the comment at `bridge/approval.ts:164-165` says that it must no longer be
    actionable. A room that stops following keeps its card until it is decided or times
    out. After a lost connection the fanout keeps the answer "for a later native confirmation"
    (`codex/interaction-fanout.ts:99-101`) and answers the repeated request with it, but the
    route was consumed by the first report (`server/account-manager.ts:2430`), so the chosen
    room never hears that confirmation.
13. *Following* (`folMissed`). The comment at `server/thread-event-hub.ts:93-95` says that snapshots "repair
    missed notifications and recover turns completed while the gateway was stopped". The history
    boundary passes results that nobody delivered or kept: a later turn that ended while the
    current result is unacknowledged is skipped and the boundary moves on over it; a heard start retires the tracked turn,
    whose end was missed; the boundary is set at a turn that history shows running while the
    runtime says idle; on a thread that was empty it names no turn. And only `started()` sets
    `startedAt`, so a late start hint of an older turn moves following back to it and retires the
    newer turn that a snapshot tracked (lines 894-899).
14. *npm update* (`stranded`). `src/src/server/npm-release.ts:79-80` saves the intent before each rename "so
    retry can distinguish an absent target from a lost old runtime". The helper cannot profit
    from it: its own script and the entry file it looks for first
    (`server/restart-helper.ts:11`) lie in the target. After a death between the two renames, of
    the update or of its rollback, the same command starts nothing, and the machine stays
    without a Gateway until somebody installs one or moves a directory by hand. `NpmActivate`
    keeps the branch for the absent target; no behaviour of the model comes to it.

## 6. What is proved

Everything below is checked by TLAPS for every value of the constants: any number of
messages, sessions, operations, requests, terminals, starters, releases, rebinds, failed
saves and restarts. The only assumptions are the `ASSUME`s of the modules, which TLC
evaluates in the runs: names that stand for "nobody" (`NoSession`, `NoOp`, `NoInput`,
`NoFile`, `NoOwner`, `NoSysOp`, `None`, ...) are outside the sets they stand apart from,
and `NoFile` is no file content either; the artifact `"old"` is not a release's; items
of other writers are not messages; `Legacy` is a set of messages; sources are pairs of a
kind and a lane; a prompt buffer collects finitely many messages; bounds are natural
numbers, and where something must happen once to speak of it at all (a run of the
helper, a process, a service) at least 1.

| Module | Theorems |
| --- | --- |
| `InboundReceiptsProofs` | `TypeCorrect`, `NativeOnceHolds`, `AttemptIsDurableHolds`, `MemoryNotStrongerHolds`, `JournalSound` (their conjunction, `JournalIsSound`), `OneResultOwnerHolds`, `AcceptedStaysFinal` (`AcceptedIsFinal`) |
| `ForwardingProofs` | `JournalImplemented` (`ForwardingSpec => JournalSpec`), `ForwardedOnce` (`=> []NativeOnce`), `ForwardedStaysFinal`, `ForwardingInvariance`, `ForwardingTypeCorrect`, `InboxKept` (`InboxIsKept`), `TargetsConfined` (`TargetConfined`), `FolInvariant`, `FolShowsRight` (`FolSpec => FolPromise`) |
| `RuntimeWritesProofs` | `TypeCorrect`, `ToldDurable`, `HandoffsExclude`, `HandoffsWellFormed` (`HandoffIsExclusive`), `TopologyDurable`, `PartialIsRight`, `CreationOnRecord` (`CreateIsRecorded`), `WrittenAtMostOnce` (`Spec => WritesAtMostOnce`), `NeverMisreported` (`=> []Promise!WrittenOnce`) |
| `QueueProofs` | `QueueInvariant`, `ReceiptsCanBeBelieved` (`ReceiptsAreTrue`), `NeitherReopensNorSkips` (`NoReopenNoSkip`), `MessagesStayApart` (`MessagesApart`), `SubmittedOnce` (`Spec => SubmittedAtMostOnce`), `ApprInvariant`, `ApprovalsKept` (`ApprSpec => ApprPromise`) |
| `InputProofs` | `BufInvariant`, `BufferIsKept` (`BufKept`), `PeerInvariant`, `ForwardedWritesOnce` (`PeerSpec => PeerHandoff`), `SteerInvariant`, `SteersOnce` (`SteerSpec => SteerPromise`) |
| `RecoveryProofs` | `SysInvariant`, `DutyIsKept` (`SysDutyKept`), `InputIsApart` (`SysInputApart`), `CapInvariant`, `ResumptionsAreBounded` (`ResumesAreBounded`), `DoubtStaysBlocked` (`DoubtBlocks`), `CancellationHolds` (`CancelHolds`) |
| `ServiceLockProofs` | `LockInvariant`, `LockIsExclusive` (`LockSafe`), `LockIsRecovered` (`LockRecovers`) |
| `CutoverProofs` | `NpmInvariant`, `NpmPlanIsTrue` (`NpmPlanHolds`), `NpmVerifiedOwnChild` (`NpmVerifiedByOwnChild`), `GateInvariant`, `GateCutNothing` (`GateCutsNothing`), `GateSettled` (`GateSettles`), `GateHeldShut` (`GateHolds`) |

TLC checked each inductive invariant on small instances before it was proved.

**The receipt journal.** None of its invariants is inductive alone. `NativeOnce` needs
to know that a handler about to send has nothing in flight, which rests on the phase it
works on; and after a restart, that the phase read back still forbids sending, which is
`AttemptIsDurable`; this one must survive a compaction that writes *memory* over the
file, hence every fact is stated of memory and file (`HandlerPhase`, `Evidence`,
`SettledOnDisk`, `Owner`). `IInv` is their conjunction for every message.
`SaveEffect`, `TransitionEffect` and `ClaimEffect` say once what a save does. `Frame(m)`
says what a step about `m` may do to the others (their file entry may fall back to
memory, by a compaction) and `OthersKept` that this preserves their part; each action
then has one lemma about its own message. `NextIInv` collects them and PTL does the rest.
`AcceptedIsFinal` compares two states: `IInv` before a step says that what a restart reads back of a
final receipt is final too (`MemoryNotStronger`), and that a handler still at work has none (`HandlerPhase`).

**The inbox.** First a step simulation: each disjunct of `ForwardingNext` is an action of
`InboundReceipts!Next` or leaves its variables alone, so the journal's theorems hold in the
composition (`ForwardedOnce`, `ForwardedStaysFinal`). `TargetConfined` and `InboxIsKept` speak of
the saved rows, a sequence searched by message; `Rows`, `RowIn` and the lemmas `RowReplaced`,
`RowAppended`, `RowTaken` say what a write, a new row and a removal leave of it. `FInv` is inductive
together with the journal's `IInv`: a handler runs only while `deliver()` waits for it
(`Dispatched`); while it prepares or submits, its row is there, and the lease it took either names
what the row names (`Alike`) or belongs to a binding that can never be current again (`Past`), since
generations and created threads only grow (`RowHeld`, `Leased`). When a submission creates a
thread, the rows of the same target follow it, and the leases of other handlers stay alike or become
past (`RowsAdvanced`). A write needs the lease to be current, so it is not past, so it is alike.
A row leaves the file only after its receipt has concluded (`BodyKept`, `Concluded`), and a
receipt that concludes is in its file by `IInv`.

**Runtime writes.** `OpInv` relates the records of an operation, in memory and in the
file, to the writes made (`RecordFits`), says how far the file may run ahead
(`FileFollows`) and that what was told is still recorded (`ToldFits`). `CallInv` says
what the records are while a call holds the gate; `OneHolder` and `KeysExclude` that
two calls never share an operation or a key and that the gate is exactly the keys held.
They need each other: the outcome of a call may overwrite the record only because no
other call holds the operation. `WrittenAtMostOnce` uses this invariant on both sides of
a step to show that every step moves every operation as `AtMostOnce!Move` allows,
restarts, which move all at once, included; `NeverMisreported` proves of the abstract
module that its reports are right and carries that over.

**The native queue.** What makes a receipt believable is where its item is, so the
invariant speaks of both. `QueueOK`: the native queue holds no item twice, without which
deleting an item would not remove it. `PlaceOK(m)`: the item is added at most once, and
where it is and was tells its turn; a delete that succeeded leaves it `Gone` for good.
`RowOK(m, r)`, of the receipt in memory *and* of the one in the file: a status from which
the message may be submitted excludes an item and a request; `cancelled` means gone, and
`completed` or a delivered result that its turn has ended. It is not inductive without
what three activities remember across their awaits: an observation that located the
turn in the history (`WatchOK`), the control lane that is adding (`LaneOK`) and a
dispatch that delivers (`DispOK`), nor without `FileOK`: memory is ahead of the file
only when nothing can be saved any more. `StartOK` says that a start under way is of
the head, even after its answer was lost. `GatewayStep` names what a step of the Gateway
may do to a receipt; each action of the Gateway and of the native side has one lemma.
`SubmittedOnce` shows that every step moves every message as `AtMostOnce!Move` allows.

**The prompt buffer.** A message can be in three places: the buffer of the service in
use, the buffer on disk, and submissions. `RowOK` says, of each buffer, that no
submission but the one it names may write one of its messages or has, `BatchesApart`
the same of two submissions, and `MineOK` that the buffer in memory was really begun by
the submission it names (the one on disk may name a submission that was never begun:
the process died between save and submission). `HeldOK` keeps what the user was told of. All of
it ends when a suspended service saves over its successor (`overtaken`), which is
what `BufKept` excepts and section 5 reports.

**Forwarded writes.** That a write forwarded to a Connector happens once needs, of each
row, in memory and in the file, what is certain of it (`PeerRowOK`): a row that allows
another attempt excludes a call past its intent and a write, one that reports success has
its write. The file may be behind memory only where that is harmless (`PeerRows`: a
result that memory is sure of is in the file, and so is every intent), for a restart
reads it back. `PeerOne` makes the write one; `PeerCallOK` says what each place of a call
and each answer given to the origin proves. Every step is then a move of `AtMostOnce`.

**Steers.** The same shape, with a choice added: `SteerRowsOK` says that a receipt
without an intent excludes every steer under way, in flight or done, and that memory is the
file as long as the journal may be used. A choice is claimed, in memory and in the file,
before its call goes on, so at most one call has it (`SteerOne`); then neither a click nor a
redelivery sends the message again, by the steer or by the queue. `SteerLine` says that what
is being submitted is at the head of the queue of the thread: why a later call finds the
receipt of the earlier one settled.

**Approvals.** A result must find the row that answered, over a route that was consumed,
replaced or never made. So `ApprOffersOK` says of the room whose offer was chosen that its
route leads to the row whose answer was sent last (`apprBy`), or nowhere, and then a card that is
still being made for it will not take the route. `ApprClientOK` ties the client to the
fanout and to the answer on its way: what was seen and is not being asked has an answer, and an
answer that grants has the user's choice on record, for as long as it can still be sent.
`ApprCardsOK` says that a room has one open card for a request of a connection and that, while
nobody decided, such a card is what the room was offered; without it a click on an older
card would answer a newer request. `ApprConfirmedOK` says that once a row is confirmed nothing
is undecided any more, so that neither a later answer nor a later result reaches another row. A row
that nobody has used is empty and a notice under way has no recorded result (`ApprRowOK`).
`ApprRoomStep` is the one lemma about an offer that ends (the room leaves, restarts, cannot be
reached), `ApprFinishStep` the one about a request that ends; the other actions have one each.

**Following.** `FolInv` says that whatever is shown later is decided by turns that have ended
(`FolOver`): a pending or kept result is one, with the card of its own turn (`FolFits`); so is what a waiting
completion hint names (`FolHintsOK`). A snapshot, read or being applied, is a past of the thread, shows
no turn as ended that has not, unless the reader had not loaded the thread, and then names no
running turn (`FolSeen`); a late snapshot can therefore be wrong about what is running, never about
what ended. A finished card was seen (`FolCardsOK`). `FolKeeps` is what each step does to the held
results, and gives the action property.

**System error recovery.** `SysShape` holds in every behaviour: one open connection,
what an operation is by where it is, and what the Gateway's memory holds of its ledger.
`SysSound` holds until the device misses the answer to `restored`: at each place of the
operation it says what the ledger, the device's record and the thread are
(`SysOpening`, `SysArchiving`, `SysTelling`), so that a crash or a lost call at any of
them leaves a duty on record whenever the thread may be away. `SysLate` covers the
archive whose answer was lost and that happens afterwards.

**Capacity recovery.** A restart may read an older record than the one in memory, so what is
said of a record (`CapRecordOK(r)`) is said of both. It knows every turn that was resumed, and
what it may resume next was not resumed yet (`CapSentOK`); whatever may still be applied, or is
the last turn without the record knowing, is its own pending attempt (`CapDoubtOK`); and it counts
the automatic turns that lead to the one it resumes next (`CapCountOK`), each with the exceptions
`forgiven` and `rearmed`. `CapExecOK` says that between the claim and the request
the file *is* the record, which is why a restart cannot bring back one that allows a
second request. `ChainBounded` speaks of neighbouring turns, the record only of what it
resumes; `CapLink` joins them: a turn of a chain resumes the turn right before it, because a client
id still in doubt when a later one was sent is excepted (`CapOrderOK`). Snapshots are pasts
of the thread (`CapPast`). Steps of the thread, of the record alone, claims, requests
and restarts have their lemmas; a restart may forget a cancellation, and `CapForgotten` shows that
only that of the attempt in doubt can matter. The proof, and runs with up to four faults,
corrected two definitions that held with one fault only: `DoubtBlocks` did not except the
turns begun again (`rearmed`), and `Restart` kept cancellations whose record was never saved.

**The process lock.** The read, the probe of the pid, the claim on `service.lock.recovery`
and the removal are separate steps of any number of starters. `LockInv` says for each
place what the starter's last read still proves about the file: it may remove a lock
only if the process named in it is dead *and* nobody else can have replaced it since, which
holds because the claim is exclusive. `LockOver` and the two `Stuck` parts say what a death
may leave half done, and `alone` that a start nobody disturbed met nothing else.

**Update and release.** `NpmInv` ties the phase in the plan to the arrangements of the
four directories (`NpmArranged`: one before a rename, one after) and the place of the helper to the
rename that comes next (`NpmAbout`); `NpmNothingLost` is about what the user installs in
the meantime. `GateInv`: the gate of a live process is the one its journal names
(`GateOnJournal`), closed until its own release or an operator opens it (`GateHeld`),
behind a closed gate no hand-off begins (`GateQuiet`), and release.lock makes one
release at a time move artifacts (`GateLocked`, `GateInPlace`). `GateHolds` and
`NpmVerifiedByOwnChild` are action properties proved from the invariant of the state
before the step.

**Only model-checked.** Every liveness property (they rest on fairness and `ENABLED`,
which the prover does not treat): `HeadOfLineMoves`, `ResultsArrive`, `WaitingMovesOn`,
`NpmEndsServing`, `SysRestoreEnds`, `TurnIsRecognised`, and the release of the gate in `RepeatedInput`, whose
other two parts are proved (`ToldDurable`, `WrittenAtMostOnce`). And `SourceOrder`, which holds for two
inputs of a source and not for three (`forwarding_overtake`).
No module declares a `RECURSIVE` operator; the native queue removes an
item with `RemoveAt` and the inbox a row with `SubSeq` (`Without`) rather than with the fold of `SequencesExt!Remove`,
whose value the prover could only find by induction over data.

## 7. What is left out

Everywhere: contents, wording, logging, clocks (a timer may fire at any moment), and
the schemas of files. Per module:

- *InboundReceipts*: the thresholds of compaction (it may happen after any save);
  pruning of old receipts.
- *Forwarding*: the notice a held row's user sees (with a thread just created by an
  earlier input it says that the binding changed, though nobody changed it: listed as
  a hazard without a property); back-off times; attachments.
- *RuntimeWrites*: of `peer/receipts.ts` only what interrupts use (the rest is in
  `PeerExecution`); of the adapters only
  their writes and what a failure proves. The App keeps a record as "partial" without
  knowing whether the program was started; the model keeps that behaviour.
- *NativeQueue*: receipts of earlier releases (`lifecycleVersion` other than 2); the
  wording of `reason`; at most one outstanding delete and start per item.
- *CapacityRecovery*: delays and their growth; `closedBy` and `previousClosure`; the
  cap of 2000 retired turns; a changed backend and a lapsed binding are one condition;
  the last snapshot of an attempt stands for the two before it;
  `MaxAttempts` bounds what observers still report.
- *PeerExecution*: reads, observation, interactions and queue controls; other inputs except for
  their saves.
- *PromptBuffer*: the item limit; `done()`, which only tests call; the staging of files.
- *SessionControl*: expiry and pruning of old rows.
- *SystemRecovery*: cooldowns, attempts and notices (a request may come whenever the code allows
  one); a second failed turn of the thread.
- *Approvals*: the options of a request and its wording; the checks of the audience; user input,
  which shares the fanout; `add()` and the `updateNotice()` after it in `request()` are one save.
- *Following*: managed sessions, rebinding, progress switched off, text-only transports, cards of several
  pages, the bootstrap protocol of a card, participants, recovered inputs, the holds of
  capacity recovery, system errors, migrations of old journals.
- *ServiceLock*: a failed write of the recovery claim happens only with a death; pids are
  never reused.
- *CapacityRecovery*, *Forwarding*: `Submit` and `SendLeased` check and write in one step. Through a
  peer the guard is an awaited callback to the Gateway (`peer/write-guard.ts:12-17`); there the
  step is its last answer that allows the write, and the requests on their way (`wire`,
  `inflight`) stand for what follows.
- *NpmUpdate*, *ReleaseGate*: preparing, testing and downloading a release; the contents of
  directories.

External parts are modelled from how `src/` uses them: the App Server (turns, queue,
history that lags behind), the terminals behind Herdr, the users, the redelivery of the
IM platforms, and other writers of the same threads.

## 8. Plan

In this order; a later module may use an earlier one.

1. **`UserInputs`**: the questions of a task over the same fanout as `Approvals`, with
   answers prepared before they are asked.
2. **`Following`**, the rest: rebinding, managed sessions, cards of several pages.
3. **`BindingExpiry`**, **`Progress`**, **`IdeAccess`**, smaller protocols.
