------------------------------ MODULE Forwarding ------------------------------
(***************************************************************************)
(* The durable forwarding inbox of one conversation                        *)
(* (src/src/bridge/forwarding-inbox.ts), composed with the source receipt  *)
(* journal it relies on (InboundReceipts) and with the session binding     *)
(* that decides where a saved message may go.                              *)
(*                                                                         *)
(* deliver() runs without interruption up to the dispatch of the handler,  *)
(* so each outcome of that run is one action.  The handler then awaits     *)
(* references, attachments and the native core, and everything else may    *)
(* happen in between: other messages, /unbind and /reset, the timer, a     *)
(* restart.  Time is abstract: a pending row may be due at any moment.     *)
(***************************************************************************)
EXTENDS InboundReceipts, Sequences, FiniteSets

CONSTANTS
  Sessions,        \* sessions the conversation can be bound to
  NewSessions,     \* those that have no native thread yet
  NoSession,       \* the binding of a detached conversation
  Sources,         \* the pairs <<kind, lane>> a message may have
  PreparingLimit,  \* automatic rows handed over at a time (4 in the code)
  MaxFresh,        \* the user rebinds only while fewer identities were issued
  MaxInboxFaults   \* failed saves of the inbox file

ASSUME SessionsAssumption == NewSessions \subseteq Sessions /\ NoSession \notin Sessions
ASSUME LimitsAssumption ==
  PreparingLimit \in Nat /\ MaxFresh \in Nat /\ MaxInboxFaults \in Nat

\* automatic: ordinary text, /steer and /queue text.  buffer: the prompt-buffer
\* commands, which keep their place among the inputs but are never replayed.
\* bypass: every other command.
Lanes == {"automatic", "buffer", "bypass"}

ASSUME SourcesAssumption == Sources \subseteq Kinds \X Lanes

VARIABLES
  lane,        \* [Messages -> Lanes], fixed
  bound,       \* the session the conversation is bound to
  sessions,    \* [Sessions -> [thread, epoch]]: native thread (0: none) and generation
  fresh,       \* identities issued so far
  inbox,       \* this.rows, in insertion order
  file,        \* the rows a restart reads
  staging,     \* the message whose claim() is between its two saves, if any
  delivering,  \* this.processing and where deliver() stands
  lease,       \* the target a handler captured when it started
  inboxFaults, \* failed inbox saves so far
  retried      \* history: messages the user retargeted by hand

bindingVars == <<bound, sessions, fresh>>
rowVars == <<inbox, file, inboxFaults>>
forwardingVars == <<lane, bound, sessions, fresh, inbox, file, staging, delivering, lease, inboxFaults, retried>>
allVars == <<vars, forwardingVars>>

Automatic(m) == lane[m] = "automatic"
Ordered(m) == lane[m] \in {"automatic", "buffer"}

\* A target names the session, its thread and its execution generation.  Creating
\* the thread renews the generation too; the new thread already tells those apart.
Target == [session: Sessions \union {NoSession}, thread: Nat, epoch: Nat]

Unbound == [session |-> NoSession, thread |-> 0, epoch |-> 0]

Current == IF bound = NoSession THEN Unbound
           ELSE [session |-> bound, thread |-> sessions[bound].thread, epoch |-> sessions[bound].epoch]

\* The row that stage() creates.
NewRow(m) == [msg |-> m, state |-> "pending", target |-> Current, attempted |-> FALSE]

Has(rows, m) == \E i \in DOMAIN rows : rows[i].msg = m
Place(rows, m) == CHOOSE i \in DOMAIN rows : rows[i].msg = m
RowOf(m) == inbox[Place(inbox, m)]
\* The rows are a map: one message has one row.
Without(rows, m) == SubSeq(rows, 1, Place(rows, m) - 1) \o SubSeq(rows, Place(rows, m) + 1, Len(rows))

Concluded(m) == mem[m].phase \in {"accepted", "handled"}

\* save(): the whole file is replaced by rename; a failure may come after it.
SaveOver(old, rows, ok) ==
  \/ ok /\ file' = rows /\ UNCHANGED inboxFaults
  \/ /\ ~ok
     /\ inboxFaults < MaxInboxFaults
     /\ inboxFaults' = inboxFaults + 1
     /\ file' \in {old, rows}

SaveInbox(rows, ok) == SaveOver(file, rows, ok)

\* A field change of m's row that stays in memory when its save fails.
Write(m, row, ok) ==
  /\ inbox' = [inbox EXCEPT ![Place(inbox, m)] = row]
  /\ SaveInbox(inbox', ok)

\* remove(): a failed save puts the row back, now behind the others.  The file
\* holds `old` before the save.
RemoveFrom(old, rows, m) ==
  \/ inbox' = Without(rows, m) /\ SaveOver(old, inbox', TRUE)
  \/ /\ inbox' = Append(Without(rows, m), rows[Place(rows, m)])
     /\ SaveOver(old, Without(rows, m), FALSE)

Remove(m) == IF Has(inbox, m) THEN RemoveFrom(file, inbox, m) ELSE UNCHANGED rowVars

Delivering(m, d) == delivering' = [delivering EXCEPT ![m] = d]

-----------------------------------------------------------------------------
(* Receiving a message from a channel.                                      *)

\* claim(): the receipt is durable before the row is.
ClaimReceipt(m, ok) ==
  /\ Claim(m, ok)
  /\ staging' = IF ok THEN {m} ELSE {}
  /\ UNCHANGED <<lane, bindingVars, rowVars, delivering, lease, retried>>

\* stage(): a redelivered message keeps the row, and the target, it already has.
Stage(m) ==
  /\ IF Has(inbox, m) THEN UNCHANGED rowVars
     ELSE inbox' = Append(inbox, NewRow(m)) /\ SaveInbox(inbox', TRUE)
  /\ staging' = {}
  /\ UNCHANGED <<vars, lane, bindingVars, delivering, lease, retried>>

\* A row that could not be saved is forgotten and its claim released.
StageFails(m) ==
  /\ ~Has(inbox, m)
  /\ SaveInbox(Append(inbox, NewRow(m)), FALSE)
  /\ ReleasePreparation(m)
  /\ staging' = {}
  /\ UNCHANGED <<lane, bindingVars, inbox, delivering, lease, retried>>

-----------------------------------------------------------------------------
(* deliver(), called by receive() for a claimed message and by the timer.   *)

Idle(m) == delivering[m] = "no" /\ Has(inbox, m)

Preparing == {m \in Messages : delivering[m] # "no" /\ Has(inbox, m) /\ ~Concluded(m)}

\* receive() delivers what it just claimed; tick() takes pending rows, but starts
\* no more automatic ones than the limit.
Called(m, initial) ==
  IF initial THEN m \in claimed
  ELSE RowOf(m).state = "pending" /\ (Automatic(m) => Cardinality(Preparing) < PreparingLimit)

\* A settled receipt only cleans its row up.
CleanUp(m) ==
  /\ Idle(m)
  /\ Concluded(m)
  /\ Remove(m)
  /\ UNCHANGED <<vars, lane, bindingVars, staging, delivering, lease, retried>>

\* save() and inform(): the row stays in processing while its notice is sent.
Inform(m, row) ==
  /\ \E ok \in BOOLEAN : Write(m, row, ok) /\ Delivering(m, IF ok THEN "informing" ELSE "no")
  /\ UNCHANGED <<vars, lane, bindingVars, staging, lease, retried>>

KeepUnconfirmed(m) ==
  /\ Idle(m)
  /\ Called(m, FALSE)
  /\ Unsettled(mem[m])
  /\ Inform(m, [RowOf(m) EXCEPT !.state = "unconfirmed"])

Deliverable(m, initial) ==
  /\ Idle(m)
  /\ Called(m, initial)
  /\ mem[m].phase = "received"
  /\ RowOf(m).state = "pending"

\* A command that may have run before, or a message whose target is gone.
Stale(m, initial) ==
  \/ ~initial /\ ~Automatic(m) /\ RowOf(m).attempted
  \/ RowOf(m).target # Current

Hold(m, initial) ==
  /\ Deliverable(m, initial)
  /\ Stale(m, initial)
  /\ Inform(m, [RowOf(m) EXCEPT !.state = "held"])

\* Mutants: a retained unknown record is a barrier; only a live handoff is one.
PrecededForever(m) == \E i \in 1..(Place(inbox, m) - 1) : LET prior == inbox[i] IN
  /\ Ordered(prior.msg)
  /\ prior.target = RowOf(m).target
  /\ ~Concluded(prior.msg)

PrecededByHandoff(m) == \E i \in 1..(Place(inbox, m) - 1) : LET prior == inbox[i] IN
  /\ Ordered(prior.msg)
  /\ prior.target = RowOf(m).target
  /\ ~Concluded(prior.msg)
  /\ delivering[prior.msg] # "no"

\* An earlier input of the same target is being handed over, or still will be.
Preceded(m) == \E i \in 1..(Place(inbox, m) - 1) : LET prior == inbox[i] IN
  /\ Ordered(prior.msg)
  /\ prior.target = RowOf(m).target
  /\ ~Concluded(prior.msg)
  /\ delivering[prior.msg] # "no" \/ (prior.state = "pending" /\ mem[prior.msg].phase = "received")

Postpone(m, initial) ==
  /\ Deliverable(m, initial)
  /\ ~Stale(m, initial)
  /\ Ordered(m) /\ Preceded(m)
  /\ Inform(m, RowOf(m))

Due(m, initial) ==
  /\ Deliverable(m, initial)
  /\ ~Stale(m, initial)
  /\ ~(Ordered(m) /\ Preceded(m))

\* canDispatch(): the Gateway is not writable now.
AwaitGateway(m, initial) ==
  /\ Due(m, initial)
  /\ Inform(m, RowOf(m))

Attempt(m, ok) == Write(m, [RowOf(m) EXCEPT !.attempted = TRUE], ok)

\* The handler starts and captures its binding before its first await; a claim that
\* cannot be saved fails it at once.
Dispatch(m, initial) ==
  /\ Due(m, initial)
  /\ Attempt(m, TRUE)
  /\ \E ok \in BOOLEAN : Handle(m, ok) /\ Delivering(m, IF ok THEN "dispatching" ELSE "failed")
  /\ lease' = [lease EXCEPT ![m] = IF stage'[m] = "preparing" THEN Current ELSE @]
  /\ UNCHANGED <<lane, bindingVars, staging, retried>>

DispatchUnsaved(m, initial) ==
  /\ Due(m, initial)
  /\ Attempt(m, FALSE)
  /\ UNCHANGED <<vars, lane, bindingVars, staging, delivering, lease, retried>>

\* dispatchChannelMessage() throws before handle(): the channel is switching.
DispatchRefused(m, initial) ==
  /\ Due(m, initial)
  /\ Attempt(m, TRUE)
  /\ \E d \in {"deferred", "failed"} : Delivering(m, d)
  /\ UNCHANGED <<vars, lane, bindingVars, staging, lease, retried>>

InformEnds(m) ==
  /\ delivering[m] = "informing"
  /\ Delivering(m, "no")
  /\ UNCHANGED <<vars, lane, bindingVars, rowVars, staging, lease, retried>>

\* deliver() after a dispatch that returned.
DeliverEnds(m) ==
  /\ delivering[m] = "returned"
  /\ Remove(m)
  /\ Delivering(m, "no")
  /\ UNCHANGED <<vars, lane, bindingVars, staging, lease, retried>>

\* Mutant: a failed dispatch drops its row.
DropFailed(m) ==
  /\ delivering[m] \in {"deferred", "failed"}
  /\ Remove(m)
  /\ Delivering(m, "no")
  /\ UNCHANGED <<vars, lane, bindingVars, staging, lease, retried>>

\* deliver() after a dispatch that threw: an accepted receipt outranks the error,
\* a known-unsubmitted automatic message is tried again, anything else is kept.
DeliverFails(m) ==
  /\ delivering[m] \in {"deferred", "failed"}
  /\ \/ /\ Concluded(m)
        /\ Remove(m)
        /\ Delivering(m, "no")
     \/ /\ ~Concluded(m) /\ Has(inbox, m)
        /\ mem[m].phase = "received" /\ Automatic(m) /\ delivering[m] = "deferred"
        /\ \E ok \in BOOLEAN : Write(m, RowOf(m), ok) /\ Delivering(m, IF ok THEN "informing" ELSE "no")
     \/ /\ ~Concluded(m) /\ Has(inbox, m)
        /\ ~(mem[m].phase = "received" /\ Automatic(m) /\ delivering[m] = "deferred")
        /\ \E ok \in BOOLEAN :
             Write(m, [RowOf(m) EXCEPT !.state = IF Unsettled(mem[m]) THEN "unconfirmed" ELSE "held"], ok)
        /\ Delivering(m, "no")
  /\ UNCHANGED <<vars, lane, bindingVars, staging, lease, retried>>

-----------------------------------------------------------------------------
(* The handler, its lease on the binding, and the inbox.                    *)

Lift(action) == action /\ UNCHANGED forwardingVars

\* prepared(): downloaded attachments are saved with the row, or the message waits.
Prepared(m) ==
  /\ stage[m] = "preparing"
  /\ Has(inbox, m)
  /\ \/ Write(m, RowOf(m), TRUE) /\ UNCHANGED vars
     \/ Write(m, RowOf(m), FALSE) /\ Throw(m)
  /\ UNCHANGED <<lane, bindingVars, staging, delivering, lease, retried>>

\* submittingSessions: one turn or terminal handoff per session.
HandoffFree(m) == \A n \in Messages \ {m} :
  ~(/\ stage[n] \in {"submitting", "sent", "refused"}
    /\ kind[n] \in {"turn", "terminal"}
    /\ lease[n].session = lease[m].session)

\* TurnSubmission.run, enqueueNativeMessage, submitActiveThreadMessage and
\* runRuntimeInput check the lease right before the durable mark; a command is
\* marked without a target.
SubmitLeased(m, ok) ==
  /\ Submitting(m, kind[m] # "control" /\ lease[m].thread # 0, ok)
  /\ Automatic(m) => lease[m] = Current
  /\ kind[m] # "control" => lease[m].session # NoSession
  /\ kind[m] \in {"turn", "terminal"} => HandoffFree(m)
  /\ UNCHANGED forwardingVars

\* The receipt is saved first, then acceptThread() advances binding and lease, if
\* the lease still holds.
CreateThread(m, ok) ==
  /\ ThreadCreated(m, ok)
  /\ fresh' = fresh + 1
  /\ sessions' = IF ok /\ lease[m] = Current
                 THEN [sessions EXCEPT ![bound].thread = fresh + 1] ELSE sessions
  /\ lease' = [lease EXCEPT ![m].thread = fresh + 1]
  /\ UNCHANGED <<lane, bound, rowVars, staging, delivering, retried>>

\* Mutant: the binding is not looked at again before the native request.
SendUnguarded(m) == Lift(Send(m))

\* guardNativeWrite(): the lease is checked in the same synchronous run as the write.
\* Through a peer this is the Gateway's last answer that allows it (peer/write-guard.ts).
SendLeased(m) == lease[m] = Current /\ Lift(Send(m))

\* accepted(): the target of rows that waited for this very thread to be created.
ThreadAwaited(m) ==
  /\ RowOf(m).target.session # NoSession
  /\ RowOf(m).target.thread = 0
  /\ Current.session = RowOf(m).target.session
  /\ Current.session = lease[m].session
  /\ Current.thread = lease[m].thread

Advanced(m) == [i \in DOMAIN inbox |->
  IF inbox[i].state = "pending" /\ inbox[i].target = RowOf(m).target
  THEN [inbox[i] EXCEPT !.target = Current] ELSE inbox[i]]

\* The inbox callback of a durable acceptance that names a turn or a queue item;
\* its errors are swallowed.
AcceptedRow(m) ==
  IF kind[m] = "terminal" \/ ~Has(inbox, m) THEN UNCHANGED rowVars
  ELSE \/ ~ThreadAwaited(m) /\ Remove(m)
       \/ ThreadAwaited(m) /\ RemoveFrom(Advanced(m), Advanced(m), m)
       \/ ThreadAwaited(m) /\ inbox' = Advanced(m) /\ SaveInbox(inbox', FALSE)

\* onAccepted, called by accepted(), queued() and the recoveries.
OnAccepted(m, ok) ==
  /\ IF ok THEN AcceptedRow(m) ELSE UNCHANGED rowVars
  /\ UNCHANGED <<lane, bindingVars, staging, delivering, lease, retried>>

\* What is left of a lease when its handler is gone: the session and thread that an
\* unsettled receipt records.
Recorded(m) ==
  IF Unsettled(mem'[m]) \/ Unsettled(disk'[m]) THEN [lease[m] EXCEPT !.epoch = 0] ELSE Unbound

\* handle() returns to deliver(), or throws a class of error deliver() tells apart.
HandlerReturns(m) ==
  /\ Finish(m, TRUE)
  /\ Delivering(m, "returned")
  /\ lease' = [lease EXCEPT ![m] = Recorded(m)]
  /\ UNCHANGED <<lane, bindingVars, rowVars, staging, retried>>

HandlerThrows(m) ==
  /\ \E ok \in BOOLEAN :
       \/ CatchUnknown(m, ok) /\ \E d \in {"deferred", "failed"} : Delivering(m, d)
       \/ CatchDefinite(m, ok) /\ Delivering(m, IF ok THEN "deferred" ELSE "failed")
       \/ CatchDefinite(m, ok) /\ Delivering(m, "failed")
  /\ lease' = [lease EXCEPT ![m] = Recorded(m)]
  /\ UNCHANGED <<lane, bindingVars, rowVars, staging, retried>>

-----------------------------------------------------------------------------
(* The user: retrying and cancelling saved rows, and changing the binding.  *)

Controllable(m) == Idle(m) /\ mem[m].phase = "received"

\* retry(): only here may a row take another target.
Retry(m) ==
  /\ Controllable(m)
  /\ Automatic(m)
  /\ bound # NoSession
  /\ LET rows == [inbox EXCEPT ![Place(inbox, m)].target = Current, ![Place(inbox, m)].state = "pending"]
     IN \/ inbox' = rows /\ SaveInbox(rows, TRUE)
        \/ inbox' = inbox /\ SaveInbox(rows, FALSE)
  /\ retried' = retried \union {m}
  /\ UNCHANGED <<vars, lane, bindingVars, staging, delivering, lease>>

\* Mutant: cancelling forgets the receipt instead of keeping a tombstone.
CancelForgets(m) ==
  /\ Controllable(m)
  /\ mem' = [mem EXCEPT ![m] = Absent] /\ disk' = mem'
  /\ claimed' = claimed \ {m}
  /\ Remove(m)
  /\ UNCHANGED <<kind, stage, appendUnavailable, expected, inflight, turns, output, faults,
                 lane, bindingVars, staging, delivering, lease, retried>>

\* cancel(): the receipt is settled first, then the row goes.
Cancel(m) ==
  /\ Controllable(m)
  /\ \E ok \in BOOLEAN : Abandon(m, ok) /\ IF ok THEN Remove(m) ELSE UNCHANGED rowVars
  /\ UNCHANGED <<lane, bindingVars, staging, delivering, lease, retried>>

\* onMessageError(): a receive() that failed before its handler took the claim.
ReleaseClaim(m) ==
  /\ Idle(m)
  /\ RowOf(m).attempted
  /\ Lift(ReleasePreparation(m))

Rebinding == fresh < MaxFresh /\ fresh' = fresh + 1
             /\ UNCHANGED <<vars, lane, rowVars, staging, delivering, lease, retried>>

\* activateSession(): a session bound again gets a new generation.
Attach(s) ==
  /\ s # bound
  /\ Rebinding
  /\ bound' = s
  /\ sessions' = [sessions EXCEPT ![s].epoch = fresh + 1]

\* detachSessionSelection()
Detach ==
  /\ bound # NoSession
  /\ Rebinding
  /\ bound' = NoSession
  /\ sessions' = [sessions EXCEPT ![bound].epoch = fresh + 1]

\* resetSession()
Reset ==
  /\ bound # NoSession
  /\ Rebinding
  /\ sessions' = [sessions EXCEPT ![bound] = [thread |-> 0, epoch |-> fresh + 1]]
  /\ UNCHANGED bound

\* The state store keeps the binding; everything in progress is gone.
RestartInbox ==
  /\ Restart
  /\ inbox' = file
  /\ staging' = {}
  /\ delivering' = [m \in Messages |-> "no"]
  /\ lease' = [m \in Messages |-> Recorded(m)]
  /\ UNCHANGED <<lane, bindingVars, file, inboxFaults, retried>>

-----------------------------------------------------------------------------

ForwardingInit ==
  /\ Init
  /\ lane \in [Messages -> Lanes]
  /\ \A m \in Messages : <<kind[m], lane[m]>> \in Sources
  /\ bound \in Sessions
  /\ sessions = [s \in Sessions |-> [thread |-> IF s \in NewSessions THEN 0 ELSE 1, epoch |-> 0]]
  /\ fresh = 1
  /\ inbox = <<>>
  /\ file = <<>>
  /\ staging = {}
  /\ delivering = [m \in Messages |-> "no"]
  /\ lease = [m \in Messages |-> Unbound]
  /\ inboxFaults = 0
  /\ retried = {}

DeliverStep(m) ==
  \/ CleanUp(m) \/ KeepUnconfirmed(m) \/ InformEnds(m) \/ DeliverEnds(m) \/ DeliverFails(m)
  \/ \E initial \in BOOLEAN : \/ Hold(m, initial) \/ Postpone(m, initial)
                              \/ AwaitGateway(m, initial) \/ Dispatch(m, initial)
                              \/ DispatchUnsaved(m, initial) \/ DispatchRefused(m, initial)

LeasedStep(m) ==
  \/ Prepared(m) \/ SendLeased(m) \/ HandlerReturns(m) \/ HandlerThrows(m)
  \/ Lift(Acknowledged(m)) \/ Lift(Answered(m)) \/ Lift(Throw(m))
  \/ \E ok \in BOOLEAN : \/ SubmitLeased(m, ok) \/ CreateThread(m, ok)
                         \/ (Accepted(m, ok) /\ OnAccepted(m, ok)) \/ (Completed(m, ok) /\ OnAccepted(m, ok))
                         \/ Lift(RuntimeUnconfirmed(m, ok)) \/ (~ok /\ Lift(Finish(m, ok)))

ObserverStep(m) ==
  \/ Lift(Observe(m)) \/ Lift(ObservationEnds(m))
  \/ \E ok \in BOOLEAN : \/ (RecoverAccepted(m, ok) /\ OnAccepted(m, ok)) \/ (RecoverOwned(m, ok) /\ OnAccepted(m, ok))
                         \/ Lift(RecoveredResultDelivered(m, ok))

UserStep(m) ==
  \/ Retry(m) \/ Cancel(m) \/ ReleaseClaim(m)
  \/ \E ok \in BOOLEAN : ClaimReceipt(m, ok)

MessageStep(m) == DeliverStep(m) \/ LeasedStep(m) \/ Lift(NativeStep(m)) \/ ObserverStep(m) \/ UserStep(m)

StageStep == \E m \in Messages : m \in staging /\ (Stage(m) \/ StageFails(m))

\* claim() is not interrupted between its two saves, except by the death of the process.
ForwardingNext ==
  \/ StageStep
  \/ staging = {} /\ \E m \in Messages : MessageStep(m)
  \/ staging = {} /\ (Detach \/ Reset \/ \E s \in Sessions : Attach(s))
  \/ RestartInbox

ForwardingSpec == ForwardingInit /\ [][ForwardingNext]_allVars

\* The timer ticks every second, the event loop runs handlers and notices to their
\* end, and the Gateway is writable at one tick or another.  The two saves of a claim
\* are one uninterrupted run: being between them (staging # {}) excuses none of these.
ForwardingFairness ==
  /\ WF_allVars(StageStep)
  /\ \A m \in Messages :
       /\ SF_allVars(Dispatch(m, FALSE))
       /\ WF_allVars(LeasedStep(m))
       /\ WF_allVars(InformEnds(m) \/ DeliverEnds(m) \/ DeliverFails(m))

FairForwardingSpec == ForwardingSpec /\ ForwardingFairness

-----------------------------------------------------------------------------
(* Properties.                                                              *)

RowType == [msg: Messages, state: {"pending", "held", "unconfirmed"}, target: Target, attempted: BOOLEAN]

ForwardingTypeOK ==
  /\ TypeOK
  /\ lane \in [Messages -> Lanes]
  /\ bound \in Sessions \union {NoSession}
  /\ sessions \in [Sessions -> [thread: Nat, epoch: Nat]]
  /\ fresh \in Nat
  /\ \A rows \in {inbox, file} : /\ \A i \in DOMAIN rows : rows[i] \in RowType
                               /\ \A i, j \in DOMAIN rows : rows[i].msg = rows[j].msg => i = j
  /\ staging \subseteq Messages /\ Cardinality(staging) <= 1
  /\ delivering \in [Messages -> {"no", "dispatching", "informing", "returned", "deferred", "failed"}]
  /\ lease \in [Messages -> Target]
  /\ inboxFaults \in 0..MaxInboxFaults
  /\ retried \subseteq Messages

\* The inbox drives the receipt journal only in the ways the journal allows.
JournalSpec == Spec

Sends(m) == inflight'[m] > inflight[m]

\* Saved input is never redirected: the native request of an automatic message
\* leaves only while its row is kept and the binding is the one the row names, the
\* thread its own submission created included, however often the conversation
\* switched away and back while the message was being prepared.
TargetConfined == [][\A m \in Messages : Sends(m) /\ Automatic(m) =>
  /\ Has(inbox, m)
  /\ RowOf(m).target.session = Current.session
  /\ RowOf(m).target.epoch = Current.epoch
  /\ RowOf(m).target.thread \in {0, Current.thread}]_allVars

\* "Preserve the source order through native acceptance": an input is not sent while
\* an earlier input of the same target is still waiting to be, unless the user put
\* that one back by hand.
SourceOrder == [][\A m \in Messages : Sends(m) /\ Ordered(m) =>
  \A i \in 1..(Place(inbox, m) - 1) : LET prior == inbox[i] IN
    ~(/\ Ordered(prior.msg)
      /\ prior.msg \notin retried
      /\ prior.target = RowOf(m).target
      /\ prior.state = "pending"
      /\ mem[prior.msg].phase = "received")]_allVars

\* The saved body outlives every doubt: the row of a message the channel was told is
\* kept leaves the file only when the file of the receipts already says that the
\* message needs no dispatch.
BodyOutlivesDoubt == [][\A m \in Messages :
  Has(inbox, m) /\ Has(file, m) /\ ~Has(file', m) => disk'[m].phase \in {"accepted", "handled"}]_allVars

\* The rows stay well formed and no body is given up early.
InboxIsKept == []ForwardingTypeOK /\ BodyOutlivesDoubt

\* A row retained as held or unconfirmed does not lock the conversation: a saved
\* automatic message whose target is still bound does not wait forever when no
\* other input is pending.
Stuck(m) ==
  /\ Has(inbox, m) /\ Automatic(m)
  /\ RowOf(m).state = "pending" /\ ~RowOf(m).attempted
  /\ mem[m].phase = "received"
  /\ RowOf(m).target = Current
  /\ \A n \in Messages \ {m} : ~(Has(inbox, n) /\ RowOf(n).state = "pending" /\ mem[n].phase = "received")

HeadOfLineMoves == \A m \in Messages : ~<>[]Stuck(m)

\* Pending messages follow no detach and rebind: without the user's retry a row
\* keeps the generation it was saved for.
NoFollowRebind == [][\A m \in Messages :
  (Has(inbox, m) /\ Has(inbox', m) /\ m \notin retried') =>
    inbox'[Place(inbox', m)].target.epoch = RowOf(m).target.epoch]_allVars
=============================================================================
