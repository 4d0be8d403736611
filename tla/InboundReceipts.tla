--------------------------- MODULE InboundReceipts ---------------------------
(***************************************************************************)
(* The source receipt journal of one Gateway account                       *)
(* (src/src/bridge/inbound-receipts.ts) and the handler that drives it:    *)
(* AccountManager.dispatchChannelMessage, BridgeService.handleMessage and  *)
(* TurnSubmission.run.  The native core (the Codex App Server, or the      *)
(* terminal behind a Connector) is external: it is modelled by the         *)
(* requests in flight to it and the turns it created.                      *)
(*                                                                         *)
(* The journal lives twice: `mem` is the receipts object, `disk` the value *)
(* a restart would read back from the append-only file.  A save may fail   *)
(* before or after its bytes are durable, so the two may differ.           *)
(***************************************************************************)
EXTENDS Naturals

CONSTANTS Messages,    \* source message identities of the account
          Legacy,      \* the identities the older release recorded in its own store
          MaxFaults    \* how many failed saves and process deaths a behaviour has

ASSUME LegacyAssumption == Legacy \subseteq Messages
ASSUME MaxFaultsAssumption == MaxFaults \in Nat

\* What a message turns into: an ordinary turn, a /queue submission, input for
\* a terminal runtime, or a control command (steer, stop, ...).
Kinds == {"turn", "queue", "terminal", "control"}

Phases == {"absent", "received", "submitting", "accepted", "handled", "unconfirmed"}

\* scope says which of nativeInput, runtimeInput or neither the receipt carries;
\* thread and turn whether threadId and turnId (or queuedSubmissionId) are known.
Scopes == {"none", "native", "runtime", "plain"}

Receipt == [phase: Phases, scope: Scopes, thread: BOOLEAN, turn: BOOLEAN, recovered: BOOLEAN]

Absent == [phase |-> "absent", scope |-> "none", thread |-> FALSE, turn |-> FALSE, recovered |-> FALSE]

\* Where the handler of a message stands.  processing is every stage but "idle".
Stages == {"idle", "preparing", "submitting", "sent", "refused", "answered", "returned", "threw"}

VARIABLES
  kind,               \* [Messages -> Kinds], fixed
  mem,                \* this.receipts
  disk,               \* the receipts a restart reads
  claimed,            \* this.claimed
  stage,              \* the handler of each message
  appendUnavailable,  \* this.appendUnavailable
  expected,           \* the receipt a native history read was started for, Absent if none
  inflight,           \* native requests sent and not yet taken or lost
  turns,              \* native turns, queue items or terminal inputs created for a message
  output,             \* who delivered the result: "live" handler, "recovered" duty
  faults              \* failed saves and process deaths so far

journalVars == <<mem, disk, appendUnavailable, faults>>
vars == <<kind, mem, disk, claimed, stage, appendUnavailable, expected, inflight, turns, output, faults>>

Processing(m) == stage[m] # "idle"

-----------------------------------------------------------------------------
(* Saving.  `ok` is whether save() returned normally.                       *)

Appended(m, r) == [disk EXCEPT ![m] = r]

\* compact() rewrites the whole file from memory.
Compacted(m, r) == [mem EXCEPT ![m] = r]

\* save(): append and fsync, truncate a failed append, and stop appending when
\* that repair fails too.  Every 1024 writes a large file is compacted after the
\* append; a compaction that throws leaves the appended (or rewritten) fact durable.
Save(m, r, ok) ==
  \/ /\ ok
     /\ ~appendUnavailable
     /\ disk' \in {Appended(m, r), Compacted(m, r)}
     /\ UNCHANGED <<appendUnavailable, faults>>
  \/ /\ ~ok
     /\ appendUnavailable
     /\ UNCHANGED <<disk, appendUnavailable, faults>>
  \/ /\ ~ok
     /\ ~appendUnavailable
     /\ faults < MaxFaults
     /\ faults' = faults + 1
     /\ \/ disk' = disk /\ appendUnavailable' = FALSE
        \/ disk' \in {disk, Appended(m, r)} /\ appendUnavailable' = TRUE
        \/ disk' \in {Appended(m, r), Compacted(m, r)} /\ appendUnavailable' = FALSE

\* Mutant: memory advances first and the file is written later.
LazyTransition(m, r, ok) ==
  /\ ok
  /\ mem' = [mem EXCEPT ![m] = r]
  /\ UNCHANGED <<disk, appendUnavailable, faults>>

\* transition(): a failed save restores the previous receipt in memory.
Transition(m, r, ok) ==
  /\ Save(m, r, ok)
  /\ mem' = IF ok THEN [mem EXCEPT ![m] = r] ELSE mem

-----------------------------------------------------------------------------
(* Claiming and entering the handler.                                       *)

Claimable(m) ==
  /\ m \notin claimed
  /\ ~Processing(m)
  /\ mem[m].phase \in {"absent", "received"}

\* The receipt claim() saves: a redelivery keeps the receipt it finds.
ClaimedReceipt(m) ==
  IF mem[m].phase = "absent" THEN [Absent EXCEPT !.phase = "received"] ELSE mem[m]

\* The save of claim(): unlike transition() a failure keeps the new receipt in memory.
ClaimSave(m, ok) ==
  /\ Save(m, ClaimedReceipt(m), ok)
  /\ mem' = [mem EXCEPT ![m] = ClaimedReceipt(m)]

Claim(m, ok) ==
  /\ Claimable(m)
  /\ ClaimSave(m, ok)
  /\ claimed' = IF ok THEN claimed \union {m} ELSE claimed
  /\ UNCHANGED <<kind, stage, expected, inflight, turns, output>>

ReleasePreparation(m) ==
  /\ m \in claimed
  /\ ~Processing(m)
  /\ mem[m].phase = "received"
  /\ claimed' = claimed \ {m}
  /\ UNCHANGED <<kind, mem, disk, stage, appendUnavailable, expected, inflight, turns, output, faults>>

\* handle(): a claimed message starts at once, any other one is claimed first.
Handle(m, ok) ==
  /\ ~Processing(m)
  /\ \/ /\ m \in claimed
        /\ ok
        /\ UNCHANGED <<mem, disk, appendUnavailable, faults>>
     \/ /\ Claimable(m)
        /\ ClaimSave(m, ok)
  /\ claimed' = claimed \ {m}
  /\ stage' = IF ok THEN [stage EXCEPT ![m] = "preparing"] ELSE stage
  /\ UNCHANGED <<kind, expected, inflight, turns, output>>

Goto(m, s) == stage' = [stage EXCEPT ![m] = s]

-----------------------------------------------------------------------------
(* The handler.                                                             *)

ScopeOf(m) == CASE kind[m] = "turn" -> "native"
                [] kind[m] = "terminal" -> "runtime"
                [] OTHER -> "plain"

\* capture().submitting(): durable before the native request.  A turn may start
\* without a thread and a command names none; queue and terminal input always has
\* one.  A failed save leaves handle() with a received receipt.
Submitting(m, thread, ok) ==
  /\ stage[m] = "preparing"
  /\ thread \/ kind[m] \in {"turn", "control"}
  /\ Transition(m, [mem[m] EXCEPT !.scope = ScopeOf(m), !.thread = thread,
                     !.phase = IF @ = "received" THEN "submitting" ELSE @], ok)
  /\ Goto(m, IF ok THEN "submitting" ELSE "threw")
  /\ UNCHANGED <<kind, claimed, expected, inflight, turns, output>>

\* onThreadCreated: the new thread is durable before turn/start.
ThreadCreated(m, ok) ==
  /\ stage[m] = "submitting"
  /\ kind[m] = "turn"
  /\ ~mem[m].thread
  /\ Transition(m, [mem[m] EXCEPT !.thread = TRUE], ok)
  /\ Goto(m, IF ok THEN "submitting" ELSE "threw")
  /\ UNCHANGED <<kind, claimed, expected, inflight, turns, output>>

\* The native request leaves the Gateway.
Send(m) ==
  /\ stage[m] = "submitting"
  /\ mem[m].thread \/ kind[m] = "control"
  /\ inflight' = [inflight EXCEPT ![m] = @ + 1]
  /\ Goto(m, "sent")
  /\ UNCHANGED <<kind, mem, disk, claimed, appendUnavailable, expected, turns, output, faults>>

\* onTurnStarted, queued() and runtimeAccepted().  A control command records no
\* acceptance of its own.
Accepted(m, ok) ==
  /\ stage[m] = "sent"
  /\ turns[m] > 0
  /\ kind[m] # "control"
  /\ Transition(m, [mem[m] EXCEPT !.phase = "accepted", !.turn = (kind[m] # "terminal")], ok)
  /\ Goto(m, IF ok THEN "answered" ELSE "threw")
  /\ UNCHANGED <<kind, claimed, expected, inflight, turns, output>>

\* An accepted terminal or queue input ends its handler; the result of a queue
\* item belongs to the queue coordinator, that of a terminal to its observer.
Acknowledged(m) ==
  /\ stage[m] = "answered"
  /\ kind[m] # "turn"
  /\ Goto(m, "returned")
  /\ UNCHANGED <<kind, mem, disk, claimed, appendUnavailable, expected, inflight, turns, output, faults>>

\* An accepted turn ran to its end: the acceptance is saved once more, then the
\* result is delivered.
Completed(m, ok) ==
  /\ stage[m] = "answered"
  /\ kind[m] = "turn"
  /\ Transition(m, [mem[m] EXCEPT !.phase = "accepted"], ok)
  /\ Goto(m, IF ok THEN "returned" ELSE "threw")
  /\ output' = IF ok THEN [output EXCEPT ![m] = @ \union {"live"}] ELSE output
  /\ UNCHANGED <<kind, claimed, expected, inflight, turns>>

\* The handler returns without an acceptance of its own: a local reply, a control
\* command, a queue item whose receipt already moved on.
Answered(m) ==
  /\ \/ stage[m] = "preparing"
     \/ stage[m] = "submitting" /\ kind[m] = "control"
     \/ stage[m] = "sent" /\ turns[m] > 0 /\ kind[m] \in {"control", "queue"}
  /\ Goto(m, "returned")
  /\ UNCHANGED <<kind, mem, disk, claimed, appendUnavailable, expected, inflight, turns, output, faults>>

\* handle() after a normal return.  A failed save is caught like any other error.
Finish(m, ok) ==
  /\ stage[m] = "returned"
  /\ \/ /\ mem[m].scope = "runtime" /\ mem[m].phase = "unconfirmed"
        /\ ok
        /\ UNCHANGED journalVars
     \/ /\ ~(mem[m].scope = "runtime" /\ mem[m].phase = "unconfirmed")
        /\ Transition(m, [mem[m] EXCEPT !.phase = "handled"], ok)
  /\ Goto(m, IF ok THEN "idle" ELSE "threw")
  /\ UNCHANGED <<kind, claimed, expected, inflight, turns, output>>

\* runtimeUnconfirmed() on a handoff receipt that is neither confirmed nor not-sent.
RuntimeUnconfirmed(m, ok) ==
  /\ stage[m] = "sent"
  /\ kind[m] = "terminal"
  /\ Transition(m, [mem[m] EXCEPT !.phase = "unconfirmed"], ok)
  /\ Goto(m, "threw")
  /\ UNCHANGED <<kind, claimed, expected, inflight, turns, output>>

\* An error that does not prove the input unsubmitted: preparation failures,
\* a guard that rejects the binding, timeouts, lost connections.
Throw(m) ==
  /\ stage[m] \in {"preparing", "submitting", "sent", "refused", "answered"}
  /\ Goto(m, "threw")
  /\ UNCHANGED <<kind, mem, disk, claimed, appendUnavailable, expected, inflight, turns, output, faults>>

\* Mutants: an unknown outcome is taken for "not submitted"; a late error
\* overwrites an accepted receipt.
OptimisticCatch(m, ok) ==
  /\ stage[m] = "threw"
  /\ Transition(m, [mem[m] EXCEPT !.phase = "received"], ok)
  /\ Goto(m, "idle")
  /\ UNCHANGED <<kind, claimed, expected, inflight, turns, output>>

OverwritingCatch(m, ok) ==
  /\ stage[m] = "threw"
  /\ Transition(m, [mem[m] EXCEPT !.phase = "unconfirmed"], ok)
  /\ Goto(m, "idle")
  /\ UNCHANGED <<kind, claimed, expected, inflight, turns, output>>

\* The catch of handle() for every error that is not a definite refusal.
CatchUnknown(m, ok) ==
  /\ stage[m] = "threw"
  /\ \/ /\ mem[m].phase = "submitting"
        /\ Transition(m, [mem[m] EXCEPT !.phase = "unconfirmed"], ok)
     \/ /\ mem[m].phase # "submitting"
        /\ ok
        /\ UNCHANGED journalVars
  /\ Goto(m, "idle")
  /\ UNCHANGED <<kind, claimed, expected, inflight, turns, output>>

\* The catch of handle() for an error that proves nothing was submitted: raised
\* before the request left (not-submitted, capability, admission), or an explicit
\* refusal of the native core.  Terminal errors are not of these classes.
CatchDefinite(m, ok) ==
  /\ stage[m] \in {"submitting", "refused"}
  /\ kind[m] # "terminal"
  /\ \/ /\ mem[m].phase = "submitting"
        /\ Transition(m, [mem[m] EXCEPT !.phase = "received"], ok)
     \/ /\ mem[m].phase # "submitting"
        /\ ok
        /\ UNCHANGED journalVars
  /\ Goto(m, "idle")
  /\ UNCHANGED <<kind, claimed, expected, inflight, turns, output>>

-----------------------------------------------------------------------------
(* The native core.                                                         *)

NativeApply(m) ==
  /\ inflight[m] > 0
  /\ inflight' = [inflight EXCEPT ![m] = @ - 1]
  /\ turns' = [turns EXCEPT ![m] = @ + 1]
  /\ UNCHANGED <<kind, mem, disk, claimed, stage, appendUnavailable, expected, output, faults>>

NativeLose(m) ==
  /\ inflight[m] > 0
  /\ inflight' = [inflight EXCEPT ![m] = @ - 1]
  /\ UNCHANGED <<kind, mem, disk, claimed, stage, appendUnavailable, expected, turns, output, faults>>

\* An explicit refusal (thread busy, queue full) reaches the waiting handler.
NativeRefuse(m) ==
  /\ inflight[m] > 0
  /\ stage[m] = "sent"
  /\ inflight' = [inflight EXCEPT ![m] = @ - 1]
  /\ Goto(m, "refused")
  /\ UNCHANGED <<kind, mem, disk, claimed, appendUnavailable, expected, turns, output, faults>>

-----------------------------------------------------------------------------
(* Cancelling, and recovery from read-only evidence.                        *)

Abandon(m, ok) ==
  /\ mem[m].phase = "received"
  /\ ~Processing(m)
  /\ Transition(m, [mem[m] EXCEPT !.phase = "handled"], ok)
  /\ claimed' = IF ok THEN claimed \ {m} ELSE claimed
  /\ UNCHANGED <<kind, stage, expected, inflight, turns, output>>

Unsettled(r) == r.phase \in {"submitting", "unconfirmed"}

\* Mutant: receipts that ended unconfirmed are not read again.
ObserveSubmittingOnly(m) ==
  /\ expected[m] = Absent
  /\ mem[m].phase = "submitting"
  /\ mem[m].scope = "native"
  /\ mem[m].thread
  /\ expected' = [expected EXCEPT ![m] = mem[m]]
  /\ UNCHANGED <<kind, mem, disk, claimed, stage, appendUnavailable, inflight, turns, output, faults>>

\* recoverNativeInputs(): the candidates of one history read, taken before it.
Observe(m) ==
  /\ expected[m] = Absent
  /\ Unsettled(mem[m])
  /\ mem[m].scope = "native"
  /\ mem[m].thread
  /\ expected' = [expected EXCEPT ![m] = mem[m]]
  /\ UNCHANGED <<kind, mem, disk, claimed, stage, appendUnavailable, inflight, turns, output, faults>>

\* Mutant: the live handler is not looked at.
RecoverBesideHandler(m) ==
  /\ Unsettled(mem[m])
  /\ mem[m].scope # "runtime"
  /\ mem[m] = expected[m]

\* recoverAccepted(): the guard that a late read must pass.
RecoverAdmitted(m) ==
  /\ ~Processing(m)
  /\ Unsettled(mem[m])
  /\ mem[m].scope # "runtime"
  /\ mem[m] = expected[m]

\* The history read found the input exactly once.
RecoverAccepted(m, ok) ==
  /\ expected[m] # Absent
  /\ turns[m] = 1
  /\ RecoverAdmitted(m)
  /\ Transition(m, [mem[m] EXCEPT !.phase = "accepted", !.turn = TRUE, !.recovered = TRUE], ok)
  /\ expected' = [expected EXCEPT ![m] = Absent]
  /\ UNCHANGED <<kind, claimed, stage, inflight, turns, output>>

\* The read found nothing, failed, or came back too late.
ObservationEnds(m) ==
  /\ expected[m] # Absent
  /\ turns[m] # 1 \/ ~RecoverAdmitted(m)
  /\ expected' = [expected EXCEPT ![m] = Absent]
  /\ UNCHANGED <<kind, mem, disk, claimed, stage, appendUnavailable, inflight, turns, output, faults>>

\* recoverQueued() and recoverRuntimeAccepted(): the queue coordinator or the
\* Connector handoff holds the exact receipt of this source.
RecoverOwned(m, ok) ==
  /\ kind[m] \in {"queue", "terminal"}
  /\ mem[m].scope = ScopeOf(m)
  /\ turns[m] > 0
  /\ ~Processing(m)
  /\ Unsettled(mem[m])
  /\ Transition(m, [mem[m] EXCEPT !.phase = "accepted", !.turn = (kind[m] = "queue")], ok)
  /\ UNCHANGED <<kind, claimed, stage, expected, inflight, turns, output>>

\* recoveredResultDelivered(): the result delivery journal settled the duty.
RecoveredResultDelivered(m, ok) ==
  /\ mem[m].phase = "accepted"
  /\ mem[m].recovered
  /\ Transition(m, [mem[m] EXCEPT !.phase = "handled"], ok)
  /\ output' = [output EXCEPT ![m] = @ \union {"recovered"}]
  /\ UNCHANGED <<kind, claimed, stage, expected, inflight, turns>>

\* The constructor: the receipts of the file, and a handled tombstone for every
\* identity only the older store knows.
Loaded(file) == [m \in Messages |-> IF m \in Legacy /\ file[m].phase = "absent"
                                     THEN [Absent EXCEPT !.phase = "handled"] ELSE file[m]]

\* The process dies at any point and the constructor reads the file back: a torn
\* last line is cut off, every complete line counts.
Restart ==
  /\ faults < MaxFaults
  /\ faults' = faults + 1
  /\ mem' = Loaded(disk)
  /\ disk' = Loaded(disk)
  /\ claimed' = {}
  /\ stage' = [m \in Messages |-> "idle"]
  /\ appendUnavailable' = FALSE
  /\ expected' = [m \in Messages |-> Absent]
  /\ UNCHANGED <<kind, inflight, turns, output>>

-----------------------------------------------------------------------------

Init ==
  /\ kind \in [Messages -> Kinds]
  /\ mem = Loaded([m \in Messages |-> Absent])
  /\ disk = Loaded([m \in Messages |-> Absent])
  /\ claimed = {}
  /\ stage = [m \in Messages |-> "idle"]
  /\ appendUnavailable = FALSE
  /\ expected = [m \in Messages |-> Absent]
  /\ inflight = [m \in Messages |-> 0]
  /\ turns = [m \in Messages |-> 0]
  /\ output = [m \in Messages |-> {}]
  /\ faults = 0

HandlerStep(m) ==
  \/ Send(m) \/ Acknowledged(m) \/ Answered(m) \/ Throw(m)
  \/ \E ok \in BOOLEAN :
        \/ \E thread \in BOOLEAN : Submitting(m, thread, ok)
        \/ ThreadCreated(m, ok) \/ Accepted(m, ok) \/ Completed(m, ok)
        \/ Finish(m, ok) \/ RuntimeUnconfirmed(m, ok)
        \/ CatchUnknown(m, ok) \/ CatchDefinite(m, ok)

NativeStep(m) == NativeApply(m) \/ NativeLose(m) \/ NativeRefuse(m)

RecoveryStep(m) ==
  \/ Observe(m) \/ ObservationEnds(m)
  \/ \E ok \in BOOLEAN : \/ RecoverAccepted(m, ok) \/ RecoverOwned(m, ok)
                         \/ RecoveredResultDelivered(m, ok)

SourceStep(m) ==
  \/ ReleasePreparation(m)
  \/ \E ok \in BOOLEAN : Claim(m, ok) \/ Handle(m, ok) \/ Abandon(m, ok)

Next ==
  \/ \E m \in Messages : SourceStep(m) \/ HandlerStep(m) \/ NativeStep(m) \/ RecoveryStep(m)
  \/ Restart

Spec == Init /\ [][Next]_vars

\* The event loop runs every started handler to its end, a timed-out request
\* included; the inbox timer repeats the history read every five seconds.
Fairness == \A m \in Messages :
  /\ WF_vars(HandlerStep(m))
  /\ WF_vars(Observe(m))
  /\ WF_vars(ObservationEnds(m))
  /\ WF_vars(\E ok \in BOOLEAN : RecoverAccepted(m, ok))

FairSpec == Spec /\ Fairness

-----------------------------------------------------------------------------
(* Properties.                                                              *)

TypeOK ==
  /\ kind \in [Messages -> Kinds]
  /\ mem \in [Messages -> Receipt]
  /\ disk \in [Messages -> Receipt]
  /\ claimed \subseteq Messages
  /\ stage \in [Messages -> Stages]
  /\ appendUnavailable \in BOOLEAN
  /\ expected \in [Messages -> Receipt]
  /\ inflight \in [Messages -> Nat]
  /\ turns \in [Messages -> Nat]
  /\ output \in [Messages -> SUBSET {"live", "recovered"}]
  /\ faults \in Nat

\* One source message reaches the native core at most once, through every
\* redelivery, retry, failed save and restart: no second request while the fate
\* of a first one is unknown, and no second turn.
NativeOnce == \A m \in Messages : inflight[m] + turns[m] <= 1

Attempted == {"submitting", "accepted", "handled", "unconfirmed"}

\* Evidence of an attempt outlives the process: whatever is in flight to the
\* native core or was taken by it, a restart reads a receipt that forbids replay.
AttemptIsDurable == \A m \in Messages :
  inflight[m] + turns[m] > 0 => disk[m].phase \in Attempted

\* transition() rolls memory back when its save fails, "so that memory is never
\* stronger than disk": a settled phase in memory is settled in the file, whatever
\* saves and compactions of other messages failed in between.
MemoryNotStronger == \A m \in Messages :
  /\ mem[m].phase = "handled" => disk[m].phase = "handled"
  /\ mem[m].phase = "accepted" => disk[m].phase \in {"accepted", "handled"}
  /\ mem[m].phase = "unconfirmed" => disk[m].phase \in {"unconfirmed", "accepted", "handled"}

\* What the journal says can be relied on: it is well formed, evidence of every
\* attempt is durable, and memory promises nothing a restart would take back.
JournalIsSound == TypeOK /\ AttemptIsDurable /\ MemoryNotStronger

\* A result is delivered by the live handler or by the recovered duty, never by
\* both: a history read that outlived its handler cannot create a second owner.
OneResultOwner == \A m \in Messages : output[m] # {"live", "recovered"}

\* An accepted receipt outranks every later error, restart and recovery of its message.
AcceptedIsFinal == [][\A m \in Messages :
  /\ mem[m].phase = "accepted" => mem'[m].phase \in {"accepted", "handled"}
  /\ mem[m].phase = "handled" => mem'[m].phase = "handled"]_vars

\* An ordinary turn the native core took is eventually known to be taken, even
\* when its acknowledgement was lost, unless the journal stopped appending.
TurnIsRecognised == \A m \in Messages \ Legacy :
  (turns[m] > 0 /\ kind[m] = "turn")
     ~> (mem[m].phase \in {"accepted", "handled"} \/ appendUnavailable)
=============================================================================
