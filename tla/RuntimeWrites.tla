---------------------------- MODULE RuntimeWrites ----------------------------
(***************************************************************************)
(* Writes to terminal resources through a Connector: input, interrupts and *)
(* resource lifecycle (src/src/peer/runtime-service.ts), with the journals *)
(* and the gate behind them (src/src/agents/handoff.ts, lifecycle.ts,      *)
(* write-gate.ts, src/src/peer/receipts.ts) and the write boundary of      *)
(* src/src/agents/json-line-client.ts.                                     *)
(*                                                                         *)
(* A call is one RPC request.  The same operation may arrive again at any  *)
(* time: its requester lost the answer, or the Gateway restarted.  Between *)
(* two awaits a call runs alone, so each such run is one action.  The      *)
(* terminal behind the adapter is external: a request that left may have   *)
(* been taken whatever is answered.                                        *)
(***************************************************************************)
EXTENDS Naturals

CONSTANTS
  Ops,        \* source operations
  Calls,      \* concurrent requests
  Inputs,     \* target and content of a request
  Resources,  \* what the inputs address
  NoOp,       \* the operation of an idle call
  NoInput,    \* the fingerprint of a missing record
  MaxFaults   \* failed saves and restarts of the Connector

ASSUME NoneAssumption == NoOp \notin Ops /\ NoInput \notin Inputs
ASSUME FaultsAssumption == MaxFaults \in Nat

\* A change is a rename or a close.
Kinds == {"send", "interrupt", "create", "change"}

\* An interrupt keeps its phases under other names: writing is "submitting",
\* confirmed "completed", unknown "failed", not-sent "not-submitted"; inactive is a
\* completed interrupt that found nothing to stop.
Phases == {"none", "writing", "confirmed", "partial", "inactive", "not-sent", "unknown"}

Record == [phase: Phases, input: Inputs \union {NoInput}, created: BOOLEAN]

NoRecord == [phase |-> "none", input |-> NoInput, created |-> FALSE]

\* What a failed adapter call proves of the write it was asked for.
Errors == {"not-sent", "unknown"}

VARIABLES
  kind,     \* [Ops -> Kinds], fixed
  target,   \* [Inputs -> Resources], fixed
  adapter,  \* fixed; "tui" creates a pane, then starts a program in it; "app" does both at once
  mem,      \* the records of the three journals
  file,     \* the records a restart reads
  gate,     \* the keys of RuntimeWriteGate.active
  call,     \* [Calls -> [stage, op, input, created]]
  access,   \* operations whose source is still authorised
  sent,     \* native writes so far (of a create: its first)
  started,  \* program starts so far (of a create on "tui": its second write)
  told,     \* the phases returned to a requester
  faults

fixed == <<kind, target, adapter>>
records == <<mem, file, faults>>
vars == <<kind, target, adapter, mem, file, gate, call, access, sent, started, told, faults>>

Idle == [stage |-> "idle", op |-> NoOp, input |-> NoInput, created |-> FALSE]

Stages == {"idle", "checking", "inspecting", "preparing", "waiting", "launching", "launched", "verifying"}

\* Stages that hold the gate.
Holding == {"preparing", "waiting", "launching", "launched", "verifying"}

Lifecycle(o) == kind[o] \in {"create", "change"}

\* One file for sends, one for interrupts, one for lifecycle.
SameJournal(o, p) == kind[o] = kind[p] \/ (Lifecycle(o) /\ Lifecycle(p))

\* Mutant: lifecycle operations have a gate of their own.
SeparateKey(c) == <<Lifecycle(call[c].op), target[call[c].input]>>

\* A create is keyed by its directory or project, anything else by its resource.
Key(c) == <<kind[call[c].op] = "create", target[call[c].input]>>

Rewritten(o, r) == [p \in Ops |-> IF p = o THEN r ELSE IF SameJournal(o, p) THEN mem[p] ELSE file[p]]

\* Mutant: memory takes the record before the file does.
EagerSave(o, r, ok) ==
  /\ mem' = [mem EXCEPT ![o] = r]
  /\ \/ ok /\ file' = Rewritten(o, r) /\ UNCHANGED faults
     \/ ~ok /\ faults < MaxFaults /\ faults' = faults + 1 /\ file' = file

\* writeJsonFile() before this.data: a failure may come after the rename.
Save(o, r, ok) ==
  \/ ok /\ mem' = [mem EXCEPT ![o] = r] /\ file' = Rewritten(o, r) /\ UNCHANGED faults
  \/ /\ ~ok
     /\ faults < MaxFaults
     /\ faults' = faults + 1
     /\ mem' = mem
     /\ file' \in {file, Rewritten(o, r)}

\* get(): a write without an outcome is unknown, never unsent.
Seen(r) == IF r.phase = "writing" THEN "unknown" ELSE r.phase

Goto(c, s) == call' = [call EXCEPT ![c].stage = s]
End(c) == call' = [call EXCEPT ![c] = Idle]
Tell(o, phase) == told' = [told EXCEPT ![o] = @ \union {phase}]

-----------------------------------------------------------------------------
(* Requests.                                                                *)

\* The Connector checks the grant, then asks the origin of the request.
Arrive(c, o, i) ==
  /\ call[c].stage = "idle"
  /\ o \in access
  /\ call' = [call EXCEPT ![c] = [Idle EXCEPT !.stage = "checking", !.op = o, !.input = i]]
  /\ UNCHANGED <<fixed, records, gate, access, sent, started, told>>

\* The origin, or the final check, no longer authorises the request.
Revoked(c) ==
  /\ call[c].stage \in {"checking", "inspecting"}
  /\ call[c].op \notin access
  /\ End(c)
  /\ UNCHANGED <<fixed, records, gate, access, sent, started, told>>

\* An interrupt known to be unsent is not repeated either, and says less.
Answer(o) == IF kind[o] = "interrupt" /\ mem[o].phase = "not-sent" THEN "unknown" ELSE Seen(mem[o])

\* A repeated operation is answered from its record, whatever became of the write;
\* one that names another input gets nothing.
Repeated(c, o) ==
  /\ mem[o].phase # "none"
  /\ IF mem[o].input = call[c].input THEN Tell(o, Answer(o)) ELSE UNCHANGED told
  /\ End(c)
  /\ UNCHANGED <<records, gate>>

Intent(c) == [NoRecord EXCEPT !.phase = "writing", !.input = call[c].input]

\* Mutant: the gate is not released when the intent cannot be saved.
AdmitLocking(c, o) ==
  /\ gate' = gate \union {Key(c)}
  /\ \/ Save(o, Intent(c), TRUE) /\ Goto(c, "preparing")
     \/ Save(o, Intent(c), FALSE) /\ End(c)

\* The durable intent comes before the adapter; without it the call fails.
Admit(c, o) ==
  \/ Save(o, Intent(c), TRUE) /\ Goto(c, "preparing") /\ gate' = gate \union {Key(c)}
  \/ Save(o, Intent(c), FALSE) /\ End(c) /\ UNCHANGED gate

\* sendOnce(), execute(): the record, then the gate, then the intent.
Enter(c) == LET o == call[c].op IN
  /\ call[c].stage = "checking"
  /\ o \in access
  /\ kind[o] # "interrupt"
  /\ \/ Repeated(c, o)
     \/ mem[o].phase = "none" /\ Key(c) \in gate /\ End(c) /\ UNCHANGED <<records, gate, told>>
     \/ mem[o].phase = "none" /\ Key(c) \notin gate /\ Admit(c, o) /\ UNCHANGED told
  /\ UNCHANGED <<fixed, access, sent, started>>

CheckInterrupt(c) == LET o == call[c].op IN
  /\ call[c].stage = "checking"
  /\ o \in access
  /\ kind[o] = "interrupt"
  /\ \/ Repeated(c, o)
     \/ mem[o].phase = "none" /\ Goto(c, "inspecting") /\ UNCHANGED <<records, gate, told>>
  /\ UNCHANGED <<fixed, access, sent, started>>

InspectFails(c) ==
  /\ call[c].stage = "inspecting"
  /\ End(c)
  /\ UNCHANGED <<fixed, records, gate, access, sent, started, told>>

\* begin() writes the intent before the gate is tried; a busy gate takes it back.
Begun(c, o) ==
  \/ Key(c) \notin gate /\ Admit(c, o)
  \/ Key(c) \in gate /\ Save(o, Intent(c), FALSE) /\ End(c) /\ UNCHANGED gate
  \/ /\ Key(c) \in gate
     /\ LET refused == [Intent(c) EXCEPT !.phase = "not-sent"]
        IN \/ Save(o, refused, TRUE)
           \/ /\ faults < MaxFaults
              /\ faults' = faults + 1
              /\ mem' = [mem EXCEPT ![o] = Intent(c)]
              /\ file' \in {Rewritten(o, Intent(c)), Rewritten(o, refused)}
     /\ End(c) /\ UNCHANGED gate

\* Mutant: the record read before the inspection decides.
BeginUnseen(c) == LET o == call[c].op IN
  /\ call[c].stage = "inspecting"
  /\ o \in access
  /\ Begun(c, o)
  /\ UNCHANGED <<fixed, access, sent, started, told>>

\* After the inspection begin() looks at the record again.
BeginInterrupt(c) == LET o == call[c].op IN
  /\ call[c].stage = "inspecting"
  /\ o \in access
  /\ \/ (mem[o].phase # "not-sent" \/ mem[o].input # call[c].input) /\ Repeated(c, o)
     \/ /\ mem[o].phase = "none" \/ (mem[o].phase = "not-sent" /\ mem[o].input = call[c].input)
        /\ Begun(c, o)
        /\ UNCHANGED told
  /\ UNCHANGED <<fixed, access, sent, started>>

-----------------------------------------------------------------------------
(* The adapter.  A failed call settles, releases the gate and answers.      *)

Outcome(c, phase) == [Intent(c) EXCEPT !.phase = phase, !.created = call[c].created]

\* The last save; when it fails the record stays as it is and the requester learns
\* only that nothing is known.
Settle(c, phase) == LET o == call[c].op IN
  /\ \/ Save(o, Outcome(c, phase), TRUE)
        /\ IF kind[o] = "interrupt" /\ phase # "confirmed" /\ phase # "inactive" THEN UNCHANGED told ELSE Tell(o, phase)
     \/ Save(o, Outcome(c, phase), FALSE) /\ UNCHANGED told
  /\ gate' = gate \ {Key(c)}
  /\ End(c)

\* crossed: the final check has passed, so bytes may have left.  An interrupt has no
\* such mark; its adapter raises no "not-sent" after its write.
Failure(c, crossed, error) ==
  IF error = "unknown" THEN "unknown"
  ELSE IF call[c].created THEN "partial"
  ELSE IF crossed /\ kind[call[c].op] # "interrupt" THEN "unknown" ELSE "not-sent"

\* Before the write: the resource changed or is not ready, the connection failed, the
\* source was revoked, or an error of another class.
PrepareFails(c) ==
  /\ call[c].stage \in {"preparing", "launching"}
  /\ \E error \in Errors : Settle(c, Failure(c, call[c].created, error))
  /\ UNCHANGED <<fixed, access, sent, started>>

\* An interrupt that finds its target at rest.
NothingToStop(c) ==
  /\ call[c].stage = "preparing"
  /\ kind[call[c].op] = "interrupt"
  /\ Settle(c, "inactive")
  /\ UNCHANGED <<fixed, access, sent, started>>

\* beforeWrite() and the socket write are one run; the socket may be found closed
\* between them.
Write(c) == LET o == call[c].op IN
  /\ call[c].stage = "preparing"
  /\ o \in access
  /\ Goto(c, "waiting")
  /\ sent' = [sent EXCEPT ![o] = @ + 1]
  /\ UNCHANGED <<fixed, records, gate, access, started, told>>

ClosedAtWrite(c) ==
  /\ call[c].stage \in {"preparing", "launching"}
  /\ call[c].op \in access
  /\ Settle(c, Failure(c, TRUE, "not-sent"))
  /\ UNCHANGED <<fixed, access, sent, started>>

\* The write is acknowledged.  A create saves the new resource before anything else
\* happens to it.
Confirmed(c) ==
  /\ \/ call[c].stage = "waiting" /\ kind[call[c].op] # "create"
     \/ call[c].stage \in {"launched", "verifying"}
  /\ Settle(c, "confirmed")
  /\ UNCHANGED <<fixed, access, sent, started>>

\* Mutant: the launch does not wait for the record of the created resource.
UnrecordedCreation(c) == LET o == call[c].op IN
  /\ call[c].stage = "waiting"
  /\ kind[o] = "create"
  /\ call' = [call EXCEPT ![c].created = TRUE, ![c].stage = IF adapter = "tui" THEN "launching" ELSE "verifying"]
  /\ \E ok \in BOOLEAN : Save(o, [Intent(c) EXCEPT !.created = TRUE], ok)
  /\ UNCHANGED <<fixed, gate, access, sent, started, told>>

\* onCreated(): synchronous; a save that fails ends the create, whose own outcome is
\* then saved with the resource.
Created(c) == LET o == call[c].op
                  row == [Intent(c) EXCEPT !.created = TRUE] IN
  /\ call[c].stage = "waiting"
  /\ kind[o] = "create"
  /\ \/ /\ Save(o, row, TRUE)
        /\ call' = [call EXCEPT ![c].created = TRUE, ![c].stage = IF adapter = "tui" THEN "launching" ELSE "verifying"]
        /\ UNCHANGED <<gate, told>>
     \/ /\ faults < MaxFaults
        /\ \/ /\ faults' = faults + 1
              /\ mem' = [mem EXCEPT ![o] = [row EXCEPT !.phase = "unknown"]]
              /\ file' = Rewritten(o, [row EXCEPT !.phase = "unknown"])
              /\ Tell(o, "unknown")
           \/ /\ faults + 1 < MaxFaults
              /\ faults' = faults + 2
              /\ file' \in {file, Rewritten(o, row), Rewritten(o, [row EXCEPT !.phase = "unknown"])}
              /\ UNCHANGED <<mem, told>>
        /\ gate' = gate \ {Key(c)}
        /\ End(c)
  /\ UNCHANGED <<fixed, access, sent, started>>

\* "tui": the program starts in the created pane.
Launch(c) == LET o == call[c].op IN
  /\ call[c].stage = "launching"
  /\ o \in access
  /\ Goto(c, "launched")
  /\ started' = [started EXCEPT ![o] = @ + 1]
  /\ UNCHANGED <<fixed, records, gate, access, sent, told>>

\* A timeout, a closed connection, an error answer or one that does not fit.
WriteUnanswered(c) ==
  /\ call[c].stage \in {"waiting", "launched"}
  /\ Settle(c, Failure(c, TRUE, "unknown"))
  /\ UNCHANGED <<fixed, access, sent, started>>

\* "app": the new terminal is read back; a failed read is an error like any other.
VerifyFails(c) ==
  /\ call[c].stage = "verifying"
  /\ \E error \in Errors : Settle(c, Failure(c, TRUE, error))
  /\ UNCHANGED <<fixed, access, sent, started>>

-----------------------------------------------------------------------------

\* The source of an operation loses its authorisation, or has it again.
AccessChanges(o) ==
  /\ access' = IF o \in access THEN access \ {o} ELSE access \union {o}
  /\ UNCHANGED <<fixed, records, gate, call, sent, started, told>>

\* The Connector dies and reads its journals back.
Restart ==
  /\ faults < MaxFaults
  /\ faults' = faults + 1
  /\ mem' = file
  /\ gate' = {}
  /\ call' = [c \in Calls |-> Idle]
  /\ UNCHANGED <<fixed, file, access, sent, started, told>>

Init ==
  /\ kind \in [Ops -> Kinds]
  /\ target \in [Inputs -> Resources]
  /\ adapter \in {"tui", "app"}
  /\ mem = [o \in Ops |-> NoRecord]
  /\ file = [o \in Ops |-> NoRecord]
  /\ gate = {}
  /\ call = [c \in Calls |-> Idle]
  /\ access = Ops
  /\ sent = [o \in Ops |-> 0]
  /\ started = [o \in Ops |-> 0]
  /\ told = [o \in Ops |-> {}]
  /\ faults = 0

CallStep(c) ==
  \/ Revoked(c) \/ Enter(c) \/ CheckInterrupt(c) \/ InspectFails(c) \/ BeginInterrupt(c)
  \/ PrepareFails(c) \/ NothingToStop(c) \/ Write(c) \/ ClosedAtWrite(c) \/ Confirmed(c) \/ Created(c)
  \/ Launch(c) \/ WriteUnanswered(c) \/ VerifyFails(c)

Next ==
  \/ \E c \in Calls, o \in Ops, i \in Inputs : Arrive(c, o, i)
  \/ \E c \in Calls : CallStep(c)
  \/ \E o \in Ops : AccessChanges(o)
  \/ Restart

Spec == Init /\ [][Next]_vars

\* Every await of a call ends: the adapter's requests and the origin's answer have
\* timeouts.
FairSpec == Spec /\ \A c \in Calls : WF_vars(CallStep(c))

-----------------------------------------------------------------------------
(* Properties.                                                              *)

TypeOK ==
  /\ kind \in [Ops -> Kinds]
  /\ target \in [Inputs -> Resources]
  /\ adapter \in {"tui", "app"}
  /\ mem \in [Ops -> Record]
  /\ file \in [Ops -> Record]
  /\ gate \subseteq BOOLEAN \X Resources
  /\ call \in [Calls -> [stage: Stages, op: Ops \union {NoOp}, input: Inputs \union {NoInput},
                         created: BOOLEAN]]
  /\ access \subseteq Ops
  /\ sent \in [Ops -> Nat]
  /\ started \in [Ops -> Nat]
  /\ told \in [Ops -> SUBSET (Phases \ {"none", "writing"})]
  /\ faults \in Nat

\* What a journal answers, in the words of AtMostOnce.
ReportOf(r) ==
  CASE r.phase = "none" -> "none"
    [] r.phase = "confirmed" -> "confirmed"
    [] r.phase \in {"not-sent", "inactive"} -> "not-sent"
    [] OTHER -> "unknown"

Promise == INSTANCE AtMostOnce WITH
  Items <- Ops,
  retryable <- {o \in Ops : kind[o] = "interrupt"},
  written <- sent,
  report <- [o \in Ops |-> ReportOf(mem[o])]

\* No operation writes twice and no record claims more than is known, however often
\* the request is repeated, its source revoked, a save lost or the Connector restarted.
WritesAtMostOnce == Promise!ASpec

\* A requester was never told anything a later restart contradicts: what it was told
\* of a confirmed or unsent write is what the file says.
ToldIsDurable == \A o \in Ops : \A phase \in {"confirmed", "partial", "not-sent", "inactive"} :
  phase \in told[o] => file[o].phase = phase

Creates(c) == kind[call[c].op] = "create"
Target(c) == target[call[c].input]
Writing(c) == call[c].stage \in Holding

\* Input, interrupts, renames and closes of one terminal exclude each other from the
\* intent to the acknowledgement, as do creates in one place, and nothing stays locked
\* without a call at work on it.
OneHandoff ==
  /\ \A c, d \in Calls : (c # d /\ Writing(c) /\ Writing(d) /\ Target(c) = Target(d)) => Creates(c) # Creates(d)
  /\ \A r \in Resources, create \in BOOLEAN : <<create, r>> \in gate =>
       \E c \in Calls : Writing(c) /\ Target(c) = r

\* What the gate locks is what the calls at work have well-formed intents for.
HandoffIsExclusive == TypeOK /\ OneHandoff

\* "Persist the topology receipt BEFORE starting its program": whenever a program was
\* started, a restart still finds the pane it was started in.
TopologyIsDurable == \A o \in Ops : started[o] > 0 => (started[o] = 1 /\ file[o].created)

\* Where the program is started by a write of its own, a record that says it was not
\* started is right.
PartialNotStarted == \A o \in Ops :
  (adapter = "tui" /\ mem[o].phase = "partial") => started[o] = 0

\* A create that is interrupted between its two writes leaves a record that is right
\* about both: the pane is on it before its program starts, and it does not deny a
\* start that took place.
CreateIsRecorded == TopologyIsDurable /\ PartialNotStarted
==============================================================================
