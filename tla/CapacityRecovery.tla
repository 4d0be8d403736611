--------------------------- MODULE CapacityRecovery ---------------------------
(***************************************************************************)
(* The coordinator that continues a turn the model's capacity ended        *)
(* (src/src/server/capacity-recovery.ts), on one thread of one host, with  *)
(* the resumed run of src/src/codex/app-server-runner.ts behind it.        *)
(*                                                                         *)
(* Records of different threads share nothing but their file, so one       *)
(* thread is the whole story.  Each run between two awaits is one action.  *)
(* The native thread is external: other writers start turns in it, and a   *)
(* turn/start request may be applied long after its sender gave it up.     *)
(*                                                                         *)
(* Left out: the delays (a set timer may fire at any time), closedBy and   *)
(* previousClosure, the cap of 2000 retired turns, and what the notices    *)
(* say.  A backend that changed and a binding that lapsed are both         *)
(* "not eligible".                                                         *)
(***************************************************************************)
EXTENDS Naturals, Sequences

CONSTANTS
  MaxTurns,    \* native turns
  MaxAttempts, \* attempts after which no failure is offered any more
  Limit,       \* delays.length: automatic attempts one record may make
  MaxFaults    \* failed saves, reads, callbacks and answers, lapsed bindings and restarts

ASSUME BoundsAssumption == MaxTurns \in Nat /\ MaxAttempts \in Nat /\ Limit \in Nat \ {0} /\ MaxFaults \in Nat

VARIABLES
  turns,      \* the native turns, each with the client id that started it (0: another writer)
  clients,    \* clients[c]: the failed turn that client id c was made to resume
  submitted,  \* client ids whose turn/start was sent
  wire,       \* client ids whose turn/start may still be applied
  rec, file,  \* the record in memory, and the one a restart reads
  timer,      \* an attempt is scheduled
  check,      \* [on, read, scopes, view]: reconcile() of newly offered failures
  settle,     \* [on, own, view]: settleKnownCompletion(); own: the record was not replaced
  exec,       \* where attempt() stands
  eligible,
  forgiven,   \* failed turns, or turns that may yet fail, whose resumption user input cancelled
  rearmed,    \* turns of its own predecessor that a record was begun for
  faults

native == <<turns, submitted, wire>>
capacity == <<clients, rec, file, timer, check, settle, exec, forgiven, rearmed>>
vars == <<native, capacity, eligible, faults>>

TurnIds == 1..MaxTurns
Statuses == {"none", "waiting", "submitting", "running", "uncertain", "finished", "cancelled"}
Stages == {"idle", "reading", "listing", "sent", "accepting", "observing", "delivering"}

Turn == [client: Nat, status: {"active", "capacity", "ended"}]
Record == [status: Statuses, turn: 0..MaxTurns, attempts: 0..Limit, turns: SUBSET TurnIds,
           retired: SUBSET TurnIds, client: Nat, accepted: 0..MaxTurns, cancelFuture: BOOLEAN]

NoRecord == [status |-> "none", turn |-> 0, attempts |-> 0, turns |-> {}, retired |-> {},
             client |-> 0, accepted |-> 0, cancelFuture |-> FALSE]
NoCheck == [on |-> FALSE, read |-> FALSE, scopes |-> {}, view |-> <<>>]
NoSettle == [on |-> FALSE, own |-> FALSE, view |-> <<>>]

Live(r) == r.status \notin {"none", "finished", "cancelled"}
Executing == exec # "idle"
Active(view) == view # <<>> /\ view[Len(view)].status = "active"

\* assertCapacityResume(): the failed turn is the idle tail.
Resumable(view, t) == t = Len(view) /\ t > 0 /\ view[t].status = "capacity"

\* The one native turn a record knows as its own, 0 if there is none.
AcceptedTurn(r, view) ==
  LET found == {t \in DOMAIN view : IF r.accepted # 0 THEN t = r.accepted
                                    ELSE r.client # 0 /\ view[t].client = r.client}
  IN  IF \E t \in found : found = {t} THEN CHOOSE t \in found : TRUE ELSE 0

Terminal(r, view) == LET t == AcceptedTurn(r, view) IN t # 0 /\ view[t].status # "active"

Saves == IF faults < MaxFaults THEN BOOLEAN ELSE {TRUE}
Fault == faults < MaxFaults /\ faults' = faults + 1

\* Memory keeps what a failed save could not write.
Save(r, ok) ==
  /\ rec' = r
  /\ file' = IF ok THEN r ELSE file
  /\ faults' = IF ok THEN faults ELSE faults + 1

More(r) == ~r.cancelFuture /\ r.attempts < Limit

Defer(r, ok, scheduled) ==
  /\ Save([r EXCEPT !.status = IF More(r) THEN "waiting" ELSE "finished"], ok)
  /\ timer' = (scheduled \/ (More(r) /\ ok))

\* begin(): what the previous record resumed is retired with it.
Fresh(t, previous) ==
  [NoRecord EXCEPT !.turn = t, !.turns = {t}, !.retired = previous.retired \union previous.turns]

Begin(t, previous, ok) ==
  /\ Defer(Fresh(t, previous), ok, FALSE)
  /\ settle' = [settle EXCEPT !.own = FALSE]

Init ==
  /\ turns = <<>> /\ clients = <<>> /\ submitted = {} /\ wire = {}
  /\ rec = NoRecord /\ file = NoRecord
  /\ timer = FALSE /\ check = NoCheck /\ settle = NoSettle /\ exec = "idle"
  /\ eligible = TRUE /\ forgiven = {} /\ rearmed = {} /\ faults = 0

-----------------------------------------------------------------------------
(* The native thread. *)

ForeignStart ==
  /\ Len(turns) < MaxTurns /\ ~Active(turns)
  /\ turns' = Append(turns, [client |-> 0, status |-> "active"])
  /\ UNCHANGED <<submitted, wire, capacity, eligible, faults>>

TurnEnds(outcome) ==
  /\ Active(turns)
  /\ turns' = [turns EXCEPT ![Len(turns)].status = outcome]
  /\ UNCHANGED <<submitted, wire, capacity, eligible, faults>>

\* turn/start is applied, or refused because the thread is busy.
ApplyStart(c) ==
  /\ c \in wire /\ (Active(turns) \/ Len(turns) < MaxTurns)
  /\ wire' = wire \ {c}
  /\ turns' = IF Active(turns) THEN turns ELSE Append(turns, [client |-> c, status |-> "active"])
  /\ UNCHANGED <<submitted, capacity, eligible, faults>>

\* The binding or the backend changes, and may change back.
Reroute ==
  /\ eligible' = ~eligible
  /\ IF eligible THEN Fault ELSE UNCHANGED faults
  /\ UNCHANGED <<native, capacity>>

-----------------------------------------------------------------------------
(* Failures offered, user input, and the reconciliation of an old record. *)

\* offer(): every observer of the thread may report a failed turn, late and again.
OfferKnown(t, ok) ==
  /\ t \in rec.turns /\ rec.turn = t
  /\ rec.status = "uncertain" /\ rec.accepted = t /\ ~Executing
  /\ Defer([rec EXCEPT !.accepted = 0], ok, timer)
  /\ UNCHANGED <<check, settle>>

OfferNew(t, ok) ==
  /\ t \notin rec.turns
  /\ rec.status \notin {"submitting", "running"} /\ ~Executing
  /\ IF rec.status = "none"
     THEN Begin(t, rec, ok) /\ UNCHANGED check
     ELSE ok /\ check' = [NoCheck EXCEPT !.on = TRUE, !.scopes = {t}]
          /\ UNCHANGED <<rec, file, timer, settle, faults>>

Offer(t) ==
  /\ t \in DOMAIN turns /\ turns[t].status = "capacity"
  /\ eligible /\ t \notin rec.retired
  /\ Len(clients) < MaxAttempts
  /\ IF check.on
     THEN check' = [check EXCEPT !.scopes = @ \union {t}] /\ UNCHANGED <<rec, file, timer, settle, faults>>
     ELSE \E ok \in Saves : OfferKnown(t, ok) \/ OfferNew(t, ok)
  /\ UNCHANGED <<native, clients, exec, eligible, forgiven, rearmed>>

\* The turn whose resumption a cancel() at this point forbids.
NextResumed(r) == IF r.accepted # 0 THEN r.accepted ELSE r.turn

\* cancel(): any accepted user input.
Cancel ==
  /\ check' = NoCheck
  /\ forgiven' = forgiven \union (IF Live(rec) THEN {NextResumed(rec)} ELSE {})
  /\ IF ~Live(rec) THEN UNCHANGED <<rec, file, timer, faults>>
     ELSE IF rec.accepted # 0 /\ rec.status \in {"running", "uncertain"}
     THEN (\E ok \in Saves : Save([rec EXCEPT !.cancelFuture = TRUE], ok)) /\ UNCHANGED timer
     ELSE \E ok \in Saves : Save([rec EXCEPT !.status = "cancelled"], ok) /\ timer' = (timer /\ ~ok)
  /\ UNCHANGED <<native, clients, settle, exec, eligible, rearmed>>

ReconcileRead ==
  /\ check.on /\ ~check.read
  /\ check' = [check EXCEPT !.read = TRUE, !.view = turns]
  /\ UNCHANGED <<native, clients, rec, file, timer, settle, exec, eligible, forgiven, rearmed, faults>>

\* Mutant: an uncertain attempt is replaced before its end is proved.
ReplacesUnproved(view) == eligible /\ Len(view) \in check.scopes /\ Resumable(view, Len(view))

\* The newest offered failure may replace the old record: it is the idle tail,
\* and an uncertain old attempt has ended before it.  A failure of the old record
\* itself is not told apart: offer() adds it to a check before it looks at the record.
Replaces(view) ==
  /\ eligible /\ Len(view) \in check.scopes /\ Resumable(view, Len(view))
  /\ rec.status = "uncertain" => Terminal(rec, view) /\ AcceptedTurn(rec, view) < Len(view)

\* Mutant: the stale offer consumes it.
ConsumePrevious == UNCHANGED <<rec, file, settle, timer>>

\* The stale offer leaves a plan that was already waiting to its schedule.
KeepPrevious ==
  /\ timer' = (timer \/ (rec.status = "waiting" /\ eligible))
  /\ UNCHANGED <<rec, file, settle>>

Reconciled ==
  /\ check.on /\ check.read
  /\ check' = NoCheck
  /\ IF Replaces(check.view)
     THEN /\ \E ok \in Saves : Begin(Len(check.view), rec, ok)
          /\ rearmed' = rearmed \union ({Len(check.view)} \intersect rec.turns)
     ELSE KeepPrevious /\ UNCHANGED <<rearmed, faults>>
  /\ UNCHANGED <<native, clients, exec, eligible, forgiven>>

ReconcileFails ==
  /\ check.on /\ ~check.read /\ Fault
  /\ check' = NoCheck
  /\ KeepPrevious
  /\ UNCHANGED <<native, clients, exec, eligible, forgiven, rearmed>>

SettleRead ==
  /\ rec.status = "uncertain" /\ ~settle.on /\ ~check.on /\ ~Executing
  /\ settle' = [on |-> TRUE, own |-> TRUE, view |-> turns]
  /\ UNCHANGED <<native, clients, rec, file, timer, check, exec, eligible, forgiven, rearmed, faults>>

\* The failure of the record's own turn is left to offer().
Closes(view) ==
  /\ Terminal(rec, view) /\ ~Active(view) /\ eligible
  /\ rec.cancelFuture \/ ~Resumable(view, AcceptedTurn(rec, view))

Settled ==
  /\ settle.on
  /\ settle' = NoSettle
  /\ IF settle.own /\ ~check.on /\ ~Executing /\ rec.status = "uncertain" /\ Closes(settle.view)
     THEN \E ok \in Saves : Save([rec EXCEPT !.status = "finished"], ok)
     ELSE UNCHANGED <<rec, file, faults>>
  /\ UNCHANGED <<native, clients, timer, check, exec, eligible, forgiven, rearmed>>

-----------------------------------------------------------------------------
(* One attempt. *)

\* Mutant: only the route is asserted before the write.
CurrentRoute == eligible

Current == rec.status # "cancelled" /\ eligible

\* The catch clause: a cancelled record is left as it is.
GiveUp(status, next) ==
  IF rec.status = "cancelled"
  THEN exec' = "idle" /\ UNCHANGED <<rec, file, faults>>
  ELSE \E ok \in Saves : Save([rec EXCEPT !.status = status], ok) /\ exec' = IF ok THEN next ELSE "idle"

NotContinued == GiveUp("finished", "delivering")

\* The same clause once more after a fault: its own save may fail as well.
GiveUpAfterFault(r, status) ==
  /\ Fault
  /\ exec' = "idle"
  /\ rec' = IF r.status = "cancelled" THEN r ELSE [r EXCEPT !.status = status]
  /\ file' \in (IF r.status = "cancelled" THEN {file} ELSE {file, rec'})

Claim == [rec EXCEPT !.status = "submitting", !.attempts = @ + 1, !.client = Len(clients) + 1]

\* The timer fires.  The claim is on disk before anything is written.
Attempt ==
  /\ timer /\ timer' = FALSE
  /\ IF rec.status # "waiting" \/ Executing \/ check.on
     THEN UNCHANGED <<clients, rec, file, exec, faults>>
     ELSE IF ~eligible THEN NotContinued /\ UNCHANGED clients
     ELSE /\ clients' = Append(clients, rec.turn)
          /\ \/ Save(Claim, TRUE) /\ exec' = "reading"
             \/ GiveUpAfterFault(Claim, "finished")
  /\ UNCHANGED <<native, check, settle, eligible, forgiven, rearmed>>

\* The last snapshot before the write stands for the two before it.
ReadTail ==
  /\ exec = "reading"
  /\ IF Resumable(turns, rec.turn)
     THEN exec' = "listing" /\ UNCHANGED <<rec, file, faults>>
     ELSE NotContinued
  /\ UNCHANGED <<native, clients, timer, check, settle, eligible, forgiven, rearmed>>

\* A read that times out was not submitted; one whose connection closed counts as unknown.
ReadFails ==
  /\ exec \in {"reading", "listing"}
  /\ \E status \in {"finished", "uncertain"} : GiveUpAfterFault(rec, status)
  /\ UNCHANGED <<native, clients, timer, check, settle, eligible, forgiven, rearmed>>

QueueTakesPrecedence ==
  /\ exec = "listing"
  /\ NotContinued
  /\ UNCHANGED <<native, clients, timer, check, settle, eligible, forgiven, rearmed>>

\* assertCurrent() and turn/start, with no await between them.  Through a peer the
\* check is the last answer of the Gateway that allows the write (peer/write-guard.ts).
Submit ==
  /\ exec = "listing"
  /\ IF Current
     THEN /\ submitted' = submitted \union {rec.client}
          /\ wire' = wire \union {rec.client}
          /\ exec' = "sent"
          /\ UNCHANGED <<rec, file, faults>>
     ELSE NotContinued /\ UNCHANGED <<submitted, wire>>
  /\ UNCHANGED <<turns, clients, timer, check, settle, eligible, forgiven, rearmed>>

Started == {t \in DOMAIN turns : turns[t].client = rec.client}

Receipt(t) == [rec EXCEPT !.accepted = t, !.turns = @ \union {t},
                          !.status = IF @ = "cancelled" THEN @ ELSE "running"]

\* onTurnStarted(), up to its callback.
Accepted(t) ==
  /\ exec = "sent" /\ t \in Started
  /\ \/ Save(Receipt(t), TRUE) /\ exec' = "accepting"
     \/ GiveUpAfterFault(Receipt(t), "uncertain")
  /\ UNCHANGED <<native, clients, timer, check, settle, eligible, forgiven, rearmed>>

\* options.accepted() has returned, or has thrown.
AcceptanceShown ==
  /\ exec = "accepting"
  /\ \/ Save([rec EXCEPT !.turn = rec.accepted], TRUE) /\ exec' = "observing"
     \/ GiveUpAfterFault([rec EXCEPT !.turn = rec.accepted], "uncertain")
     \/ GiveUpAfterFault(rec, "uncertain")
  /\ UNCHANGED <<native, clients, timer, check, settle, eligible, forgiven, rearmed>>

StartRefused ==
  /\ exec = "sent" /\ rec.client \notin wire /\ Started = {}
  /\ NotContinued
  /\ UNCHANGED <<native, clients, timer, check, settle, eligible, forgiven, rearmed>>

\* The answer to turn/start, or the observation of the turn, is lost.
AnswerLost ==
  /\ exec \in {"sent", "observing"}
  /\ GiveUpAfterFault(rec, "uncertain")
  /\ UNCHANGED <<native, clients, timer, check, settle, eligible, forgiven, rearmed>>

ObservedCapacity ==
  /\ turns[rec.accepted].status = "capacity" /\ rec.status # "cancelled"
  /\ \E ok \in Saves :
       /\ Defer([rec EXCEPT !.accepted = 0], ok, timer)
       /\ exec' = IF More(rec) \/ ~ok THEN "idle" ELSE "delivering"

\* A completed turn whose save fails is uncertain, a failed one is finished.
ObservedEnd ==
  /\ turns[rec.accepted].status = "ended" \/ (rec.status = "cancelled" /\ turns[rec.accepted].status # "active")
  /\ \/ NotContinued
     \/ GiveUpAfterFault(rec, "uncertain")
  /\ UNCHANGED timer

Observed ==
  /\ exec = "observing"
  /\ ObservedCapacity \/ ObservedEnd
  /\ UNCHANGED <<native, clients, check, settle, eligible, forgiven, rearmed>>

Delivered ==
  /\ exec = "delivering"
  /\ exec' = "idle"
  /\ UNCHANGED <<native, clients, rec, file, timer, check, settle, eligible, forgiven, rearmed, faults>>

\* Mutant: a claim that was being submitted is scheduled again.
LoadReplays(r) == [r EXCEPT !.status = CASE @ = "submitting" -> "waiting" [] @ = "running" -> "uncertain" [] OTHER -> @,
                            !.turn = IF r.accepted # 0 THEN r.accepted ELSE @]

\* What the constructor makes of a record.
Load(r) == [r EXCEPT !.status = IF @ \in {"submitting", "running"} THEN "uncertain" ELSE @,
                     !.turn = IF r.accepted # 0 THEN r.accepted ELSE @]

\* stop() saves memory first; a crash does not.  start() schedules what waits.
Restart ==
  /\ Fault
  /\ \E r \in {rec, file} :
       /\ rec' = Load(r) /\ file' = rec' /\ timer' = (rec'.status = "waiting")
       \* A cancellation nothing saved dies with the process.
       /\ forgiven' = {t \in forgiven \intersect (r.turns \union r.retired) :
                        Live(r) /\ ~r.cancelFuture => t # NextResumed(r)}
  /\ exec' = "idle" /\ check' = NoCheck /\ settle' = NoSettle
  /\ UNCHANGED <<native, clients, eligible, rearmed>>

Environment ==
  \/ ForeignStart \/ Reroute
  \/ \E outcome \in {"capacity", "ended"} : TurnEnds(outcome)
  \/ \E c \in wire : ApplyStart(c)

Coordinate ==
  \/ Cancel \/ ReconcileRead \/ Reconciled \/ ReconcileFails \/ SettleRead \/ Settled
  \/ \E t \in TurnIds : Offer(t)

Execute ==
  \/ Attempt \/ ReadTail \/ ReadFails \/ QueueTakesPrecedence \/ Submit
  \/ AcceptanceShown \/ StartRefused \/ AnswerLost \/ Observed \/ Delivered
  \/ \E t \in TurnIds : Accepted(t)

Next == Environment \/ Coordinate \/ Execute \/ Restart

Spec == Init /\ [][Next]_vars

\* Timers fire, and an observation is answered or times out.
FairSpec == Spec /\ WF_vars(ReconcileRead) /\ WF_vars(Reconciled) /\ SF_vars(Attempt /\ ~check.on)

-----------------------------------------------------------------------------

TypeOK ==
  /\ turns \in Seq(Turn) /\ Len(turns) <= MaxTurns
  /\ clients \in Seq(TurnIds) /\ submitted \subseteq DOMAIN clients /\ wire \subseteq submitted
  /\ rec \in Record /\ file \in Record
  /\ timer \in BOOLEAN /\ exec \in Stages /\ eligible \in BOOLEAN
  /\ check.on \in BOOLEAN /\ check.read \in BOOLEAN /\ check.scopes \subseteq DOMAIN turns
  /\ settle.on \in BOOLEAN /\ settle.own \in BOOLEAN
  /\ forgiven \subseteq TurnIds /\ rearmed \subseteq TurnIds /\ faults \in 0..MaxFaults

\* No failed turn is resumed twice: not by a second observer's report, a late
\* timer, a lost answer or a restart ("Write-ahead claims are never replayed").
ResumedOnce == \A c, d \in submitted : clients[c] = clients[d] => c = d \/ clients[c] \in rearmed

\* While one turn/start may still be applied no other is sent, unless user
\* input has given the first up: an unknown attempt blocks its successors.
DoubtBlocks == [][submitted' # submitted => \A c \in wire : clients[c] \in forgiven \union rearmed]_vars

\* What user input cancelled is never resumed afterwards, whatever the attempt
\* in flight, the accepted turn or a later report does.
CancelHolds == [][\A c \in submitted' \ submitted : clients'[c] \notin forgiven \ rearmed]_vars

\* At most Limit automatic turns follow each other, unless user input cancelled
\* an attempt among them.
ChainBounded ==
  \A first \in DOMAIN turns :
    (first + Limit \in DOMAIN turns /\ \A t \in first..(first + Limit) : turns[t].client # 0)
      => \E t \in first..(first + Limit) : clients[turns[t].client] \in forgiven \union rearmed

\* Every failure is resumed at most once and the chain of resumptions ends.
ResumesAreBounded == TypeOK /\ ResumedOnce /\ ChainBounded

\* A failure the coordinator took over is not left waiting: the attempt is made
\* or given up, however many stale reports interrupt it.  A failed save or a
\* lapsed binding ends the promise (the record then waits for a restart).
WaitingMovesOn == (rec.status = "waiting") ~> (rec.status # "waiting" \/ faults > 0)

\* "Superseded native failure, never a final result": the failure of the last
\* turn of the chain, which nothing supersedes, is not answered so, once no
\* attempt is left that would take it up.
\* No run checks it: the code violates it
\* when the callback of an acceptance, or the save before it, fails.
NewestIsNotSuperseded ==
  (rec.status = "uncertain" /\ ~Executing /\ Resumable(turns, Len(turns)) /\ Len(turns) \in rec.turns)
    => rec.turn = Len(turns)
===============================================================================
