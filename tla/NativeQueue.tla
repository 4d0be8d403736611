---------------------------- MODULE NativeQueue ----------------------------
(***************************************************************************)
(* The submission journal of the native queue                              *)
(* (src/src/bridge/native-queue.ts) and the queued run behind it           *)
(* (src/src/codex/app-server-runner.ts), on one thread of one backend.     *)
(*                                                                         *)
(* Three activities share the receipts: the control lane (enqueue and      *)
(* cancel, one at a time), observations (reconcile, never in the lane) and *)
(* one dispatch.  Each run between two awaits is one action.  The native   *)
(* queue is external: it takes items in order, may consume its head by     *)
(* itself, and has other writers.                                          *)
(*                                                                         *)
(* A receipt with status "queued" always has a queue id and one that is    *)
(* "completed" and undelivered always has lifecycleVersion 2 (receipts of  *)
(* earlier versions are left out), so neither is a field here.  Only the   *)
(* wording of "reason" is left out besides.                                *)
(***************************************************************************)
EXTENDS Naturals, Sequences, SequencesExt

CONSTANTS
  Messages,  \* source messages queued for the thread
  Accounts,  \* IM accounts that share the journal
  Foreign,   \* items of other writers
  None,      \* no message
  MaxFaults  \* failed saves, lost answers, failed reads, refused deliveries and restarts

ASSUME OthersAssumption == Foreign \intersect Messages = {} /\ None \notin Messages \union Foreign
ASSUME FaultsAssumption == MaxFaults \in Nat

Statuses == {"none", "submitting", "queued", "starting", "running", "completed", "uncertain",
             "cancelled", "rejected"}

\* turn: the native turn is known.
Receipt == [status: Statuses, turn: BOOLEAN, delivered: BOOLEAN, unconfirmed: BOOLEAN]

Blank == [status |-> "none", turn |-> FALSE, delivered |-> FALSE, unconfirmed |-> FALSE]

Unsettled == {"submitting", "queued", "starting", "running", "uncertain"}

VARIABLES
  account,   \* [Messages -> Accounts], fixed
  mem,       \* receipts
  file,      \* the receipts a restart reads
  down,      \* persistenceUnavailable
  lane,      \* [stage, msg]: the mutation at the head of the control queue
  watch,     \* [Messages -> Views]: an observation whose receipt has not changed since
  disp,      \* [stage, msg, todo, group, observing, as]: dispatch() of the thread
  retained,  \* messages whose onAccepted callback may still come
  wire,      \* messages whose queue/add may still be applied
  deletion,  \* [Messages -> {"none", "sent", "deleted", "missed"}] of queue/delete
  start,     \* [Messages -> {"none", "sent", "started", "busy", "missed"}] of queue/start
  queue,     \* the native queue
  turn,      \* [Messages -> {"none", "active", "ended"}] native turns
  indexed,   \* messages whose turn the native history shows
  busy,      \* a turn of another writer is active
  adds,      \* queue/add requests applied so far
  executed,  \* messages whose execution this journal ever took up
  faults

journal == <<mem, file, down, watch, faults>>
requests == <<wire, deletion, start>>
native == <<queue, turn, indexed, busy, adds>>
vars == <<account, mem, file, down, lane, watch, disp, retained, wire, deletion, start, queue, turn, indexed,
          busy, adds, executed, faults>>

Free == [stage |-> "free", msg |-> None]
Rest == [stage |-> "idle", msg |-> None, todo |-> {}, group |-> {}, observing |-> FALSE, as |-> "fresh"]

-----------------------------------------------------------------------------
(* The journal.                                                             *)

\* Mutant: an observation is applied whatever happened to its receipt meanwhile.
KeepWatches(done) == watch' = [m \in Messages |-> IF m \in done THEN "no" ELSE watch[m]]

\* A changed receipt makes the observations of it obsolete; those in done have ended.
EndWatches(done) ==
  watch' = [m \in Messages |-> IF m \in done \/ mem'[m] # mem[m] THEN "no" ELSE watch[m]]

\* After a failed save memory takes what the file says; a file that cannot be read
\* stops every operation until a restart.
Reread(next) ==
  \/ mem' = file' /\ UNCHANGED down
  \/ mem' = next /\ down' = TRUE

\* update() and save(); nothing is saved when nothing changes.
Saves(next) == mem' = next /\ file' = next /\ UNCHANGED <<down, faults>>

\* A failure may come after the rename.
SaveFails(next) ==
  /\ next # mem
  /\ faults < MaxFaults
  /\ faults' = faults + 1
  /\ file' \in {file, next}
  /\ Reread(next)

Journal(next) == (Saves(next) \/ SaveFails(next)) /\ EndWatches({})

Put(m, r) == [mem EXCEPT ![m] = r]
Set(m, status) == [mem EXCEPT ![m].status = status]
Known(m, status) == [mem EXCEPT ![m].status = status, ![m].turn = TRUE]

\* One more answer or read fails.
Fault ==
  /\ faults < MaxFaults
  /\ faults' = faults + 1
  /\ UNCHANGED <<mem, file, down>>

First == IF queue = <<>> THEN None ELSE Head(queue)
Queued(m) == m \in Range(queue)
\* The native queue takes the item out, wherever it stands.
Without(m) == RemoveAt(queue, CHOOSE i \in 1..Len(queue) : queue[i] = m)
Quiet == ~busy /\ \A m \in Messages : turn[m] # "active"

-----------------------------------------------------------------------------
(* The control lane: enqueue() and cancel().                                *)

\* Mutant: an uncertain submission is sent again.
RetryableStatus == {"none", "rejected", "uncertain"}

\* Statuses that permit a submission; any other is returned as it is.
Submittable == {"none", "rejected"}

Enqueue(m) ==
  /\ lane = Free /\ ~down
  /\ mem[m].status \in Submittable
  /\ LET next == Put(m, [Blank EXCEPT !.status = "submitting"]) IN
     \/ /\ Saves(next)
        /\ lane' = [stage |-> "adding", msg |-> m]
        /\ wire' = wire \union {m}
        /\ retained' = retained \union {m}
     \/ SaveFails(next) /\ UNCHANGED <<lane, wire, retained>>
  /\ EndWatches({})
  /\ UNCHANGED <<account, disp, deletion, start, native, executed>>

Adding(m) == lane = [stage |-> "adding", msg |-> m] /\ ~down

\* A concrete acceptance outranks the class of a later failure.
Taken(m) == mem[m].turn \/ mem[m].status = "queued"

Doubt(m) == IF Taken(m) THEN mem ELSE Set(m, "uncertain")

\* The answer is saved; if that fails the catch looks at what the file kept.
Answered(m) ==
  /\ Adding(m)
  /\ adds[m] > 0 /\ m \notin wire
  /\ LET next == Set(m, IF mem[m].turn THEN "running" ELSE "queued") IN
     \/ Saves(next)
     \/ SaveFails(next) /\ (down' \/ file' = next)
     \/ /\ next # mem /\ faults < MaxFaults
        /\ mem' = Doubt(m) /\ file' = Doubt(m)
        /\ faults' = faults + 1 /\ UNCHANGED down
     \/ /\ {next, Doubt(m)} \intersect {mem} = {} /\ faults + 1 < MaxFaults
        /\ faults' = faults + 2
        /\ file' \in {file, Doubt(m)}
        /\ Reread(Doubt(m))
  /\ EndWatches({})
  /\ lane' = Free
  /\ UNCHANGED <<account, disp, retained, requests, native, executed>>

\* The native queue or the final check refused; nothing was written.
Refused(m) ==
  /\ Adding(m)
  /\ adds[m] = 0
  /\ Journal(IF Taken(m) THEN mem ELSE Set(m, "rejected"))
  /\ wire' = wire \ {m}
  /\ retained' = retained \ {m}
  /\ lane' = Free
  /\ UNCHANGED <<account, disp, deletion, start, native, executed>>

\* A failure labelled "not-submitted" forgets the source.  The label is right, except
\* that it may come after the acceptance was reported.
NotSubmitted(m) ==
  /\ Adding(m)
  /\ adds[m] = 0 \/ mem[m].turn
  /\ Journal(IF Taken(m) THEN mem ELSE Put(m, Blank))
  /\ wire' = wire \ {m}
  /\ lane' = Free
  /\ UNCHANGED <<account, disp, retained, deletion, start, native, executed>>

\* Any other failure: the request may still be applied.
Lost(m) ==
  /\ Adding(m)
  /\ Journal(Doubt(m))
  /\ lane' = Free
  /\ UNCHANGED <<account, disp, retained, requests, native, executed>>

\* The runner saw the item start: item/started comes once, maybe late.
Accepted(m) ==
  /\ m \in retained /\ turn[m] # "none" /\ ~down
  /\ Journal(Known(m, "running"))
  /\ retained' = retained \ {m}
  /\ UNCHANGED <<account, lane, disp, requests, native, executed>>

\* The runner saw the turn end, and forgets the callback.
Retired(m) ==
  /\ m \in retained /\ turn[m] = "ended"
  /\ retained' = retained \ {m}
  /\ UNCHANGED <<account, journal, lane, disp, requests, native, executed>>

Cancel(m) ==
  /\ lane = Free /\ ~down
  /\ mem[m].status = "queued"
  /\ lane' = [stage |-> "listing", msg |-> m]
  /\ UNCHANGED <<account, journal, disp, retained, requests, native, executed>>

\* The native list decides whether there is something to delete.
CancelListed(m) ==
  /\ lane = [stage |-> "listing", msg |-> m] /\ ~down
  /\ IF Queued(m)
     THEN lane' = [stage |-> "deleting", msg |-> m] /\ deletion' = [deletion EXCEPT ![m] = "sent"]
     ELSE lane' = Free /\ UNCHANGED deletion
  /\ UNCHANGED <<account, journal, disp, retained, wire, start, native, executed>>

\* Mutant: the receipt is closed whatever the native queue says.
CancelUnchecked(m) ==
  /\ lane = [stage |-> "deleting", msg |-> m] /\ ~down
  /\ deletion[m] \in {"deleted", "missed"}
  /\ Journal(Set(m, "cancelled"))
  /\ retained' = retained \ {m}
  /\ deletion' = [deletion EXCEPT ![m] = "none"]
  /\ lane' = Free
  /\ UNCHANGED <<account, disp, wire, start, native, executed>>

CancelAnswered(m) ==
  /\ lane = [stage |-> "deleting", msg |-> m] /\ ~down
  /\ \/ deletion[m] = "deleted" /\ Journal(Set(m, "cancelled")) /\ retained' = retained \ {m}
     \/ deletion[m] = "missed" /\ UNCHANGED <<journal, retained>>
  /\ deletion' = [deletion EXCEPT ![m] = "none"]
  /\ lane' = Free
  /\ UNCHANGED <<account, disp, wire, start, native, executed>>

\* A lost answer leaves the receipt to the next observation.
CancelLost(m) ==
  /\ lane \in {[stage |-> s, msg |-> m] : s \in {"listing", "deleting"}}
  /\ Fault /\ EndWatches({})
  /\ lane' = Free
  /\ deletion' = [deletion EXCEPT ![m] = IF @ = "sent" THEN "sent" ELSE "none"]
  /\ UNCHANGED <<account, disp, retained, wire, start, native, executed>>

\* No receipt can be saved: the call ends, whatever becomes of its request.
LaneDown ==
  /\ down /\ lane # Free
  /\ lane' = Free
  /\ UNCHANGED <<account, journal, disp, retained, requests, native, executed>>

-----------------------------------------------------------------------------
(* Observations: reconcile().  They write only receipts that did not change *)
(* since the observation began (EndWatches).                                *)

Observed(m, next) == (Saves(next) \/ SaveFails(next)) /\ EndWatches({m})

ObserveList(m) ==
  /\ watch[m] = "no" /\ ~down
  /\ mem[m].status \in Unsettled
  /\ disp = Rest \/ mem[m].status \notin {"starting", "running"}
  /\ watch' = [watch EXCEPT ![m] = IF Queued(m) THEN "present" ELSE "absent"]
  /\ UNCHANGED <<account, mem, file, down, faults, lane, disp, retained, requests, native, executed>>

ObservePresent(m) ==
  /\ watch[m] = "present" /\ ~down
  /\ Observed(m, Set(m, "queued"))
  /\ UNCHANGED <<account, lane, disp, retained, requests, native, executed>>

\* Absence from the queue is no rejection: the history is searched, and absence from
\* both leaves a doubt.
ObserveAbsent(m) ==
  /\ watch[m] = "absent" /\ ~down
  /\ IF m \in indexed
     THEN watch' = [watch EXCEPT ![m] = "located"] /\ UNCHANGED <<mem, file, down, faults>>
     ELSE Observed(m, Set(m, "uncertain"))
  /\ UNCHANGED <<account, lane, disp, retained, requests, native, executed>>

\* Mutant: a turn found in the history has ended.
HistoryIsProof(m) ==
  /\ watch[m] = "located" /\ ~down
  /\ Observed(m, Known(m, "completed"))
  /\ UNCHANGED <<account, lane, disp, retained, requests, native, executed>>

\* The history tells which turn it is, the lifecycle whether it ended.
ObserveLocated(m) ==
  /\ watch[m] = "located" /\ ~down
  /\ \/ Observed(m, Known(m, IF turn[m] = "active" THEN "running" ELSE "completed"))
     \/ /\ faults < MaxFaults
        /\ faults' = faults + 1
        /\ mem' = Known(m, "uncertain") /\ file' = Known(m, "uncertain") /\ UNCHANGED down
        /\ EndWatches({m})
  /\ UNCHANGED <<account, lane, disp, retained, requests, native, executed>>

\* A read that fails or times out changes nothing but the reason.
ObserveFails(m) ==
  /\ watch[m] # "no"
  /\ Fault /\ EndWatches({m})
  /\ UNCHANGED <<account, lane, disp, retained, requests, native, executed>>

-----------------------------------------------------------------------------
(* Dispatch: one at a time on the thread, over the receipts of one account. *)

\* What the catch makes of a receipt of the group, the busy rejection first.
Settle(r, refused) ==
  IF refused /\ r.status = "starting" /\ ~r.turn THEN [r EXCEPT !.status = "queued"]
  ELSE IF r.status \in {"starting", "running"} /\ ~r.delivered
       THEN [r EXCEPT !.status = "uncertain", !.unconfirmed = @ \/ r.turn]
  ELSE r

\* The catch, after spent failures that left the receipts at base.  It saves receipt
\* by receipt; a save that fails leaves the others as they were.
ThrowFrom(base, refused, spent) ==
  LET Caught(S) == [m \in Messages |-> IF m \in S THEN Settle(base[m], refused) ELSE base[m]]
      next == Caught(disp.group)
  IN /\ faults + spent <= MaxFaults
     /\ \/ faults' = faults + spent /\ mem' = next /\ file' = next /\ UNCHANGED down
        \/ /\ next # base
           /\ faults + spent < MaxFaults
           /\ faults' = faults + spent + 1
           /\ file' \in {Caught(S) : S \in SUBSET disp.group}
           /\ Reread(next)
     /\ EndWatches({})
     /\ disp' = Rest

\* An update of the dispatch goes on with d, or throws with its save.
Proceed(next, d) ==
  \/ Saves(next) /\ EndWatches({}) /\ disp' = d
  \/ next # mem /\ \E base \in {mem, next} : ThrowFrom(base, FALSE, 1)
  \/ SaveFails(next) /\ down' /\ EndWatches({}) /\ disp' = Rest

At(m, stage) == disp.stage = stage /\ disp.msg = m /\ ~down

\* Mutant: only what is queued or running is looked at again.
ActiveOnly(a) == {m \in Messages :
  account[m] = a /\ mem[m].status \in {"queued", "running"} /\ ~mem[m].delivered /\ ~mem[m].unconfirmed}

\* What the loop looks at: an undelivered result of a completed turn, too.
Candidates(a) == {m \in Messages :
  account[m] = a /\ mem[m].status \in {"queued", "running", "completed"}
  /\ ~mem[m].delivered /\ ~mem[m].unconfirmed}

Dispatch(a) ==
  /\ disp = Rest /\ ~down
  /\ Candidates(a) # {}
  /\ disp' = [Rest EXCEPT !.stage = "next", !.todo = Candidates(a), !.group = Candidates(a)]
  /\ UNCHANGED <<account, journal, lane, retained, requests, native, executed>>

\* The loop goes on without m.
Past(m) == IF disp.todo = {m} THEN Rest
           ELSE [disp EXCEPT !.stage = "next", !.msg = None, !.todo = @ \ {m}, !.observing = FALSE, !.as = "fresh"]

\* Native FIFO order: only the head of the native queue is started.
AtHead(m) == First = m

\* Receipts are visited in the order of the journal, here in any order.
Visit(m) ==
  /\ disp.stage = "next" /\ m \in disp.todo /\ ~down
  /\ disp' = IF ~mem[m].delivered /\ ~mem[m].unconfirmed /\ (mem[m].turn \/ AtHead(m))
             THEN [disp EXCEPT !.stage = "inspecting", !.msg = m, !.observing = mem[m].turn]
             ELSE Past(m)
  /\ UNCHANGED <<account, journal, lane, retained, requests, native, executed>>

\* A completed turn is only read; anything else waits for a quiet thread.
Ready(m) ==
  IF mem[m].status = "completed" /\ disp.observing THEN turn[m] # "active" ELSE Quiet

\* The execution works on a copy of the receipt: its status, and its turn.
CopyOf(m) == IF mem[m].status = "completed" THEN "terminal" ELSE IF mem[m].turn THEN "turn" ELSE "fresh"

Inspect(m) ==
  /\ At(m, "inspecting")
  /\ IF Ready(m)
     THEN disp' = [disp EXCEPT !.stage = "executing", !.as = CopyOf(m)] /\ executed' = executed \union {m}
     ELSE disp' = Past(m) /\ UNCHANGED executed
  /\ UNCHANGED <<account, journal, lane, retained, requests, native>>

\* A failed list, inspection, check of the origin, preparation or observation.
DispatchFails(m) ==
  /\ \E stage \in {"inspecting", "executing", "observing", "delivering"} : At(m, stage)
  /\ ThrowFrom(mem, FALSE, 1)
  /\ UNCHANGED <<account, lane, retained, requests, native, executed>>

\* onTurnStarted: the exact turn is known and observed.
Started(m) == Proceed(Known(m, "running"), [disp EXCEPT !.stage = "observing"])

\* observeOnly: the end is read again before the result is.
ObserveOnly(m) ==
  /\ At(m, "executing") /\ disp.as = "terminal"
  /\ IF turn[m] = "ended" THEN Started(m) ELSE ThrowFrom(mem, FALSE, 0)
  /\ UNCHANGED <<account, lane, retained, requests, native, executed>>

\* The item was consumed already: its turn is observed, nothing is started.
Adopt(m) ==
  /\ At(m, "executing") /\ disp.as \in {"fresh", "turn"}
  /\ m \in indexed
  /\ Started(m)
  /\ UNCHANGED <<account, lane, retained, requests, native, executed>>

\* An accepted turn the history does not show, or an item that is not the head.
NotFound(m) ==
  /\ At(m, "executing") /\ disp.as \in {"fresh", "turn"}
  /\ m \notin indexed
  /\ disp.as = "turn" \/ ~AtHead(m)
  /\ ThrowFrom(mem, FALSE, 0)
  /\ UNCHANGED <<account, lane, retained, requests, native, executed>>

\* starting() is durable before queue/start is sent.
StartHead(m) ==
  /\ At(m, "executing") /\ disp.as = "fresh"
  /\ m \notin indexed /\ AtHead(m)
  /\ IF mem[m].status = "queued"
     THEN Proceed(Set(m, "starting"), [disp EXCEPT !.stage = "starting"])
     ELSE ThrowFrom(mem, FALSE, 0)
  /\ start' = [start EXCEPT ![m] = IF disp'.stage = "starting" THEN "sent" ELSE @]
  /\ UNCHANGED <<account, lane, retained, wire, deletion, native, executed>>

StartAnswered(m) ==
  /\ At(m, "starting") /\ start[m] = "started"
  /\ Started(m)
  /\ start' = [start EXCEPT ![m] = "none"]
  /\ UNCHANGED <<account, lane, retained, wire, deletion, native, executed>>

\* A refused start: the history may show that the item was consumed; otherwise a busy
\* rejection leaves it queued.
StartRefused(m) ==
  /\ At(m, "starting") /\ start[m] \in {"busy", "missed"}
  /\ IF m \in indexed THEN Started(m) ELSE ThrowFrom(mem, start[m] = "busy", 0)
  /\ start' = [start EXCEPT ![m] = "none"]
  /\ UNCHANGED <<account, lane, retained, wire, deletion, native, executed>>

\* No answer: the request may still be applied; or the last check kept it from leaving.
StartLost(m) ==
  /\ At(m, "starting")
  /\ faults < MaxFaults
  /\ IF m \in indexed THEN Started(m) ELSE ThrowFrom(mem, FALSE, 1)
  /\ start' \in {[start EXCEPT ![m] = s] : s \in {"none"} \union ({start[m]} \intersect {"sent"})}
  /\ UNCHANGED <<account, lane, retained, wire, deletion, native, executed>>

TurnObserved(m) ==
  /\ At(m, "observing") /\ turn[m] = "ended"
  /\ disp' = [disp EXCEPT !.stage = "delivering"]
  /\ UNCHANGED <<account, journal, lane, retained, requests, native, executed>>

\* A confirmed delivery closes the receipt.
Delivered(m) ==
  /\ At(m, "delivering")
  /\ Proceed([mem EXCEPT ![m].status = "completed", ![m].delivered = TRUE], Past(m))
  /\ UNCHANGED <<account, lane, retained, requests, native, executed>>

\* An unconfirmed one keeps it for a read-only retry.
Undelivered(m) ==
  /\ At(m, "delivering")
  /\ \/ /\ faults < MaxFaults
        /\ faults' = faults + 1
        /\ mem' = Set(m, "completed") /\ file' = Set(m, "completed") /\ UNCHANGED down
        /\ EndWatches({})
        /\ disp' = Past(m)
     \/ \E base \in {mem, Set(m, "completed")} : ThrowFrom(base, FALSE, 2)
  /\ UNCHANGED <<account, lane, retained, requests, native, executed>>

DispatchDown ==
  /\ down /\ disp # Rest
  /\ disp' = Rest
  /\ UNCHANGED <<account, journal, lane, retained, requests, native, executed>>

-----------------------------------------------------------------------------
(* The native queue and its other writers (external).                       *)

NativeAdd(m) ==
  /\ m \in wire
  /\ wire' = wire \ {m}
  /\ queue' = Append(queue, m)
  /\ adds' = [adds EXCEPT ![m] = @ + 1]
  /\ UNCHANGED <<account, journal, lane, disp, retained, deletion, start, turn, indexed, busy, executed>>

NativeDrop(m) ==
  /\ m \in wire
  /\ lane # [stage |-> "adding", msg |-> m]
  /\ wire' = wire \ {m}
  /\ UNCHANGED <<account, journal, lane, disp, retained, deletion, start, native, executed>>

NativeDelete(m) ==
  /\ deletion[m] = "sent"
  /\ deletion' = [deletion EXCEPT ![m] = IF lane # [stage |-> "deleting", msg |-> m] THEN "none"
                                         ELSE IF Queued(m) THEN "deleted" ELSE "missed"]
  /\ queue' = IF Queued(m) THEN Without(m) ELSE queue
  /\ UNCHANGED <<account, journal, lane, disp, retained, wire, start, turn, indexed, busy, adds, executed>>

Consume(m) ==
  /\ queue' = Without(m)
  /\ turn' = [turn EXCEPT ![m] = "active"]

\* queue/start by id.  Whether the service itself insists on the head is not known.
NativeStart(m) ==
  /\ start[m] = "sent"
  /\ IF Queued(m) /\ Quiet THEN Consume(m) ELSE UNCHANGED <<queue, turn>>
  /\ start' = [start EXCEPT ![m] = IF ~At(m, "starting") THEN "none"
                                   ELSE IF ~Queued(m) THEN "missed" ELSE IF Quiet THEN "started" ELSE "busy"]
  /\ UNCHANGED <<account, journal, lane, disp, retained, wire, deletion, indexed, busy, adds, executed>>

\* A loaded thread at rest takes the head by itself.
AutoConsume(m) ==
  /\ First = m /\ Quiet
  /\ Consume(m)
  /\ UNCHANGED <<account, journal, lane, disp, retained, requests, indexed, busy, adds, executed>>

TurnEnds(m) ==
  /\ turn[m] = "active"
  /\ turn' = [turn EXCEPT ![m] = "ended"]
  /\ UNCHANGED <<account, journal, lane, disp, retained, requests, queue, indexed, busy, adds, executed>>

\* Removal from the queue can precede the history index.
Index(m) ==
  /\ turn[m] # "none" /\ m \notin indexed
  /\ indexed' = indexed \union {m}
  /\ UNCHANGED <<account, journal, lane, disp, retained, requests, queue, turn, busy, adds, executed>>

ForeignAdd(f) ==
  /\ ~Queued(f)
  /\ queue' = Append(queue, f)
  /\ UNCHANGED <<account, journal, lane, disp, retained, requests, turn, indexed, busy, adds, executed>>

ForeignTurn ==
  /\ Quiet /\ Foreign # {}
  /\ busy' = TRUE
  /\ queue' = IF First \in Foreign THEN Tail(queue) ELSE queue
  /\ UNCHANGED <<account, journal, lane, disp, retained, requests, turn, indexed, adds, executed>>

ForeignEnds ==
  /\ busy
  /\ busy' = FALSE
  /\ UNCHANGED <<account, journal, lane, disp, retained, requests, queue, turn, indexed, adds, executed>>

-----------------------------------------------------------------------------

\* The Gateway dies and reads the receipts back; requests that left it stay on the way.
Restart ==
  /\ faults < MaxFaults
  /\ faults' = faults + 1
  /\ mem' = file /\ UNCHANGED file
  /\ down' = FALSE
  /\ lane' = Free /\ disp' = Rest
  /\ watch' = [m \in Messages |-> "no"]
  /\ retained' = {}
  /\ deletion' = [m \in Messages |-> IF deletion[m] = "sent" THEN "sent" ELSE "none"]
  /\ start' = [m \in Messages |-> IF start[m] = "sent" THEN "sent" ELSE "none"]
  /\ UNCHANGED <<account, wire, native, executed>>

Init ==
  /\ account \in [Messages -> Accounts]
  /\ mem = [m \in Messages |-> Blank]
  /\ file = [m \in Messages |-> Blank]
  /\ down = FALSE
  /\ lane = Free /\ disp = Rest
  /\ watch = [m \in Messages |-> "no"]
  /\ retained = {} /\ wire = {}
  /\ deletion = [m \in Messages |-> "none"]
  /\ start = [m \in Messages |-> "none"]
  /\ queue = <<>>
  /\ turn = [m \in Messages |-> "none"]
  /\ indexed = {} /\ busy = FALSE
  /\ adds = [m \in Messages |-> 0]
  /\ executed = {}
  /\ faults = 0

LaneStep(m) ==
  \/ Enqueue(m) \/ Answered(m) \/ Refused(m) \/ NotSubmitted(m) \/ Lost(m) \/ Accepted(m) \/ Retired(m)
  \/ Cancel(m) \/ CancelListed(m) \/ CancelAnswered(m) \/ CancelLost(m)

ObserveStep(m) ==
  ObserveList(m) \/ ObservePresent(m) \/ ObserveAbsent(m) \/ ObserveLocated(m) \/ ObserveFails(m)

DispatchStep(m) ==
  \/ Visit(m) \/ Inspect(m) \/ DispatchFails(m) \/ ObserveOnly(m) \/ Adopt(m) \/ NotFound(m) \/ StartHead(m)
  \/ StartAnswered(m) \/ StartRefused(m) \/ StartLost(m) \/ TurnObserved(m) \/ Delivered(m) \/ Undelivered(m)

NativeStep(m) ==
  \/ NativeAdd(m) \/ NativeDrop(m) \/ NativeDelete(m) \/ NativeStart(m) \/ AutoConsume(m) \/ TurnEnds(m) \/ Index(m)

Next ==
  \/ \E m \in Messages : LaneStep(m) \/ ObserveStep(m) \/ DispatchStep(m) \/ NativeStep(m)
  \/ \E a \in Accounts : Dispatch(a)
  \/ LaneDown \/ DispatchDown
  \/ \E f \in Foreign : ForeignAdd(f)
  \/ ForeignTurn \/ ForeignEnds
  \/ Restart

Spec == Init /\ [][Next]_vars

\* The timer reconciles, then dispatches, for every account; each await ends; native
\* turns end and reach the history.
FairSpec ==
  /\ Spec
  /\ \A m \in Messages :
       /\ SF_vars(ObserveList(m)) /\ WF_vars(ObserveStep(m)) /\ WF_vars(DispatchStep(m))
       /\ WF_vars(NativeStart(m)) /\ WF_vars(TurnEnds(m)) /\ WF_vars(Index(m))
  /\ \A a \in Accounts : SF_vars(Dispatch(a))
  /\ WF_vars(ForeignEnds) /\ WF_vars(DispatchDown)

-----------------------------------------------------------------------------
(* Properties.                                                              *)

Stages == {"idle", "next", "inspecting", "executing", "starting", "observing", "delivering"}

TypeOK ==
  /\ account \in [Messages -> Accounts]
  /\ mem \in [Messages -> Receipt]
  /\ file \in [Messages -> Receipt]
  /\ down \in BOOLEAN /\ busy \in BOOLEAN
  /\ lane \in [stage: {"free", "adding", "listing", "deleting"}, msg: Messages \union {None}]
  /\ watch \in [Messages -> {"no", "present", "absent", "located"}]
  /\ disp \in [stage: Stages, msg: Messages \union {None}, todo: SUBSET Messages, group: SUBSET Messages,
               observing: BOOLEAN, as: {"fresh", "turn", "terminal"}]
  /\ {retained, wire, indexed, executed} \subseteq SUBSET Messages
  /\ deletion \in [Messages -> {"none", "sent", "deleted", "missed"}]
  /\ start \in [Messages -> {"none", "sent", "started", "busy", "missed"}]
  /\ queue \in Seq(Messages \union Foreign)
  /\ turn \in [Messages -> {"none", "active", "ended"}]
  /\ adds \in [Messages -> Nat]
  /\ faults \in Nat

\* What the receipts claim of the submission, in the words of AtMostOnce.
ReportOf(r) ==
  CASE r.status = "none" -> "none"
    [] r.status = "rejected" -> "not-sent"
    [] OTHER -> "unknown"

Promise == INSTANCE AtMostOnce WITH
  Items <- Messages,
  retryable <- Messages,
  written <- adds,
  report <- [m \in Messages |-> ReportOf(mem[m])]

\* "After an uncertain acknowledgement we query exact ids; we never call add again":
\* the native queue takes a message at most once, and only a submission that provably
\* did not happen is forgotten, reported as rejected or tried again.
SubmittedAtMostOnce == Promise!ASpec

\* A cancelled message never runs, and is no longer queued; neither memory nor a
\* restart says otherwise of a message that may run.
CancelledNeverRuns == \A m \in Messages :
  "cancelled" \in {mem[m].status, file[m].status} => turn[m] = "none" /\ ~Queued(m) /\ start[m] # "started"

\* A late observation or the end of a dispatch does not reopen a cancelled message.
CancelIsFinal == [][\A m \in Messages : file[m].status = "cancelled" => file'[m].status = "cancelled"]_vars

\* Completed means that the owner or a native end said so, never the history alone,
\* and no result is delivered before.
CompletedHasEnded == \A m \in Messages : \A r \in {mem[m], file[m]} :
  r.status = "completed" \/ r.delivered => turn[m] = "ended"

\* A receipt can be believed, in memory and after a restart: it is well formed, a
\* cancellation was effective and a completion took place.
ReceiptsAreTrue == TypeOK /\ CancelledNeverRuns /\ CompletedHasEnded

\* Native FIFO: whoever starts an item takes the head of the queue, so the Gateway
\* never skips an item of another writer.
HeadFirst == [][\A m \in Messages : turn[m] = "none" /\ turn'[m] = "active" => First = m]_vars

\* A message that was cancelled stays so, and none is started over the head of another.
NoReopenNoSkip == CancelIsFinal /\ HeadFirst

\* Two messages of one thread do not disturb each other: what a cancellation, an
\* observation or a dispatch of one records is true of it, and neither overtakes.
MessagesApart == [](CancelledNeverRuns /\ CompletedHasEnded) /\ HeadFirst

\* Only an unknown handoff of a result makes its delivery unconfirmed.
UnconfirmedByHandoff == \A m \in Messages : mem[m].unconfirmed => m \in executed

\* While receipts can be saved, the result of a queued message that ran is delivered,
\* or its delivery is marked as unconfirmed.
ResultSettles == \A m \in Messages :
  []<>(turn[m] = "ended" => mem[m].delivered \/ mem[m].unconfirmed \/ down)
=============================================================================
