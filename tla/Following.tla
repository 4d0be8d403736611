------------------------------- MODULE Following -------------------------------
(***************************************************************************)
(* How one binding follows a native thread and shows each turn's result on *)
(* a card of the turn: ThreadEventHub of src/src/server/thread-event-hub.ts *)
(* with the cards of src/src/channels/progress.ts.                         *)
(*                                                                         *)
(* Snapshots are read periodically or on request and applied later; hints  *)
(* of the rollout files arrive in order or not at all; both are applied    *)
(* one after the other (SessionControlQueue) while kept results of earlier *)
(* turns are retried beside them.  A read or a card operation that fails,  *)
(* a backend that has not loaded the thread and a restart are faults.      *)
(*                                                                         *)
(* Left out: managed sessions, rebinding, progress switched off, text-only *)
(* transports, cards of several stages or pages, the bootstrap protocol of *)
(* a card, participants, recovered inputs, the holds of capacity recovery, *)
(* system errors, results without text, and the migrations of old journals. *)
(***************************************************************************)
EXTENDS Naturals, Sequences

CONSTANTS
  FolMaxTurns,  \* native turns
  MaxFolHints,  \* hints that wait to be applied
  MaxFolFaults

ASSUME FolAssumption == FolMaxTurns \in Nat \ {0} /\ MaxFolHints \in Nat /\ MaxFolFaults \in Nat

VARIABLES
  folTurns,   \* [n, run]: turns 1..n began, the last one runs or ended
  folSince,   \* turns that had ended when following began
  folState,   \* the durable FollowState of the binding
  folCards,   \* the durable checkpoint of each card
  folBlocked, \* the last frame of the present card was refused for good
  folRead,    \* observe() before its snapshot is applied
  folJob,     \* the observation being applied
  folRetry,   \* turns whose kept result is being sent again
  folHints,   \* hints on their way
  folShown,   \* <<result, card>> the chat has seen
  folMissed,  \* turns the cursor passed though nobody delivered or kept them
  folFaults

folDurable == <<folState, folCards>>
folMemory == <<folBlocked, folRead, folJob, folRetry, folHints>>
folVars == <<folTurns, folSince, folDurable, folMemory, folShown, folMissed, folFaults>>

FolTurns == 1..FolMaxTurns
FolView == [n: 0..FolMaxTurns, run: BOOLEAN]

\* pending is terminalPending.turnId, kept the pendingTerminals as <<turn, card>>.
\* historyBoundary is absent (~bounded), names no turn (0: the thread was empty)
\* or the newest turn of the last snapshot.
FolStates ==
  [turn: 0..FolMaxTurns, card: 0..FolMaxTurns, pending: 0..FolMaxTurns, kept: SUBSET (FolTurns \X FolTurns),
   completed: SUBSET FolTurns, baseline: SUBSET FolTurns, retired: SUBSET FolTurns,
   heard: 0..FolMaxTurns, initialized: BOOLEAN, bounded: BOOLEAN, boundary: 0..FolMaxTurns]

\* asked: a creation was attempted and left no handle.
FolCard == [handle: {"none", "asked", "known"}, terminal: 0..FolMaxTurns, finished: BOOLEAN]

FolNoRead == [stage |-> "none", force |-> FALSE, moved |-> FALSE, view |-> [n |-> 0, run |-> FALSE],
              active |-> 0, loaded |-> TRUE]
FolNoJob == [stage |-> "none", force |-> FALSE, view |-> [n |-> 0, run |-> FALSE],
             active |-> 0, loaded |-> TRUE, boundary |-> 0, next |-> 1]

FolEnded(view, t) == t < view.n \/ (t = view.n /\ ~view.run)
FolKept(s) == {p[1] : p \in s.kept}
FolHeld(s) == FolKept(s) \cup ({s.pending} \ {0})

FolFault == folFaults < MaxFolFaults /\ folFaults' = folFaults + 1

\* A change the snapshot being read cannot contain (sequence).
FolMoved == folRead' = [folRead EXCEPT !.moved = folRead.stage # "none"]

-----------------------------------------------------------------------------
(* The native thread, and the hints its rollout file gives or fails to give. *)

FolTell(kind, t) == Len(folHints) < MaxFolHints /\ folHints' = Append(folHints, [kind |-> kind, turn |-> t])

FolOutside == UNCHANGED <<folSince, folDurable, folBlocked, folRead, folJob, folRetry, folShown, folMissed, folFaults>>

FolBegins ==
  /\ ~folTurns.run /\ folTurns.n < FolMaxTurns
  /\ folTurns' = [n |-> folTurns.n + 1, run |-> TRUE]
  /\ FolTell("started", folTurns.n + 1) \/ UNCHANGED folHints
  /\ FolOutside

FolWorks ==
  /\ folTurns.run /\ FolTell("activity", folTurns.n)
  /\ UNCHANGED folTurns /\ FolOutside

FolEnds ==
  /\ folTurns.run
  /\ folTurns' = [folTurns EXCEPT !.run = FALSE]
  /\ FolTell("completion", folTurns.n) \/ UNCHANGED folHints
  /\ FolOutside

-----------------------------------------------------------------------------
(* Turns and cards. *)

\* archiveTerminal(): a result that is not acknowledged keeps its card.
FolArchive(s) ==
  [s EXCEPT !.kept = IF s.pending \in {0} \cup s.completed THEN @ ELSE @ \cup {<<s.pending, s.card>>},
            !.pending = 0]

\* selectTurn(): the state itself where it refuses.
FolSelect(s, t, switch) ==
  IF t \in s.retired \/ t = s.turn \/ (s.turn # 0 /\ ~switch) THEN s
  ELSE [FolArchive(s) EXCEPT !.turn = t, !.card = t, !.retired = @ \cup ({s.turn} \ {0})]

\* What trying to put the last frame on a card whose handle is as given may
\* leave: a creation shows the result already; a refused one leaves no card.
FolOutcomes(handle) ==
  {o \in [handle: {"none", "asked", "known"}, finished: BOOLEAN, seen: BOOLEAN, blocked: BOOLEAN] :
     /\ handle = "known" => o.handle = "known"
     /\ handle = "none" /\ o.handle = "known" => o.seen
     /\ o.handle = "none" => ~o.seen
     /\ o.finished => o.handle = "known" /\ o.seen /\ ~o.blocked
     /\ o.blocked => o.handle = "known"}

\* What finalize() of t's result may make of card c: nothing where its last frame
\* was refused, its creation is in doubt or only an existing card may be used.
FolFinals(c, t, blocked, existingOnly) ==
  LET k == folCards[c]
      k1 == [k EXCEPT !.terminal = IF @ = 0 THEN t ELSE @]
  IN  IF blocked \/ k.handle = "asked" \/ (existingOnly /\ k.handle # "known")
      THEN {[card |-> k1, tried |-> FALSE, seen |-> FALSE, blocked |-> blocked]}
      ELSE {[card |-> [k1 EXCEPT !.handle = o.handle, !.finished = o.finished],
             tried |-> TRUE, seen |-> o.seen, blocked |-> o.blocked] : o \in FolOutcomes(k.handle)}

FolFinalize(c, f) ==
  /\ folCards' = [folCards EXCEPT ![c] = f.card]
  /\ folShown' = IF f.seen THEN folShown \cup {<<f.card.terminal, c>>} ELSE folShown
  /\ IF f.tried /\ ~f.card.finished THEN FolFault ELSE UNCHANGED folFaults

FolDone(s, t) == [s EXCEPT !.completed = @ \cup {t}, !.pending = 0]

\* finish() of a turn it may select.  The result is kept before it is prepared;
\* a preparation that fails ends the operation it is part of (failed).
FolFinish(s0, t, switch, force, failed) ==
  LET s == FolSelect(s0, t, switch)
      blocked == folBlocked /\ s.card = s0.card /\ ~force
  IN  /\ t \notin s0.completed /\ s.turn = t
      /\ IF failed
         THEN /\ FolFault /\ folState' = [s EXCEPT !.pending = t]
              /\ folBlocked' = (folBlocked /\ s.card = s0.card)
              /\ UNCHANGED <<folCards, folShown, folRead>>
         ELSE \E f \in FolFinals(s.card, t, blocked, FALSE) :
                /\ FolFinalize(s.card, f) /\ folBlocked' = f.blocked
                /\ IF f.card.finished
                   THEN folState' = FolDone(s, t) /\ FolMoved
                   ELSE folState' = [s EXCEPT !.pending = t] /\ UNCHANGED folRead

FolFinishes(s, t, switch) == t \notin s.completed /\ FolSelect(s, t, switch).turn = t

\* deliver() of progress: the card is made, and finishes nothing.
FolDeliver(s0, t, switch) ==
  LET s == FolSelect(s0, t, switch) IN
  /\ folState' = [s EXCEPT !.baseline = @ \ {t}]
  /\ folBlocked' = (folBlocked /\ s.card = s0.card)
  /\ \/ folCards[s.card].handle # "none" /\ UNCHANGED <<folCards, folFaults>>
     \/ /\ folCards[s.card].handle = "none"
        /\ \/ folCards' = [folCards EXCEPT ![s.card].handle = "known"] /\ UNCHANGED folFaults
           \/ folCards' = [folCards EXCEPT ![s.card].handle = "asked"] /\ FolFault
           \/ UNCHANGED folCards /\ FolFault
  /\ FolMoved

\* Progress the card has already been given changes nothing.
FolTold(t) ==
  /\ folState.turn = t /\ folCards[t].handle # "none"
  /\ UNCHANGED <<folDurable, folBlocked, folRead, folFaults>>

FolDelivers(s, t, switch) == t \notin s.completed /\ s.pending = 0 /\ FolSelect(s, t, switch).turn = t

-----------------------------------------------------------------------------
(* observe(): history is read before the runtime, and applied later still. *)

FolStartRead(force) ==
  /\ folRead' = [FolNoRead EXCEPT !.stage = "history", !.force = force, !.view = folTurns]
  /\ UNCHANGED <<folTurns, folSince, folDurable, folBlocked, folJob, folRetry, folHints, folShown, folMissed, folFaults>>

FolRefresh == folRead.stage = "none" /\ folJob.stage = "none" /\ FolStartRead(FALSE)

\* A request of the user supersedes the read of the timer, never another request.
\* Bound: it is made while a result is pending, the only thing it treats otherwise.
FolSynchronize == folState.pending # 0 /\ ~folRead.force /\ ~folJob.force /\ FolStartRead(TRUE)

FolReading == UNCHANGED <<folTurns, folSince, folDurable, folBlocked, folJob, folRetry, folHints, folShown, folMissed>>

FolReadRuntime ==
  /\ folRead.stage = "history"
  /\ folRead' = [folRead EXCEPT !.stage = "ready", !.active = IF folTurns.run THEN folTurns.n ELSE 0]
  /\ UNCHANGED folFaults /\ FolReading

\* A reader that has not loaded the thread reconstructs every turn as ended.
FolReadUnloaded ==
  /\ folRead.stage = "history" /\ FolFault
  /\ folRead' = [folRead EXCEPT !.stage = "ready", !.view.run = FALSE, !.loaded = FALSE]
  /\ FolReading

FolReadFails ==
  /\ folRead.stage = "history" /\ FolFault
  /\ folRead' = FolNoRead
  /\ FolReading

\* The snapshot is older than the state, inconsistent, or contradicts it.
FolConflicts(s, r) ==
  \/ r.moved /\ r.active # s.turn
  \/ r.active # 0 /\ ~(r.view.run /\ r.view.n = r.active)
  \/ r.active # 0 /\ (r.active \in s.completed \/ (s.turn \notin {0, r.active} /\ s.heard > r.active))

FolDiscard ==
  /\ folRead.stage = "ready" /\ folJob.stage = "none" /\ FolConflicts(folState, folRead)
  /\ folRead' = FolNoRead
  /\ UNCHANGED <<folTurns, folSince, folDurable, folBlocked, folJob, folRetry, folHints, folShown, folMissed, folFaults>>

\* The first loaded snapshot freezes the history it shows; an older result that
\* was not acknowledged is set aside.
FolFreeze(s, r) ==
  LET tail == r.view.n
      frozen == [s EXCEPT !.bounded = TRUE, !.boundary = IF tail # 0 THEN tail ELSE s.turn]
  IN  IF s.bounded \/ ~r.loaded THEN s
      ELSE IF r.active = 0 /\ tail # 0 /\ s.turn \notin {0, tail} /\ s.pending # 0
      THEN [FolArchive(frozen) EXCEPT !.turn = 0, !.card = 0, !.retired = @ \cup {s.turn}]
      ELSE frozen

\* The result of a turn that another has followed is taken from the snapshot.
FolCapture(s, r) ==
  IF r.active # 0 /\ s.turn \notin {0, r.active} /\ s.pending = 0 /\ FolEnded(r.view, s.turn)
  THEN [s EXCEPT !.pending = s.turn] ELSE s

\* A boundary set where the snapshot shows no end passes the results of turns
\* that are not followed.
FolPasses(view, s, boundary) == {t \in 1..boundary : t # s.turn /\ ~FolEnded(view, t)}

FolSwitch(s, r) == IF r.active = 0 THEN s ELSE FolSelect(FolCapture(s, r), r.active, TRUE)

FolApply ==
  LET frozen == FolFreeze(folState, folRead)
      s == FolSwitch(frozen, folRead)
  IN  /\ folRead.stage = "ready" /\ folJob.stage = "none" /\ ~FolConflicts(folState, folRead)
      /\ folState' = s
      /\ folBlocked' = (folBlocked /\ s.card = folState.card)
      /\ folRetry' = folRetry \cup {p[1] : p \in {q \in s.kept : folCards[q[2]].handle = "known"}}
      /\ folJob' = [stage |-> "pending", force |-> folRead.force, view |-> folRead.view, active |-> folRead.active,
                    loaded |-> folRead.loaded, boundary |-> frozen.boundary, next |-> 1]
      /\ folRead' = FolNoRead
      /\ folMissed' = IF folState.bounded \/ ~folRead.loaded THEN folMissed
                      ELSE folMissed \cup FolPasses(folRead.view, s, s.boundary)
      /\ UNCHANGED <<folTurns, folSince, folCards, folHints, folShown, folFaults>>

FolJobStep == UNCHANGED <<folTurns, folSince, folRetry, folHints>>

\* History that had ended before the first loaded snapshot is not shown.
FolBaseline(s) ==
  IF s.initialized \/ ~folJob.loaded THEN s
  ELSE [s EXCEPT !.initialized = TRUE, !.baseline = {t \in 1..folJob.view.n : FolEnded(folJob.view, t)} \ {s.turn}]

FolPending ==
  /\ folJob.stage = "pending"
  /\ \/ /\ folState.pending \in {0} \cup folState.completed /\ folState' = FolBaseline(folState)
        /\ folJob' = [folJob EXCEPT !.stage = "turns"]
        /\ UNCHANGED <<folCards, folBlocked, folShown, folFaults, folRead>>
     \/ /\ folState.pending \notin {0} \cup folState.completed
        /\ FolFinish(FolBaseline(folState), folState.pending, FALSE, folJob.force, FALSE)
        /\ folJob' = [folJob EXCEPT !.stage = "turns"]
     \/ /\ folState.pending \notin {0} \cup folState.completed
        /\ FolFinish(folState, folState.pending, FALSE, folJob.force, TRUE)
        /\ folJob' = FolNoJob
  /\ UNCHANGED folMissed /\ FolJobStep

FolAfter(t, b) == b # 0 /\ t > b

FolAt(t) == folJob.stage = "turns" /\ folJob.next = t /\ t <= folJob.view.n
FolNext == folJob' = [folJob EXCEPT !.next = @ + 1]
FolSettled(t) == t \in folState.completed \cup folState.baseline \cup FolKept(folState)

FolRunning(t) ==
  /\ FolAt(t) /\ ~FolSettled(t) /\ folJob.active = t
  /\ FolDelivers(folState, t, TRUE)
  /\ FolDeliver(folState, t, TRUE) \/ FolTold(t)
  /\ FolNext /\ UNCHANGED <<folShown, folMissed>> /\ FolJobStep

\* Mutant: what a reader that has not loaded the thread reconstructs counts.
FolDueUnloaded(t) ==
  /\ FolEnded(folJob.view, t) /\ ~FolSettled(t)
  /\ t = folState.turn \/ FolAfter(t, folJob.boundary)

\* The ended turn is the one followed, or newer than the boundary.
FolDue(t) ==
  /\ folJob.loaded /\ FolEnded(folJob.view, t) /\ ~FolSettled(t)
  /\ t = folState.turn \/ FolAfter(t, folJob.boundary)
FolMaySwitch == folState.turn \in folState.completed

FolTurnEnded(t) ==
  /\ FolAt(t) /\ FolDue(t)
  /\ \/ FolFinish(folState, t, FolMaySwitch, FALSE, FALSE) /\ FolNext
     \/ FolFinish(folState, t, FolMaySwitch, FALSE, TRUE) /\ folJob' = FolNoJob
  /\ UNCHANGED folMissed /\ FolJobStep

\* Any other turn is passed over.  Those nobody tracks any more are noted: an
\* unacknowledged result is in the way, or the boundary names no turn.
FolPassOver(t) ==
  /\ FolAt(t)
  /\ ~(~FolSettled(t) /\ folJob.active = t /\ FolDelivers(folState, t, TRUE))
  /\ ~(FolDue(t) /\ FolFinishes(folState, t, FolMaySwitch))
  /\ folMissed' = IF FolDue(t) \/ (/\ folJob.loaded /\ FolEnded(folJob.view, t) /\ ~FolSettled(t)
                                   /\ folJob.boundary = 0)
                  THEN folMissed \cup {t} ELSE folMissed
  /\ FolNext
  /\ UNCHANGED <<folDurable, folBlocked, folRead, folShown, folFaults>> /\ FolJobStep

\* The boundary moves to the newest turn, also to one that has not ended and
\* is not tracked.
FolAdvance ==
  LET n == folJob.view.n
      moves == folJob.loaded /\ n # 0 /\ (n = folState.turn \/ FolAfter(n, folJob.boundary))
  IN  /\ folJob.stage = "turns" /\ folJob.next > n
      /\ folState' = IF moves THEN [folState EXCEPT !.bounded = TRUE, !.boundary = n] ELSE folState
      /\ folMissed' = IF moves THEN folMissed \cup FolPasses(folJob.view, folState, n) ELSE folMissed
      /\ folJob' = FolNoJob
      /\ UNCHANGED <<folCards, folBlocked, folRead, folShown, folFaults>> /\ FolJobStep

-----------------------------------------------------------------------------
(* Hints, the retries of kept results, and restarts. *)

FolHint(kind) ==
  /\ folJob.stage = "none" /\ folHints # <<>> /\ Head(folHints).kind = kind
  /\ folHints' = Tail(folHints)
  /\ UNCHANGED <<folTurns, folSince, folJob, folRetry>>

FolIgnore == UNCHANGED <<folDurable, folBlocked, folRead, folShown, folMissed, folFaults>>

\* The turn left behind is not looked up, also where the hint is late and its
\* turn the older one: unless a result is pending it is passed, and so is
\* whatever else ended before the turn of the hint.
FolHearStart ==
  LET s == folState
      t == Head(folHints).turn
      s1 == [FolSelect(s, t, TRUE) EXCEPT !.heard = t, !.bounded = TRUE, !.boundary = t]
  IN  /\ FolHint("started")
      /\ \/ (t \in s.completed \cup s.retired \/ t < s.heard) /\ FolIgnore
         \/ /\ t \notin s.completed \cup s.retired /\ t >= s.heard
            /\ folState' = s1
            /\ folBlocked' = (folBlocked /\ s1.card = s.card)
            /\ folMissed' = folMissed \cup (((1..(t - 1)) \cup ({s.turn} \ {0, t})) \ (s.completed \cup s.baseline \cup FolKept(s1)))
            /\ FolMoved
            /\ UNCHANGED <<folCards, folShown, folFaults>>

FolHearActivity ==
  LET t == Head(folHints).turn IN
  /\ FolHint("activity")
  /\ \/ /\ FolDelivers(folState, t, FALSE)
        /\ FolDeliver(folState, t, FALSE) \/ FolTold(t)
        /\ UNCHANGED <<folShown, folMissed>>
     \/ ~FolDelivers(folState, t, FALSE) /\ FolIgnore

FolHearCompletion ==
  LET t == Head(folHints).turn IN
  /\ FolHint("completion")
  /\ \/ \E failed \in BOOLEAN : FolFinish(folState, t, FALSE, FALSE, failed) /\ UNCHANGED folMissed
     \/ ~FolFinishes(folState, t, FALSE) /\ FolIgnore

\* retryPreviousTerminals(): only a card that exists is used.
FolRetried(t) ==
  /\ t \in folRetry /\ folRetry' = folRetry \ {t}
  /\ \E p \in folState.kept : \E f \in FolFinals(p[2], t, FALSE, TRUE) :
       /\ p[1] = t
       /\ FolFinalize(p[2], f)
       /\ folState' = IF f.card.finished
                      THEN [folState EXCEPT !.kept = @ \ {p}, !.completed = @ \cup {t}] ELSE folState
  /\ UNCHANGED <<folTurns, folSince, folBlocked, folRead, folJob, folHints, folMissed>>

FolRestart ==
  /\ FolFault
  /\ folBlocked' = FALSE /\ folRead' = FolNoRead /\ folJob' = FolNoJob /\ folRetry' = {} /\ folHints' = <<>>
  /\ UNCHANGED <<folTurns, folSince, folDurable, folShown, folMissed>>

-----------------------------------------------------------------------------

\* Following begins on a thread that is empty, runs its first turn or has ended it.
FolInit ==
  /\ folTurns \in {v \in [n: {0, 1}, run: BOOLEAN] : v.run => v.n = 1}
  /\ folSince = IF folTurns.run THEN 0 ELSE folTurns.n
  /\ folState = [turn |-> 0, card |-> 0, pending |-> 0, kept |-> {}, completed |-> {}, baseline |-> {},
                 retired |-> {}, heard |-> 0, initialized |-> FALSE, bounded |-> FALSE, boundary |-> 0]
  /\ folCards = [c \in FolTurns |-> [handle |-> "none", terminal |-> 0, finished |-> FALSE]]
  /\ folBlocked = FALSE /\ folRead = FolNoRead /\ folJob = FolNoJob /\ folRetry = {} /\ folHints = <<>>
  /\ folShown = {} /\ folMissed = {} /\ folFaults = 0

FolThread == FolBegins \/ FolWorks \/ FolEnds
FolObserve == FolReadRuntime \/ FolDiscard \/ FolApply
FolWork(t) == FolRunning(t) \/ FolTurnEnded(t) \/ FolPassOver(t)
FolHears == FolHearStart \/ FolHearActivity \/ FolHearCompletion

FolStep ==
  \/ FolThread \/ FolRefresh \/ FolSynchronize \/ FolObserve \/ FolReadUnloaded \/ FolReadFails
  \/ FolPending \/ FolAdvance \/ FolHears \/ FolRestart
  \/ \E t \in FolTurns : FolWork(t) \/ FolRetried(t)

FolSpec == FolInit /\ [][FolStep]_folVars

\* The timer fires, reads and card operations are answered or time out, and what
\* waits its turn is served.
FolFairness ==
  /\ WF_folVars(FolRefresh) /\ WF_folVars(FolObserve)
  /\ WF_folVars(FolPending \/ FolAdvance \/ \E t \in FolTurns : FolWork(t))
  /\ WF_folVars(FolHears)
  /\ \A t \in FolTurns : WF_folVars(FolRetried(t))

-----------------------------------------------------------------------------

FolTypeOK ==
  /\ folTurns \in FolView /\ folSince \in 0..1 /\ folState \in FolStates
  /\ folCards \in [FolTurns -> FolCard] /\ folBlocked \in BOOLEAN
  /\ folRetry \subseteq FolKept(folState) /\ folShown \subseteq FolTurns \X FolTurns
  /\ folMissed \subseteq FolTurns /\ folFaults \in 0..MaxFolFaults

\* A card shows one result and a result has one card, whatever fails or is told
\* twice; it is the result of a turn that has ended, and after following began;
\* and what counts as delivered was shown.
FolShownRight ==
  /\ \A p, q \in folShown : p[1] = q[1] <=> p[2] = q[2]
  /\ \A p \in folShown : FolEnded(folTurns, p[1]) /\ p[1] > folSince
  /\ \A t \in folState.completed : \E p \in folShown : p[1] = t

\* A result the hub holds is held until it is delivered.
FolHeldIsKept == [][FolHeld(folState) \subseteq FolHeld(folState') \cup folState'.completed]_folVars

\* Nothing more can be done for the result unasked: its card does not exist or
\* its creation is in doubt, or the card refused it for good.
FolStuck(t) ==
  \/ \E p \in folState.kept : p[1] = t /\ folCards[p[2]].handle # "known"
  \/ folState.pending = t /\ (folBlocked \/ folCards[folState.card].handle = "asked")

\* "snapshots repair missed notifications and recover turns completed while the
\* gateway was stopped": a turn that ends while it is followed is delivered, but
\* for the history of the first snapshot and what the boundary passed (folMissed).
FolRepaired ==
  []<>(\A t \in FolTurns :
         FolEnded(folTurns, t) /\ t > folSince
           => t \in folState.completed \cup folState.baseline \cup folMissed \/ FolStuck(t))

\* Each result is shown rightly, and kept until it is delivered.
FolPromise == [](FolTypeOK /\ FolShownRight) /\ FolHeldIsKept
===============================================================================
