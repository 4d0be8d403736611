--------------------------- MODULE ForwardingProofs ---------------------------
(***************************************************************************)
(* Proofs about the two ways of a message: into a thread (Forwarding), and *)
(* of a turn's result back to the chat (Following).                        *)
(*                                                                         *)
(* The forwarding inbox implements the receipt journal: every step of      *)
(* Forwarding is a step of InboundReceipts or leaves its variables alone.  *)
(* What is proved of the journal therefore holds in the composition.       *)
(*                                                                         *)
(* On top of it: no saved body is given up early, and a saved message is   *)
(* written only to the target its row names.  The second needs to know     *)
(* when the lease of a handler can never hold again (Past): rows of other  *)
(* messages follow their session to a thread that was just created, and a  *)
(* handler may then hold a lease that its own row has left behind.         *)
(*                                                                         *)
(* Of a followed thread, FolSeen says what a snapshot proves of the turns  *)
(* when it is applied late, and FolFits that the state pairs each result   *)
(* with the card of its turn.                                              *)
(***************************************************************************)
EXTENDS Forwarding, Following, InboundReceiptsProofs, SequenceTheorems, FiniteSetTheorems

\* Delivering, holding, informing and removing rows touch a receipt only to start
\* its handler.
LEMMA DeliverSimulates ==
  ASSUME NEW m \in Messages, DeliverStep(m)
  PROVE  [Next]_vars
<1>1. (\E ok \in BOOLEAN : Handle(m, ok)) => Next
  BY DEF Next, SourceStep
<1>2. DeliverStep(m) => UNCHANGED vars \/ \E ok \in BOOLEAN : Handle(m, ok)
  BY Zenon DEF DeliverStep, CleanUp, KeepUnconfirmed, InformEnds, DeliverEnds, DeliverFails, Hold, Postpone,
     AwaitGateway, Inform, Dispatch, DispatchUnsaved, DispatchRefused
<1> QED  BY <1>1, <1>2

\* A handler that holds a lease takes the steps of the journal's handler.
LEMMA LeasedSimulates ==
  ASSUME NEW m \in Messages, LeasedStep(m)
  PROVE  [Next]_vars
<1>1. HandlerStep(m) => Next
  BY DEF Next
<1>2. LeasedStep(m) => UNCHANGED vars \/ HandlerStep(m)
  BY Zenon DEF LeasedStep, HandlerStep, Prepared, SendLeased, HandlerReturns, HandlerThrows, Lift, SubmitLeased,
     CreateThread
<1> QED  BY <1>1, <1>2

\* Recovery and its inbox callback are recovery steps.
LEMMA ObserverSimulates ==
  ASSUME NEW m \in Messages, ObserverStep(m)
  PROVE  [Next]_vars
<1>1. RecoveryStep(m) => Next
  BY DEF Next
<1>2. ObserverStep(m) => RecoveryStep(m)
  BY DEF ObserverStep, RecoveryStep, Lift
<1> QED  BY <1>1, <1>2

\* The user retries without touching the receipt, and cancels by abandoning it.
LEMMA UserSimulates ==
  ASSUME NEW m \in Messages, UserStep(m)
  PROVE  [Next]_vars
<1>1. SourceStep(m) => Next
  BY DEF Next
<1>2. UserStep(m) => UNCHANGED vars \/ SourceStep(m)
  BY DEF UserStep, SourceStep, Retry, Cancel, ReleaseClaim, Lift, ClaimReceipt
<1> QED  BY <1>1, <1>2

\* Staging ends a claim or releases it.
LEMMA StageSimulates ==
  ASSUME StageStep
  PROVE  [Next]_vars
<1>1. PICK m \in Messages : Stage(m) \/ StageFails(m)
  BY DEF StageStep
<1>2. CASE Stage(m)
  BY <1>2 DEF Stage
<1>3. CASE StageFails(m)
  BY <1>3 DEF StageFails, Next, SourceStep
<1> QED  BY <1>1, <1>2, <1>3

\* One step of the composition is one step of the journal, or none.
LEMMA StepSimulates ==
  ASSUME [ForwardingNext]_allVars
  PROVE  [Next]_vars
<1>1. CASE StageStep
  BY <1>1, StageSimulates
<1>2. ASSUME NEW m \in Messages, MessageStep(m) PROVE [Next]_vars
  <2>1. CASE DeliverStep(m)  BY <2>1, DeliverSimulates
  <2>2. CASE LeasedStep(m)   BY <2>2, LeasedSimulates
  <2>3. CASE Lift(NativeStep(m))  BY <2>3 DEF Lift, Next
  <2>4. CASE ObserverStep(m) BY <2>4, ObserverSimulates
  <2>5. CASE UserStep(m)     BY <2>5, UserSimulates
  <2> QED  BY <1>2, <2>1, <2>2, <2>3, <2>4, <2>5 DEF MessageStep
<1>3. CASE Detach \/ Reset \/ \E s \in Sessions : Attach(s)
  BY <1>3 DEF Detach, Reset, Attach, Rebinding
<1>4. CASE RestartInbox
  BY <1>4 DEF RestartInbox, Next
<1>5. CASE UNCHANGED allVars
  BY <1>5 DEF allVars
<1> QED  BY <1>1, <1>2, <1>3, <1>4, <1>5 DEF ForwardingNext

\* The inbox (deliver, accepted, retry, cancel, the timer and the restart) drives the
\* receipt journal only in the ways the journal allows, for every number of messages,
\* sessions, rebinds and faults.
THEOREM JournalImplemented == ForwardingSpec => JournalSpec
<1>1. ForwardingInit => Init
  BY DEF ForwardingInit
<1>2. [ForwardingNext]_allVars => [Next]_vars
  BY StepSimulates
<1> QED  BY <1>1, <1>2, PTL DEF ForwardingSpec, JournalSpec, Spec

\* However often the inbox redelivers, retries and restarts, and wherever a message
\* is rebound, the native core is asked at most once for it.
THEOREM ForwardedOnce == ForwardingSpec => []NativeOnce
BY JournalImplemented, NativeOnceHolds, PTL DEF JournalSpec

-----------------------------------------------------------------------------
(* The saved rows.  A sequence of rows is read through two questions: has it  *)
(* a row of m, and what does that row say.                                    *)

Rows(rows) ==
  /\ rows \in Seq(RowType)
  /\ \A i, j \in DOMAIN rows : rows[i].msg = rows[j].msg => i = j

RowIn(rows, m) == rows[Place(rows, m)]

\* The place of a row is where its message is.
LEMMA PlaceHas ==
  ASSUME NEW rows, NEW m, Has(rows, m)
  PROVE  Place(rows, m) \in DOMAIN rows /\ rows[Place(rows, m)].msg = m
BY DEF Has, Place

\* A message has one row.
LEMMA PlaceIs ==
  ASSUME NEW rows, Rows(rows), NEW i \in DOMAIN rows
  PROVE  Place(rows, rows[i].msg) = i /\ Has(rows, rows[i].msg)
<1>1. Has(rows, rows[i].msg)
  BY DEF Has
<1> QED  BY <1>1, PlaceHas DEF Rows

\* The row of a message is a row.
LEMMA RowInType ==
  ASSUME NEW rows, Rows(rows), NEW m, Has(rows, m)
  PROVE  RowIn(rows, m) \in RowType /\ RowIn(rows, m).msg = m
BY PlaceHas DEF Rows, RowIn


\* Replacing the row of m in place.
Rewritten(rows, m, row) == [rows EXCEPT ![Place(rows, m)] = row]

LEMMA RowReplaced ==
  ASSUME NEW rows, Rows(rows), NEW m, Has(rows, m), NEW row \in RowType, row.msg = m
  PROVE  /\ Rows(Rewritten(rows, m, row))
         /\ \A n : Has(Rewritten(rows, m, row), n) <=> Has(rows, n)
         /\ RowIn(Rewritten(rows, m, row), m) = row
         /\ \A n : n # m /\ Has(rows, n) => RowIn(Rewritten(rows, m, row), n) = RowIn(rows, n)
<1> DEFINE p == Place(rows, m)
           new == Rewritten(rows, m, row)
<1>1. p \in DOMAIN rows /\ rows[p].msg = m
  BY PlaceHas
<1>0. new = [rows EXCEPT ![p] = row]
  BY DEF Rewritten
<1> HIDE DEF p, new
<1>2. new \in Seq(RowType) /\ DOMAIN new = DOMAIN rows /\ new[p] = row /\ \A i \in DOMAIN rows : i # p => new[i] = rows[i]
  BY <1>0, <1>1 DEF Rows
<1>3. \A i \in DOMAIN rows : new[i].msg = rows[i].msg
  BY <1>1, <1>2
<1>4. Rows(new)
  BY <1>2, <1>3 DEF Rows
<1>5. \A n : Has(new, n) <=> Has(rows, n)
  BY <1>2, <1>3 DEF Has
<1>6. RowIn(new, m) = row
  <2>1. Place(new, m) = p
    BY <1>1, <1>2, <1>3, <1>4, PlaceIs
  <2> QED  BY <1>2, <2>1 DEF RowIn
<1>7. ASSUME NEW n, n # m, Has(rows, n) PROVE RowIn(new, n) = RowIn(rows, n)
  <2>1. PICK i \in DOMAIN rows : rows[i].msg = n
    BY <1>7 DEF Has
  <2>2. Place(rows, n) = i
    BY <2>1, PlaceIs
  <2>3. Place(new, n) = i
    BY <2>1, <1>2, <1>3, <1>4, PlaceIs
  <2> QED  BY <1>1, <1>2, <1>7, <2>1, <2>2, <2>3 DEF RowIn
<1> QED  BY <1>4, <1>5, <1>6, <1>7 DEF new

\* Appending the row of a message that has none.
LEMMA RowAppended ==
  ASSUME NEW rows, Rows(rows), NEW row \in RowType, ~Has(rows, row.msg)
  PROVE  /\ Rows(Append(rows, row))
         /\ \A n : Has(Append(rows, row), n) <=> (Has(rows, n) \/ n = row.msg)
         /\ RowIn(Append(rows, row), row.msg) = row
         /\ \A n : Has(rows, n) => RowIn(Append(rows, row), n) = RowIn(rows, n)
<1> DEFINE k == Len(rows)
           new == Append(rows, row)
<1>1. k \in Nat /\ DOMAIN rows = 1..k /\ rows \in Seq(RowType)
  BY DEF Rows
<1>2. new \in Seq(RowType) /\ DOMAIN new = 1..(k + 1) /\ new[k + 1] = row /\ \A i \in 1..k : new[i] = rows[i]
  BY <1>1
<1> HIDE DEF k, new
<1>3. \A i \in 1..k : rows[i].msg # row.msg
  BY <1>1 DEF Has
<1>4. Rows(new)
  <2> SUFFICES ASSUME NEW i \in 1..(k + 1), NEW j \in 1..(k + 1), new[i].msg = new[j].msg PROVE i = j
    BY <1>2 DEF Rows
  <2>1. CASE i \in 1..k /\ j \in 1..k
    BY <1>1, <1>2, <2>1 DEF Rows
  <2>2. CASE i = k + 1 /\ j \in 1..k
    BY <1>2, <1>3, <2>2
  <2>3. CASE i \in 1..k /\ j = k + 1
    BY <1>2, <1>3, <2>3
  <2> QED  BY <1>1, <2>1, <2>2, <2>3
<1>5. \A n : Has(new, n) <=> (Has(rows, n) \/ n = row.msg)
  <2>1. ASSUME NEW n, Has(new, n) PROVE Has(rows, n) \/ n = row.msg
    BY <1>1, <1>2, <2>1 DEF Has
  <2>2. ASSUME NEW n, Has(rows, n) PROVE Has(new, n)
    <3>1. PICK i \in 1..k : rows[i].msg = n
      BY <1>1, <2>2 DEF Has
    <3> QED  BY <1>1, <1>2, <3>1 DEF Has
  <2>3. Has(new, row.msg)
    <3>1. k + 1 \in 1..(k + 1)
      BY <1>1
    <3> QED  BY <1>2, <3>1 DEF Has
  <2> QED  BY <2>1, <2>2, <2>3
<1>6. RowIn(new, row.msg) = row
  <2>1. k + 1 \in DOMAIN new
    BY <1>1, <1>2
  <2>2. Place(new, row.msg) = k + 1
    BY <1>2, <1>4, <2>1, PlaceIs
  <2> QED  BY <1>2, <2>2 DEF RowIn
<1>7. ASSUME NEW n, Has(rows, n) PROVE RowIn(new, n) = RowIn(rows, n)
  <2>1. PICK i \in DOMAIN rows : rows[i].msg = n
    BY <1>7 DEF Has
  <2>2. Place(rows, n) = i
    BY <2>1, PlaceIs
  <2>3. i \in DOMAIN new /\ new[i] = rows[i]
    BY <1>1, <1>2, <2>1
  <2>4. Place(new, n) = i
    BY <1>4, <2>1, <2>3, PlaceIs
  <2> QED  BY <2>2, <2>3, <2>4 DEF RowIn
<1> QED  BY <1>4, <1>5, <1>6, <1>7 DEF new

\* Taking the row of m out.
LEMMA RowTaken ==
  ASSUME NEW rows, Rows(rows), NEW m, Has(rows, m), NEW new, new = Without(rows, m)
  PROVE  /\ Rows(new)
         /\ \A n : Has(new, n) <=> (Has(rows, n) /\ n # m)
         /\ \A n : n # m /\ Has(rows, n) => RowIn(new, n) = RowIn(rows, n)
<1> DEFINE p == Place(rows, m)
           k == Len(rows)
           a == SubSeq(rows, 1, p - 1)
           b == SubSeq(rows, p + 1, k)
<1>1. k \in Nat /\ DOMAIN rows = 1..k /\ p \in 1..k /\ rows[p].msg = m
  BY PlaceHas DEF Rows
<1>2. rows \in Seq(RowType)
  BY DEF Rows
<1>3. new = a \o b
  BY DEF Without
<1> HIDE DEF p, k
<1>4. a \in Seq(RowType) /\ Len(a) = p - 1 /\ \A i \in 1..(p - 1) : a[i] = rows[i]
  BY <1>1, <1>2 DEF k
<1>5. b \in Seq(RowType) /\ Len(b) = k - p /\ \A i \in 1..(k - p) : b[i] = rows[i + p]
  <2>1. \A i \in (p + 1)..k : rows[i] \in RowType
    BY <1>1, <1>2
  <2>2. /\ b \in Seq(RowType)
        /\ Len(b) = IF p + 1 <= k THEN k - (p + 1) + 1 ELSE 0
        /\ \A i \in 1..(k - (p + 1) + 1) : b[i] = rows[(p + 1) + i - 1]
    BY <1>1, <2>1, SubSeqProperties DEF k
  <2>3. Len(b) = k - p /\ k - (p + 1) + 1 = k - p
    BY <1>1, <2>2
  <2>4. ASSUME NEW i \in 1..(k - p) PROVE b[i] = rows[i + p]
    <3>1. (p + 1) + i - 1 = i + p
      BY <1>1
    <3> QED  BY <2>2, <2>3, <3>1
  <2> QED  BY <2>2, <2>3, <2>4
<1> HIDE DEF a, b
<1>6. /\ new \in Seq(RowType) /\ DOMAIN new = 1..(k - 1)
      /\ \A i \in 1..(p - 1) : new[i] = rows[i]
      /\ \A i \in p..(k - 1) : new[i] = rows[i + 1]
  <2>1. /\ new \in Seq(RowType)
        /\ Len(new) = (p - 1) + (k - p)
        /\ \A i \in 1..((p - 1) + (k - p)) : new[i] = IF i <= p - 1 THEN a[i] ELSE b[i - (p - 1)]
    BY <1>3, <1>4, <1>5, ConcatProperties
  <2>2. Len(new) = k - 1 /\ (p - 1) + (k - p) = k - 1
    BY <1>1, <2>1
  <2>3. DOMAIN new = 1..(k - 1)
    BY <2>1, <2>2
  <2>4. ASSUME NEW i \in 1..(p - 1) PROVE new[i] = rows[i]
    BY <1>1, <1>4, <2>1, <2>2
  <2>5. ASSUME NEW i \in p..(k - 1) PROVE new[i] = rows[i + 1]
    <3>1. i \in 1..((p - 1) + (k - p)) /\ ~(i <= p - 1) /\ i - (p - 1) \in 1..(k - p) /\ (i - (p - 1)) + p = i + 1
      BY <1>1
    <3>2. b[i - (p - 1)] = rows[(i - (p - 1)) + p]
      BY <1>5, <3>1
    <3> QED  BY <2>1, <3>1, <3>2
  <2> QED  BY <2>1, <2>3, <2>4, <2>5
<1> DEFINE at(i) == IF i < p THEN i ELSE i + 1
<1>7. \A i \in 1..(k - 1) : at(i) \in 1..k /\ at(i) # p /\ new[i] = rows[at(i)]
  BY <1>1, <1>6
<1>8. \A i, j \in 1..(k - 1) : at(i) = at(j) => i = j
  BY <1>1
<1>9. \A i \in 1..k : i # p => \E j \in 1..(k - 1) : at(j) = i
  <2> TAKE i \in 1..k
  <2> HAVE i # p
  <2>1. CASE i < p
    BY <1>1, <2>1
  <2>2. CASE i > p
    <3>1. i - 1 \in 1..(k - 1) /\ at(i - 1) = i
      BY <1>1, <2>2
    <3> QED  BY <3>1
  <2> QED  BY <1>1, <2>1, <2>2
<1> HIDE DEF at
<1>10. Rows(new)
  BY <1>1, <1>6, <1>7, <1>8 DEF Rows
<1>11. ASSUME NEW n, Has(new, n) PROVE Has(rows, n) /\ n # m
  <2>1. PICK i \in 1..(k - 1) : new[i].msg = n
    BY <1>6, <1>11 DEF Has
  <2>2. at(i) \in DOMAIN rows /\ rows[at(i)].msg = n /\ at(i) # p
    BY <1>1, <1>7, <2>1
  <2> QED  BY <1>1, <2>2 DEF Has, Rows
<1>12. ASSUME NEW n, n # m, Has(rows, n) PROVE Has(new, n) /\ RowIn(new, n) = RowIn(rows, n)
  <2>1. PICK i \in 1..k : rows[i].msg = n
    BY <1>1, <1>12 DEF Has
  <2>2. i # p
    BY <1>1, <1>12, <2>1
  <2>3. PICK j \in 1..(k - 1) : at(j) = i
    BY <1>9, <2>2
  <2>4. j \in DOMAIN new /\ new[j] = rows[i]
    BY <1>6, <1>7, <2>3
  <2>5. Place(rows, n) = i
    BY <1>1, <2>1, PlaceIs
  <2>6. Place(new, n) = j /\ Has(new, n)
    BY <1>10, <2>1, <2>4, PlaceIs
  <2> QED  BY <2>4, <2>5, <2>6 DEF RowIn
<1> QED  BY <1>10, <1>11, <1>12

-----------------------------------------------------------------------------
(* The invariant of the composition.                                        *)

\* The handler of m still prepares its input, or marked it and has not written it.
Working(m) == stage[m] \in {"preparing", "submitting"}

\* The lease of m is the target its saved row names, but for the thread its own
\* submission created.
Alike(m) ==
  /\ lease[m].session = RowIn(inbox, m).target.session
  /\ lease[m].epoch = RowIn(inbox, m).target.epoch
  /\ RowIn(inbox, m).target.thread \in {0, lease[m].thread}

\* The binding a lease was taken from is gone for good: a later generation of the
\* session, or another thread in the same one.
Past(l) ==
  /\ l.session \in Sessions
  /\ \/ sessions[l.session].epoch > l.epoch
     \/ sessions[l.session].thread # 0 /\ sessions[l.session].thread # l.thread

\* What deliver() knows of a handler: it is dispatching while the handler runs, and a
\* dispatch returns only with a concluded receipt.
Dispatched(m) ==
  /\ Processing(m) => delivering[m] = "dispatching"
  /\ delivering[m] = "returned" => Concluded(m)
  /\ stage[m] = "returned" => mem[m].phase # "unconfirmed"

\* The lease of a working handler.
Leased(m) ==
  /\ Working(m) /\ lease[m].session \in Sessions => lease[m].epoch <= sessions[lease[m].session].epoch
  /\ stage[m] = "submitting" /\ kind[m] = "turn" =>
       lease[m].session \in Sessions /\ (mem[m].thread <=> lease[m].thread # 0)

\* The row of a working automatic message is kept, and can be written only to the
\* target it names.
RowHeld(m) == Working(m) /\ Automatic(m) => Has(inbox, m) /\ (Alike(m) \/ Past(lease[m]))

Handling(m) == Dispatched(m) /\ Leased(m) /\ RowHeld(m)

Places == {"no", "dispatching", "informing", "returned", "deferred", "failed"}

BindingType ==
  /\ bound \in Sessions \union {NoSession}
  /\ sessions \in [Sessions -> [thread: Nat, epoch: Nat]]
  /\ fresh \in Nat
  /\ \A s \in Sessions : sessions[s].thread <= fresh /\ sessions[s].epoch <= fresh

DeliveryType ==
  /\ lane \in [Messages -> Lanes]
  /\ delivering \in [Messages -> Places]
  /\ lease \in [Messages -> Target]
  /\ retried \subseteq Messages
  /\ staging = {} \/ \E m \in Messages : staging = {m}

InboxType ==
  /\ Rows(inbox)
  /\ Rows(file)
  /\ inboxFaults \in 0..MaxInboxFaults

FInv == /\ BindingType /\ DeliveryType /\ InboxType
        /\ \A m \in Messages : Handling(m)

-----------------------------------------------------------------------------
(* What a step does to the journal and to the rows of the other messages.   *)

\* A step of the journal about m leaves the receipts and handlers of the others alone.
JournalFrame(m) ==
  /\ kind' = kind
  /\ \A n \in Messages \ {m} : mem'[n] = mem[n] /\ stage'[n] = stage[n]

LEMMA SourceFrame ==
  ASSUME TypeOK, NEW m \in Messages, SourceStep(m)
  PROVE  JournalFrame(m)
<1>1. CASE ReleasePreparation(m)
  BY <1>1 DEF ReleasePreparation, JournalFrame
<1>2. ASSUME NEW ok \in BOOLEAN, Claim(m, ok) PROVE JournalFrame(m)
  BY <1>2 DEF TypeOK, Claim, ClaimSave, JournalFrame
<1>3. ASSUME NEW ok \in BOOLEAN, Handle(m, ok) PROVE JournalFrame(m)
  BY <1>3 DEF TypeOK, Handle, ClaimSave, JournalFrame
<1>4. ASSUME NEW ok \in BOOLEAN, Abandon(m, ok) PROVE JournalFrame(m)
  BY <1>4 DEF TypeOK, Abandon, Transition, JournalFrame
<1> QED  BY <1>1, <1>2, <1>3, <1>4 DEF SourceStep

LEMMA HandlerFrame ==
  ASSUME TypeOK, NEW m \in Messages, HandlerStep(m)
  PROVE  JournalFrame(m)
<1>1. CASE Send(m) \/ Acknowledged(m) \/ Answered(m) \/ Throw(m)
  BY <1>1 DEF TypeOK, Send, Acknowledged, Answered, Throw, Goto, JournalFrame
<1>2. ASSUME NEW ok \in BOOLEAN, NEW thread \in BOOLEAN, Submitting(m, thread, ok) PROVE JournalFrame(m)
  BY <1>2 DEF TypeOK, Submitting, Transition, Goto, JournalFrame
<1>3. ASSUME NEW ok \in BOOLEAN, ThreadCreated(m, ok) \/ Accepted(m, ok) \/ Completed(m, ok) PROVE JournalFrame(m)
  BY <1>3 DEF TypeOK, ThreadCreated, Accepted, Completed, Transition, Goto, JournalFrame
<1>4. ASSUME NEW ok \in BOOLEAN, Finish(m, ok) \/ RuntimeUnconfirmed(m, ok) PROVE JournalFrame(m)
  BY <1>4 DEF TypeOK, Finish, RuntimeUnconfirmed, Transition, Goto, journalVars, JournalFrame
<1>5. ASSUME NEW ok \in BOOLEAN, CatchUnknown(m, ok) \/ CatchDefinite(m, ok) PROVE JournalFrame(m)
  BY <1>5 DEF TypeOK, CatchUnknown, CatchDefinite, Transition, Goto, journalVars, JournalFrame
<1> QED  BY <1>1, <1>2, <1>3, <1>4, <1>5 DEF HandlerStep

LEMMA NativeFrame ==
  ASSUME TypeOK, NEW m \in Messages, NativeStep(m)
  PROVE  JournalFrame(m)
BY DEF TypeOK, NativeStep, NativeApply, NativeLose, NativeRefuse, Goto, JournalFrame

LEMMA RecoveryFrame ==
  ASSUME TypeOK, NEW m \in Messages, RecoveryStep(m)
  PROVE  JournalFrame(m) /\ stage' = stage
<1>1. CASE Observe(m) \/ ObservationEnds(m)
  BY <1>1 DEF Observe, ObservationEnds, JournalFrame
<1>2. ASSUME NEW ok \in BOOLEAN, RecoverAccepted(m, ok) \/ RecoverOwned(m, ok) \/ RecoveredResultDelivered(m, ok)
      PROVE  JournalFrame(m) /\ stage' = stage
  BY <1>2 DEF TypeOK, RecoverAccepted, RecoverOwned, RecoveredResultDelivered, Transition, JournalFrame
<1> QED  BY <1>1, <1>2 DEF RecoveryStep

\* The saved body of n stays in the file.
BodyKept(n) == Has(inbox, n) /\ Has(file, n) => Has(file', n)

\* A step about the row of m leaves the other rows as they are, in memory and in the file.
RowsKept(m) ==
  /\ InboxType'
  /\ \A n \in Messages \ {m} : BodyKept(n) /\ (Has(inbox, n) => Has(inbox', n) /\ RowIn(inbox', n) = RowIn(inbox, n))

\* save() leaves the file at the old or at the new rows.
LEMMA SaveOverEffect ==
  ASSUME InboxType, NEW old, NEW rows, Rows(old), Rows(rows), NEW ok \in BOOLEAN, SaveOver(old, rows, ok)
  PROVE  Rows(file') /\ inboxFaults' \in 0..MaxInboxFaults /\ file' \in {old, rows}
BY LimitsAssumption DEF SaveOver, InboxType

\* A field change of the row of m.
LEMMA WriteKeeps ==
  ASSUME InboxType, NEW m \in Messages, Has(inbox, m), NEW row \in RowType, row.msg = m,
         NEW ok \in BOOLEAN, Write(m, row, ok)
  PROVE  RowsKept(m) /\ BodyKept(m) /\ Has(inbox', m) /\ RowIn(inbox', m) = row
<1>1. /\ Rows(inbox')
      /\ \A n : Has(inbox', n) <=> Has(inbox, n)
      /\ RowIn(inbox', m) = row
      /\ \A n : n # m /\ Has(inbox, n) => RowIn(inbox', n) = RowIn(inbox, n)
  <2>1. inbox' = Rewritten(inbox, m, row)
    BY DEF Write, Rewritten
  <2>2. Rows(inbox)
    BY DEF InboxType
  <2> QED  BY <2>1, <2>2, RowReplaced
<1>2. Rows(file') /\ inboxFaults' \in 0..MaxInboxFaults /\ file' \in {file, inbox'}
  BY <1>1, SaveOverEffect DEF Write, SaveInbox, InboxType
<1> QED  BY <1>1, <1>2 DEF RowsKept, BodyKept, InboxType

\* remove(): the row of m goes, or comes back behind the others.
LEMMA RemoveFromKeeps ==
  ASSUME InboxType, NEW old, NEW rows, Rows(old), Rows(rows), NEW m \in Messages, Has(rows, m), RemoveFrom(old, rows, m)
  PROVE  /\ InboxType'
         /\ \A n : n # m /\ Has(rows, n) => Has(inbox', n) /\ RowIn(inbox', n) = RowIn(rows, n)
         /\ \A n : n # m /\ Has(rows, n) /\ Has(old, n) => Has(file', n)
<1> DEFINE less == Without(rows, m)
           row == RowIn(rows, m)
<1>1. /\ Rows(less)
      /\ \A n : Has(less, n) <=> (Has(rows, n) /\ n # m)
      /\ \A n : n # m /\ Has(rows, n) => RowIn(less, n) = RowIn(rows, n)
  BY RowTaken
<1>2. row \in RowType /\ row.msg = m
  BY RowInType
<1>3. RemoveFrom(old, rows, m) <=>
        \/ inbox' = less /\ SaveOver(old, inbox', TRUE)
        \/ inbox' = Append(less, row) /\ SaveOver(old, less, FALSE)
  BY DEF RemoveFrom, RowIn
<1> HIDE DEF less, row
<1>4. CASE inbox' = less /\ SaveOver(old, less, TRUE)
  <2>1. Rows(file') /\ inboxFaults' \in 0..MaxInboxFaults /\ file' \in {old, less}
    BY <1>1, <1>4, SaveOverEffect
  <2> QED  BY <1>1, <1>4, <2>1 DEF InboxType
<1>5. CASE inbox' = Append(less, row) /\ SaveOver(old, less, FALSE)
  <2>1. Rows(file') /\ inboxFaults' \in 0..MaxInboxFaults /\ file' \in {old, less}
    BY <1>1, <1>5, SaveOverEffect
  <2>2. /\ Rows(inbox')
        /\ \A n : Has(inbox', n) <=> (Has(less, n) \/ n = m)
        /\ \A n : Has(less, n) => RowIn(inbox', n) = RowIn(less, n)
    BY <1>1, <1>2, <1>5, RowAppended
  <2> QED  BY <1>1, <2>1, <2>2 DEF InboxType
<1> QED  BY <1>3, <1>4, <1>5

LEMMA RemoveKeeps ==
  ASSUME InboxType, NEW m \in Messages, Remove(m)
  PROVE  RowsKept(m)
<1>1. CASE Has(inbox, m)
  <2>1. /\ InboxType'
        /\ \A n : n # m /\ Has(inbox, n) => Has(inbox', n) /\ RowIn(inbox', n) = RowIn(inbox, n)
        /\ \A n : n # m /\ Has(inbox, n) /\ Has(file, n) => Has(file', n)
    BY <1>1, RemoveFromKeeps DEF Remove, InboxType
  <2> QED  BY <2>1 DEF RowsKept, BodyKept
<1>2. CASE ~Has(inbox, m)
  BY <1>2 DEF Remove, rowVars, RowsKept, BodyKept, InboxType
<1> QED  BY <1>1, <1>2

LEMMA RowsUntouched ==
  ASSUME InboxType, NEW m \in Messages, UNCHANGED rowVars
  PROVE  RowsKept(m) /\ BodyKept(m) /\ inbox' = inbox
BY DEF rowVars, RowsKept, BodyKept, InboxType

-----------------------------------------------------------------------------
(* The others, and a handler that is not working.                           *)

\* Nothing about n changes but fields of its row other than the target.
LEMMA HandlingKept ==
  ASSUME NEW n \in Messages, Handling(n), kind' = kind, lane' = lane, sessions' = sessions,
         mem'[n] = mem[n], stage'[n] = stage[n], delivering'[n] = delivering[n], lease'[n] = lease[n],
         Has(inbox, n) => Has(inbox', n) /\ RowIn(inbox', n).target = RowIn(inbox, n).target
  PROVE  Handling(n)'
<1>1. Dispatched(n)'
  BY DEF Handling, Dispatched, Processing, Concluded
<1>2. Leased(n)'
  BY DEF Handling, Leased, Working
<1>3. RowHeld(n)'
  BY DEF Handling, RowHeld, Working, Automatic, Alike, Past
<1> QED  BY <1>1, <1>2, <1>3 DEF Handling

\* A handler that does not work holds no row.
LEMMA HandlingIdle ==
  ASSUME NEW m \in Messages, ~Working(m)', Dispatched(m)'
  PROVE  Handling(m)'
BY DEF Handling, Leased, RowHeld, Working

\* What a step about m must show for itself.
OwnStep(m) ==
  /\ JournalFrame(m)
  /\ lane' = lane
  /\ UNCHANGED bindingVars
  /\ DeliveryType'
  /\ \A n \in Messages \ {m} : delivering'[n] = delivering[n] /\ lease'[n] = lease[n]
  /\ RowsKept(m)
  /\ Handling(m)'
  /\ BodyKept(m) \/ Concluded(m)'

\* What every step must show.
Sound == FInv' /\ \A m \in Messages : BodyKept(m) \/ Concluded(m)'

LEMMA OwnStepSound ==
  ASSUME FInv, NEW m \in Messages, OwnStep(m)
  PROVE  Sound
<1>1. BindingType'
  BY DEF OwnStep, FInv, BindingType, bindingVars
<1>2. ASSUME NEW n \in Messages \ {m} PROVE Handling(n)' /\ BodyKept(n)
  BY HandlingKept DEF OwnStep, FInv, JournalFrame, bindingVars, RowsKept
<1> QED  BY <1>1, <1>2 DEF OwnStep, FInv, Sound, RowsKept

\* The binding names a target.
LEMMA CurrentType ==
  ASSUME BindingType
  PROVE  Current \in Target
BY DEF BindingType, Current, Target, Unbound

-----------------------------------------------------------------------------
(* deliver().                                                               *)

\* The row of m and what deliver() makes of it.
LEMMA RowOfType ==
  ASSUME InboxType, NEW m \in Messages, Has(inbox, m)
  PROVE  /\ RowOf(m) = RowIn(inbox, m)
         /\ RowOf(m) \in RowType /\ RowOf(m).msg = m
         /\ \A s \in {"pending", "held", "unconfirmed"} :
              /\ [RowOf(m) EXCEPT !.state = s] \in RowType
              /\ [RowOf(m) EXCEPT !.state = s].msg = m
         /\ /\ [RowOf(m) EXCEPT !.attempted = TRUE] \in RowType
            /\ [RowOf(m) EXCEPT !.attempted = TRUE].msg = m
            /\ [RowOf(m) EXCEPT !.attempted = TRUE].target = RowOf(m).target
<1>1. RowOf(m) = RowIn(inbox, m)
  BY DEF RowOf, RowIn
<1>2. RowOf(m) \in RowType /\ RowOf(m).msg = m
  BY <1>1, RowInType DEF InboxType
<1> QED  BY <1>1, <1>2 DEF RowType

\* The place of a delivery is one of six.
LEMMA DeliveringType ==
  ASSUME DeliveryType, NEW m \in Messages, NEW d \in Places, Delivering(m, d),
         UNCHANGED <<lane, lease, retried, staging>>
  PROVE  DeliveryType' /\ delivering'[m] = d /\ \A n \in Messages \ {m} : delivering'[n] = delivering[n]
BY DEF DeliveryType, Delivering

\* A delivery without a running handler: its row is removed or one of its fields changes.
LEMMA QuietStep ==
  ASSUME FInv, NEW m \in Messages, UNCHANGED <<vars, lane, bindingVars, lease>>, stage[m] = "idle",
         DeliveryType', \A n \in Messages \ {m} : delivering'[n] = delivering[n],
         delivering'[m] # "returned",
         RowsKept(m), BodyKept(m) \/ Concluded(m)
  PROVE  OwnStep(m)
<1>1. JournalFrame(m) /\ Concluded(m)' = Concluded(m)
  BY DEF JournalFrame, vars, Concluded
<1>2. Handling(m)'
  <2>1. ~Working(m)'
    BY DEF Working, vars
  <2>2. Dispatched(m)'
    BY DEF Dispatched, Processing, vars
  <2> QED  BY <2>1, <2>2, HandlingIdle
<1> QED  BY <1>1, <1>2 DEF OwnStep

\* A message deliver() is not working on has no running handler.
LEMMA IdleHandler ==
  ASSUME FInv, NEW m \in Messages, delivering[m] # "dispatching"
  PROVE  stage[m] = "idle"
BY DEF FInv, Handling, Dispatched, Processing

LEMMA InformSound ==
  ASSUME FInv, NEW m \in Messages, Idle(m), NEW row \in RowType, row.msg = m, Inform(m, row)
  PROVE  OwnStep(m)
<1>1. stage[m] = "idle"
  BY IdleHandler DEF Idle
<1>2. PICK ok \in BOOLEAN : Write(m, row, ok) /\ Delivering(m, IF ok THEN "informing" ELSE "no")
  BY DEF Inform
<1>3. RowsKept(m) /\ BodyKept(m)
  BY <1>2, WriteKeeps DEF FInv, Idle
<1>4. DeliveryType' /\ delivering'[m] # "returned" /\ \A n \in Messages \ {m} : delivering'[n] = delivering[n]
  <2> DEFINE d == IF ok THEN "informing" ELSE "no"
  <2>1. d \in Places /\ d # "returned"
    BY DEF Places
  <2> HIDE DEF d
  <2> QED  BY <1>2, <2>1, DeliveringType DEF Inform, FInv, d
<1>5. UNCHANGED <<vars, lane, bindingVars, lease>>
  BY DEF Inform
<1> QED  BY <1>1, <1>3, <1>4, <1>5, QuietStep

LEMMA CleanUpSound ==
  ASSUME FInv, NEW m \in Messages, CleanUp(m)
  PROVE  OwnStep(m)
<1>1. stage[m] = "idle" /\ delivering[m] = "no"
  BY IdleHandler DEF CleanUp, Idle
<1>2. RowsKept(m)
  BY RemoveKeeps DEF CleanUp, FInv
<1>3. /\ UNCHANGED <<vars, lane, bindingVars, lease>> /\ Concluded(m)
      /\ delivering'[m] # "returned" /\ DeliveryType' /\ \A n \in Messages \ {m} : delivering'[n] = delivering[n]
  BY <1>1 DEF CleanUp, FInv, DeliveryType
<1> QED  BY <1>1, <1>2, <1>3, QuietStep

\* Keeping, holding and postponing a row.
LEMMA NoticeSound ==
  ASSUME FInv, NEW m \in Messages, NEW initial \in BOOLEAN,
         KeepUnconfirmed(m) \/ Hold(m, initial) \/ Postpone(m, initial) \/ AwaitGateway(m, initial)
  PROVE  OwnStep(m)
<1>1. Idle(m)
  BY DEF KeepUnconfirmed, Hold, Postpone, AwaitGateway, Deliverable, Due
<1>2. InboxType /\ Has(inbox, m)
  BY <1>1 DEF FInv, Idle
<1>3. PICK row : Inform(m, row) /\ row \in {RowOf(m), [RowOf(m) EXCEPT !.state = "held"], [RowOf(m) EXCEPT !.state = "unconfirmed"]}
  BY DEF KeepUnconfirmed, Hold, Postpone, AwaitGateway
<1>4. row \in RowType /\ row.msg = m
  BY <1>2, <1>3, RowOfType
<1> QED  BY <1>1, <1>3, <1>4, InformSound

LEMMA InformEndsSound ==
  ASSUME FInv, NEW m \in Messages, InformEnds(m)
  PROVE  OwnStep(m)
<1>1. stage[m] = "idle"
  BY IdleHandler DEF InformEnds
<1>2. RowsKept(m) /\ BodyKept(m)
  BY RowsUntouched DEF InformEnds, FInv
<1>3. DeliveryType' /\ delivering'[m] # "returned" /\ \A n \in Messages \ {m} : delivering'[n] = delivering[n]
  BY DeliveringType DEF InformEnds, FInv, Places
<1> QED  BY <1>1, <1>2, <1>3, QuietStep DEF InformEnds

LEMMA DeliverEndsSound ==
  ASSUME FInv, NEW m \in Messages, DeliverEnds(m)
  PROVE  OwnStep(m)
<1>1. stage[m] = "idle" /\ Concluded(m)
  BY IdleHandler DEF DeliverEnds, FInv, Handling, Dispatched
<1>2. RowsKept(m)
  BY RemoveKeeps DEF DeliverEnds, FInv
<1>3. DeliveryType' /\ delivering'[m] # "returned" /\ \A n \in Messages \ {m} : delivering'[n] = delivering[n]
  BY DeliveringType DEF DeliverEnds, FInv, Places
<1> QED  BY <1>1, <1>2, <1>3, QuietStep DEF DeliverEnds

LEMMA DeliverFailsSound ==
  ASSUME FInv, NEW m \in Messages, DeliverFails(m)
  PROVE  OwnStep(m)
<1>1. stage[m] = "idle"
  BY IdleHandler DEF DeliverFails
<1>2. UNCHANGED <<vars, lane, bindingVars, lease, staging, retried>>
  BY DEF DeliverFails
<1>3. CASE Concluded(m) /\ Remove(m) /\ Delivering(m, "no")
  <2>1. RowsKept(m)
    BY <1>3, RemoveKeeps DEF FInv
  <2>2. DeliveryType' /\ delivering'[m] # "returned" /\ \A n \in Messages \ {m} : delivering'[n] = delivering[n]
    BY <1>2, <1>3, DeliveringType DEF FInv, Places
  <2> QED  BY <1>1, <1>2, <1>3, <2>1, <2>2, QuietStep
<1>4. ASSUME Has(inbox, m), NEW row \in RowType, row.msg = m, NEW ok \in BOOLEAN, Write(m, row, ok),
             NEW d \in {"informing", "no"}, Delivering(m, d)
      PROVE  OwnStep(m)
  <2>1. RowsKept(m) /\ BodyKept(m)
    BY <1>4, WriteKeeps DEF FInv
  <2>2. DeliveryType' /\ delivering'[m] # "returned" /\ \A n \in Messages \ {m} : delivering'[n] = delivering[n]
    BY <1>2, <1>4, DeliveringType DEF FInv, Places
  <2> QED  BY <1>1, <1>2, <2>1, <2>2, QuietStep
<1>5. CASE /\ Has(inbox, m)
           /\ \E ok \in BOOLEAN : Write(m, RowOf(m), ok) /\ Delivering(m, IF ok THEN "informing" ELSE "no")
  <2>1. RowOf(m) \in RowType /\ RowOf(m).msg = m
    BY <1>5, RowOfType DEF FInv
  <2>2. PICK ok \in BOOLEAN : Write(m, RowOf(m), ok) /\ Delivering(m, IF ok THEN "informing" ELSE "no")
    BY <1>5
  <2>3. (IF ok THEN "informing" ELSE "no") \in {"informing", "no"}
    OBVIOUS
  <2> QED  BY <1>4, <1>5, <2>1, <2>2, <2>3
<1>6. CASE /\ Has(inbox, m)
           /\ \E ok \in BOOLEAN :
                Write(m, [RowOf(m) EXCEPT !.state = IF Unsettled(mem[m]) THEN "unconfirmed" ELSE "held"], ok)
           /\ Delivering(m, "no")
  <2> DEFINE s == IF Unsettled(mem[m]) THEN "unconfirmed" ELSE "held"
  <2>1. s \in {"pending", "held", "unconfirmed"}
    OBVIOUS
  <2>2. PICK ok \in BOOLEAN : Write(m, [RowOf(m) EXCEPT !.state = s], ok)
    BY <1>6
  <2> HIDE DEF s
  <2>3. [RowOf(m) EXCEPT !.state = s] \in RowType /\ [RowOf(m) EXCEPT !.state = s].msg = m
    BY <1>6, <2>1, RowOfType DEF FInv
  <2> QED  BY <1>4, <1>6, <2>2, <2>3
<1> QED  BY <1>3, <1>5, <1>6 DEF DeliverFails

\* Starting a handler that could not be started, or was refused by its channel.
LEMMA UnsavedSound ==
  ASSUME FInv, NEW m \in Messages, NEW initial \in BOOLEAN,
         DispatchUnsaved(m, initial) \/ DispatchRefused(m, initial)
  PROVE  OwnStep(m)
<1>1. Has(inbox, m) /\ delivering[m] = "no" /\ stage[m] = "idle" /\ InboxType
  BY IdleHandler DEF DispatchUnsaved, DispatchRefused, Due, Deliverable, Idle, FInv
<1>2. PICK ok \in BOOLEAN : Write(m, [RowOf(m) EXCEPT !.attempted = TRUE], ok)
  BY DEF DispatchUnsaved, DispatchRefused, Attempt
<1>3. RowsKept(m) /\ BodyKept(m)
  <2> DEFINE row == [RowOf(m) EXCEPT !.attempted = TRUE]
  <2>1. row \in RowType /\ row.msg = m
    BY <1>1, RowOfType
  <2> HIDE DEF row
  <2> QED  BY <1>1, <1>2, <2>1, WriteKeeps DEF row
<1>4. DeliveryType' /\ delivering'[m] # "returned" /\ \A n \in Messages \ {m} : delivering'[n] = delivering[n]
  <2>1. CASE DispatchUnsaved(m, initial)
    BY <1>1, <2>1 DEF DispatchUnsaved, FInv, DeliveryType
  <2>2. CASE DispatchRefused(m, initial)
    <3>1. PICK d \in {"deferred", "failed"} : Delivering(m, d)
      BY <2>2 DEF DispatchRefused
    <3> QED  BY <2>2, <3>1, DeliveringType DEF DispatchRefused, FInv, Places
  <2> QED  BY <2>1, <2>2
<1>5. UNCHANGED <<vars, lane, bindingVars, lease>>
  BY DEF DispatchUnsaved, DispatchRefused
<1> QED  BY <1>1, <1>3, <1>4, <1>5, QuietStep

\* The handler starts from the target its row names.
LEMMA DispatchSound ==
  ASSUME IInv, FInv, NEW m \in Messages, NEW initial \in BOOLEAN, Dispatch(m, initial)
  PROVE  OwnStep(m)
<1>1. Has(inbox, m) /\ delivering[m] = "no" /\ stage[m] = "idle" /\ InboxType /\ RowOf(m).target = Current
  BY IdleHandler DEF Dispatch, Due, Deliverable, Idle, FInv, Stale
<1>2. PICK ok \in BOOLEAN : Handle(m, ok) /\ Delivering(m, IF ok THEN "dispatching" ELSE "failed")
  BY DEF Dispatch
<1>3. JournalFrame(m) /\ stage'[m] = IF ok THEN "preparing" ELSE "idle"
  <2>1. TypeOK
    BY DEF IInv
  <2>2. SourceStep(m)
    BY <1>2 DEF SourceStep
  <2>3. stage'[m] = IF ok THEN "preparing" ELSE "idle"
    BY <1>1, <1>2, <2>1 DEF Handle, TypeOK
  <2> QED  BY <2>1, <2>2, <2>3, SourceFrame
<1>4. RowsKept(m) /\ BodyKept(m) /\ Has(inbox', m) /\ RowIn(inbox', m).target = Current
  <2> DEFINE row == [RowOf(m) EXCEPT !.attempted = TRUE]
  <2>1. row \in RowType /\ row.msg = m /\ row.target = Current
    BY <1>1, RowOfType
  <2>2. Write(m, row, TRUE)
    BY DEF Dispatch, Attempt
  <2> HIDE DEF row
  <2> QED  BY <1>1, <2>1, <2>2, WriteKeeps
<1>5. Current \in Target /\ Current' = Current /\ UNCHANGED bindingVars /\ lane' = lane
  BY CurrentType DEF FInv, Dispatch, bindingVars, Current
<1>6. /\ lease' = [lease EXCEPT ![m] = IF ok THEN Current ELSE @]
      /\ UNCHANGED <<lane, retried, staging>>
  BY <1>3 DEF Dispatch
<1>7. /\ delivering'[m] = IF ok THEN "dispatching" ELSE "failed"
      /\ delivering' \in [Messages -> Places]
      /\ \A n \in Messages \ {m} : delivering'[n] = delivering[n]
  BY <1>2 DEF FInv, DeliveryType, Delivering, Places
<1>8. DeliveryType' /\ \A n \in Messages \ {m} : lease'[n] = lease[n]
  BY <1>5, <1>6, <1>7 DEF FInv, DeliveryType
<1>9. Handling(m)'
  <2>1. Dispatched(m)'
    BY <1>3, <1>7 DEF Dispatched, Processing
  <2>2. CASE ~ok
    BY <1>3, <2>1, <2>2, HandlingIdle DEF Working
  <2>3. CASE ok
    <3>1. lease'[m] = Current
      BY <1>6, <2>3 DEF FInv, DeliveryType
    <3>2. Leased(m)'
      <4>1. Current.session \in Sessions => Current.epoch = sessions[Current.session].epoch
        BY SessionsAssumption DEF FInv, BindingType, Current, Unbound
      <4>2. sessions' = sessions
        BY <1>5 DEF bindingVars
      <4>3. Current.session \in Sessions => Current.epoch \in Nat
        BY <1>5 DEF Target
      <4> QED  BY <1>3, <2>3, <3>1, <4>1, <4>2, <4>3 DEF Leased
    <3>3. RowHeld(m)'
      BY <1>4, <3>1 DEF RowHeld, Alike
    <3> QED  BY <2>1, <3>2, <3>3 DEF Handling
  <2> QED  BY <2>2, <2>3
<1> QED  BY <1>3, <1>4, <1>5, <1>7, <1>8, <1>9 DEF OwnStep

LEMMA DeliverSound ==
  ASSUME IInv, FInv, NEW m \in Messages, DeliverStep(m)
  PROVE  OwnStep(m)
BY CleanUpSound, NoticeSound, InformEndsSound, DeliverEndsSound, DeliverFailsSound, UnsavedSound, DispatchSound
   DEF DeliverStep

-----------------------------------------------------------------------------
(* The handler.                                                             *)

\* A step of the journal about m that moves none of the inbox's state.
LEMMA LiftedSound ==
  ASSUME FInv, NEW m \in Messages, JournalFrame(m), UNCHANGED forwardingVars, Handling(m)'
  PROVE  OwnStep(m)
<1>1. RowsKept(m) /\ BodyKept(m)
  BY RowsUntouched DEF FInv, forwardingVars, rowVars
<1> QED  BY <1>1 DEF OwnStep, FInv, DeliveryType, forwardingVars, bindingVars

\* A handler leaves its working stages.
LEMMA WorkingEnds ==
  ASSUME FInv, NEW m \in Messages, JournalFrame(m), UNCHANGED forwardingVars,
         stage[m] # "idle", ~Working(m)', stage'[m] = "returned" => mem'[m].phase # "unconfirmed"
  PROVE  OwnStep(m)
<1>1. delivering'[m] = "dispatching"
  BY DEF FInv, Handling, Dispatched, Processing, forwardingVars
<1>2. Dispatched(m)'
  BY <1>1 DEF Dispatched
<1> QED  BY <1>2, HandlingIdle, LiftedSound

LEMMA SendSound ==
  ASSUME IInv, FInv, NEW m \in Messages, SendLeased(m)
  PROVE  OwnStep(m)
<1>1. Send(m) /\ UNCHANGED forwardingVars /\ TypeOK
  BY DEF SendLeased, Lift, IInv
<1>2. JournalFrame(m)
  BY <1>1, HandlerFrame DEF HandlerStep
<1>3. stage[m] = "submitting" /\ stage'[m] = "sent"
  BY <1>1 DEF Send, Goto, TypeOK
<1> QED  BY <1>1, <1>2, <1>3, WorkingEnds DEF Working

\* The steps after which the handler waits, returns or threw.
LEMMA HandlerMovesSound ==
  ASSUME IInv, FInv, NEW m \in Messages, UNCHANGED forwardingVars,
         \/ Acknowledged(m) \/ Answered(m) \/ Throw(m)
         \/ \E ok \in BOOLEAN : RuntimeUnconfirmed(m, ok)
         \/ Finish(m, FALSE)
  PROVE  OwnStep(m)
<1>0. TypeOK /\ HandlerPhase(m)
  BY DEF IInv, MessageInv
<1>1. JournalFrame(m)
  BY <1>0, HandlerFrame, Zenon DEF HandlerStep
<1>2. CASE Acknowledged(m)
  <2>1. stage[m] = "answered" /\ stage'[m] = "returned" /\ mem' = mem /\ mem[m].phase = "accepted"
    BY <1>0, <1>2 DEF Acknowledged, Goto, TypeOK, HandlerPhase
  <2> QED  BY <1>1, <2>1, WorkingEnds DEF Working
<1>3. CASE Answered(m)
  <2>1. stage[m] # "idle" /\ stage'[m] = "returned" /\ mem' = mem /\ mem[m].phase \in {"received", "submitting"}
    BY <1>0, <1>3 DEF Answered, Goto, TypeOK, HandlerPhase
  <2> QED  BY <1>1, <2>1, WorkingEnds DEF Working
<1>4. CASE Throw(m)
  <2>1. stage[m] # "idle" /\ stage'[m] = "threw"
    BY <1>0, <1>4 DEF Throw, Goto, TypeOK
  <2> QED  BY <1>1, <2>1, WorkingEnds DEF Working
<1>5. CASE \E ok \in BOOLEAN : RuntimeUnconfirmed(m, ok)
  <2>1. stage[m] # "idle" /\ stage'[m] = "threw"
    BY <1>0, <1>5 DEF RuntimeUnconfirmed, Goto, TypeOK
  <2> QED  BY <1>1, <2>1, WorkingEnds DEF Working
<1>6. CASE Finish(m, FALSE)
  <2>1. stage[m] # "idle" /\ stage'[m] = "threw"
    BY <1>0, <1>6 DEF Finish, Goto, TypeOK
  <2> QED  BY <1>1, <2>1, WorkingEnds DEF Working
<1> QED  BY <1>2, <1>3, <1>4, <1>5, <1>6

\* Attachments are saved with the row, or the handler gives up.
LEMMA PreparedSound ==
  ASSUME IInv, FInv, NEW m \in Messages, Prepared(m)
  PROVE  OwnStep(m)
<1>1. Has(inbox, m) /\ InboxType /\ stage[m] = "preparing" /\ TypeOK
  BY DEF Prepared, FInv, IInv
<1>2. UNCHANGED <<lane, bindingVars, staging, delivering, lease, retried>>
  BY DEF Prepared
<1>3. RowOf(m) \in RowType /\ RowOf(m).msg = m /\ RowOf(m) = RowIn(inbox, m)
  BY <1>1, RowOfType
<1>4. RowsKept(m) /\ BodyKept(m) /\ Has(inbox', m) /\ RowIn(inbox', m) = RowIn(inbox, m)
  <2>1. PICK ok \in BOOLEAN : Write(m, RowOf(m), ok)
    BY DEF Prepared
  <2> QED  BY <1>1, <1>3, <2>1, WriteKeeps
<1>5. DeliveryType'
  BY <1>2 DEF FInv, DeliveryType
<1>6. CASE UNCHANGED vars
  <2>1. JournalFrame(m)
    BY <1>6 DEF vars, JournalFrame
  <2>2. Handling(m)'
    BY <1>2, <1>4, <1>6, HandlingKept DEF FInv, vars, bindingVars
  <2> QED  BY <1>2, <1>4, <1>5, <2>1, <2>2 DEF OwnStep
<1>7. CASE Throw(m)
  <2>1. JournalFrame(m)
    BY <1>1, <1>7, HandlerFrame DEF HandlerStep
  <2>2. stage'[m] = "threw"
    BY <1>1, <1>7 DEF Throw, Goto, TypeOK
  <2>3. delivering'[m] = "dispatching"
    BY <1>1, <1>2 DEF FInv, Handling, Dispatched, Processing
  <2>4. Handling(m)'
    BY <2>2, <2>3, HandlingIdle DEF Working, Dispatched
  <2> QED  BY <1>2, <1>4, <1>5, <2>1, <2>4 DEF OwnStep
<1> QED  BY <1>6, <1>7 DEF Prepared

\* The durable mark is made under the lease.
LEMMA SubmitSound ==
  ASSUME IInv, FInv, NEW m \in Messages, NEW ok \in BOOLEAN, SubmitLeased(m, ok)
  PROVE  OwnStep(m)
<1> DEFINE thread == kind[m] # "control" /\ lease[m].thread # 0
<1>1. Submitting(m, thread, ok) /\ UNCHANGED forwardingVars /\ TypeOK /\ thread \in BOOLEAN
  BY DEF SubmitLeased, IInv
<1>2. kind[m] # "control" => lease[m].session # NoSession
  BY DEF SubmitLeased
<1>3. JournalFrame(m)
  BY <1>1, HandlerFrame, Zenon DEF HandlerStep
<1>4. stage[m] = "preparing" /\ stage'[m] = IF ok THEN "submitting" ELSE "threw"
  BY <1>1 DEF Submitting, Goto, TypeOK
<1>5. CASE ~ok
  BY <1>1, <1>3, <1>4, <1>5, WorkingEnds DEF Working
<1>6. CASE ok
  <2>1. mem'[m].thread = thread
    BY <1>1, <1>6 DEF Submitting, Transition, TypeOK, Receipt
  <2>2. Working(m) /\ delivering[m] = "dispatching"
    BY <1>4 DEF FInv, Handling, Dispatched, Processing, Working
  <2>3. Dispatched(m)'
    BY <1>1, <1>4, <1>6, <2>2 DEF Dispatched, forwardingVars
  <2>4. Leased(m)'
    <3>1. lease[m].session \in Sessions \union {NoSession}
      BY DEF FInv, DeliveryType, Target
    <3>2. kind' = kind /\ UNCHANGED <<lease, sessions>>
      BY <1>1, <1>3 DEF JournalFrame, forwardingVars
    <3>3. kind[m] = "turn" => lease[m].session \in Sessions /\ (thread <=> lease[m].thread # 0)
      BY <1>2, <3>1
    <3>4. lease[m].session \in Sessions => lease[m].epoch <= sessions[lease[m].session].epoch
      BY <2>2 DEF FInv, Handling, Leased
    <3> QED  BY <2>1, <3>2, <3>3, <3>4 DEF Leased
  <2>5. RowHeld(m)'
    <3>1. UNCHANGED <<lane, lease, sessions, inbox>>
      BY <1>1 DEF forwardingVars
    <3> QED  BY <2>2, <3>1 DEF FInv, Handling, RowHeld, Automatic, Alike, Past
  <2>6. Handling(m)'
    BY <2>3, <2>4, <2>5 DEF Handling
  <2> QED  BY <1>1, <1>3, <2>6, LiftedSound
<1> QED  BY <1>5, <1>6

\* What remains of a lease is still a target.
LEMMA RecordedType ==
  ASSUME DeliveryType, NEW m \in Messages
  PROVE  Recorded(m) \in Target
BY DEF DeliveryType, Recorded, Target, Unbound

LEMMA ReturnsSound ==
  ASSUME IInv, FInv, NEW m \in Messages, HandlerReturns(m)
  PROVE  OwnStep(m)
<1>1. Finish(m, TRUE) /\ TypeOK /\ mem[m] \in Receipt
  BY DEF HandlerReturns, IInv, TypeOK
<1>2. JournalFrame(m)
  BY <1>1, HandlerFrame, Zenon DEF HandlerStep
<1>3. stage[m] = "returned" /\ stage'[m] = "idle"
  BY <1>1 DEF Finish, Goto, TypeOK
<1>4. mem[m].phase # "unconfirmed"
  BY <1>3 DEF FInv, Handling, Dispatched
<1>5. mem'[m].phase = "handled"
  <2>1. Transition(m, [mem[m] EXCEPT !.phase = "handled"], TRUE)
    BY <1>1, <1>4 DEF Finish
  <2>2. mem' = [mem EXCEPT ![m] = [mem[m] EXCEPT !.phase = "handled"]]
    BY <2>1 DEF Transition
  <2> QED  BY <1>1, <2>2 DEF TypeOK, Receipt
<1>6. RowsKept(m) /\ BodyKept(m)
  BY RowsUntouched DEF HandlerReturns, FInv
<1>7. /\ delivering'[m] = "returned" /\ delivering' \in [Messages -> Places]
      /\ \A n \in Messages \ {m} : delivering'[n] = delivering[n]
  BY DEF HandlerReturns, Delivering, FInv, DeliveryType, Places
<1>8. lease' \in [Messages -> Target] /\ \A n \in Messages \ {m} : lease'[n] = lease[n]
  BY RecordedType DEF HandlerReturns, FInv, DeliveryType
<1>9. Handling(m)'
  BY <1>3, <1>5, HandlingIdle DEF Working, Dispatched, Processing, Concluded
<1>10. UNCHANGED <<lane, bindingVars, staging, retried>>
  BY DEF HandlerReturns
<1>11. DeliveryType'
  BY <1>7, <1>8, <1>10 DEF FInv, DeliveryType
<1> QED  BY <1>2, <1>6, <1>7, <1>8, <1>9, <1>10, <1>11 DEF OwnStep

LEMMA ThrowsSound ==
  ASSUME IInv, FInv, NEW m \in Messages, HandlerThrows(m)
  PROVE  OwnStep(m)
<1>1. PICK ok \in BOOLEAN, d \in {"deferred", "failed"} : (CatchUnknown(m, ok) \/ CatchDefinite(m, ok)) /\ Delivering(m, d)
  <2>1. PICK ok \in BOOLEAN :
          \/ CatchUnknown(m, ok) /\ \E d \in {"deferred", "failed"} : Delivering(m, d)
          \/ CatchDefinite(m, ok) /\ Delivering(m, IF ok THEN "deferred" ELSE "failed")
          \/ CatchDefinite(m, ok) /\ Delivering(m, "failed")
    BY DEF HandlerThrows
  <2>2. (IF ok THEN "deferred" ELSE "failed") \in {"deferred", "failed"}
    OBVIOUS
  <2> QED  BY <2>1, <2>2
<1>2. TypeOK
  BY DEF IInv
<1>3. JournalFrame(m)
  BY <1>1, <1>2, HandlerFrame, Zenon DEF HandlerStep
<1>4. stage'[m] = "idle"
  BY <1>1, <1>2 DEF CatchUnknown, CatchDefinite, Goto, TypeOK
<1>6. RowsKept(m) /\ BodyKept(m)
  BY RowsUntouched DEF HandlerThrows, FInv
<1>7. /\ delivering'[m] # "returned" /\ delivering' \in [Messages -> Places]
      /\ \A n \in Messages \ {m} : delivering'[n] = delivering[n]
  BY <1>1 DEF Delivering, FInv, DeliveryType, Places
<1>8. lease' \in [Messages -> Target] /\ \A n \in Messages \ {m} : lease'[n] = lease[n]
  BY RecordedType DEF HandlerThrows, FInv, DeliveryType
<1>9. Handling(m)'
  BY <1>4, <1>7, HandlingIdle DEF Working, Dispatched, Processing
<1>10. UNCHANGED <<lane, bindingVars, staging, retried>>
  BY DEF HandlerThrows
<1>11. DeliveryType'
  BY <1>7, <1>8, <1>10 DEF FInv, DeliveryType
<1> QED  BY <1>3, <1>6, <1>7, <1>8, <1>9, <1>10, <1>11 DEF OwnStep

-----------------------------------------------------------------------------
(* The created thread, and the rows that waited for it.                     *)

\* A binding that is gone stays gone when the bound session gets its thread.
LEMMA CreateThreadSound ==
  ASSUME IInv, FInv, NEW m \in Messages, NEW ok \in BOOLEAN, CreateThread(m, ok)
  PROVE  Sound
<1>1. ThreadCreated(m, ok) /\ TypeOK /\ mem[m] \in Receipt
  BY DEF CreateThread, IInv, TypeOK
<1>2. JournalFrame(m)
  BY <1>1, HandlerFrame, Zenon DEF HandlerStep
<1>3. /\ stage[m] = "submitting" /\ kind[m] = "turn" /\ ~mem[m].thread
      /\ stage'[m] = IF ok THEN "submitting" ELSE "threw"
      /\ ok => mem'[m].thread
  BY <1>1 DEF ThreadCreated, Transition, Goto, TypeOK, Receipt
<1>4. lease[m].session \in Sessions /\ lease[m].thread = 0 /\ lease[m] \in Target
  BY <1>3 DEF FInv, Handling, Leased, DeliveryType
<1>5. /\ lease' = [lease EXCEPT ![m].thread = fresh + 1]
      /\ fresh' = fresh + 1
      /\ UNCHANGED <<lane, bound, rowVars, staging, delivering, retried>>
  BY DEF CreateThread
<1>6. BindingType /\ DeliveryType /\ InboxType
  BY DEF FInv
<1>7. /\ lease'[m].session = lease[m].session /\ lease'[m].epoch = lease[m].epoch /\ lease'[m].thread = fresh + 1
      /\ lease'[m] \in Target
      /\ \A n \in Messages \ {m} : lease'[n] = lease[n]
  BY <1>4, <1>5, <1>6 DEF DeliveryType, BindingType, Target
<1>8. DeliveryType'
  BY <1>5, <1>6, <1>7 DEF DeliveryType
<1>9. CASE ok /\ lease[m] = Current
  <2>1. bound \in Sessions /\ sessions[bound].thread = 0 /\ lease[m].session = bound /\ lease[m].epoch = sessions[bound].epoch
    BY <1>4, <1>6, <1>9, SessionsAssumption DEF Current, Unbound, BindingType
  <2>2. sessions' = [sessions EXCEPT ![bound].thread = fresh + 1]
    BY <1>9 DEF CreateThread
  <2>3. /\ sessions'[bound].thread = fresh + 1
        /\ \A s \in Sessions : sessions'[s].epoch = sessions[s].epoch
        /\ \A s \in Sessions : s # bound => sessions'[s] = sessions[s]
    BY <1>6, <2>1, <2>2 DEF BindingType
  <2>4. BindingType'
    BY <1>5, <1>6, <2>1, <2>2 DEF BindingType
  <2>5. ASSUME NEW l \in Target, Past(l) PROVE Past(l)'
    BY <1>6, <2>1, <2>3, <2>5 DEF Past, BindingType, Target
  <2>6. ASSUME NEW n \in Messages \ {m} PROVE Handling(n)'
    <3>1. Handling(n) /\ lease[n] \in Target
      BY <1>6 DEF FInv, DeliveryType
    <3>2. /\ lease'[n] = lease[n] /\ delivering'[n] = delivering[n] /\ mem'[n] = mem[n] /\ stage'[n] = stage[n]
          /\ kind'[n] = kind[n] /\ lane'[n] = lane[n] /\ inbox' = inbox
      BY <1>2, <1>5, <1>7 DEF JournalFrame, rowVars
    <3>3. Dispatched(n)'
      BY <3>1, <3>2 DEF Handling, Dispatched, Processing, Concluded
    <3>4. Leased(n)'
      BY <2>3, <3>1, <3>2 DEF Handling, Leased, Working
    <3>5. RowHeld(n)'
      <4>1. Past(lease[n]) => Past(lease[n])'
        BY <2>3, <2>5, <3>1, <3>2 DEF Past
      <4>2. Alike(n) => Alike(n)'
        BY <3>2 DEF Alike
      <4> QED  BY <3>1, <3>2, <4>1, <4>2 DEF Handling, RowHeld, Working, Automatic
    <3> QED  BY <3>3, <3>4, <3>5 DEF Handling
  <2>7. Handling(m)'
    <3>1. Handling(m) /\ ~Past(lease[m])
      BY <1>6, <2>1 DEF FInv, Past, BindingType
    <3>2. /\ delivering'[m] = delivering[m] /\ kind'[m] = kind[m] /\ lane'[m] = lane[m] /\ inbox' = inbox
      BY <1>2, <1>5 DEF JournalFrame, rowVars
    <3>3. Dispatched(m)'
      BY <1>3, <1>9, <3>1, <3>2 DEF Handling, Dispatched, Processing, Concluded
    <3>4. Leased(m)'
      BY <1>3, <1>4, <1>6, <1>7, <1>9, <2>1, <2>3, <3>1, <3>2 DEF Leased, Working, BindingType
    <3>5. RowHeld(m)'
      <4>1. Automatic(m) => Has(inbox, m) /\ Alike(m)
        BY <1>3, <3>1 DEF Handling, RowHeld, Working
      <4>2. Alike(m) => Alike(m)'
        BY <1>4, <1>7, <3>2 DEF Alike
      <4> QED  BY <3>2, <4>1, <4>2 DEF RowHeld, Automatic
    <3> QED  BY <3>3, <3>4, <3>5 DEF Handling
  <2> QED  BY <1>5, <1>6, <1>8, <2>4, <2>6, <2>7, RowsUntouched DEF Sound, FInv, InboxType, RowsKept
<1>10. CASE ~(ok /\ lease[m] = Current)
  <2>1. sessions' = sessions
    BY <1>10 DEF CreateThread
  <2>2. BindingType'
    BY <1>5, <1>6, <2>1 DEF BindingType
  <2>3. ASSUME NEW n \in Messages \ {m} PROVE Handling(n)'
    <3>1. inbox' = inbox /\ delivering' = delivering /\ lane' = lane
      BY <1>5 DEF rowVars
    <3> QED  BY <1>2, <1>7, <2>1, <3>1, HandlingKept DEF FInv, JournalFrame
  <2>4. Handling(m)'
    <3>1. Handling(m)
      BY DEF FInv
    <3>2. /\ delivering'[m] = delivering[m] /\ kind'[m] = kind[m] /\ lane'[m] = lane[m] /\ inbox' = inbox
      BY <1>2, <1>5 DEF JournalFrame, rowVars
    <3>3. Dispatched(m)'
      BY <1>3, <3>1, <3>2 DEF Handling, Dispatched, Processing, Concluded
    <3>4. CASE ~ok
      BY <1>3, <3>3, <3>4, HandlingIdle DEF Working
    <3>5. CASE ok
      <4>1. Leased(m)'
        BY <1>3, <1>4, <1>6, <1>7, <2>1, <3>1, <3>2, <3>5 DEF Handling, Leased, Working, BindingType
      <4>2. Past(lease[m]) => Past(lease[m])'
        BY <1>4, <1>6, <1>7, <2>1 DEF Past, BindingType
      <4>3. Alike(m) => Alike(m)'
        BY <1>4, <1>7, <3>2 DEF Alike
      <4>4. RowHeld(m)'
        BY <1>3, <3>1, <3>2, <4>2, <4>3 DEF Handling, RowHeld, Working, Automatic
      <4> QED  BY <3>3, <4>1, <4>4 DEF Handling
    <3> QED  BY <3>4, <3>5
  <2> QED  BY <1>5, <1>6, <1>8, <2>2, <2>3, <2>4, RowsUntouched DEF Sound, FInv, InboxType, RowsKept
<1> QED  BY <1>9, <1>10

\* The rows of an acceptance: that of m goes, and pending rows that named the session
\* before its thread existed now name the thread.
AcceptanceRows(m) ==
  /\ InboxType'
  /\ \A n \in Messages \ {m} : BodyKept(n) /\ (Has(inbox, n) =>
       /\ Has(inbox', n)
       /\ \/ RowIn(inbox', n).target = RowIn(inbox, n).target
          \/ /\ ThreadAwaited(m)
             /\ RowIn(inbox, n).target = RowIn(inbox, m).target
             /\ RowIn(inbox', n).target = Current)

LEMMA RowsAdvanced ==
  ASSUME InboxType, BindingType, NEW m \in Messages
  PROVE  /\ Rows(Advanced(m))
         /\ \A n : Has(Advanced(m), n) <=> Has(inbox, n)
         /\ \A n : Has(inbox, n) =>
              \/ RowIn(Advanced(m), n).target = RowIn(inbox, n).target
              \/ RowIn(inbox, n).target = RowIn(inbox, m).target /\ RowIn(Advanced(m), n).target = Current
<1>1. PICK q : q = Advanced(m)
  OBVIOUS
<1>2. Rows(inbox) /\ Current \in Target
  BY CurrentType DEF InboxType
<1>3. /\ DOMAIN q = DOMAIN inbox
      /\ \A i \in DOMAIN inbox :
           /\ q[i] \in RowType /\ q[i].msg = inbox[i].msg
           /\ \/ q[i].target = inbox[i].target
              \/ inbox[i].target = RowOf(m).target /\ q[i].target = Current
  <2>1. q = [i \in DOMAIN inbox |-> IF inbox[i].state = "pending" /\ inbox[i].target = RowOf(m).target
                                     THEN [inbox[i] EXCEPT !.target = Current] ELSE inbox[i]]
    BY <1>1 DEF Advanced
  <2>2. \A i \in DOMAIN inbox : inbox[i] \in RowType
    BY <1>2 DEF Rows
  <2> QED  BY <1>2, <2>1, <2>2 DEF RowType
<1>4. q \in Seq(RowType)
  <2>1. DOMAIN inbox = 1..Len(inbox) /\ Len(inbox) \in Nat
    BY <1>2 DEF Rows
  <2>2. \E k \in Nat : q \in [1..k -> RowType]
    <3>1. q = [i \in 1..Len(inbox) |-> q[i]]
      BY <1>1, <1>3, <2>1 DEF Advanced
    <3> QED  BY <1>3, <2>1, <3>1
  <2> QED  BY <2>2
<1>5. Rows(q)
  BY <1>2, <1>3, <1>4 DEF Rows
<1>6. \A n : Has(q, n) <=> Has(inbox, n)
  BY <1>3 DEF Has
<1>7. ASSUME NEW n, Has(inbox, n)
      PROVE  \/ RowIn(q, n).target = RowIn(inbox, n).target
             \/ RowIn(inbox, n).target = RowIn(inbox, m).target /\ RowIn(q, n).target = Current
  <2>1. PICK i \in DOMAIN inbox : inbox[i].msg = n
    BY <1>7 DEF Has
  <2>2. Place(inbox, n) = i
    BY <1>2, <2>1, PlaceIs
  <2>3. Place(q, n) = i
    BY <1>3, <1>5, <2>1, PlaceIs
  <2>4. RowOf(m) = RowIn(inbox, m)
    BY DEF RowOf, RowIn
  <2> QED  BY <1>3, <2>1, <2>2, <2>3, <2>4 DEF RowIn
<1> QED  BY <1>1, <1>5, <1>6, <1>7

LEMMA AcceptedRowKeeps ==
  ASSUME InboxType, BindingType, NEW m \in Messages, AcceptedRow(m)
  PROVE  AcceptanceRows(m)
<1>1. CASE UNCHANGED rowVars
  BY <1>1, RowsUntouched DEF RowsKept, AcceptanceRows
<1>2. CASE Remove(m)
  BY <1>2, RemoveKeeps DEF RowsKept, AcceptanceRows
<1>3. PICK q : q = Advanced(m)
  OBVIOUS
<1>4. /\ Rows(q)
      /\ \A n : Has(q, n) <=> Has(inbox, n)
      /\ \A n : Has(inbox, n) =>
           \/ RowIn(q, n).target = RowIn(inbox, n).target
           \/ RowIn(inbox, n).target = RowIn(inbox, m).target /\ RowIn(q, n).target = Current
  BY <1>3, RowsAdvanced
<1>5. CASE Has(inbox, m) /\ ThreadAwaited(m) /\ RemoveFrom(q, q, m)
  <2>1. /\ InboxType'
        /\ \A n : n # m /\ Has(q, n) => Has(inbox', n) /\ RowIn(inbox', n) = RowIn(q, n)
        /\ \A n : n # m /\ Has(q, n) /\ Has(q, n) => Has(file', n)
    BY <1>4, <1>5, RemoveFromKeeps
  <2> QED  BY <1>4, <1>5, <2>1 DEF AcceptanceRows, BodyKept
<1>6. CASE ThreadAwaited(m) /\ inbox' = q /\ SaveOver(file, q, FALSE)
  <2>1. Rows(file') /\ inboxFaults' \in 0..MaxInboxFaults /\ file' \in {file, q}
    BY <1>4, <1>6, SaveOverEffect DEF InboxType
  <2>2. InboxType'
    BY <1>4, <1>6, <2>1 DEF InboxType
  <2> QED  BY <1>4, <1>6, <2>1, <2>2 DEF AcceptanceRows, BodyKept
<1>7. CASE kind[m] = "terminal" \/ ~Has(inbox, m)
  BY <1>1, <1>7 DEF AcceptedRow
<1>8. CASE ~(kind[m] = "terminal" \/ ~Has(inbox, m))
  <2>1. \/ ~ThreadAwaited(m) /\ Remove(m)
        \/ ThreadAwaited(m) /\ RemoveFrom(q, q, m)
        \/ ThreadAwaited(m) /\ inbox' = q /\ SaveOver(file, q, FALSE)
    BY <1>3, <1>8 DEF AcceptedRow, SaveInbox
  <2> QED  BY <1>2, <1>5, <1>6, <1>8, <2>1
<1> QED  BY <1>7, <1>8

\* A row that follows its session to the created thread leaves a lease that either
\* names that thread too or is past.
LEMMA AcceptanceSound ==
  ASSUME FInv, NEW m \in Messages, JournalFrame(m), AcceptanceRows(m),
         UNCHANGED <<lane, bindingVars, staging, delivering, lease, retried>>,
         Handling(m)', BodyKept(m) \/ Concluded(m)'
  PROVE  Sound
<1>1. BindingType /\ DeliveryType /\ InboxType /\ BindingType' /\ DeliveryType'
  BY DEF FInv, BindingType, DeliveryType, bindingVars
<1>2. ASSUME NEW n \in Messages \ {m} PROVE Handling(n)'
  <2>1. Handling(n) /\ lease[n] \in Target
    BY <1>1 DEF FInv, DeliveryType
  <2>2. /\ mem'[n] = mem[n] /\ stage'[n] = stage[n] /\ kind' = kind
        /\ UNCHANGED <<lane, sessions, bound, delivering, lease>>
    BY DEF JournalFrame, bindingVars
  <2>3. CASE Has(inbox, n) => RowIn(inbox', n).target = RowIn(inbox, n).target
    BY <2>1, <2>2, <2>3, HandlingKept DEF AcceptanceRows
  <2>4. CASE Has(inbox, n) /\ ~(RowIn(inbox', n).target = RowIn(inbox, n).target)
    <3>1. /\ Has(inbox', n) /\ ThreadAwaited(m)
          /\ RowIn(inbox, n).target = RowIn(inbox, m).target
          /\ RowIn(inbox', n).target = Current
      BY <2>4 DEF AcceptanceRows
    <3>2. /\ RowIn(inbox, n).target.session \in Sessions /\ RowIn(inbox, n).target.thread = 0
          /\ Current.session = RowIn(inbox, n).target.session
      <4>1. RowIn(inbox, n).target \in Target
        BY <1>1, <2>4, RowInType DEF InboxType, RowType
      <4>2. RowOf(m) = RowIn(inbox, m)
        BY DEF RowOf, RowIn
      <4> QED  BY <3>1, <4>1, <4>2 DEF ThreadAwaited, Target
    <3>3. /\ bound = Current.session /\ bound \in Sessions
          /\ Current.thread = sessions[bound].thread /\ Current.epoch = sessions[bound].epoch
      BY <3>2, SessionsAssumption DEF Current, Unbound
    <3>4. Dispatched(n)'
      BY <2>1, <2>2 DEF Handling, Dispatched, Processing, Concluded
    <3>5. Leased(n)'
      BY <2>1, <2>2 DEF Handling, Leased, Working
    <3>6. RowHeld(n)'
      <4>1. CASE ~(Working(n) /\ Automatic(n))
        BY <2>2, <4>1 DEF RowHeld, Working, Automatic
      <4>2. CASE Working(n) /\ Automatic(n) /\ Past(lease[n])
        BY <2>2, <3>1, <4>2 DEF RowHeld, Past
      <4>3. CASE Working(n) /\ Automatic(n) /\ ~Past(lease[n])
        <5>1. Alike(n)
          BY <2>1, <4>3 DEF Handling, RowHeld
        <5>2. lease[n].session = bound /\ lease[n].epoch <= sessions[bound].epoch
          BY <2>1, <3>2, <3>3, <4>3, <5>1 DEF Alike, Handling, Leased
        <5>3. lease[n].epoch = sessions[bound].epoch /\ sessions[bound].thread \in {0, lease[n].thread}
          <6>1. lease[n].epoch \in Nat /\ sessions[bound].epoch \in Nat
            BY <1>1, <2>1, <3>3 DEF Target, BindingType
          <6>2. ~(sessions[bound].epoch > lease[n].epoch)
            BY <3>3, <4>3, <5>2 DEF Past
          <6>3. ~(sessions[bound].thread # 0 /\ sessions[bound].thread # lease[n].thread)
            BY <3>3, <4>3, <5>2 DEF Past
          <6> QED  BY <5>2, <6>1, <6>2, <6>3
        <5>4. Alike(n)'
          BY <2>2, <3>1, <3>3, <5>2, <5>3 DEF Alike
        <5> QED  BY <3>1, <5>4 DEF RowHeld
      <4> QED  BY <4>1, <4>2, <4>3
    <3> QED  BY <3>4, <3>5, <3>6 DEF Handling
  <2> QED  BY <2>3, <2>4
<1> QED  BY <1>1, <1>2 DEF AcceptanceRows, Sound, FInv

-----------------------------------------------------------------------------
(* Acceptances, recoveries and the rest of the handler.                     *)

\* A settled receipt is still settled after the step.
LEMMA ConcludedStays ==
  ASSUME IInv, [Next]_vars, NEW m \in Messages, Concluded(m)
  PROVE  Concluded(m)'
BY StepFinal DEF StaysFinal, Concluded

\* accepted() and queued(): the handler's acceptance and its inbox callback.
LEMMA AcceptSound ==
  ASSUME IInv, FInv, NEW m \in Messages, NEW ok \in BOOLEAN, Accepted(m, ok) \/ Completed(m, ok), OnAccepted(m, ok)
  PROVE  Sound
<1>1. TypeOK /\ mem[m] \in Receipt /\ HandlerStep(m)
  BY DEF IInv, TypeOK, HandlerStep
<1>2. JournalFrame(m)
  BY <1>1, HandlerFrame
<1>3. /\ stage[m] # "idle" /\ stage'[m] \in {"answered", "returned", "threw"}
      /\ stage'[m] = "returned" => mem'[m].phase = "accepted"
      /\ ok => mem'[m].phase = "accepted"
  <2> DEFINE r == [mem[m] EXCEPT !.phase = "accepted", !.turn = (kind[m] # "terminal")]
             s == [mem[m] EXCEPT !.phase = "accepted"]
  <2>1. r.phase = "accepted" /\ s.phase = "accepted"
    BY <1>1 DEF Receipt
  <2>2. Transition(m, r, ok) \/ Transition(m, s, ok)
    BY DEF Accepted, Completed
  <2>3. ok => mem'[m].phase = "accepted"
    <3> HIDE DEF r, s
    <3> QED  BY <1>1, <2>1, <2>2 DEF Transition, TypeOK
  <2>4. stage[m] # "idle" /\ stage'[m] \in {"answered", "returned", "threw"} /\ (stage'[m] = "returned" => ok)
    BY <1>1 DEF Accepted, Completed, Goto, TypeOK
  <2> QED  BY <2>3, <2>4
<1>4. UNCHANGED <<lane, bindingVars, staging, delivering, lease, retried>>
  BY DEF OnAccepted
<1>5. AcceptanceRows(m) /\ (BodyKept(m) \/ Concluded(m)')
  <2>1. CASE ok
    BY <1>3, <2>1, AcceptedRowKeeps DEF OnAccepted, FInv, Concluded
  <2>2. CASE ~ok
    BY <2>2, RowsUntouched DEF OnAccepted, FInv, AcceptanceRows, RowsKept
  <2> QED  BY <2>1, <2>2
<1>6. Handling(m)'
  <2>1. delivering'[m] = "dispatching"
    BY <1>3, <1>4 DEF FInv, Handling, Dispatched, Processing
  <2>2. Dispatched(m)'
    BY <1>3, <2>1 DEF Dispatched
  <2> QED  BY <1>3, <2>2, HandlingIdle DEF Working
<1> QED  BY <1>2, <1>4, <1>5, <1>6, AcceptanceSound

LEMMA LeasedSound ==
  ASSUME IInv, FInv, NEW m \in Messages, LeasedStep(m)
  PROVE  Sound
<1>1. ASSUME OwnStep(m) PROVE Sound
  BY <1>1, OwnStepSound
<1>2. CASE \/ Lift(Acknowledged(m)) \/ Lift(Answered(m)) \/ Lift(Throw(m))
           \/ \E ok \in BOOLEAN : Lift(RuntimeUnconfirmed(m, ok)) \/ (~ok /\ Lift(Finish(m, ok)))
  <2>1. ASSUME NEW ok \in BOOLEAN, ~ok, Finish(m, ok) PROVE Finish(m, FALSE)
    <3>1. ok = FALSE
      BY <2>1
    <3> QED  BY <2>1, <3>1
  <2>2. /\ UNCHANGED forwardingVars
        /\ \/ Acknowledged(m) \/ Answered(m) \/ Throw(m)
           \/ \E ok \in BOOLEAN : RuntimeUnconfirmed(m, ok)
           \/ Finish(m, FALSE)
    BY <1>2, <2>1, Zenon DEF Lift
  <2> QED  BY <1>1, <2>2, HandlerMovesSound
<1>3. ASSUME NEW ok \in BOOLEAN, SubmitLeased(m, ok) PROVE Sound
  BY <1>1, <1>3, SubmitSound
<1>4. ASSUME NEW ok \in BOOLEAN, CreateThread(m, ok) PROVE Sound
  BY <1>4, CreateThreadSound
<1>5. ASSUME NEW ok \in BOOLEAN, Accepted(m, ok) \/ Completed(m, ok), OnAccepted(m, ok) PROVE Sound
  BY <1>5, AcceptSound
<1>6. CASE Prepared(m) \/ SendLeased(m) \/ HandlerReturns(m) \/ HandlerThrows(m)
  BY <1>1, <1>6, PreparedSound, SendSound, ReturnsSound, ThrowsSound
<1> QED  BY <1>2, <1>3, <1>4, <1>5, <1>6, Zenon DEF LeasedStep

\* A receipt that another reader settles or starts to read has no working handler,
\* or stays as it is.
LEMMA ObserverSound ==
  ASSUME IInv, FInv, NEW m \in Messages, ObserverStep(m)
  PROVE  Sound
<1>0. TypeOK /\ HandlerPhase(m) /\ RecoveryStep(m) /\ mem[m] \in Receipt
  BY DEF IInv, TypeOK, MessageInv, ObserverStep, RecoveryStep, Lift
<1>1. JournalFrame(m) /\ stage' = stage
  BY <1>0, RecoveryFrame
<1>2. Concluded(m) => Concluded(m)'
  BY <1>0, ConcludedStays DEF Next
<1>3. ASSUME stage[m] = "idle", UNCHANGED delivering PROVE Handling(m)'
  <2>1. Dispatched(m)'
    BY <1>1, <1>2, <1>3 DEF FInv, Handling, Dispatched, Processing
  <2> QED  BY <1>1, <1>3, <2>1, HandlingIdle DEF Working
<1>4. CASE Lift(Observe(m)) \/ Lift(ObservationEnds(m))
  <2>1. UNCHANGED forwardingVars /\ mem' = mem
    BY <1>4 DEF Lift, Observe, ObservationEnds
  <2>2. Handling(m)'
    BY <1>1, <2>1, HandlingKept DEF FInv, JournalFrame, forwardingVars
  <2> QED  BY <1>1, <2>1, <2>2, LiftedSound, OwnStepSound
<1>5. ASSUME NEW ok \in BOOLEAN, RecoverAccepted(m, ok) \/ RecoverOwned(m, ok), OnAccepted(m, ok) PROVE Sound
  <2>1. stage[m] = "idle"
    BY <1>5 DEF RecoverAccepted, RecoverAdmitted, RecoverOwned, Processing
  <2>2. ok => mem'[m].phase = "accepted"
    <3> DEFINE r == [mem[m] EXCEPT !.phase = "accepted", !.turn = TRUE, !.recovered = TRUE]
               s == [mem[m] EXCEPT !.phase = "accepted", !.turn = (kind[m] = "queue")]
    <3>1. r.phase = "accepted" /\ s.phase = "accepted"
      BY <1>0 DEF Receipt
    <3>2. Transition(m, r, ok) \/ Transition(m, s, ok)
      BY <1>5 DEF RecoverAccepted, RecoverOwned
    <3> HIDE DEF r, s
    <3> QED  BY <1>0, <3>1, <3>2 DEF Transition, TypeOK
  <2>3. UNCHANGED <<lane, bindingVars, staging, delivering, lease, retried>>
    BY <1>5 DEF OnAccepted
  <2>4. AcceptanceRows(m) /\ (BodyKept(m) \/ Concluded(m)')
    <3>1. CASE ok
      BY <1>5, <2>2, <3>1, AcceptedRowKeeps DEF OnAccepted, FInv, Concluded
    <3>2. CASE ~ok
      BY <1>5, <3>2, RowsUntouched DEF OnAccepted, FInv, AcceptanceRows, RowsKept
    <3> QED  BY <3>1, <3>2
  <2> QED  BY <1>1, <1>3, <2>1, <2>3, <2>4, AcceptanceSound
<1>6. ASSUME NEW ok \in BOOLEAN, Lift(RecoveredResultDelivered(m, ok)) PROVE Sound
  <2>1. UNCHANGED forwardingVars /\ Concluded(m)
    BY <1>6 DEF Lift, RecoveredResultDelivered, Concluded
  <2>2. ~Working(m)' /\ Concluded(m)'
    BY <1>0, <1>1, <1>2, <1>6, <2>1 DEF Lift, RecoveredResultDelivered, HandlerPhase, Working
  <2>3. Dispatched(m)'
    BY <1>1, <2>1, <2>2 DEF FInv, Handling, Dispatched, Processing, Concluded, forwardingVars
  <2> QED  BY <1>1, <2>1, <2>2, <2>3, HandlingIdle, LiftedSound, OwnStepSound
<1> QED  BY <1>4, <1>5, <1>6, Zenon DEF ObserverStep

LEMMA NativeSound ==
  ASSUME IInv, FInv, NEW m \in Messages, Lift(NativeStep(m))
  PROVE  Sound
<1>1. TypeOK /\ NativeStep(m) /\ UNCHANGED forwardingVars
  BY DEF IInv, Lift
<1>2. JournalFrame(m) /\ mem' = mem
  BY <1>1, NativeFrame DEF NativeStep, NativeApply, NativeLose, NativeRefuse
<1>3. CASE stage'[m] = stage[m]
  <2>1. Handling(m)'
    BY <1>1, <1>2, <1>3, HandlingKept DEF FInv, JournalFrame, forwardingVars
  <2> QED  BY <1>1, <1>2, <2>1, LiftedSound, OwnStepSound
<1>4. CASE stage'[m] # stage[m]
  <2>1. stage[m] = "sent" /\ stage'[m] = "refused"
    BY <1>1, <1>4 DEF NativeStep, NativeApply, NativeLose, NativeRefuse, Goto, TypeOK
  <2> QED  BY <1>1, <1>2, <2>1, WorkingEnds, OwnStepSound DEF Working
<1> QED  BY <1>3, <1>4

-----------------------------------------------------------------------------
(* Claiming, staging, retrying, cancelling, rebinding and restarting.       *)

\* A retried row takes the binding of the moment; no handler of it runs.
LEMMA RetrySound ==
  ASSUME FInv, NEW m \in Messages, Retry(m)
  PROVE  Sound
<1>1. Has(inbox, m) /\ delivering[m] = "no" /\ stage[m] = "idle"
  BY IdleHandler DEF Retry, Controllable, Idle
<1>2. InboxType /\ BindingType /\ DeliveryType /\ Rows(inbox) /\ Current \in Target
  BY CurrentType DEF FInv, InboxType
<1>3. UNCHANGED <<vars, lane, bindingVars, staging, delivering, lease>> /\ retried' = retried \union {m}
  BY DEF Retry
<1> DEFINE row == [RowIn(inbox, m) EXCEPT !.target = Current, !.state = "pending"]
<1>4. row \in RowType /\ row.msg = m
  <2>1. PICK q, c : q = RowIn(inbox, m) /\ c = Current /\ q \in RowType /\ q.msg = m /\ c \in Target
    BY <1>1, <1>2, RowInType
  <2>2. [q EXCEPT !.target = c, !.state = "pending"] \in RowType /\ [q EXCEPT !.target = c, !.state = "pending"].msg = m
    BY <2>1 DEF RowType
  <2> QED  BY <2>1, <2>2
<1>5. PICK rows : rows = [inbox EXCEPT ![Place(inbox, m)].target = Current, ![Place(inbox, m)].state = "pending"]
  OBVIOUS
<1>6. rows = Rewritten(inbox, m, row)
  <2>1. Place(inbox, m) \in DOMAIN inbox /\ inbox \in Seq(RowType)
    BY <1>1, <1>2, PlaceHas DEF Rows
  <2> QED  BY <1>5, <2>1 DEF Rewritten, RowIn
<1> HIDE DEF row
<1>7. /\ Rows(rows)
      /\ \A n : Has(rows, n) <=> Has(inbox, n)
      /\ \A n : n # m /\ Has(inbox, n) => RowIn(rows, n) = RowIn(inbox, n)
  BY <1>1, <1>2, <1>4, <1>6, RowReplaced
<1>8. /\ inbox' = rows \/ inbox' = inbox
      /\ \E ok \in BOOLEAN : SaveOver(file, rows, ok)
  BY <1>5 DEF Retry, SaveInbox
<1>9. Rows(file') /\ inboxFaults' \in 0..MaxInboxFaults /\ file' \in {file, rows}
  BY <1>2, <1>7, <1>8, SaveOverEffect DEF InboxType
<1>10. RowsKept(m) /\ BodyKept(m)
  BY <1>2, <1>7, <1>8, <1>9 DEF RowsKept, BodyKept, InboxType
<1>11. DeliveryType' /\ delivering' = delivering
  BY <1>2, <1>3 DEF DeliveryType
<1> QED  BY <1>1, <1>3, <1>10, <1>11, QuietStep, OwnStepSound

LEMMA CancelSound ==
  ASSUME IInv, FInv, NEW m \in Messages, Cancel(m)
  PROVE  Sound
<1>1. delivering[m] = "no" /\ stage[m] = "idle" /\ TypeOK /\ InboxType /\ DeliveryType
  BY IdleHandler DEF Cancel, Controllable, Idle, FInv, IInv
<1>2. PICK ok \in BOOLEAN : Abandon(m, ok) /\ IF ok THEN Remove(m) ELSE UNCHANGED rowVars
  BY DEF Cancel
<1>3. JournalFrame(m) /\ stage' = stage
  BY <1>1, <1>2, SourceFrame DEF SourceStep, Abandon
<1>4. UNCHANGED <<lane, bindingVars, staging, delivering, lease, retried>>
  BY DEF Cancel
<1>5. RowsKept(m) /\ (BodyKept(m) \/ Concluded(m)')
  <2>1. CASE ok
    <3> DEFINE r == [mem[m] EXCEPT !.phase = "handled"]
    <3>1. mem[m] \in Receipt
      BY <1>1 DEF TypeOK
    <3>2. r.phase = "handled" /\ Transition(m, r, ok)
      BY <1>2, <3>1 DEF Abandon, Receipt
    <3> HIDE DEF r
    <3>3. Concluded(m)'
      BY <1>1, <2>1, <3>2 DEF Transition, TypeOK, Concluded
    <3> QED  BY <1>1, <1>2, <2>1, <3>3, RemoveKeeps
  <2>2. CASE ~ok
    BY <1>1, <1>2, <2>2, RowsUntouched
  <2> QED  BY <2>1, <2>2
<1>6. Handling(m)'
  BY <1>1, <1>3, <1>4, HandlingIdle DEF Working, Dispatched, Processing
<1>7. DeliveryType'
  BY <1>1, <1>4 DEF DeliveryType
<1> QED  BY <1>3, <1>4, <1>5, <1>6, <1>7, OwnStepSound DEF OwnStep

LEMMA ReleaseClaimSound ==
  ASSUME IInv, FInv, NEW m \in Messages, ReleaseClaim(m)
  PROVE  Sound
<1>1. TypeOK /\ ReleasePreparation(m) /\ UNCHANGED forwardingVars
  BY DEF ReleaseClaim, Lift, IInv
<1>2. JournalFrame(m) /\ mem' = mem /\ stage' = stage
  BY <1>1, SourceFrame DEF SourceStep, ReleasePreparation
<1>3. Handling(m)'
  BY <1>1, <1>2, HandlingKept DEF FInv, JournalFrame, forwardingVars
<1> QED  BY <1>1, <1>2, <1>3, LiftedSound, OwnStepSound

LEMMA ClaimSound ==
  ASSUME IInv, FInv, NEW m \in Messages, NEW ok \in BOOLEAN, ClaimReceipt(m, ok)
  PROVE  Sound
<1>1. TypeOK /\ Claim(m, ok) /\ Claimable(m) /\ InboxType /\ DeliveryType
  BY DEF ClaimReceipt, Claim, IInv, FInv
<1>2. JournalFrame(m) /\ stage' = stage /\ stage[m] = "idle"
  BY <1>1, SourceFrame DEF SourceStep, Claim, Claimable, Processing
<1>3. UNCHANGED <<lane, bindingVars, rowVars, delivering, lease, retried>> /\ staging' = IF ok THEN {m} ELSE {}
  BY DEF ClaimReceipt
<1>4. RowsKept(m) /\ BodyKept(m)
  BY <1>1, <1>3, RowsUntouched
<1>5. Handling(m)'
  <2>1. delivering[m] # "returned"
    BY <1>1 DEF Claimable, FInv, Handling, Dispatched, Concluded
  <2> QED  BY <1>2, <1>3, <2>1, HandlingIdle DEF Working, Dispatched, Processing
<1>6. DeliveryType'
  BY <1>1, <1>3 DEF DeliveryType
<1> QED  BY <1>2, <1>3, <1>4, <1>5, <1>6, OwnStepSound DEF OwnStep

\* The row stage() creates.
LEMMA NewRowType ==
  ASSUME BindingType, NEW m \in Messages
  PROVE  NewRow(m) \in RowType /\ NewRow(m).msg = m
BY CurrentType DEF NewRow, RowType

LEMMA StageSound ==
  ASSUME FInv, NEW m \in Messages, Stage(m)
  PROVE  Sound
<1>1. InboxType /\ BindingType /\ DeliveryType
  BY DEF FInv
<1>2. UNCHANGED <<vars, lane, bindingVars, delivering, lease, retried>> /\ staging' = {}
  BY DEF Stage
<1>3. JournalFrame(m) /\ DeliveryType'
  BY <1>1, <1>2 DEF vars, JournalFrame, DeliveryType
<1>4. CASE Has(inbox, m)
  <2>1. UNCHANGED rowVars
    BY <1>4 DEF Stage
  <2>2. RowsKept(m) /\ BodyKept(m) /\ inbox' = inbox
    BY <1>1, <2>1, RowsUntouched
  <2>3. Handling(m)'
    BY <1>2, <2>2, HandlingKept DEF FInv, vars, bindingVars
  <2> QED  BY <1>2, <1>3, <2>2, <2>3, OwnStepSound DEF OwnStep
<1>5. CASE ~Has(inbox, m)
  <2>1. inbox' = Append(inbox, NewRow(m)) /\ SaveOver(file, inbox', TRUE)
    BY <1>5 DEF Stage, SaveInbox
  <2>2. NewRow(m) \in RowType /\ NewRow(m).msg = m /\ Rows(inbox)
    BY <1>1, NewRowType DEF InboxType
  <2>3. /\ Rows(inbox')
        /\ \A n : Has(inbox', n) <=> (Has(inbox, n) \/ n = m)
        /\ \A n : Has(inbox, n) => RowIn(inbox', n) = RowIn(inbox, n)
    <3>1. PICK row \in RowType : row = NewRow(m) /\ row.msg = m
      BY <2>2
    <3> QED  BY <1>5, <2>1, <2>2, <3>1, RowAppended
  <2>4. Rows(file') /\ inboxFaults' \in 0..MaxInboxFaults /\ file' \in {file, inbox'}
    BY <1>1, <2>1, <2>3, SaveOverEffect DEF InboxType
  <2>5. RowsKept(m) /\ BodyKept(m)
    BY <1>5, <2>3, <2>4 DEF RowsKept, BodyKept, InboxType
  <2>6. Handling(m)'
    <3>1. Has(inbox, m) => Has(inbox', m) /\ RowIn(inbox', m).target = RowIn(inbox, m).target
      BY <1>5
    <3> QED  BY <1>2, <3>1, HandlingKept DEF FInv, vars, bindingVars
  <2> QED  BY <1>2, <1>3, <2>5, <2>6, OwnStepSound DEF OwnStep
<1> QED  BY <1>4, <1>5

LEMMA StageFailsSound ==
  ASSUME IInv, FInv, NEW m \in Messages, StageFails(m)
  PROVE  Sound
<1>1. InboxType /\ BindingType /\ DeliveryType /\ TypeOK
  BY DEF FInv, IInv
<1>2. UNCHANGED <<lane, bindingVars, inbox, delivering, lease, retried>> /\ staging' = {} /\ ReleasePreparation(m)
  BY DEF StageFails
<1>3. JournalFrame(m) /\ DeliveryType' /\ mem' = mem /\ stage' = stage
  BY <1>1, <1>2, SourceFrame DEF SourceStep, ReleasePreparation, DeliveryType
<1>4. PICK q : q = Append(inbox, NewRow(m))
  OBVIOUS
<1>5. /\ Rows(q)
      /\ \A n : Has(q, n) <=> (Has(inbox, n) \/ n = m)
  <2>1. PICK row \in RowType : row = NewRow(m) /\ row.msg = m
    BY <1>1, NewRowType
  <2> QED  BY <1>1, <1>4, <2>1, RowAppended DEF StageFails, InboxType
<1>6. Rows(file') /\ inboxFaults' \in 0..MaxInboxFaults /\ file' \in {file, q}
  BY <1>1, <1>4, <1>5, SaveOverEffect DEF InboxType, StageFails, SaveInbox
<1>7. RowsKept(m) /\ BodyKept(m)
  BY <1>1, <1>2, <1>5, <1>6 DEF RowsKept, BodyKept, InboxType
<1>8. Handling(m)'
  BY <1>2, <1>3, HandlingKept DEF FInv, JournalFrame, bindingVars
<1> QED  BY <1>2, <1>3, <1>7, <1>8, OwnStepSound DEF OwnStep

\* A new generation of a session puts every lease on it into the past.
LEMMA RebindSound ==
  ASSUME FInv, BindingType', UNCHANGED <<vars, lane, rowVars, staging, delivering, lease, retried>>,
         \A s \in Sessions : sessions'[s] = sessions[s] \/ sessions'[s].epoch = fresh + 1
  PROVE  Sound
<1>1. InboxType /\ BindingType /\ DeliveryType
  BY DEF FInv
<1>2. DeliveryType' /\ InboxType' /\ file' = file /\ inbox' = inbox
  BY <1>1 DEF DeliveryType, InboxType, rowVars
<1>3. ASSUME NEW n \in Messages PROVE Handling(n)'
  <2>1. Handling(n) /\ lease[n] \in Target
    BY <1>1 DEF FInv, DeliveryType
  <2>2. UNCHANGED <<mem, stage, kind, lane, delivering, lease, inbox>>
    BY <1>2 DEF vars
  <2>3. Dispatched(n)'
    BY <2>1, <2>2 DEF Handling, Dispatched, Processing, Concluded
  <2>4. CASE ~Working(n)
    BY <2>2, <2>3, <2>4, HandlingIdle DEF Working
  <2>5. CASE Working(n)
    <3>1. lease[n].session \in Sessions =>
            /\ lease[n].epoch <= sessions[lease[n].session].epoch
            /\ sessions[lease[n].session].epoch <= fresh
            /\ lease[n].epoch \in Nat /\ sessions[lease[n].session].epoch \in Nat /\ fresh \in Nat
      BY <1>1, <2>1, <2>5 DEF Handling, Leased, BindingType, Target
    <3>2. lease[n].session \in Sessions =>
            \/ sessions'[lease[n].session] = sessions[lease[n].session]
            \/ sessions'[lease[n].session].epoch > lease[n].epoch
      BY <3>1
    <3>3. lease[n].session \in Sessions => lease[n].epoch <= sessions'[lease[n].session].epoch
      BY <3>1
    <3>4. Leased(n)'
      BY <2>1, <2>2, <3>3 DEF Handling, Leased, Working
    <3>5. Past(lease[n]) => Past(lease[n])'
      BY <2>2, <3>2 DEF Past
    <3>6. Alike(n) => Alike(n)'
      BY <2>2 DEF Alike
    <3>7. RowHeld(n)'
      BY <2>1, <2>2, <3>5, <3>6 DEF Handling, RowHeld, Working, Automatic
    <3> QED  BY <2>3, <3>4, <3>7 DEF Handling
  <2> QED  BY <2>4, <2>5
<1> QED  BY <1>2, <1>3 DEF Sound, FInv, BodyKept

LEMMA BindingSound ==
  ASSUME FInv, Detach \/ Reset \/ \E s \in Sessions : Attach(s)
  PROVE  Sound
<1>1. BindingType
  BY DEF FInv
<1>2. CASE Detach
  <2>1. fresh' = fresh + 1 /\ bound \in Sessions /\ bound' = NoSession /\ sessions' = [sessions EXCEPT ![bound].epoch = fresh + 1]
    BY <1>1, <1>2 DEF Detach, Rebinding, BindingType
  <2>2. BindingType' /\ \A s \in Sessions : sessions'[s] = sessions[s] \/ sessions'[s].epoch = fresh + 1
    BY <1>1, <2>1 DEF BindingType
  <2> QED  BY <1>2, <2>2, RebindSound DEF Detach, Rebinding
<1>3. CASE Reset
  <2>1. fresh' = fresh + 1 /\ bound \in Sessions /\ bound' = bound /\ sessions' = [sessions EXCEPT ![bound] = [thread |-> 0, epoch |-> fresh + 1]]
    BY <1>1, <1>3 DEF Reset, Rebinding, BindingType
  <2>2. BindingType' /\ \A s \in Sessions : sessions'[s] = sessions[s] \/ sessions'[s].epoch = fresh + 1
    BY <1>1, <2>1 DEF BindingType
  <2> QED  BY <1>3, <2>2, RebindSound DEF Reset, Rebinding
<1>4. ASSUME NEW t \in Sessions, Attach(t) PROVE Sound
  <2>1. fresh' = fresh + 1 /\ bound' = t /\ sessions' = [sessions EXCEPT ![t].epoch = fresh + 1]
    BY <1>4 DEF Attach, Rebinding
  <2>2. BindingType' /\ \A s \in Sessions : sessions'[s] = sessions[s] \/ sessions'[s].epoch = fresh + 1
    BY <1>1, <2>1 DEF BindingType
  <2> QED  BY <1>4, <2>2, RebindSound DEF Attach, Rebinding
<1> QED  BY <1>2, <1>3, <1>4

\* A restart has no handler, and reads the rows of the file.
LEMMA RestartSound ==
  ASSUME FInv, RestartInbox
  PROVE  Sound
<1>1. InboxType /\ BindingType /\ DeliveryType
  BY DEF FInv
<1>2. /\ UNCHANGED <<lane, bindingVars, file, inboxFaults, retried>>
      /\ inbox' = file /\ staging' = {}
      /\ delivering' = [m \in Messages |-> "no"]
      /\ lease' = [m \in Messages |-> Recorded(m)]
      /\ stage' = [m \in Messages |-> "idle"]
  BY DEF RestartInbox, Restart
<1>3. BindingType' /\ InboxType'
  BY <1>1, <1>2 DEF BindingType, bindingVars, InboxType
<1>4. DeliveryType'
  <2>1. \A m \in Messages : Recorded(m) \in Target
    BY <1>1, RecordedType
  <2>2. lease' \in [Messages -> Target]
    BY <1>2, <2>1
  <2> QED  BY <1>1, <1>2, <2>2 DEF DeliveryType, Places
<1>5. ASSUME NEW m \in Messages PROVE Handling(m)' /\ BodyKept(m)
  BY <1>2, HandlingIdle DEF Working, Dispatched, Processing, BodyKept
<1> QED  BY <1>3, <1>4, <1>5 DEF Sound, FInv

-----------------------------------------------------------------------------
(* The theorems.                                                            *)

LEMMA InitSound == ForwardingInit => FInv
<1> SUFFICES ASSUME ForwardingInit PROVE FInv
  OBVIOUS
<1>1. BindingType
  BY SessionsAssumption DEF ForwardingInit, BindingType
<1>2. DeliveryType
  BY DEF ForwardingInit, DeliveryType, Places, Unbound, Target
<1>3. InboxType
  <2>1. Rows(<<>>)
    BY DEF Rows
  <2>2. inboxFaults \in 0..MaxInboxFaults
    BY LimitsAssumption DEF ForwardingInit
  <2> QED  BY <2>1, <2>2 DEF ForwardingInit, InboxType
<1>4. ASSUME NEW m \in Messages PROVE Handling(m)
  <2>1. stage[m] = "idle" /\ delivering[m] = "no"
    BY DEF ForwardingInit, Init
  <2> QED  BY <2>1 DEF Handling, Dispatched, Processing, Leased, RowHeld, Working
<1> QED  BY <1>1, <1>2, <1>3, <1>4 DEF FInv

LEMMA StepSound ==
  ASSUME IInv, FInv, [ForwardingNext]_allVars
  PROVE  Sound
<1>1. CASE UNCHANGED allVars
  <2>1. /\ BindingType' /\ DeliveryType' /\ InboxType'
        /\ UNCHANGED <<kind, mem, stage, lane, delivering, lease, sessions, inbox, file>>
    BY <1>1 DEF allVars, vars, forwardingVars, FInv, BindingType, DeliveryType, InboxType
  <2>2. ASSUME NEW m \in Messages PROVE Handling(m)' /\ BodyKept(m)
    BY <2>1, HandlingKept DEF FInv, BodyKept
  <2> QED  BY <2>1, <2>2 DEF Sound, FInv
<1>2. CASE StageStep
  BY <1>2, StageSound, StageFailsSound DEF StageStep
<1>3. ASSUME NEW m \in Messages, MessageStep(m) PROVE Sound
  <2>1. CASE DeliverStep(m)
    BY <2>1, DeliverSound, OwnStepSound
  <2>2. CASE UserStep(m)
    BY <2>2, RetrySound, CancelSound, ReleaseClaimSound, ClaimSound DEF UserStep
  <2> QED  BY <1>3, <2>1, <2>2, LeasedSound, NativeSound, ObserverSound DEF MessageStep
<1>4. CASE Detach \/ Reset \/ \E s \in Sessions : Attach(s)
  BY <1>4, BindingSound
<1>5. CASE RestartInbox
  BY <1>5, RestartSound
<1> QED  BY <1>1, <1>2, <1>3, <1>4, <1>5 DEF ForwardingNext

\* The invariant of the inbox, with that of the journal, holds in every reachable state.
THEOREM ForwardingInvariance == ForwardingSpec => [](IInv /\ FInv)
<1>1. ForwardingSpec => []IInv
  BY JournalImplemented, Invariance, PTL DEF JournalSpec
<1>2. IInv /\ FInv /\ [ForwardingNext]_allVars => FInv'
  BY StepSound DEF Sound
<1>3. ForwardingInit => FInv
  BY InitSound
<1> QED  BY <1>1, <1>2, <1>3, PTL DEF ForwardingSpec

\* Type correctness of the inbox, the binding and the leases.
LEMMA FInvTyped == IInv /\ FInv => ForwardingTypeOK
<1> SUFFICES ASSUME IInv, FInv PROVE ForwardingTypeOK
  OBVIOUS
<1>1. BindingType /\ DeliveryType /\ InboxType /\ TypeOK
  BY DEF IInv, FInv
<1>2. \A rows \in {inbox, file} : /\ \A i \in DOMAIN rows : rows[i] \in RowType
                                  /\ \A i, j \in DOMAIN rows : rows[i].msg = rows[j].msg => i = j
  BY <1>1 DEF InboxType, Rows
<1>3. staging \subseteq Messages /\ Cardinality(staging) <= 1
  <2>1. CASE staging = {}
    BY <2>1, FS_EmptySet
  <2>2. ASSUME NEW m \in Messages, staging = {m} PROVE staging \subseteq Messages /\ Cardinality(staging) <= 1
    <3>1. Cardinality({m}) = 1
      BY FS_Singleton
    <3> QED  BY <2>2, <3>1
  <2> QED  BY <1>1, <2>1, <2>2 DEF DeliveryType
<1>4. /\ lane \in [Messages -> Lanes]
      /\ delivering \in [Messages -> {"no", "dispatching", "informing", "returned", "deferred", "failed"}]
      /\ lease \in [Messages -> Target]
      /\ retried \subseteq Messages
  BY <1>1 DEF DeliveryType, Places
<1>5. /\ bound \in Sessions \union {NoSession}
      /\ sessions \in [Sessions -> [thread: Nat, epoch: Nat]]
      /\ fresh \in Nat
  BY <1>1 DEF BindingType
<1>6. inboxFaults \in 0..MaxInboxFaults
  BY <1>1 DEF InboxType
<1> QED  BY <1>1, <1>2, <1>3, <1>4, <1>5, <1>6 DEF ForwardingTypeOK

\* Type correctness of the composition.
THEOREM ForwardingTypeCorrect == ForwardingSpec => []ForwardingTypeOK
<1>1. IInv /\ FInv => ForwardingTypeOK
  BY FInvTyped
<1> QED  BY ForwardingInvariance, <1>1, PTL

\* A step that gives up a body has a settled receipt in memory, and the file of the
\* receipts is never behind memory on that.
LEMMA BodyStep ==
  ASSUME IInv, FInv, [ForwardingNext]_allVars
  PROVE  \A m \in Messages : Has(inbox, m) /\ Has(file, m) /\ ~Has(file', m) => disk'[m].phase \in {"accepted", "handled"}
<1>1. IInv' /\ Sound
  BY StepSimulates, NextIInv, StepSound
<1> SUFFICES ASSUME NEW m \in Messages, Has(inbox, m), Has(file, m), ~Has(file', m)
             PROVE  disk'[m].phase \in {"accepted", "handled"}
  OBVIOUS
<1>2. Concluded(m)'
  BY <1>1 DEF Sound, BodyKept
<1>3. SettledOnDisk(m)'
  BY <1>1 DEF IInv, MessageInv
<1> QED  BY <1>2, <1>3 DEF Concluded, SettledOnDisk, Settled

\* remove(), save(), the failed save that brings a row back, cancel() and the restart
\* give up no body of a message whose fate the receipt file leaves open.
THEOREM InboxKept == ForwardingSpec => InboxIsKept
<1>1. IInv /\ FInv /\ [ForwardingNext]_allVars =>
        [\A m \in Messages :
           Has(inbox, m) /\ Has(file, m) /\ ~Has(file', m) => disk'[m].phase \in {"accepted", "handled"}]_allVars
  BY BodyStep
<1> QED  BY ForwardingInvariance, ForwardingTypeCorrect, <1>1, PTL DEF ForwardingSpec, InboxIsKept, BodyOutlivesDoubt

\* Only a handler that holds the current binding writes to the native core.
LEMMA OnlyLeasedSends ==
  ASSUME TypeOK, ForwardingNext
  PROVE  \A n \in Messages : Sends(n) => \E m \in Messages : SendLeased(m)
<1>1. CASE UNCHANGED inflight
  BY <1>1 DEF Sends, TypeOK
<1>2. ASSUME NEW m \in Messages, NativeStep(m) PROVE \A n \in Messages : ~Sends(n)
  BY <1>2 DEF NativeStep, NativeApply, NativeLose, NativeRefuse, Sends, TypeOK
<1>3. StageStep => UNCHANGED inflight
  BY DEF StageStep, Stage, StageFails, ReleasePreparation, vars
<1>4. (Detach \/ Reset \/ \E s \in Sessions : Attach(s)) => UNCHANGED inflight
  BY DEF Detach, Reset, Attach, Rebinding, vars
<1>5. RestartInbox => UNCHANGED inflight
  BY DEF RestartInbox, Restart
<1>6. ASSUME NEW m \in Messages, DeliverStep(m) PROVE UNCHANGED inflight
  <2>1. UNCHANGED vars \/ \E ok \in BOOLEAN : Handle(m, ok)
    BY <1>6, Zenon DEF DeliverStep, CleanUp, KeepUnconfirmed, InformEnds, DeliverEnds, DeliverFails, Hold, Postpone,
       AwaitGateway, Inform, Dispatch, DispatchUnsaved, DispatchRefused
  <2> QED  BY <2>1 DEF Handle, vars
<1>7. ASSUME NEW m \in Messages, LeasedStep(m) PROVE SendLeased(m) \/ UNCHANGED inflight
  <2>1. (Prepared(m) \/ Throw(m) \/ Acknowledged(m) \/ Answered(m)) => UNCHANGED inflight
    BY DEF Prepared, Throw, Acknowledged, Answered, vars
  <2>2. (HandlerReturns(m) \/ HandlerThrows(m)) => UNCHANGED inflight
    BY DEF HandlerReturns, HandlerThrows, Finish, CatchUnknown, CatchDefinite
  <2>3. ASSUME NEW ok \in BOOLEAN PROVE
          (\/ SubmitLeased(m, ok) \/ CreateThread(m, ok) \/ Accepted(m, ok) \/ Completed(m, ok)
           \/ RuntimeUnconfirmed(m, ok) \/ Finish(m, ok)) => UNCHANGED inflight
    BY DEF SubmitLeased, Submitting, CreateThread, ThreadCreated, Accepted, Completed, RuntimeUnconfirmed, Finish
  <2> QED  BY <1>7, <2>1, <2>2, <2>3, Zenon DEF LeasedStep, Lift
<1>8. ASSUME NEW m \in Messages, ObserverStep(m) PROVE UNCHANGED inflight
  BY <1>8 DEF ObserverStep, Lift, Observe, ObservationEnds, RecoverAccepted, RecoverOwned, RecoveredResultDelivered
<1>9. ASSUME NEW m \in Messages, UserStep(m) PROVE UNCHANGED inflight
  BY <1>9 DEF UserStep, Retry, Cancel, Abandon, ReleaseClaim, ReleasePreparation, ClaimReceipt, Claim, Lift, vars
<1>10. ASSUME NEW m \in Messages, MessageStep(m) PROVE \A n \in Messages : Sends(n) => \E k \in Messages : SendLeased(k)
  BY <1>1, <1>2, <1>6, <1>7, <1>8, <1>9, <1>10 DEF MessageStep, Lift
<1> QED  BY <1>1, <1>3, <1>4, <1>5, <1>10 DEF ForwardingNext

\* What a write to the native core needs of the saved row.
Confined(m) == Sends(m) /\ Automatic(m) =>
  /\ Has(inbox, m)
  /\ RowOf(m).target.session = Current.session
  /\ RowOf(m).target.epoch = Current.epoch
  /\ RowOf(m).target.thread \in {0, Current.thread}

LEMMA SendConfined ==
  ASSUME IInv, FInv, ForwardingNext
  PROVE  \A m \in Messages : Confined(m)
<1> SUFFICES ASSUME NEW m \in Messages, Sends(m), Automatic(m)
             PROVE  /\ Has(inbox, m)
                    /\ RowOf(m).target.session = Current.session
                    /\ RowOf(m).target.epoch = Current.epoch
                    /\ RowOf(m).target.thread \in {0, Current.thread}
  BY DEF Confined
<1>1. TypeOK /\ BindingType /\ Handling(m)
  BY DEF IInv, FInv
<1>2. PICK k \in Messages : SendLeased(k)
  BY <1>1, OnlyLeasedSends
<1>3. k = m
  BY <1>1, <1>2 DEF SendLeased, Lift, Send, Sends, TypeOK
<1>4. lease[m] = Current /\ stage[m] = "submitting"
  BY <1>2, <1>3 DEF SendLeased, Lift, Send
<1>5. ~Past(lease[m])
  <2>1. Current.session \in Sessions =>
          Current.epoch = sessions[Current.session].epoch /\ Current.thread = sessions[Current.session].thread
    BY SessionsAssumption DEF Current, Unbound
  <2>2. Current.session \in Sessions => sessions[Current.session].epoch \in Nat
    BY <1>1 DEF BindingType
  <2> QED  BY <1>4, <2>1, <2>2 DEF Past
<1>6. Has(inbox, m) /\ Alike(m)
  BY <1>1, <1>4, <1>5 DEF Handling, RowHeld, Working
<1>7. RowOf(m) = RowIn(inbox, m)
  BY DEF RowOf, RowIn
<1> QED  BY <1>4, <1>6, <1>7 DEF Alike

\* Saved input is never redirected: whatever /unbind, /reset, rebinding, thread
\* creation of other messages and restarts happen while a message is prepared, its
\* write leaves only for the target its row names.
THEOREM TargetsConfined == ForwardingSpec => TargetConfined
<1>1. IInv /\ FInv /\ [ForwardingNext]_allVars =>
        [\A m \in Messages : Sends(m) /\ Automatic(m) =>
           /\ Has(inbox, m)
           /\ RowOf(m).target.session = Current.session
           /\ RowOf(m).target.epoch = Current.epoch
           /\ RowOf(m).target.thread \in {0, Current.thread}]_allVars
  BY SendConfined DEF Confined
<1> QED  BY ForwardingInvariance, <1>1, PTL DEF ForwardingSpec, TargetConfined

\* However the inbox redelivers, retries and recovers, a settled receipt stays settled.
THEOREM ForwardedStaysFinal == ForwardingSpec => AcceptedIsFinal
BY JournalImplemented, AcceptedStaysFinal, PTL DEF JournalSpec

-----------------------------------------------------------------------------
(* Following: what state, cards, snapshots and hints know of the thread.    *)

\* A turn that began while the thread was followed, and one that has ended since.
FolBegun(t) == t \in FolTurns /\ folSince < t /\ t <= folTurns.n
FolOver(t) == FolBegun(t) /\ FolEnded(folTurns, t)

FolThreadOK ==
  /\ folTurns \in FolView /\ folSince \in 0..1 /\ folSince <= folTurns.n
  /\ folTurns.run => folSince < folTurns.n

\* A turn has its own card, and what is kept of it is its result.
FolFits(s) ==
  /\ s \in FolStates
  /\ s.card = s.turn
  /\ s.turn # 0 => FolBegun(s.turn)
  /\ s.pending # 0 => s.pending = s.turn /\ FolOver(s.pending)
  /\ \A p \in s.kept : p[2] = p[1] /\ FolOver(p[1])

FolShows(t) == <<t, t>> \in folShown

FolCardsOK ==
  /\ folCards \in [FolTurns -> FolCard]
  /\ \A c \in FolTurns : folCards[c].terminal \in {0, c} /\ (folCards[c].finished => FolShows(c))

FolChatOK ==
  /\ folShown \subseteq FolTurns \X FolTurns
  /\ \A p \in folShown : p[2] = p[1] /\ FolOver(p[1])

\* A snapshot is a past of the thread; only what a loaded reader shows as ended has
\* ended, and only a loaded reader names a running turn.
FolSeen(view, active, loaded) ==
  /\ view \in FolView /\ active \in 0..FolMaxTurns /\ loaded \in BOOLEAN
  /\ view.n <= folTurns.n
  /\ active # 0 => loaded /\ FolBegun(active)
  /\ loaded => \A t \in FolTurns : FolEnded(view, t) => FolEnded(folTurns, t)

FolReadOK ==
  /\ folRead \in [stage: {"none", "history", "ready"}, force: BOOLEAN, moved: BOOLEAN, view: FolView,
                  active: 0..FolMaxTurns, loaded: BOOLEAN]
  /\ FolSeen(folRead.view, folRead.active, folRead.loaded)
  /\ folRead.stage = "history" => folRead.active = 0 /\ folRead.loaded

FolJobOK ==
  /\ folJob \in [stage: {"none", "pending", "turns"}, force: BOOLEAN, view: FolView,
                 active: 0..FolMaxTurns, loaded: BOOLEAN, boundary: 0..FolMaxTurns, next: Nat]
  /\ FolSeen(folJob.view, folJob.active, folJob.loaded)

FolHintKinds == {"started", "activity", "completion"}

FolHintsOK ==
  /\ folHints \in Seq([kind: FolHintKinds, turn: FolTurns])
  /\ \A i \in DOMAIN folHints : /\ FolBegun(folHints[i].turn)
                                /\ folHints[i].kind = "completion" => FolOver(folHints[i].turn)

FolRestOK ==
  /\ folBlocked \in BOOLEAN
  /\ folRetry \subseteq FolKept(folState)
  /\ folMissed \subseteq FolTurns
  /\ folFaults \in 0..MaxFolFaults

FolDelivered == \A t \in folState.completed : FolShows(t)

FolInv ==
  /\ FolThreadOK /\ FolFits(folState) /\ FolCardsOK /\ FolChatOK /\ FolDelivered
  /\ FolReadOK /\ FolJobOK /\ FolHintsOK /\ FolRestOK

\* What a state may do to the results another one held.
FolKeeps(s, s1) ==
  /\ FolHeld(s) \subseteq FolHeld(s1) \cup s1.completed
  /\ s.completed \subseteq s1.completed

LEMMA FolTurnsAre == FolTurns = 1..FolMaxTurns /\ FolMaxTurns \in Nat \ {0} /\ MaxFolHints \in Nat /\ MaxFolFaults \in Nat
BY FolAssumption DEF FolTurns

LEMMA FolInvRight == FolInv => FolTypeOK /\ FolShownRight
<1> SUFFICES ASSUME FolInv PROVE FolTypeOK /\ FolShownRight
  OBVIOUS
<1>1. FolTypeOK
  BY DEF FolInv, FolTypeOK, FolThreadOK, FolFits, FolCardsOK, FolChatOK, FolRestOK
<1>2. \A p, q \in folShown : p[1] = q[1] <=> p[2] = q[2]
  BY DEF FolInv, FolChatOK
<1>3. \A p \in folShown : FolEnded(folTurns, p[1]) /\ p[1] > folSince
  <2> SUFFICES ASSUME NEW p \in folShown PROVE FolEnded(folTurns, p[1]) /\ p[1] > folSince
    OBVIOUS
  <2>1. FolEnded(folTurns, p[1]) /\ FolBegun(p[1])
    BY DEF FolInv, FolChatOK, FolOver
  <2>2. p[1] \in Nat /\ folSince \in Nat /\ folSince < p[1]
    BY <2>1, FolTurnsAre DEF FolInv, FolThreadOK, FolBegun
  <2> QED  BY <2>1, <2>2
<1>4. \A t \in folState.completed : \E p \in folShown : p[1] = t
  <2> SUFFICES ASSUME NEW t \in folState.completed PROVE \E p \in folShown : p[1] = t
    OBVIOUS
  <2>1. <<t, t>> \in folShown
    BY DEF FolInv, FolDelivered, FolShows
  <2> QED  BY <2>1
<1> QED  BY <1>1, <1>2, <1>3, <1>4 DEF FolShownRight

-----------------------------------------------------------------------------
(* What turns, cards and states become.                                     *)

LEMMA FolArchiveFits ==
  ASSUME NEW s, FolFits(s), s.pending # 0
  PROVE  /\ FolFits(FolArchive(s)) /\ FolKeeps(s, FolArchive(s))
         /\ s.kept \subseteq FolArchive(s).kept /\ FolArchive(s).completed = s.completed
         /\ FolArchive(s).pending = 0 /\ FolArchive(s).turn = s.turn
<1>0. s \in FolStates /\ s.pending = s.turn /\ FolOver(s.pending) /\ s.card = s.turn /\ s.pending \in FolTurns
  BY DEF FolFits, FolOver, FolBegun
<1> DEFINE k == IF s.pending \in {0} \cup s.completed THEN s.kept ELSE s.kept \cup {<<s.pending, s.card>>}
           a == [s EXCEPT !.kept = k, !.pending = 0]
<1>1. FolArchive(s) = a
  BY DEF FolArchive
<1>2. k \in SUBSET (FolTurns \X FolTurns) /\ s.kept \subseteq k
  BY <1>0 DEF FolStates
<1>3. \A p \in k : p[2] = p[1] /\ FolOver(p[1])
  BY <1>0 DEF FolFits
<1>4. s.pending \in s.completed \/ <<s.pending, s.card>> \in k
  BY <1>0
<1> HIDE DEF k
<1>8. 0 \in 0..FolMaxTurns
  BY FolTurnsAre
<1>9. a \in FolStates
  BY <1>0, <1>2, <1>8 DEF FolStates
<1>5. /\ a \in FolStates /\ a.kept = k /\ a.pending = 0 /\ a.turn = s.turn /\ a.card = s.card /\ a.completed = s.completed
  BY <1>0, <1>9 DEF FolStates
<1> HIDE DEF a
<1>6. FolFits(a)
  BY <1>3, <1>5 DEF FolFits
<1>7. FolKeeps(s, a)
  BY <1>2, <1>4, <1>5 DEF FolKeeps, FolHeld, FolKept
<1> QED  BY <1>1, <1>2, <1>5, <1>6, <1>7

LEMMA FolSelectFits ==
  ASSUME FolThreadOK, NEW s, FolFits(s), NEW t, FolBegun(t), NEW switch \in BOOLEAN
  PROVE  LET r == FolSelect(s, t, switch)
         IN  /\ FolFits(r) /\ FolKeeps(s, r) /\ s.kept \subseteq r.kept /\ r.completed = s.completed
             /\ r.turn # s.turn => r.turn = t
<1> DEFINE r == FolSelect(s, t, switch)
<1>1. CASE r = s
  BY <1>1 DEF FolKeeps
<1>2. CASE r # s
  <2> DEFINE a == FolArchive(s)
             old == s.retired \cup ({s.turn} \ {0})
  <2>1. r = [a EXCEPT !.turn = t, !.card = t, !.retired = @ \cup ({s.turn} \ {0})] /\ t # s.turn
    BY <1>2 DEF FolSelect
  <2>2. /\ FolFits(a) /\ FolKeeps(s, a) /\ s.kept \subseteq a.kept /\ a.completed = s.completed /\ a.pending = 0
    <3>1. CASE s.pending # 0
      BY <3>1, FolArchiveFits
    <3>2. CASE s.pending = 0
      <4>1. a = s
        BY <3>2 DEF FolArchive, FolFits, FolStates
      <4> QED  BY <3>2, <4>1 DEF FolKeeps
    <3> QED  BY <3>1, <3>2
  <2>3. a \in FolStates /\ s \in FolStates /\ t \in FolTurns
    BY <2>2 DEF FolFits, FolBegun
  <2> HIDE DEF a
  <2>7. t \in 0..FolMaxTurns /\ a.retired \cup ({s.turn} \ {0}) \in SUBSET FolTurns
    BY <2>3, FolTurnsAre DEF FolStates
  <2>8. r \in FolStates
    BY <2>1, <2>3, <2>7 DEF FolStates
  <2>4. /\ r \in FolStates /\ r.turn = t /\ r.card = t /\ r.pending = 0 /\ r.kept = a.kept /\ r.completed = a.completed
    BY <2>1, <2>2, <2>3, <2>8 DEF FolStates
  <2>5. FolFits(r)
    BY <2>2, <2>4 DEF FolFits
  <2>6. FolKeeps(s, r)
    BY <2>2, <2>4 DEF FolKeeps, FolHeld, FolKept
  <2> QED  BY <2>2, <2>4, <2>5, <2>6
<1> QED  BY <1>1, <1>2

\* A turn a settled one was followed by, or one after it, began while the thread was followed.
LEMMA FolLater ==
  ASSUME FolThreadOK, NEW t \in FolTurns, NEW b \in 0..FolMaxTurns, FolAfter(t, b)
  PROVE  folSince < t
BY FolTurnsAre DEF FolThreadOK, FolAfter

-----------------------------------------------------------------------------
(* The thread and its hints.                                                *)

\* What was said of a turn stays true while the thread goes on.
FolGrown ==
  /\ folSince' = folSince /\ folTurns.n <= folTurns'.n
  /\ \A t \in FolTurns : t <= folTurns.n => t <= folTurns'.n
  /\ \A t \in FolTurns : FolEnded(folTurns, t) => FolEnded(folTurns, t)'

LEMMA FolGrownKeeps ==
  ASSUME FolInv, FolGrown, FolThreadOK', FolHintsOK',
         UNCHANGED <<folDurable, folBlocked, folRead, folJob, folRetry, folShown, folMissed, folFaults>>
  PROVE  FolInv' /\ FolKeeps(folState, folState')
<1>1. \A t : FolBegun(t) => FolBegun(t)'
  BY DEF FolGrown, FolBegun
<1>2. \A t : FolOver(t) => FolOver(t)'
  BY <1>1 DEF FolGrown, FolOver, FolBegun
<1>u. /\ folState' = folState /\ folCards' = folCards /\ folBlocked' = folBlocked /\ folRead' = folRead /\ folJob' = folJob
      /\ folRetry' = folRetry /\ folShown' = folShown /\ folMissed' = folMissed /\ folFaults' = folFaults
  BY DEF folDurable
<1>3. FolFits(folState)'
  BY <1>1, <1>2, <1>u DEF FolInv, FolFits
<1>4. FolCardsOK' /\ FolChatOK' /\ FolDelivered' /\ FolRestOK'
  BY <1>2, <1>u DEF FolInv, FolCardsOK, FolChatOK, FolDelivered, FolRestOK, FolShows
<1>5. \A view \in FolView : \A active, loaded : FolSeen(view, active, loaded) => FolSeen(view, active, loaded)'
  <2> SUFFICES ASSUME NEW view \in FolView, NEW active, NEW loaded, FolSeen(view, active, loaded)
               PROVE  FolSeen(view, active, loaded)'
    OBVIOUS
  <2>1. view.n <= folTurns.n /\ folTurns.n <= folTurns'.n => view.n <= folTurns'.n
    BY FolTurnsAre DEF FolInv, FolThreadOK, FolView
  <2>2. loaded => \A t \in FolTurns : FolEnded(view, t) => FolEnded(folTurns, t)'
    BY DEF FolSeen, FolGrown
  <2> QED  BY <1>1, <2>1, <2>2 DEF FolSeen, FolGrown
<1>6. FolReadOK'
  <2>1. folRead.view \in FolView /\ FolSeen(folRead.view, folRead.active, folRead.loaded)
    BY DEF FolInv, FolReadOK
  <2>2. FolSeen(folRead.view, folRead.active, folRead.loaded)'
    BY <1>5, <1>u, <2>1
  <2> QED  BY <1>u, <2>2 DEF FolInv, FolReadOK
<1>7. FolJobOK'
  <2>1. folJob.view \in FolView /\ FolSeen(folJob.view, folJob.active, folJob.loaded)
    BY DEF FolInv, FolJobOK
  <2>2. FolSeen(folJob.view, folJob.active, folJob.loaded)'
    BY <1>5, <1>u, <2>1
  <2> QED  BY <1>u, <2>2 DEF FolInv, FolJobOK
<1> QED  BY <1>3, <1>4, <1>6, <1>7, <1>u DEF FolInv, FolKeeps

\* A hint of a turn that began, and, if it says that the turn is completed, ended.
LEMMA FolTellKeeps ==
  ASSUME FolInv, FolGrown, NEW what \in FolHintKinds, NEW t,
         FolTell(what, t) \/ UNCHANGED folHints,
         FolBegun(t)', what = "completion" => FolOver(t)'
  PROVE  FolHintsOK'
<1>1. \A u : FolBegun(u) => FolBegun(u)'
  BY DEF FolGrown, FolBegun
<1>2. \A u : FolOver(u) => FolOver(u)'
  BY <1>1 DEF FolGrown, FolOver, FolBegun
<1>3. FolHintsOK
  BY DEF FolInv
<1>4. CASE UNCHANGED folHints
  BY <1>1, <1>2, <1>3, <1>4 DEF FolHintsOK
<1>5. CASE FolTell(what, t)
  <2> DEFINE h == [kind |-> what, turn |-> t]
  <2>1. h \in [kind: FolHintKinds, turn: FolTurns] /\ h.kind = what /\ h.turn = t
    BY DEF FolBegun
  <2>2. folHints' = Append(folHints, h)
    BY <1>5 DEF FolTell
  <2> HIDE DEF h
  <2>3. folHints' \in Seq([kind: FolHintKinds, turn: FolTurns])
    BY <1>3, <2>1, <2>2 DEF FolHintsOK
  <2>4. \A i \in DOMAIN folHints' : folHints'[i] = h \/ (i \in DOMAIN folHints /\ folHints'[i] = folHints[i])
    BY <1>3, <2>1, <2>2 DEF FolHintsOK
  <2> QED  BY <1>1, <1>2, <1>3, <2>1, <2>3, <2>4 DEF FolHintsOK
<1> QED  BY <1>4, <1>5

LEMMA FolThreadStep ==
  ASSUME FolInv, FolThread
  PROVE  FolInv' /\ FolKeeps(folState, folState')
<1>0. folTurns \in FolView /\ folTurns.n \in 0..FolMaxTurns /\ folTurns.run \in BOOLEAN /\ folSince \in 0..1
      /\ folSince <= folTurns.n /\ (folTurns.run => folSince < folTurns.n)
  BY DEF FolInv, FolThreadOK, FolView
<1>1. CASE FolBegins
  <2>1. /\ folTurns' = [n |-> folTurns.n + 1, run |-> TRUE] /\ folTurns'.n = folTurns.n + 1 /\ folTurns'.run = TRUE
        /\ folTurns'.n \in FolTurns /\ folSince' = folSince /\ ~folTurns.run
    BY <1>0, <1>1, FolTurnsAre DEF FolBegins, FolOutside
  <2>2. FolGrown
    BY <1>0, <2>1, FolTurnsAre DEF FolGrown, FolEnded
  <2>3. FolThreadOK'
    BY <1>0, <2>1, FolTurnsAre DEF FolThreadOK, FolView
  <2>n. PICK t \in FolTurns : t = folTurns.n + 1
    BY <2>1
  <2>4. FolBegun(t)'
    BY <1>0, <2>1, <2>n, FolTurnsAre DEF FolBegun
  <2>5. FolHintsOK'
    BY <1>1, <2>n, <2>2, <2>4, FolTellKeeps DEF FolBegins, FolHintKinds
  <2> QED  BY <1>1, <2>2, <2>3, <2>5, FolGrownKeeps DEF FolBegins, FolOutside
<1>2. CASE FolWorks
  <2>1. folTurns' = folTurns /\ folSince' = folSince /\ folTurns.run
    BY <1>2 DEF FolWorks, FolOutside
  <2>2. FolGrown
    BY <1>0, <2>1 DEF FolGrown, FolEnded
  <2>3. FolThreadOK'
    BY <2>1 DEF FolInv, FolThreadOK
  <2>n. PICK t \in FolTurns : t = folTurns.n
    BY <1>0, <2>1, FolTurnsAre
  <2>4. FolBegun(t)'
    BY <1>0, <2>1, <2>n, FolTurnsAre DEF FolBegun
  <2>5. FolHintsOK'
    BY <1>2, <2>n, <2>2, <2>4, FolTellKeeps DEF FolWorks, FolHintKinds
  <2> QED  BY <1>2, <2>2, <2>3, <2>5, FolGrownKeeps DEF FolWorks, FolOutside
<1>3. CASE FolEnds
  <2>1. /\ folTurns' = [folTurns EXCEPT !.run = FALSE] /\ folTurns' \in FolView /\ folTurns'.n = folTurns.n
        /\ folTurns'.run = FALSE /\ folSince' = folSince /\ folTurns.run
    BY <1>0, <1>3 DEF FolEnds, FolOutside, FolView
  <2>2. FolGrown
    BY <1>0, <2>1 DEF FolGrown, FolEnded
  <2>3. FolThreadOK'
    BY <1>0, <2>1 DEF FolThreadOK
  <2>n. PICK t \in FolTurns : t = folTurns.n
    BY <1>0, <2>1, FolTurnsAre
  <2>4. FolBegun(t)' /\ FolOver(t)'
    BY <1>0, <2>1, <2>n, FolTurnsAre DEF FolBegun, FolOver, FolEnded
  <2>5. FolHintsOK'
    BY <1>3, <2>n, <2>2, <2>4, FolTellKeeps DEF FolEnds, FolHintKinds
  <2> QED  BY <1>3, <2>2, <2>3, <2>5, FolGrownKeeps DEF FolEnds, FolOutside
<1> QED  BY <1>1, <1>2, <1>3 DEF FolThread

-----------------------------------------------------------------------------
(* Reading a snapshot.                                                      *)

\* A step that leaves the thread alone leaves what is known of turns as it is.
LEMMA FolSameThread ==
  ASSUME UNCHANGED <<folTurns, folSince>>
  PROVE  /\ FolThreadOK' = FolThreadOK
         /\ \A t : FolBegun(t)' = FolBegun(t)
         /\ \A t : FolOver(t)' = FolOver(t)
         /\ \A t : FolEnded(folTurns, t)' = FolEnded(folTurns, t)
BY DEF FolThreadOK, FolBegun, FolOver, FolEnded

LEMMA FolSameSeen ==
  ASSUME UNCHANGED <<folTurns, folSince>>, NEW view, NEW active, NEW loaded
  PROVE  FolSeen(view, active, loaded)' = FolSeen(view, active, loaded)
<1>1. UNCHANGED folTurns /\ \A t : FolBegun(t)' = FolBegun(t) /\ FolEnded(folTurns, t)' = FolEnded(folTurns, t)
  BY FolSameThread
<1> QED  BY <1>1 DEF FolSeen

\* Only the snapshot being read changes, and perhaps the faults.
LEMMA FolReads ==
  ASSUME FolInv, FolReadOK', UNCHANGED <<folTurns, folSince, folDurable, folBlocked, folJob, folRetry, folHints, folShown, folMissed>>, folFaults' \in 0..MaxFolFaults
  PROVE  FolInv' /\ FolKeeps(folState, folState')
<1>u. UNCHANGED <<folTurns, folSince, folState, folCards, folBlocked, folJob, folRetry, folHints, folShown, folMissed>>
  BY DEF folDurable
<1>t. UNCHANGED <<folTurns, folSince>>
  BY <1>u
<1>1. FolThreadOK' /\ FolFits(folState)' /\ FolCardsOK' /\ FolChatOK' /\ FolDelivered'
  BY <1>u, <1>t, FolSameThread DEF FolInv, FolFits, FolCardsOK, FolChatOK, FolDelivered, FolShows
<1>2. FolJobOK' /\ FolHintsOK' /\ FolRestOK'
  BY <1>u, <1>t, FolSameThread, FolSameSeen DEF FolInv, FolJobOK, FolHintsOK, FolRestOK
<1> QED  BY <1>u, <1>1, <1>2 DEF FolInv, FolKeeps

LEMMA FolStartReadKeeps ==
  ASSUME FolInv, NEW force \in BOOLEAN, FolStartRead(force)
  PROVE  FolInv' /\ FolKeeps(folState, folState')
<1>0. folTurns \in FolView /\ FolThreadOK /\ UNCHANGED <<folTurns, folSince>>
  BY DEF FolInv, FolThreadOK, FolStartRead
<1>1. folRead' = [stage |-> "history", force |-> force, moved |-> FALSE, view |-> folTurns, active |-> 0, loaded |-> TRUE]
  BY DEF FolStartRead, FolNoRead
<1>n. PICK v : v = folTurns
  OBVIOUS
<1>2. FolSeen(v, 0, TRUE)
  BY <1>0, <1>n, FolTurnsAre DEF FolSeen, FolView
<1>3. FolSeen(v, 0, TRUE)'
  BY <1>0, <1>2, FolSameSeen
<1>5. folRead'.stage = "history" /\ folRead'.view = v /\ folRead'.active = 0 /\ folRead'.loaded = TRUE
  BY <1>1, <1>n
<1>6. folRead' \in [stage: {"none", "history", "ready"}, force: BOOLEAN, moved: BOOLEAN, view: FolView,
                    active: 0..FolMaxTurns, loaded: BOOLEAN]
  BY <1>0, <1>1, FolTurnsAre
<1>4. FolReadOK'
  BY <1>3, <1>5, <1>6 DEF FolReadOK
<1> QED  BY <1>4, FolReads DEF FolStartRead, FolInv, FolRestOK

FolNoView == [n |-> 0, run |-> FALSE]

LEMMA FolNothingSeen == FolThreadOK => FolSeen(FolNoView, 0, TRUE)
BY FolTurnsAre DEF FolSeen, FolView, FolThreadOK, FolEnded, FolNoView

LEMMA FolNothingIs ==
  /\ FolNoView \in FolView
  /\ FolNoRead \in [stage: {"none", "history", "ready"}, force: BOOLEAN, moved: BOOLEAN, view: FolView,
                    active: 0..FolMaxTurns, loaded: BOOLEAN]
  /\ FolNoRead.stage = "none" /\ FolNoRead.view = FolNoView /\ FolNoRead.active = 0 /\ FolNoRead.loaded = TRUE
  /\ FolNoJob \in [stage: {"none", "pending", "turns"}, force: BOOLEAN, view: FolView,
                   active: 0..FolMaxTurns, loaded: BOOLEAN, boundary: 0..FolMaxTurns, next: Nat]
  /\ FolNoJob.view = FolNoView /\ FolNoJob.active = 0 /\ FolNoJob.loaded = TRUE
<1>1. 0 \in 0..FolMaxTurns
  BY FolTurnsAre
<1>2. FolNoView \in FolView
  BY <1>1 DEF FolNoView, FolView
<1> QED  BY <1>1, <1>2 DEF FolNoView, FolNoRead, FolNoJob

\* The snapshot is dropped.
LEMMA FolReadDropped ==
  ASSUME FolThreadOK, UNCHANGED <<folTurns, folSince>>, folRead' = FolNoRead
  PROVE  FolReadOK'
<1>1. FolSeen(FolNoView, 0, TRUE)'
  BY FolNothingSeen, FolSameSeen
<1>2. /\ folRead'.stage = "none" /\ folRead'.view = FolNoView /\ folRead'.active = 0 /\ folRead'.loaded = TRUE
      /\ folRead' \in [stage: {"none", "history", "ready"}, force: BOOLEAN, moved: BOOLEAN, view: FolView,
                       active: 0..FolMaxTurns, loaded: BOOLEAN]
  BY FolNothingIs
<1> QED  BY <1>1, <1>2 DEF FolReadOK

\* The observation ends.
LEMMA FolJobDropped ==
  ASSUME FolThreadOK, UNCHANGED <<folTurns, folSince>>, folJob' = FolNoJob
  PROVE  FolJobOK'
<1>1. FolSeen(FolNoView, 0, TRUE)'
  BY FolNothingSeen, FolSameSeen
<1>2. /\ folJob'.view = FolNoView /\ folJob'.active = 0 /\ folJob'.loaded = TRUE
      /\ folJob' \in [stage: {"none", "pending", "turns"}, force: BOOLEAN, view: FolView,
                      active: 0..FolMaxTurns, loaded: BOOLEAN, boundary: 0..FolMaxTurns, next: Nat]
  BY FolNothingIs
<1> QED  BY <1>1, <1>2 DEF FolJobOK

LEMMA FolReadStep ==
  ASSUME FolInv, FolReadRuntime \/ FolReadUnloaded \/ FolReadFails \/ FolDiscard
  PROVE  FolInv' /\ FolKeeps(folState, folState')
<1>0. /\ FolThreadOK /\ FolReadOK /\ folFaults \in 0..MaxFolFaults /\ folTurns \in FolView
      /\ folTurns.n \in 0..FolMaxTurns /\ folTurns.run \in BOOLEAN /\ folSince \in 0..1
      /\ folTurns.run => folSince < folTurns.n
  BY DEF FolInv, FolThreadOK, FolRestOK, FolView
<1>t. UNCHANGED <<folTurns, folSince>>
  BY DEF FolReadRuntime, FolReadUnloaded, FolReadFails, FolDiscard, FolReading
<1>1. CASE FolReadRuntime
  <2> DEFINE a == IF folTurns.run THEN folTurns.n ELSE 0
  <2>1. a \in 0..FolMaxTurns /\ (a # 0 => FolBegun(a))
    BY <1>0, FolTurnsAre DEF FolBegun
  <2>2. folRead' = [folRead EXCEPT !.stage = "ready", !.active = a]
    BY <1>1 DEF FolReadRuntime
  <2>3. folRead.loaded /\ FolSeen(folRead.view, folRead.active, folRead.loaded)
    BY <1>0, <1>1 DEF FolReadRuntime, FolReadOK
  <2>n. PICK v, b : v = folRead.view /\ b = a
    OBVIOUS
  <2> HIDE DEF a
  <2>4. FolSeen(v, b, TRUE)
    BY <2>1, <2>3, <2>n, <1>0 DEF FolSeen, FolReadOK
  <2>5. FolSeen(v, b, TRUE)'
    BY <1>t, <2>4, FolSameSeen
  <2>6. folRead'.stage = "ready" /\ folRead'.view = v /\ folRead'.active = b /\ folRead'.loaded = TRUE
    BY <1>0, <2>2, <2>3, <2>n DEF FolReadOK
  <2>7. folRead' \in [stage: {"none", "history", "ready"}, force: BOOLEAN, moved: BOOLEAN, view: FolView,
                      active: 0..FolMaxTurns, loaded: BOOLEAN]
    BY <1>0, <2>1, <2>2 DEF FolReadOK
  <2>8. FolReadOK'
    BY <2>5, <2>6, <2>7 DEF FolReadOK
  <2> QED  BY <1>0, <1>1, <2>8, FolReads DEF FolReadRuntime, FolReading
<1>2. CASE FolReadUnloaded
  <2>2. folRead' = [folRead EXCEPT !.stage = "ready", !.view.run = FALSE, !.loaded = FALSE]
    BY <1>2 DEF FolReadUnloaded
  <2>3. folRead.active = 0 /\ FolSeen(folRead.view, folRead.active, folRead.loaded) /\ folRead.view \in FolView
    BY <1>0, <1>2 DEF FolReadUnloaded, FolReadOK
  <2>n. PICK v : v = [folRead.view EXCEPT !.run = FALSE]
    OBVIOUS
  <2>4. v \in FolView /\ v.n = folRead.view.n
    BY <2>3, <2>n DEF FolView
  <2>5. FolSeen(v, 0, FALSE)
    BY <2>3, <2>4, FolTurnsAre DEF FolSeen
  <2>6. FolSeen(v, 0, FALSE)'
    BY <1>t, <2>5, FolSameSeen
  <2>7. folRead'.stage = "ready" /\ folRead'.view = v /\ folRead'.active = 0 /\ folRead'.loaded = FALSE
    BY <1>0, <2>2, <2>3, <2>n DEF FolReadOK
  <2>8. folRead' \in [stage: {"none", "history", "ready"}, force: BOOLEAN, moved: BOOLEAN, view: FolView,
                      active: 0..FolMaxTurns, loaded: BOOLEAN]
    BY <1>0, <2>2, <2>4, <2>n DEF FolReadOK
  <2>9. FolReadOK'
    BY <2>6, <2>7, <2>8 DEF FolReadOK
  <2> QED  BY <1>0, <1>2, <2>9, FolReads, FolTurnsAre DEF FolReadUnloaded, FolReading, FolFault
<1>3. CASE FolReadFails \/ FolDiscard
  <2>1. FolReadOK'
    BY <1>0, <1>3, <1>t, FolReadDropped DEF FolReadFails, FolDiscard
  <2> QED  BY <1>0, <1>3, <2>1, FolReads, FolTurnsAre DEF FolReadFails, FolDiscard, FolReading, FolFault
<1> QED  BY <1>1, <1>2, <1>3

-----------------------------------------------------------------------------
(* Finishing a turn, delivering progress, retrying a kept result.           *)

\* What a card and the chat become when the result of its turn is put on it: a card
\* that is finished was seen, now or earlier.
LEMMA FolFinalizeFits ==
  ASSUME FolInv, UNCHANGED <<folTurns, folSince>>, NEW t, FolOver(t), NEW blocked \in BOOLEAN, NEW existingOnly \in BOOLEAN,
         NEW f \in FolFinals(t, t, blocked, existingOnly), FolFinalize(t, f)
  PROVE  /\ FolCardsOK' /\ FolChatOK' /\ folShown \subseteq folShown'
         /\ f.card.finished => FolShows(t)'
         /\ folFaults' \in 0..MaxFolFaults /\ f.blocked \in BOOLEAN
<1>0. t \in FolTurns /\ FolCardsOK /\ FolChatOK /\ folFaults \in 0..MaxFolFaults
  BY DEF FolInv, FolRestOK, FolOver, FolBegun
<1> DEFINE k == folCards[t]
           k1 == [k EXCEPT !.terminal = IF @ = 0 THEN t ELSE @]
<1>1. k \in FolCard /\ k.terminal \in {0, t} /\ (k.finished => <<t, t>> \in folShown)
  BY <1>0 DEF FolCardsOK, FolShows
<1>2. k1 \in FolCard /\ k1.terminal = t /\ k1.finished = k.finished /\ k1.handle = k.handle
  BY <1>0, <1>1, FolTurnsAre DEF FolCard
<1>3. f.card \in FolCard /\ f.card.terminal = t /\ f.blocked \in BOOLEAN /\ f.seen \in BOOLEAN
      /\ (f.card.finished => f.seen \/ k.finished)
  <2>1. CASE f = [card |-> k1, tried |-> FALSE, seen |-> FALSE, blocked |-> blocked]
    BY <1>2, <2>1
  <2>2. ASSUME NEW o \in FolOutcomes(k.handle),
               f = [card |-> [k1 EXCEPT !.handle = o.handle, !.finished = o.finished],
                    tried |-> TRUE, seen |-> o.seen, blocked |-> o.blocked]
        PROVE  f.card \in FolCard /\ f.card.terminal = t /\ f.blocked \in BOOLEAN /\ f.seen \in BOOLEAN
               /\ (f.card.finished => f.seen)
    <3>1. /\ o.handle \in {"none", "asked", "known"} /\ o.finished \in BOOLEAN /\ o.seen \in BOOLEAN /\ o.blocked \in BOOLEAN
          /\ o.finished => o.seen
      BY DEF FolOutcomes
    <3> HIDE DEF k1
    <3>2. f.card = [k1 EXCEPT !.handle = o.handle, !.finished = o.finished] /\ f.blocked = o.blocked /\ f.seen = o.seen
      BY <2>2
    <3>3. f.card \in FolCard /\ f.card.terminal = k1.terminal /\ f.card.finished = o.finished
      BY <1>2, <3>1, <3>2 DEF FolCard
    <3> QED  BY <1>2, <3>1, <3>2, <3>3
  <2> QED  BY <2>1, <2>2 DEF FolFinals
<1> HIDE DEF k, k1
<1>4. folCards' = [folCards EXCEPT ![t] = f.card]
      /\ folShown' = IF f.seen THEN folShown \cup {<<t, t>>} ELSE folShown
  BY <1>3 DEF FolFinalize
<1>5. folShown \subseteq folShown' /\ (f.card.finished => <<t, t>> \in folShown')
  BY <1>1, <1>3, <1>4
<1>6. folCards' \in [FolTurns -> FolCard] /\ folCards'[t] = f.card /\ \A c \in FolTurns \ {t} : folCards'[c] = folCards[c]
  BY <1>0, <1>3, <1>4 DEF FolCardsOK
<1>7. FolCardsOK'
  BY <1>0, <1>3, <1>5, <1>6 DEF FolCardsOK, FolShows
<1>8. FolChatOK'
  <2>1. \A p \in folShown' : p \in folShown \/ p = <<t, t>>
    BY <1>3, <1>4
  <2>2. \A u : FolOver(u)' = FolOver(u)
    BY FolSameThread
  <2> QED  BY <1>0, <2>1, <2>2 DEF FolChatOK
<1>9. folFaults' \in 0..MaxFolFaults
  BY <1>0, FolTurnsAre DEF FolFinalize, FolFault
<1> QED  BY <1>3, <1>5, <1>7, <1>8, <1>9 DEF FolShows

\* The result of the turn followed is pending.
LEMMA FolPendingFits ==
  ASSUME FolThreadOK, NEW s, FolFits(s), NEW t, FolOver(t), s.turn = t
  PROVE  LET r == [s EXCEPT !.pending = t]
         IN  FolFits(r) /\ FolKeeps(s, r) /\ r.kept = s.kept /\ r.completed = s.completed
<1> DEFINE r == [s EXCEPT !.pending = t]
<1>0. s \in FolStates /\ t \in 0..FolMaxTurns /\ t # 0
  BY FolTurnsAre DEF FolFits, FolOver, FolBegun
<1>1. r \in FolStates
  BY <1>0 DEF FolStates
<1>2. r.turn = s.turn /\ r.card = s.card /\ r.kept = s.kept /\ r.completed = s.completed /\ r.pending = t
  BY <1>0, <1>1 DEF FolStates
<1> HIDE DEF r
<1>3. FolFits(r)
  BY <1>0, <1>1, <1>2 DEF FolFits
<1>4. FolKeeps(s, r)
  BY <1>0, <1>2 DEF FolFits, FolKeeps, FolHeld, FolKept
<1> QED  BY <1>2, <1>3, <1>4 DEF r

\* The result of the turn followed is delivered.
LEMMA FolDoneFits ==
  ASSUME FolThreadOK, NEW s, FolFits(s), NEW t, FolOver(t), s.turn = t
  PROVE  LET r == FolDone(s, t)
         IN  FolFits(r) /\ FolKeeps(s, r) /\ r.kept = s.kept /\ r.completed = s.completed \cup {t}
<1> DEFINE d == s.completed \cup {t}
           r == [s EXCEPT !.completed = d, !.pending = 0]
<1>0. s \in FolStates /\ t \in FolTurns /\ 0 \in 0..FolMaxTurns /\ (s.pending = 0 \/ s.pending = t)
  BY FolTurnsAre DEF FolFits, FolOver, FolBegun
<1>3. d \in SUBSET FolTurns /\ t \in d /\ s.completed \subseteq d
  BY <1>0 DEF FolStates
<1>4. FolDone(s, t) = r
  BY DEF FolDone
<1> HIDE DEF d
<1>1. r \in FolStates
  BY <1>0, <1>3 DEF FolStates
<1>2. r.turn = s.turn /\ r.card = s.card /\ r.kept = s.kept /\ r.completed = d /\ r.pending = 0
  BY <1>0, <1>1 DEF FolStates
<1> HIDE DEF r
<1> QED  BY <1>0, <1>1, <1>2, <1>3, <1>4 DEF FolFits, FolKeeps, FolHeld, FolKept, d

\* The snapshot being read keeps what it shows when the state moves on.
LEMMA FolMovedKeeps ==
  ASSUME FolInv, UNCHANGED <<folTurns, folSince>>, FolMoved \/ UNCHANGED folRead
  PROVE  FolReadOK'
<1>1. /\ folRead'.stage = folRead.stage /\ folRead'.view = folRead.view /\ folRead'.active = folRead.active
      /\ folRead'.loaded = folRead.loaded
      /\ folRead' \in [stage: {"none", "history", "ready"}, force: BOOLEAN, moved: BOOLEAN, view: FolView,
                       active: 0..FolMaxTurns, loaded: BOOLEAN]
  BY DEF FolInv, FolReadOK, FolMoved
<1>2. PICK v, a, l : v = folRead.view /\ a = folRead.active /\ l = folRead.loaded
  OBVIOUS
<1>3. FolSeen(v, a, l)'
  BY <1>2, FolSameSeen DEF FolInv, FolReadOK
<1> QED  BY <1>1, <1>2, <1>3 DEF FolInv, FolReadOK

\* What a step that finishes, delivers or selects leaves of everything but the
\* observation, the hints and the retries.
FolWritten ==
  /\ FolThreadOK' /\ FolFits(folState)' /\ FolCardsOK' /\ FolChatOK' /\ FolDelivered' /\ FolReadOK'
  /\ folBlocked' \in BOOLEAN /\ folFaults' \in 0..MaxFolFaults
  /\ FolKept(folState) \subseteq FolKept(folState')
  /\ FolKeeps(folState, folState')

LEMMA FolDeliveredStays ==
  ASSUME FolDelivered, folShown \subseteq folShown', NEW t, folState'.completed \subseteq folState.completed \cup {t},
         t \in folState'.completed => t \in folState.completed \/ FolShows(t)'
  PROVE  FolDelivered'
BY DEF FolDelivered, FolShows

LEMMA FolKeepsOn ==
  ASSUME NEW a, NEW b, NEW c, FolKeeps(a, b), FolKeeps(b, c)
  PROVE  FolKeeps(a, c)
BY DEF FolKeeps

LEMMA FolFitsOn ==
  ASSUME UNCHANGED <<folTurns, folSince>>, NEW s, FolFits(s), folState' = s
  PROVE  FolFits(folState)'
BY FolSameThread DEF FolFits

LEMMA FolFinishFits ==
  ASSUME FolInv, UNCHANGED <<folTurns, folSince>>, NEW s0, FolFits(s0), s0.completed = folState.completed,
         FolKeeps(folState, s0), folState.kept \subseteq s0.kept,
         NEW t, FolOver(t), NEW switch \in BOOLEAN, NEW force \in BOOLEAN, NEW failed \in BOOLEAN,
         FolFinish(s0, t, switch, force, failed)
  PROVE  FolWritten
<1>0. FolThreadOK /\ FolThreadOK' /\ FolBegun(t) /\ folBlocked \in BOOLEAN /\ folFaults \in 0..MaxFolFaults /\ FolDelivered
  BY FolSameThread DEF FolInv, FolRestOK, FolOver
<1>s. PICK s : s = FolSelect(s0, t, switch)
  OBVIOUS
<1>1. FolFits(s) /\ FolKeeps(s0, s) /\ s0.kept \subseteq s.kept /\ s.completed = s0.completed /\ s.turn = t /\ s.card = t
  <2>1. s.turn = t
    BY <1>s DEF FolFinish
  <2> QED  BY <1>0, <1>s, <2>1, FolSelectFits DEF FolFits
<1>2. FolKeeps(folState, s)
  BY <1>1, FolKeepsOn
<1> DEFINE blocked == folBlocked /\ s.card = s0.card /\ ~force
           p == [s EXCEPT !.pending = t]
<1>p. FolFits(p) /\ FolKeeps(s, p) /\ p.kept = s.kept /\ p.completed = s.completed
  BY <1>0, <1>1, FolPendingFits
<1>d. LET r == FolDone(s, t) IN FolFits(r) /\ FolKeeps(s, r) /\ r.kept = s.kept /\ r.completed = s.completed \cup {t}
  BY <1>0, <1>1, FolDoneFits
<1>3. CASE failed
  <2>1. /\ FolFault /\ folState' = p /\ folBlocked' = (folBlocked /\ s.card = s0.card)
        /\ UNCHANGED <<folCards, folShown, folRead>>
    BY <1>s, <1>3 DEF FolFinish
  <2> HIDE DEF p
  <2>2. FolFits(folState)'
    BY <1>p, <2>1, FolFitsOn
  <2>3. FolCardsOK' /\ FolChatOK' /\ FolReadOK'
    BY <2>1, FolSameThread, FolMovedKeeps DEF FolInv, FolCardsOK, FolChatOK, FolShows
  <2>4. FolDelivered'
    BY <1>0, <1>1, <1>p, <2>1 DEF FolDelivered, FolShows
  <2>5. FolKept(folState) \subseteq FolKept(folState') /\ FolKeeps(folState, folState')
    BY <1>1, <1>2, <1>p, <2>1, FolKeepsOn DEF FolKept
  <2> QED  BY <1>0, <2>1, <2>2, <2>3, <2>4, <2>5, FolTurnsAre DEF FolWritten, FolFault
<1>4. CASE ~failed
  <2>1. PICK f \in FolFinals(s.card, t, blocked, FALSE) :
          /\ FolFinalize(s.card, f) /\ folBlocked' = f.blocked
          /\ IF f.card.finished THEN folState' = FolDone(s, t) /\ FolMoved
             ELSE folState' = p /\ UNCHANGED folRead
    BY <1>s, <1>4 DEF FolFinish
  <2>b. blocked \in BOOLEAN
    BY <1>0
  <2> HIDE DEF p, blocked
  <2>2. /\ FolCardsOK' /\ FolChatOK' /\ folShown \subseteq folShown' /\ (f.card.finished => FolShows(t)')
        /\ folFaults' \in 0..MaxFolFaults /\ f.blocked \in BOOLEAN
    <3>1. f \in FolFinals(t, t, blocked, FALSE) /\ FolFinalize(t, f)
      BY <1>1, <2>1
    <3> QED  BY <2>b, <3>1, FolFinalizeFits
  <2>3. FolReadOK'
    BY <2>1, FolMovedKeeps
  <2>4. FolFits(folState)' /\ FolKeeps(folState, folState') /\ s.kept \subseteq folState'.kept
    <3>1. PICK r : folState' = r
      OBVIOUS
    <3>2. FolFits(r) /\ FolKeeps(s, r) /\ s.kept \subseteq r.kept
      BY <1>p, <1>d, <2>1, <3>1
    <3> QED  BY <1>2, <3>1, <3>2, FolFitsOn, FolKeepsOn
  <2>5. FolDelivered'
    <3>1. folState'.completed \subseteq folState.completed \cup {t} /\ (t \in folState'.completed => t \in folState.completed \/ f.card.finished)
      BY <1>1, <1>p, <1>d, <2>1
    <3> QED  BY <1>0, <2>2, <3>1, FolDeliveredStays
  <2> QED  BY <1>0, <1>1, <2>1, <2>2, <2>3, <2>4, <2>5 DEF FolWritten, FolKept
<1> QED  BY <1>3, <1>4

\* deliver(): the card of the turn is made, or its making fails or stays in doubt.
LEMMA FolDeliverFits ==
  ASSUME FolInv, UNCHANGED <<folTurns, folSince, folShown>>, NEW t, FolBegun(t), NEW switch \in BOOLEAN,
         FolSelect(folState, t, switch).turn = t, FolDeliver(folState, t, switch)
  PROVE  FolWritten
<1>0. FolThreadOK /\ FolThreadOK' /\ folBlocked \in BOOLEAN /\ folFaults \in 0..MaxFolFaults /\ FolDelivered
      /\ FolCardsOK /\ FolChatOK /\ t \in FolTurns /\ FolFits(folState)
  BY FolSameThread DEF FolInv, FolRestOK, FolBegun
<1>s. PICK s : s = FolSelect(folState, t, switch)
  OBVIOUS
<1>1. FolFits(s) /\ FolKeeps(folState, s) /\ folState.kept \subseteq s.kept /\ s.completed = folState.completed /\ s.card = t
  BY <1>0, <1>s, FolSelectFits DEF FolFits
<1>r. PICK r : r = [s EXCEPT !.baseline = @ \ {t}]
  OBVIOUS
<1>2. r.turn = s.turn /\ r.card = s.card /\ r.kept = s.kept /\ r.completed = s.completed /\ r.pending = s.pending /\ r \in FolStates
  <2>1. s \in FolStates /\ s.baseline \ {t} \in SUBSET FolTurns
    BY <1>1 DEF FolFits, FolStates
  <2>2. r \in FolStates
    BY <1>r, <2>1 DEF FolStates
  <2> QED  BY <1>r, <2>1, <2>2 DEF FolStates
<1>3. FolFits(r) /\ FolKeeps(folState, r)
  BY <1>1, <1>2 DEF FolFits, FolKeeps, FolHeld, FolKept
<1>4. /\ folState' = r /\ folBlocked' = (folBlocked /\ s.card = folState.card) /\ FolMoved
      /\ \/ UNCHANGED folCards
         \/ \E h \in {"known", "asked"} : folCards' = [folCards EXCEPT ![t].handle = h]
      /\ folFaults' = folFaults \/ FolFault
  BY <1>s, <1>r, <1>1 DEF FolDeliver
<1>5. FolCardsOK'
  <2>1. CASE UNCHANGED folCards
    BY <1>0, <2>1 DEF FolCardsOK, FolShows
  <2>2. ASSUME NEW h \in {"known", "asked"}, folCards' = [folCards EXCEPT ![t].handle = h] PROVE FolCardsOK'
    <3>1. folCards' \in [FolTurns -> FolCard]
      BY <1>0, <2>2 DEF FolCardsOK, FolCard
    <3>2. \A c \in FolTurns : folCards'[c].terminal = folCards[c].terminal /\ folCards'[c].finished = folCards[c].finished
      BY <1>0, <2>2 DEF FolCardsOK, FolCard
    <3> QED  BY <1>0, <3>1, <3>2 DEF FolCardsOK, FolShows
  <2> QED  BY <1>4, <2>1, <2>2
<1>6. FolChatOK' /\ FolReadOK'
  BY <1>0, <1>4, FolSameThread, FolMovedKeeps DEF FolChatOK
<1>7. FolDelivered'
  BY <1>0, <1>1, <1>2, <1>4 DEF FolDelivered, FolShows
<1>8. FolFits(folState)'
  BY <1>3, <1>4, FolFitsOn
<1> QED  BY <1>0, <1>1, <1>2, <1>3, <1>4, <1>5, <1>6, <1>7, <1>8, FolTurnsAre DEF FolWritten, FolKept, FolFault

-----------------------------------------------------------------------------
(* Applying a snapshot, turn by turn.                                       *)

LEMMA FolWrittenKeeps ==
  ASSUME FolInv, FolWritten, UNCHANGED <<folTurns, folSince>>, FolJobOK', FolHintsOK',
         folRetry' \subseteq FolKept(folState'), folMissed' \subseteq FolTurns
  PROVE  FolInv' /\ FolKeeps(folState, folState')
BY DEF FolWritten, FolInv, FolRestOK

\* The state, the cards and the chat are as they were.
LEMMA FolUntouched ==
  ASSUME FolInv, UNCHANGED <<folTurns, folSince, folDurable, folBlocked, folRead, folShown, folFaults>>
  PROVE  FolWritten
<1>1. /\ folState' = folState /\ folCards' = folCards /\ folBlocked' = folBlocked /\ folRead' = folRead
      /\ folShown' = folShown /\ folFaults' = folFaults /\ UNCHANGED <<folTurns, folSince>>
  BY DEF folDurable
<1>2. FolThreadOK' /\ FolFits(folState)' /\ FolCardsOK' /\ FolChatOK' /\ FolDelivered'
  BY <1>1, FolSameThread DEF FolInv, FolFits, FolCardsOK, FolChatOK, FolDelivered, FolShows
<1>3. FolReadOK'
  BY <1>1, FolMovedKeeps
<1> QED  BY <1>1, <1>2, <1>3 DEF FolWritten, FolInv, FolRestOK, FolKeeps, FolKept

LEMMA FolSameHints ==
  ASSUME FolInv, UNCHANGED <<folTurns, folSince>>, UNCHANGED folHints
  PROVE  FolHintsOK'
BY FolSameThread DEF FolInv, FolHintsOK

\* Only the place of the observation changes, or it ends.
LEMMA FolJobMoves ==
  ASSUME FolInv, UNCHANGED <<folTurns, folSince>>,
         \/ UNCHANGED folJob
         \/ folJob' = [folJob EXCEPT !.stage = "turns"]
         \/ FolNext
         \/ folJob' = FolNoJob
  PROVE  FolJobOK'
<1>1. CASE folJob' = FolNoJob
  BY <1>1, FolJobDropped DEF FolInv
<1>2. CASE folJob' # FolNoJob
  <2>1. /\ folJob'.view = folJob.view /\ folJob'.active = folJob.active /\ folJob'.loaded = folJob.loaded
        /\ folJob' \in [stage: {"none", "pending", "turns"}, force: BOOLEAN, view: FolView,
                        active: 0..FolMaxTurns, loaded: BOOLEAN, boundary: 0..FolMaxTurns, next: Nat]
    BY <1>2 DEF FolInv, FolJobOK, FolNext
  <2>2. PICK v, a, l : v = folJob.view /\ a = folJob.active /\ l = folJob.loaded
    OBVIOUS
  <2>3. FolSeen(v, a, l)'
    BY <2>2, FolSameSeen DEF FolInv, FolJobOK
  <2> QED  BY <2>1, <2>2, <2>3 DEF FolJobOK
<1> QED  BY <1>1, <1>2

\* A step of the observation that writes through finish() or deliver(), or not at all.
LEMMA FolJobStepKeeps ==
  ASSUME FolInv, FolWritten, FolJobStep, folMissed' \subseteq FolTurns,
         \/ UNCHANGED folJob
         \/ folJob' = [folJob EXCEPT !.stage = "turns"]
         \/ FolNext
         \/ folJob' = FolNoJob
  PROVE  FolInv' /\ FolKeeps(folState, folState')
<1>1. UNCHANGED <<folTurns, folSince>> /\ folRetry' = folRetry /\ UNCHANGED folHints
  BY DEF FolJobStep
<1>2. FolJobOK' /\ FolHintsOK'
  BY <1>1, FolJobMoves, FolSameHints
<1>3. folRetry' \subseteq FolKept(folState')
  BY <1>1 DEF FolInv, FolRestOK, FolWritten
<1> QED  BY <1>1, <1>2, <1>3, FolWrittenKeeps

\* The history that ended before, set aside.
LEMMA FolBaselineFits ==
  ASSUME FolInv
  PROVE  LET r == FolBaseline(folState)
         IN  FolFits(r) /\ FolKeeps(folState, r) /\ r.kept = folState.kept /\ r.completed = folState.completed
             /\ r.pending = folState.pending
<1>0. FolFits(folState) /\ folState \in FolStates /\ folJob.view.n \in 0..FolMaxTurns
  BY DEF FolInv, FolFits, FolJobOK, FolView
<1>r. PICK r : r = FolBaseline(folState)
  OBVIOUS
<1> DEFINE b == {t \in 1..folJob.view.n : FolEnded(folJob.view, t)} \ {folState.turn}
<1>1. b \in SUBSET FolTurns
  BY <1>0, FolTurnsAre
<1>2. r = folState \/ r = [folState EXCEPT !.initialized = TRUE, !.baseline = b]
  BY <1>r DEF FolBaseline
<1> HIDE DEF b
<1>3. r \in FolStates
  BY <1>0, <1>1, <1>2 DEF FolStates
<1>4. r.turn = folState.turn /\ r.card = folState.card /\ r.kept = folState.kept /\ r.completed = folState.completed
      /\ r.pending = folState.pending
  BY <1>0, <1>2, <1>3 DEF FolStates
<1>5. FolFits(r) /\ FolKeeps(folState, r)
  BY <1>0, <1>3, <1>4 DEF FolFits, FolKeeps, FolHeld, FolKept
<1> QED  BY <1>r, <1>4, <1>5

LEMMA FolPendingStep ==
  ASSUME FolInv, FolPending
  PROVE  FolInv' /\ FolKeeps(folState, folState')
<1>0. FolFits(folState) /\ FolJobStep /\ folMissed' = folMissed /\ folMissed \subseteq FolTurns
      /\ UNCHANGED <<folTurns, folSince>> /\ folJob.force \in BOOLEAN
  BY DEF FolInv, FolPending, FolJobStep, FolRestOK, FolJobOK
<1>b. PICK r : r = FolBaseline(folState)
  OBVIOUS
<1>c. FolFits(r) /\ FolKeeps(folState, r) /\ r.kept = folState.kept /\ r.completed = folState.completed
  BY <1>b, FolBaselineFits
<1>1. CASE folState' = r /\ folJob' = [folJob EXCEPT !.stage = "turns"]
           /\ UNCHANGED <<folCards, folBlocked, folShown, folFaults, folRead>>
  <2>1. FolThreadOK' /\ FolFits(folState)' /\ FolCardsOK' /\ FolChatOK'
    BY <1>0, <1>1, <1>c, FolSameThread, FolFitsOn DEF FolInv, FolCardsOK, FolChatOK, FolShows
  <2>2. FolReadOK'
    BY <1>0, <1>1, FolMovedKeeps
  <2>3. FolDelivered'
    BY <1>1, <1>c DEF FolInv, FolDelivered, FolShows
  <2>4. FolWritten
    BY <1>1, <1>c, <2>1, <2>2, <2>3 DEF FolWritten, FolInv, FolRestOK, FolKept
  <2> QED  BY <1>0, <1>1, <2>4, FolJobStepKeeps
<1>2. ASSUME folState.pending \notin {0} \cup folState.completed, NEW s0 \in {r, folState}, NEW failed \in BOOLEAN,
             FolFinish(s0, folState.pending, FALSE, folJob.force, failed),
             folJob' = [folJob EXCEPT !.stage = "turns"] \/ folJob' = FolNoJob
      PROVE  FolInv' /\ FolKeeps(folState, folState')
  <2>1. FolOver(folState.pending)
    BY <1>0, <1>2 DEF FolFits
  <2>2. FolFits(s0) /\ FolKeeps(folState, s0) /\ folState.kept \subseteq s0.kept /\ s0.completed = folState.completed
    BY <1>0, <1>c DEF FolKeeps
  <2>n. PICK t, force : t = folState.pending /\ force = folJob.force
    OBVIOUS
  <2>3. FolWritten
    BY <1>0, <1>2, <2>1, <2>2, <2>n, FolFinishFits
  <2> QED  BY <1>0, <1>2, <2>3, FolJobStepKeeps
<1> QED  BY <1>0, <1>1, <1>2, <1>b DEF FolPending

LEMMA FolWorkStep ==
  ASSUME FolInv, NEW t \in FolTurns, FolWork(t)
  PROVE  FolInv' /\ FolKeeps(folState, folState')
<1>0. FolFits(folState) /\ FolThreadOK /\ folMissed \subseteq FolTurns /\ folJob.boundary \in 0..FolMaxTurns
      /\ FolSeen(folJob.view, folJob.active, folJob.loaded) /\ folJob.view.n \in 0..FolMaxTurns
  BY DEF FolInv, FolRestOK, FolJobOK, FolView
<1>k. FolKeeps(folState, folState)
  BY DEF FolKeeps
<1>1. CASE FolRunning(t)
  <2>1. FolBegun(t) /\ FolSelect(folState, t, TRUE).turn = t /\ FolJobStep /\ FolNext /\ UNCHANGED <<folShown, folMissed>>
    <3>1. t = folJob.active /\ FolDelivers(folState, t, TRUE) /\ FolJobStep /\ FolNext /\ UNCHANGED <<folShown, folMissed>>
      BY <1>1 DEF FolRunning
    <3>2. t # 0
      BY FolTurnsAre
    <3>3. FolBegun(t)
      BY <1>0, <3>1, <3>2 DEF FolSeen
    <3> QED  BY <3>1, <3>3 DEF FolDelivers
  <2>2. CASE FolDeliver(folState, t, TRUE)
    BY <1>0, <2>1, <2>2, FolDeliverFits, FolJobStepKeeps DEF FolJobStep
  <2>3. CASE FolTold(t)
    BY <1>0, <2>1, <2>3, FolUntouched, FolJobStepKeeps DEF FolJobStep, FolTold
  <2> QED  BY <1>1, <2>2, <2>3 DEF FolRunning
<1>2. CASE FolTurnEnded(t)
  <2>1. FolDue(t) /\ FolJobStep /\ UNCHANGED folMissed /\ UNCHANGED <<folTurns, folSince>>
    BY <1>2 DEF FolTurnEnded, FolJobStep
  <2>2. FolEnded(folJob.view, t) /\ FolEnded(folTurns, t) /\ (t = folState.turn \/ FolAfter(t, folJob.boundary))
    BY <1>0, <2>1 DEF FolDue, FolSeen
  <2>3. FolBegun(t)
    <3>1. folSince < t
      <4>1. CASE t = folState.turn
        BY <1>0, <4>1, FolTurnsAre DEF FolFits, FolBegun
      <4> QED  BY <1>0, <2>2, <4>1, FolLater
    <3>2. t <= folTurns.n
      BY <1>0, <2>2, FolTurnsAre DEF FolEnded, FolThreadOK, FolView
    <3> QED  BY <3>1, <3>2 DEF FolBegun
  <2>4. FolOver(t)
    BY <2>2, <2>3 DEF FolOver
  <2>5. PICK switch : switch = FolMaySwitch
    OBVIOUS
  <2>6. switch \in BOOLEAN
    BY <2>5 DEF FolMaySwitch
  <2>7. \E failed \in BOOLEAN : FolFinish(folState, t, switch, FALSE, failed) /\ (FolNext \/ folJob' = FolNoJob)
    BY <1>2, <2>5 DEF FolTurnEnded
  <2>8. FolWritten
    BY <1>0, <1>k, <2>1, <2>4, <2>6, <2>7, FolFinishFits
  <2> QED  BY <1>0, <2>1, <2>7, <2>8, FolJobStepKeeps
<1>3. CASE FolPassOver(t)
  <2>1. folMissed' \subseteq FolTurns /\ FolNext /\ FolJobStep
    BY <1>0, <1>3 DEF FolPassOver
  <2>2. FolWritten
    BY <1>3, <2>1, FolUntouched DEF FolPassOver, FolJobStep
  <2> QED  BY <2>1, <2>2, FolJobStepKeeps
<1> QED  BY <1>1, <1>2, <1>3 DEF FolWork

\* The history that the first loaded snapshot shows is frozen.
LEMMA FolFreezeFits ==
  ASSUME FolInv
  PROVE  LET r == FolFreeze(folState, folRead)
         IN  /\ FolFits(r) /\ FolKeeps(folState, r) /\ folState.kept \subseteq r.kept
             /\ r.completed = folState.completed
<1>0. FolThreadOK /\ FolFits(folState) /\ folState \in FolStates /\ folRead.view.n \in 0..FolMaxTurns
  BY DEF FolInv, FolFits, FolReadOK, FolView
<1> DEFINE b == IF folRead.view.n # 0 THEN folRead.view.n ELSE folState.turn
           r == FolFreeze(folState, folRead)
<1>z. PICK z : z = [folState EXCEPT !.bounded = TRUE, !.boundary = b]
  OBVIOUS
<1>1. b \in 0..FolMaxTurns
  BY <1>0 DEF FolStates
<1> HIDE DEF b
<1>2. z \in FolStates
  BY <1>0, <1>1, <1>z DEF FolStates
<1>3. z.turn = folState.turn /\ z.card = folState.card /\ z.kept = folState.kept /\ z.completed = folState.completed
      /\ z.pending = folState.pending /\ z.retired = folState.retired
  BY <1>0, <1>2, <1>z DEF FolStates
<1>4. FolFits(z)
  BY <1>0, <1>2, <1>3 DEF FolFits
<1>k. FolKeeps(folState, z)
  BY <1>0, <1>2, <1>3 DEF FolKeeps, FolHeld, FolKept
<1>5. CASE r = folState
  BY <1>0, <1>5 DEF FolKeeps
<1>6. CASE r = z
  BY <1>3, <1>4, <1>6, <1>k
<1>7. CASE /\ folState.pending # 0
           /\ r = [FolArchive(z) EXCEPT !.turn = 0, !.card = 0, !.retired = @ \cup {folState.turn}]
  <2> DEFINE a == FolArchive(z)
  <2>1. FolFits(a) /\ FolKeeps(z, a) /\ z.kept \subseteq a.kept /\ a.completed = z.completed /\ a.pending = 0
    BY <1>3, <1>4, <1>7, FolArchiveFits
  <2>2. a \in FolStates /\ folState.turn \in FolTurns
    BY <1>0, <1>7, <2>1 DEF FolFits, FolOver, FolBegun
  <2> HIDE DEF a
  <2>3. 0 \in 0..FolMaxTurns /\ a.retired \cup {folState.turn} \in SUBSET FolTurns
    BY <2>2, FolTurnsAre DEF FolStates
  <2>4. r = [a EXCEPT !.turn = 0, !.card = 0, !.retired = @ \cup {folState.turn}]
    BY <1>7 DEF a
  <2> HIDE DEF r
  <2>5. r \in FolStates
    BY <2>2, <2>3, <2>4 DEF FolStates
  <2>6. r.turn = 0 /\ r.card = 0 /\ r.kept = a.kept /\ r.completed = a.completed /\ r.pending = 0
    BY <2>1, <2>2, <2>4, <2>5 DEF FolStates
  <2>7. FolFits(r)
    BY <2>1, <2>5, <2>6 DEF FolFits
  <2>8. FolKeeps(a, r)
    BY <2>1, <2>6 DEF FolKeeps, FolHeld, FolKept
  <2>9. FolKeeps(folState, r)
    BY <1>k, <2>1, <2>8, FolKeepsOn
  <2> QED  BY <1>3, <2>1, <2>6, <2>7, <2>9 DEF r
<1>8. r = folState \/ r = z \/ /\ folState.pending # 0
                               /\ r = [FolArchive(z) EXCEPT !.turn = 0, !.card = 0, !.retired = @ \cup {folState.turn}]
  BY <1>z DEF FolFreeze, b
<1> QED  BY <1>5, <1>6, <1>7, <1>8

\* The snapshot names the running turn: the result of the one before is taken from
\* it, and the running one is followed.
LEMMA FolSwitchFits ==
  ASSUME FolInv, NEW s, FolFits(s), ~FolConflicts(folState, folRead)
  PROVE  LET r == FolSwitch(s, folRead)
         IN  FolFits(r) /\ FolKeeps(s, r) /\ s.kept \subseteq r.kept /\ r.completed = s.completed
<1>0. FolThreadOK /\ FolSeen(folRead.view, folRead.active, folRead.loaded) /\ s \in FolStates
  BY DEF FolInv, FolReadOK, FolFits
<1> DEFINE r == FolSwitch(s, folRead)
           c == FolCapture(s, folRead)
<1>1. CASE folRead.active = 0
  BY <1>1 DEF FolSwitch, FolKeeps
<1>2. CASE folRead.active # 0
  <2>1. FolBegun(folRead.active) /\ folRead.loaded
    BY <1>0, <1>2 DEF FolSeen
  <2>2. FolFits(c) /\ FolKeeps(s, c) /\ c.kept = s.kept /\ c.completed = s.completed
    <3>1. CASE c = s
      BY <3>1 DEF FolKeeps
    <3>2. CASE s.turn # 0 /\ FolEnded(folRead.view, s.turn) /\ c = [s EXCEPT !.pending = s.turn]
      <4>t. PICK t : t = s.turn
        OBVIOUS
      <4>1. FolBegun(t) /\ t \in FolTurns
        BY <3>2, <4>t DEF FolFits, FolBegun
      <4>2. FolOver(t)
        BY <1>0, <2>1, <3>2, <4>t, <4>1 DEF FolSeen, FolOver
      <4> QED  BY <1>0, <3>2, <4>t, <4>2, FolPendingFits
    <3> QED  BY <3>1, <3>2 DEF FolCapture
  <2>n. PICK t : t = folRead.active
    OBVIOUS
  <2>3. r = FolSelect(c, t, TRUE)
    BY <1>2, <2>n DEF FolSwitch
  <2>6. FolBegun(t)
    BY <2>1, <2>n
  <2> HIDE DEF c, r
  <2>4. FolFits(r) /\ FolKeeps(c, r) /\ c.kept \subseteq r.kept /\ r.completed = c.completed
    BY <1>0, <2>2, <2>3, <2>6, FolSelectFits
  <2>5. FolKeeps(s, r)
    BY <2>2, <2>4, FolKeepsOn
  <2> QED  BY <2>2, <2>4, <2>5 DEF r
<1> QED  BY <1>1, <1>2

\* A boundary passes turns of the thread.
LEMMA FolPassesTurns ==
  ASSUME NEW view, NEW s, NEW boundary \in 0..FolMaxTurns
  PROVE  FolPasses(view, s, boundary) \subseteq FolTurns
BY FolTurnsAre DEF FolPasses

LEMMA FolApplyKeeps ==
  ASSUME FolInv, FolApply
  PROVE  FolInv' /\ FolKeeps(folState, folState')
<1>0. FolThreadOK /\ folBlocked \in BOOLEAN /\ folMissed \subseteq FolTurns /\ folRetry \subseteq FolKept(folState)
      /\ folFaults \in 0..MaxFolFaults /\ UNCHANGED <<folTurns, folSince>> /\ FolReadOK
  BY DEF FolInv, FolRestOK, FolApply
<1>f. PICK z : z = FolFreeze(folState, folRead)
  OBVIOUS
<1>1. FolFits(z) /\ FolKeeps(folState, z) /\ folState.kept \subseteq z.kept /\ z.completed = folState.completed
  BY <1>f, FolFreezeFits
<1>s. PICK s : s = FolSwitch(z, folRead)
  OBVIOUS
<1>c. ~FolConflicts(folState, folRead)
  BY DEF FolApply
<1>2. FolFits(s) /\ FolKeeps(z, s) /\ z.kept \subseteq s.kept /\ s.completed = z.completed
  BY <1>1, <1>c, <1>s, FolSwitchFits
<1>3. FolKeeps(folState, s) /\ folState.kept \subseteq s.kept /\ s.completed = folState.completed
  BY <1>1, <1>2, FolKeepsOn
<1>4. /\ folState' = s /\ folBlocked' = (folBlocked /\ s.card = folState.card)
      /\ folRetry' = folRetry \cup {p[1] : p \in {q \in s.kept : folCards[q[2]].handle = "known"}}
      /\ folJob' = [stage |-> "pending", force |-> folRead.force, view |-> folRead.view, active |-> folRead.active,
                    loaded |-> folRead.loaded, boundary |-> z.boundary, next |-> 1]
      /\ folRead' = FolNoRead
      /\ folMissed' = IF folState.bounded \/ ~folRead.loaded THEN folMissed
                      ELSE folMissed \cup FolPasses(folRead.view, s, s.boundary)
      /\ UNCHANGED <<folCards, folHints, folShown, folFaults>>
  BY <1>f, <1>s DEF FolApply
<1>5. FolFits(folState)' /\ FolThreadOK' /\ FolCardsOK' /\ FolChatOK' /\ FolReadOK'
  <2>1. FolFits(folState)'
    BY <1>0, <1>2, <1>4, FolFitsOn
  <2>2. FolThreadOK' /\ FolCardsOK' /\ FolChatOK'
    BY <1>0, <1>4, FolSameThread DEF FolInv, FolCardsOK, FolChatOK, FolShows
  <2> QED  BY <1>0, <1>4, <2>1, <2>2, FolReadDropped
<1>6. FolDelivered'
  BY <1>3, <1>4 DEF FolInv, FolDelivered, FolShows
<1>7. FolWritten
  BY <1>0, <1>3, <1>4, <1>5, <1>6 DEF FolWritten, FolKept
<1>8. FolJobOK'
  <2>1. PICK v, a, l : v = folRead.view /\ a = folRead.active /\ l = folRead.loaded
    OBVIOUS
  <2>2. FolSeen(v, a, l)'
    BY <1>0, <2>1, FolSameSeen DEF FolReadOK
  <2>3. folJob'.view = v /\ folJob'.active = a /\ folJob'.loaded = l
    BY <1>4, <2>1
  <2>4. z.boundary \in 0..FolMaxTurns
    BY <1>1 DEF FolFits, FolStates
  <2>5. folJob' \in [stage: {"none", "pending", "turns"}, force: BOOLEAN, view: FolView,
                     active: 0..FolMaxTurns, loaded: BOOLEAN, boundary: 0..FolMaxTurns, next: Nat]
    BY <1>0, <1>4, <2>4 DEF FolReadOK
  <2> QED  BY <2>2, <2>3, <2>5 DEF FolJobOK
<1>9. folRetry' \subseteq FolKept(folState')
  BY <1>0, <1>3, <1>4 DEF FolKept
<1>10. folMissed' \subseteq FolTurns
  <2>1. s.boundary \in 0..FolMaxTurns
    BY <1>2 DEF FolFits, FolStates
  <2> QED  BY <1>0, <1>4, <2>1, FolPassesTurns
<1> QED  BY <1>0, <1>4, <1>7, <1>8, <1>9, <1>10, FolSameHints, FolWrittenKeeps

LEMMA FolAdvanceKeeps ==
  ASSUME FolInv, FolAdvance
  PROVE  FolInv' /\ FolKeeps(folState, folState')
<1>0. FolFits(folState) /\ folState \in FolStates /\ folMissed \subseteq FolTurns /\ folJob.view.n \in 0..FolMaxTurns
      /\ UNCHANGED <<folTurns, folSince>> /\ FolJobStep /\ folJob' = FolNoJob
  BY DEF FolInv, FolFits, FolRestOK, FolJobOK, FolView, FolAdvance, FolJobStep
<1>z. PICK z : folState' = z
  OBVIOUS
<1>1. z = folState \/ z = [folState EXCEPT !.bounded = TRUE, !.boundary = folJob.view.n]
  BY <1>z DEF FolAdvance
<1>2. z \in FolStates
  BY <1>0, <1>1 DEF FolStates
<1>3. z.turn = folState.turn /\ z.card = folState.card /\ z.kept = folState.kept /\ z.completed = folState.completed
      /\ z.pending = folState.pending
  BY <1>0, <1>1, <1>2 DEF FolStates
<1>4. FolFits(z) /\ FolKeeps(folState, z)
  BY <1>0, <1>2, <1>3 DEF FolFits, FolKeeps, FolHeld, FolKept
<1>5. UNCHANGED <<folCards, folBlocked, folRead, folShown, folFaults>>
  BY DEF FolAdvance
<1>6. FolWritten
  <2>1. FolThreadOK' /\ FolFits(folState)' /\ FolCardsOK' /\ FolChatOK'
    BY <1>0, <1>4, <1>5, <1>z, FolSameThread, FolFitsOn DEF FolInv, FolCardsOK, FolChatOK, FolShows
  <2>2. FolReadOK'
    BY <1>0, <1>5, FolMovedKeeps
  <2>3. FolDelivered'
    BY <1>3, <1>5, <1>z DEF FolInv, FolDelivered, FolShows
  <2> QED  BY <1>3, <1>4, <1>5, <1>z, <2>1, <2>2, <2>3 DEF FolWritten, FolInv, FolRestOK, FolKept
<1>7. folMissed' \subseteq FolTurns
  BY <1>0, FolPassesTurns DEF FolAdvance
<1> QED  BY <1>0, <1>6, <1>7, FolJobStepKeeps

-----------------------------------------------------------------------------
(* Hints, retries, restarts.                                                *)

\* The hint applied is one that was told, and the others wait.
LEMMA FolHintIs ==
  ASSUME FolInv, NEW what, FolHint(what)
  PROVE  /\ FolBegun(Head(folHints).turn)
         /\ what = "completion" => FolOver(Head(folHints).turn)
         /\ UNCHANGED <<folTurns, folSince>> => FolHintsOK'
<1>0. FolHintsOK /\ folHints # <<>> /\ folHints' = Tail(folHints) /\ Head(folHints).kind = what
  BY DEF FolInv, FolHint
<1>1. 1 \in DOMAIN folHints /\ Head(folHints) = folHints[1]
  BY <1>0 DEF FolHintsOK
<1>2. folHints' \in Seq([kind: FolHintKinds, turn: FolTurns])
  BY <1>0 DEF FolHintsOK
<1>3. \A i \in DOMAIN folHints' : i + 1 \in DOMAIN folHints /\ folHints'[i] = folHints[i + 1]
  BY <1>0 DEF FolHintsOK
<1>4. UNCHANGED <<folTurns, folSince>> => FolHintsOK'
  <2> SUFFICES ASSUME UNCHANGED <<folTurns, folSince>> PROVE FolHintsOK'
    OBVIOUS
  <2>1. \A t : FolBegun(t)' = FolBegun(t) /\ FolOver(t)' = FolOver(t)
    BY FolSameThread
  <2> QED  BY <1>0, <1>2, <1>3, <2>1 DEF FolHintsOK
<1> QED  BY <1>0, <1>1, <1>4 DEF FolHintsOK

\* A hint is applied through select, finish or deliver, or it is dropped.
LEMMA FolHeard ==
  ASSUME FolInv, NEW what, FolHint(what), FolWritten, folMissed' \subseteq FolTurns
  PROVE  FolInv' /\ FolKeeps(folState, folState')
<1>1. UNCHANGED <<folTurns, folSince>> /\ UNCHANGED folJob /\ folRetry' = folRetry
  BY DEF FolHint
<1>2. FolHintsOK' /\ FolJobOK'
  BY <1>1, FolHintIs, FolJobMoves
<1>3. folRetry' \subseteq FolKept(folState')
  BY <1>1 DEF FolInv, FolRestOK, FolWritten
<1> QED  BY <1>1, <1>2, <1>3, FolWrittenKeeps

LEMMA FolIgnores ==
  ASSUME FolInv, NEW what, FolHint(what), FolIgnore
  PROVE  FolInv' /\ FolKeeps(folState, folState')
<1>1. FolWritten
  BY FolUntouched DEF FolHint, FolIgnore
<1> QED  BY <1>1, FolHeard DEF FolInv, FolRestOK, FolIgnore

LEMMA FolHearStep ==
  ASSUME FolInv, FolHears
  PROVE  FolInv' /\ FolKeeps(folState, folState')
<1>0. FolThreadOK /\ FolFits(folState) /\ folMissed \subseteq FolTurns /\ folFaults \in 0..MaxFolFaults
      /\ folBlocked \in BOOLEAN
  BY DEF FolInv, FolRestOK
<1>t. PICK t : t = Head(folHints).turn
  OBVIOUS
<1>k. FolKeeps(folState, folState)
  BY DEF FolKeeps
<1>1. CASE FolHearStart
  <2>1. FolHint("started") /\ FolBegun(t) /\ UNCHANGED <<folTurns, folSince>>
    BY <1>1, <1>t, FolHintIs DEF FolHearStart, FolHint
  <2>2. CASE FolIgnore
    BY <2>1, <2>2, FolIgnores
  <2>3. CASE ~FolIgnore
    <3>s. PICK s : s = FolSelect(folState, t, TRUE)
      OBVIOUS
    <3>1. FolFits(s) /\ FolKeeps(folState, s) /\ folState.kept \subseteq s.kept /\ s.completed = folState.completed
      BY <1>0, <2>1, <3>s, FolSelectFits
    <3>r. PICK r : r = [s EXCEPT !.heard = t, !.bounded = TRUE, !.boundary = t]
      OBVIOUS
    <3>2. s \in FolStates /\ t \in 0..FolMaxTurns /\ t \in FolTurns
      BY <2>1, <3>1, FolTurnsAre DEF FolFits, FolBegun
    <3>3. r \in FolStates
      BY <3>2, <3>r DEF FolStates
    <3>4. r.turn = s.turn /\ r.card = s.card /\ r.kept = s.kept /\ r.completed = s.completed /\ r.pending = s.pending
      BY <3>2, <3>3, <3>r DEF FolStates
    <3>5. FolFits(r) /\ FolKeeps(folState, r)
      BY <3>1, <3>3, <3>4 DEF FolFits, FolKeeps, FolHeld, FolKept
    <3>6. /\ folState' = r /\ folBlocked' = (folBlocked /\ r.card = folState.card)
          /\ folMissed' = folMissed \cup (((1..(t - 1)) \cup ({folState.turn} \ {0, t}))
                                          \ (folState.completed \cup folState.baseline \cup FolKept(r)))
          /\ FolMoved /\ UNCHANGED <<folCards, folShown, folFaults>>
      BY <1>1, <1>t, <2>3, <3>s, <3>r DEF FolHearStart
    <3>7. folMissed' \subseteq FolTurns
      <4>1. 1..(t - 1) \subseteq FolTurns
        BY <3>2, FolTurnsAre
      <4>2. {folState.turn} \ {0, t} \subseteq FolTurns
        BY <1>0 DEF FolFits, FolBegun
      <4> QED  BY <1>0, <3>6, <4>1, <4>2
    <3>8. FolWritten
      <4>1. FolThreadOK' /\ FolFits(folState)' /\ FolCardsOK' /\ FolChatOK'
        BY <1>0, <2>1, <3>5, <3>6, FolSameThread, FolFitsOn DEF FolInv, FolCardsOK, FolChatOK, FolShows
      <4>2. FolReadOK'
        BY <2>1, <3>6, FolMovedKeeps
      <4>3. FolDelivered'
        BY <3>1, <3>4, <3>6 DEF FolInv, FolDelivered, FolShows
      <4> QED  BY <1>0, <3>1, <3>4, <3>5, <3>6, <4>1, <4>2, <4>3 DEF FolWritten, FolKept
    <3> QED  BY <2>1, <3>7, <3>8, FolHeard
  <2> QED  BY <2>2, <2>3
<1>2. CASE FolHearActivity
  <2>1. FolHint("activity") /\ FolBegun(t) /\ UNCHANGED <<folTurns, folSince>>
    BY <1>2, <1>t, FolHintIs DEF FolHearActivity, FolHint
  <2>2. CASE FolDelivers(folState, t, FALSE) /\ FolDeliver(folState, t, FALSE) /\ UNCHANGED <<folShown, folMissed>>
    BY <1>0, <2>1, <2>2, FolDeliverFits, FolHeard DEF FolDelivers
  <2>3. CASE FolTold(t) /\ UNCHANGED <<folShown, folMissed>>
    BY <1>0, <2>1, <2>3, FolUntouched, FolHeard DEF FolTold
  <2>4. CASE FolIgnore
    BY <2>1, <2>4, FolIgnores
  <2> QED  BY <1>2, <1>t, <2>2, <2>3, <2>4 DEF FolHearActivity
<1>3. CASE FolHearCompletion
  <2>1. FolHint("completion") /\ FolOver(t) /\ UNCHANGED <<folTurns, folSince>>
    BY <1>3, <1>t, FolHintIs DEF FolHearCompletion, FolHint
  <2>2. ASSUME NEW failed \in BOOLEAN, FolFinish(folState, t, FALSE, FALSE, failed), UNCHANGED folMissed
        PROVE  FolInv' /\ FolKeeps(folState, folState')
    <3>1. FolWritten
      BY <1>0, <1>k, <2>1, <2>2, FolFinishFits
    <3> QED  BY <1>0, <2>1, <2>2, <3>1, FolHeard
  <2>3. CASE FolIgnore
    BY <2>1, <2>3, FolIgnores
  <2> QED  BY <1>3, <1>t, <2>2, <2>3 DEF FolHearCompletion
<1> QED  BY <1>1, <1>2, <1>3 DEF FolHears

LEMMA FolRetriedKeeps ==
  ASSUME FolInv, NEW t \in FolTurns, FolRetried(t)
  PROVE  FolInv' /\ FolKeeps(folState, folState')
<1>0. FolThreadOK /\ FolFits(folState) /\ folState \in FolStates /\ folRetry \subseteq FolKept(folState)
      /\ UNCHANGED <<folTurns, folSince>>
  BY DEF FolInv, FolFits, FolRestOK, FolRetried
<1>p. PICK p \in folState.kept : \E f \in FolFinals(p[2], t, FALSE, TRUE) :
        /\ p[1] = t
        /\ FolFinalize(p[2], f)
        /\ folState' = IF f.card.finished
                       THEN [folState EXCEPT !.kept = @ \ {p}, !.completed = @ \cup {t}] ELSE folState
  BY DEF FolRetried
<1>1. PICK f \in FolFinals(p[2], t, FALSE, TRUE) :
        /\ p[1] = t
        /\ FolFinalize(p[2], f)
        /\ folState' = IF f.card.finished
                       THEN [folState EXCEPT !.kept = @ \ {p}, !.completed = @ \cup {t}] ELSE folState
  BY <1>p
<1>2. p[2] = t /\ FolOver(t) /\ p = <<t, t>>
  BY <1>0, <1>1 DEF FolFits, FolStates
<1>3. /\ FolCardsOK' /\ FolChatOK' /\ folShown \subseteq folShown' /\ (f.card.finished => FolShows(t)')
      /\ folFaults' \in 0..MaxFolFaults
  <2>1. f \in FolFinals(t, t, FALSE, TRUE) /\ FolFinalize(t, f)
    BY <1>1, <1>2
  <2> QED  BY <1>0, <1>2, <2>1, FolFinalizeFits
<1>r. PICK r : folState' = r
  OBVIOUS
<1>4. ASSUME f.card.finished
      PROVE  FolFits(r) /\ FolKeeps(folState, r) /\ FolDelivered' /\ folRetry' \subseteq FolKept(r)
  <2> DEFINE k == folState.kept \ {p}
             d == folState.completed \cup {t}
  <2>1. k \in SUBSET (FolTurns \X FolTurns) /\ d \in SUBSET FolTurns
    BY <1>0 DEF FolStates
  <2>2. r = [folState EXCEPT !.kept = k, !.completed = d]
    BY <1>1, <1>4, <1>r
  <2>3. FolKept(folState) \ {t} \subseteq {q[1] : q \in k} /\ \A q \in k : q \in folState.kept
    BY <1>2 DEF FolKept
  <2>d. folState.completed \subseteq d /\ t \in d
    OBVIOUS
  <2> HIDE DEF k, d
  <2>4. r \in FolStates
    BY <1>0, <2>1, <2>2 DEF FolStates
  <2>5. r.turn = folState.turn /\ r.card = folState.card /\ r.kept = k /\ r.completed = d /\ r.pending = folState.pending
    BY <1>0, <2>2, <2>4 DEF FolStates
  <2>6. FolFits(r)
    BY <1>0, <2>3, <2>4, <2>5 DEF FolFits
  <2>7. FolKept(folState) \ {t} \subseteq FolKept(r)
    BY <2>3, <2>5 DEF FolKept
  <2>8. FolKeeps(folState, r)
    BY <2>5, <2>7, <2>d DEF FolKeeps, FolHeld
  <2>9. folRetry' \subseteq FolKept(r)
    BY <1>0, <2>7 DEF FolRetried
  <2>10. FolDelivered'
    BY <1>3, <1>4, <1>r, <2>5, FolDeliveredStays DEF FolInv, d
  <2> QED  BY <1>r, <2>6, <2>8, <2>9, <2>10
<1>5. ASSUME ~f.card.finished
      PROVE  FolFits(r) /\ FolKeeps(folState, r) /\ FolDelivered' /\ folRetry' \subseteq FolKept(r)
  <2>1. r = folState
    BY <1>1, <1>5, <1>r
  <2>2. FolDelivered'
    BY <1>3, <1>r, <2>1 DEF FolInv, FolDelivered, FolShows
  <2>3. folRetry' \subseteq FolKept(r)
    BY <1>0, <2>1 DEF FolRetried
  <2> QED  BY <1>0, <1>r, <2>1, <2>2, <2>3 DEF FolKeeps
<1>6. FolFits(r) /\ FolKeeps(folState, r) /\ FolDelivered' /\ folRetry' \subseteq FolKept(r)
  BY <1>4, <1>5
<1>7. UNCHANGED <<folBlocked, folRead, folJob, folHints, folMissed>>
  BY DEF FolRetried
<1>8. FolFits(folState)'
  BY <1>0, <1>6, <1>r, FolFitsOn
<1>9. FolThreadOK' /\ FolReadOK' /\ FolJobOK' /\ FolHintsOK'
  BY <1>0, <1>7, FolSameThread, FolMovedKeeps, FolJobMoves, FolSameHints
<1> QED  BY <1>3, <1>6, <1>7, <1>8, <1>9, <1>r DEF FolInv, FolRestOK

LEMMA FolRestartKeeps ==
  ASSUME FolInv, FolRestart
  PROVE  FolInv' /\ FolKeeps(folState, folState')
<1>1. /\ UNCHANGED <<folTurns, folSince>> /\ folState' = folState /\ folCards' = folCards /\ folShown' = folShown
      /\ folMissed' = folMissed /\ folBlocked' = FALSE /\ folRead' = FolNoRead /\ folJob' = FolNoJob
      /\ folRetry' = {} /\ folHints' = <<>> /\ folFaults' \in 0..MaxFolFaults
  BY FolTurnsAre DEF FolRestart, FolFault, folDurable, FolInv, FolRestOK
<1>2. FolThreadOK' /\ FolFits(folState)' /\ FolCardsOK' /\ FolChatOK' /\ FolDelivered'
  BY <1>1, FolSameThread DEF FolInv, FolFits, FolCardsOK, FolChatOK, FolDelivered, FolShows
<1>3. FolReadOK' /\ FolJobOK'
  BY <1>1, FolReadDropped, FolJobDropped DEF FolInv
<1>4. FolHintsOK'
  BY <1>1 DEF FolHintsOK
<1> QED  BY <1>1, <1>2, <1>3, <1>4 DEF FolInv, FolRestOK, FolKeeps

LEMMA FolInitKeeps == FolInit => FolInv
<1> SUFFICES ASSUME FolInit PROVE FolInv
  OBVIOUS
<1>1. folTurns \in [n: {0, 1}, run: BOOLEAN] /\ (folTurns.run => folTurns.n = 1)
      /\ folSince = IF folTurns.run THEN 0 ELSE folTurns.n
  BY DEF FolInit
<1>2. FolThreadOK
  BY <1>1, FolTurnsAre DEF FolThreadOK, FolView
<1>3. FolFits(folState) /\ FolDelivered
  BY FolTurnsAre DEF FolInit, FolFits, FolDelivered, FolStates
<1>4. FolCardsOK /\ FolChatOK
  BY FolTurnsAre DEF FolInit, FolCardsOK, FolChatOK, FolCard
<1>5. FolReadOK
  <2>1. folRead = FolNoRead
    BY DEF FolInit
  <2> QED  BY <1>2, <2>1, FolNothingSeen, FolNothingIs DEF FolReadOK
<1>6. FolJobOK
  <2>1. folJob = FolNoJob
    BY DEF FolInit
  <2> QED  BY <1>2, <2>1, FolNothingSeen, FolNothingIs DEF FolJobOK
<1>7. FolHintsOK
  <2>1. folHints = <<>>
    BY DEF FolInit
  <2> QED  BY <2>1 DEF FolHintsOK
<1>8. FolRestOK
  <2>1. folBlocked \in BOOLEAN /\ folRetry = {} /\ folMissed = {} /\ folFaults = 0
    BY DEF FolInit
  <2>2. 0 \in 0..MaxFolFaults
    BY FolTurnsAre
  <2> QED  BY <2>1, <2>2 DEF FolRestOK
<1> QED  BY <1>2, <1>3, <1>4, <1>5, <1>6, <1>7, <1>8 DEF FolInv

LEMMA FolStepKeeps ==
  ASSUME FolInv, FolStep
  PROVE  FolInv' /\ FolKeeps(folState, folState')
<1>1. CASE FolThread
  BY <1>1, FolThreadStep
<1>2. CASE FolRefresh \/ FolSynchronize
  BY <1>2, FolStartReadKeeps DEF FolRefresh, FolSynchronize
<1>3. CASE FolObserve \/ FolReadUnloaded \/ FolReadFails
  BY <1>3, FolReadStep, FolApplyKeeps DEF FolObserve
<1>4. CASE FolPending \/ FolAdvance \/ FolHears \/ FolRestart
  BY <1>4, FolPendingStep, FolAdvanceKeeps, FolHearStep, FolRestartKeeps
<1>5. ASSUME NEW t \in FolTurns, FolWork(t) \/ FolRetried(t) PROVE FolInv' /\ FolKeeps(folState, folState')
  BY <1>5, FolWorkStep, FolRetriedKeeps
<1> QED  BY <1>1, <1>2, <1>3, <1>4, <1>5 DEF FolStep

\* Thread, state, cards, snapshots and hints fit together, whatever is read late,
\* told twice, not answered or restarted.
THEOREM FolInvariant == FolSpec => []FolInv
<1>1. FolInv /\ [FolStep]_folVars => FolInv'
  <2> SUFFICES ASSUME FolInv, [FolStep]_folVars PROVE FolInv'
    OBVIOUS
  <2>1. CASE FolStep
    BY <2>1, FolStepKeeps
  <2>2. CASE UNCHANGED folVars
    <3>1. /\ UNCHANGED <<folTurns, folSince, folDurable, folBlocked, folRead, folShown, folFaults>>
          /\ UNCHANGED folJob /\ UNCHANGED folHints /\ UNCHANGED <<folRetry, folMissed>>
      BY <2>2 DEF folVars, folMemory
    <3>2. FolWritten /\ FolJobOK' /\ FolHintsOK'
      BY <3>1, FolUntouched, FolJobMoves, FolSameHints
    <3>3. folState' = folState
      BY <3>1 DEF folDurable
    <3> QED  BY <3>1, <3>2, <3>3, FolWrittenKeeps DEF FolInv, FolRestOK
  <2> QED  BY <2>1, <2>2
<1> QED  BY <1>1, FolInitKeeps, PTL DEF FolSpec

\* A card shows one result and a result has one card; it is of a turn that began
\* while the thread was followed and has ended; what counts as delivered was shown; and
\* a result the hub holds is held until it is delivered.
THEOREM FolShowsRight == FolSpec => FolPromise
<1>1. FolInv /\ [FolStep]_folVars => [FolHeld(folState) \subseteq FolHeld(folState') \cup folState'.completed]_folVars
  BY FolStepKeeps DEF FolKeeps
<1> QED  BY <1>1, FolInvariant, FolInvRight, PTL DEF FolSpec, FolHeldIsKept, FolPromise
===============================================================================
