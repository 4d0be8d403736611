----------------------- MODULE InboundReceiptsProofs -----------------------
(***************************************************************************)
(* Proofs about InboundReceipts for every set of messages and every number *)
(* of failed saves and restarts.                                           *)
(*                                                                         *)
(* The inductive invariant speaks of one message at a time.  What makes it *)
(* inductive is that `disk` may run ahead of `mem` (a save that fails after *)
(* its bytes are durable) and fall back to it (a later compaction), so     *)
(* every fact a restart must find is stated of both.                       *)
(***************************************************************************)
EXTENDS InboundReceipts, TLAPS

Settled == {"accepted", "handled"}

\* Where the handler stands fixes the phase it works on.
HandlerPhase(m) ==
  /\ stage[m] = "preparing" => mem[m].phase = "received"
  /\ stage[m] \in {"submitting", "sent", "refused"} => mem[m].phase = "submitting"
  /\ stage[m] \in {"submitting", "sent", "refused"} => disk[m].phase \in Attempted
  /\ stage[m] \in {"submitting", "refused"} => inflight[m] + turns[m] = 0
  /\ stage[m] = "answered" => mem[m].phase = "accepted"
  /\ m \in claimed => stage[m] = "idle" /\ mem[m].phase = "received"

\* An attempt leaves evidence in memory and in the file.
Evidence(m) ==
  /\ inflight[m] + turns[m] <= 1
  /\ inflight[m] + turns[m] > 0 => mem[m].phase \in Attempted /\ disk[m].phase \in Attempted

\* A settled phase in memory is settled in the file.
SettledOnDisk(m) ==
  /\ mem[m].phase = "handled" => disk[m].phase = "handled"
  /\ mem[m].phase = "accepted" => disk[m].phase \in Settled
  /\ mem[m].phase = "unconfirmed" => disk[m].phase \in Settled \union {"unconfirmed"}

\* A recovered duty exists only for a message no handler works on, and a result
\* a handler delivered never becomes a recovered duty.
Owner(m) ==
  /\ mem[m].recovered => stage[m] = "idle" /\ mem[m].phase \in Settled
  /\ disk[m].recovered => /\ stage[m] = "idle"
                          /\ mem[m].phase \in Attempted
                          /\ disk[m].phase \in Settled
  /\ "live" \in output[m] => /\ mem[m].phase \in Settled /\ ~mem[m].recovered
                             /\ disk[m].phase \in Settled /\ ~disk[m].recovered
                             /\ "recovered" \notin output[m]
  /\ "recovered" \in output[m] => /\ stage[m] = "idle"
                                  /\ mem[m].phase \in Settled
                                  /\ disk[m].phase \in Settled

MessageInv(m) == HandlerPhase(m) /\ Evidence(m) /\ SettledOnDisk(m) /\ Owner(m)

IInv == TypeOK /\ \A m \in Messages : MessageInv(m)

\* What a step about message m may do to the other messages: a compaction may
\* bring their file entry back to memory.
Frame(m) == \A n \in Messages \ {m} :
  /\ mem'[n] = mem[n]
  /\ disk'[n] \in {disk[n], mem[n]}
  /\ stage'[n] = stage[n]
  /\ n \in claimed' <=> n \in claimed
  /\ inflight'[n] = inflight[n]
  /\ turns'[n] = turns[n]
  /\ output'[n] = output[n]

-----------------------------------------------------------------------------
(* Saving.                                                                  *)

\* save() decides only the file entry of its message; the others stay or fall
\* back to memory, and a save that returns normally is durable.
LEMMA SaveEffect ==
  ASSUME TypeOK, NEW m \in Messages, NEW r \in Receipt, NEW ok \in BOOLEAN, Save(m, r, ok)
  PROVE  /\ disk' \in [Messages -> Receipt]
         /\ appendUnavailable' \in BOOLEAN
         /\ faults' \in Nat
         /\ ok => disk'[m] = r
         /\ disk'[m] \in {disk[m], r}
         /\ \A n \in Messages \ {m} : disk'[n] \in {disk[n], mem[n]}
<1>1. faults' \in Nat
  BY DEF TypeOK, Save
<1>2. appendUnavailable' \in BOOLEAN
  BY Zenon DEF TypeOK, Save
<1>3. /\ disk' \in [Messages -> Receipt]
      /\ ok => disk'[m] = r
      /\ disk'[m] \in {disk[m], r}
      /\ \A n \in Messages \ {m} : disk'[n] \in {disk[n], mem[n]}
  BY DEF TypeOK, Save, Appended, Compacted
<1> QED
  BY <1>1, <1>2, <1>3

\* transition() leaves memory at the old or at the saved receipt, never ahead of
\* what it saved.
LEMMA TransitionEffect ==
  ASSUME TypeOK, NEW m \in Messages, NEW r \in Receipt, NEW ok \in BOOLEAN, Transition(m, r, ok)
  PROVE  /\ mem' \in [Messages -> Receipt]
         /\ disk' \in [Messages -> Receipt]
         /\ appendUnavailable' \in BOOLEAN
         /\ faults' \in Nat
         /\ ok => disk'[m] = r /\ mem'[m] = r
         /\ ~ok => mem'[m] = mem[m]
         /\ disk'[m] \in {disk[m], r}
         /\ \A n \in Messages \ {m} : mem'[n] = mem[n] /\ disk'[n] \in {disk[n], mem[n]}
<1>1. Save(m, r, ok)
  BY DEF Transition
<1>2. mem' = IF ok THEN [mem EXCEPT ![m] = r] ELSE mem
  BY DEF Transition
<1> QED
  BY <1>1, <1>2, SaveEffect DEF TypeOK

\* claim() keeps its receipt in memory whether or not the save succeeded.
LEMMA ClaimEffect ==
  ASSUME TypeOK, NEW m \in Messages, NEW ok \in BOOLEAN, ClaimSave(m, ok), Claimable(m)
  PROVE  /\ mem' \in [Messages -> Receipt]
         /\ disk' \in [Messages -> Receipt]
         /\ appendUnavailable' \in BOOLEAN
         /\ faults' \in Nat
         /\ mem'[m].phase = "received"
         /\ mem'[m].recovered = mem[m].recovered \/ ~mem'[m].recovered
         /\ disk'[m] \in {disk[m], mem'[m]}
         /\ \A n \in Messages \ {m} : mem'[n] = mem[n] /\ disk'[n] \in {disk[n], mem[n]}
<1> DEFINE r == ClaimedReceipt(m)
<1>1. r \in Receipt /\ r.phase = "received" /\ (r.recovered = mem[m].recovered \/ ~r.recovered)
  BY DEF TypeOK, ClaimedReceipt, Claimable, Receipt, Absent, Phases, Scopes
<1>2. Save(m, r, ok) /\ mem' = [mem EXCEPT ![m] = r]
  BY DEF ClaimSave
<1> HIDE DEF r
<1>3. mem'[m] = r
  BY <1>2 DEF TypeOK
<1> QED
  BY <1>1, <1>2, <1>3, SaveEffect DEF TypeOK

\* The invariant of a message survives every step about another one.
LEMMA OthersKept ==
  ASSUME IInv, NEW m \in Messages, Frame(m), TypeOK'
  PROVE  \A n \in Messages \ {m} : MessageInv(n)'
  BY DEF IInv, Frame, MessageInv, HandlerPhase, Evidence, SettledOnDisk, Owner, Settled, Attempted

\* The shape of every preservation proof below.
LEMMA StepKeeps ==
  ASSUME IInv, NEW m \in Messages, Frame(m), TypeOK', MessageInv(m)'
  PROVE  IInv'
  BY OthersKept DEF IInv

-----------------------------------------------------------------------------
(* One lemma per action.                                                    *)

\* The submitting mark is written for a received message only, so nothing of it is in flight.
LEMMA SubmittingKeeps ==
  ASSUME IInv, NEW m \in Messages, NEW thread \in BOOLEAN, NEW ok \in BOOLEAN, Submitting(m, thread, ok)
  PROVE  IInv'
<1> DEFINE r == [mem[m] EXCEPT !.scope = ScopeOf(m), !.thread = thread,
                                !.phase = IF @ = "received" THEN "submitting" ELSE @]
<1>0. TypeOK /\ MessageInv(m)
  BY DEF IInv
<1>a. mem[m] \in Receipt /\ ScopeOf(m) \in Scopes /\ (kind[m] # "terminal") \in BOOLEAN /\ (kind[m] = "queue") \in BOOLEAN
  BY <1>0 DEF TypeOK, ScopeOf, Scopes
<1>1. r \in Receipt
  BY <1>a DEF Receipt, Phases
<1>2. Transition(m, r, ok)
  BY DEF Submitting
<1>3. r.phase = "submitting"
  BY <1>0 DEF Submitting, TypeOK, Receipt, MessageInv, HandlerPhase
<1>4. r.recovered = mem[m].recovered
  BY <1>0 DEF TypeOK, Receipt
<1> HIDE DEF r
<1>5. TypeOK'
  BY <1>0, <1>1, <1>2, TransitionEffect DEF Submitting, TypeOK, Goto, Stages, Absent, Receipt, Phases, Scopes
<1>6. Frame(m)
  BY <1>0, <1>1, <1>2, TransitionEffect DEF Submitting, TypeOK, Goto, Frame
<1>b. /\ mem[m].phase = "received" /\ inflight[m] + turns[m] = 0 /\ m \notin claimed
      /\ stage[m] # "idle" /\ ~mem[m].recovered /\ ~disk[m].recovered
      /\ "live" \notin output[m] /\ "recovered" \notin output[m]
  BY <1>0 DEF Submitting, TypeOK, MessageInv, HandlerPhase, Evidence, Owner, Settled, Attempted
<1>c. /\ claimed' = claimed /\ inflight' = inflight /\ turns' = turns /\ output' = output
      /\ stage'[m] = IF ok THEN "submitting" ELSE "threw"
  BY <1>0 DEF Submitting, Goto, TypeOK
<1>d. /\ ok => mem'[m] = r /\ disk'[m] = r
      /\ ~ok => mem'[m] = mem[m] /\ disk'[m] \in {disk[m], r}
  BY <1>0, <1>1, <1>2, TransitionEffect
<1>7. MessageInv(m)'
  <2>1. HandlerPhase(m)'
    BY <1>3, <1>b, <1>c, <1>d DEF HandlerPhase, Attempted
  <2>2. Evidence(m)'
    BY <1>b, <1>c DEF Evidence
  <2>3. SettledOnDisk(m)'
    BY <1>3, <1>b, <1>d DEF SettledOnDisk
  <2>4. Owner(m)'
    BY <1>4, <1>b, <1>c, <1>d DEF Owner
  <2> QED
    BY <2>1, <2>2, <2>3, <2>4 DEF MessageInv
<1> QED
  BY <1>5, <1>6, <1>7, StepKeeps

\* Recording the created thread keeps the submitting phase.
LEMMA ThreadCreatedKeeps ==
  ASSUME IInv, NEW m \in Messages, NEW ok \in BOOLEAN, ThreadCreated(m, ok)
  PROVE  IInv'
<1> DEFINE r == [mem[m] EXCEPT !.thread = TRUE]
<1>0. TypeOK /\ MessageInv(m)
  BY DEF IInv
<1>a. mem[m] \in Receipt /\ ScopeOf(m) \in Scopes /\ (kind[m] # "terminal") \in BOOLEAN /\ (kind[m] = "queue") \in BOOLEAN
  BY <1>0 DEF TypeOK, ScopeOf, Scopes
<1>1. r \in Receipt
  BY <1>a DEF Receipt, Phases
<1>2. Transition(m, r, ok)
  BY DEF ThreadCreated
<1>3. r.phase = mem[m].phase
  BY <1>0 DEF ThreadCreated, TypeOK, Receipt
<1>4. r.recovered = mem[m].recovered
  BY <1>0 DEF TypeOK, Receipt
<1> HIDE DEF r
<1>5. TypeOK'
  BY <1>0, <1>1, <1>2, TransitionEffect DEF ThreadCreated, TypeOK, Goto, Stages, Absent, Receipt, Phases, Scopes
<1>6. Frame(m)
  BY <1>0, <1>1, <1>2, TransitionEffect DEF ThreadCreated, TypeOK, Goto, Frame
<1>7. MessageInv(m)'
  BY <1>0, <1>1, <1>2, <1>3, <1>4, TransitionEffect
     DEF ThreadCreated, TypeOK, Goto, Unsettled, RecoverAdmitted, Processing, Receipt, MessageInv, HandlerPhase, Evidence, SettledOnDisk, Owner, Settled, Attempted
<1> QED
  BY <1>5, <1>6, <1>7, StepKeeps

\* Recording an acceptance.
LEMMA AcceptedKeeps ==
  ASSUME IInv, NEW m \in Messages, NEW ok \in BOOLEAN, Accepted(m, ok)
  PROVE  IInv'
<1> DEFINE r == [mem[m] EXCEPT !.phase = "accepted", !.turn = (kind[m] # "terminal")]
<1>0. TypeOK /\ MessageInv(m)
  BY DEF IInv
<1>a. mem[m] \in Receipt /\ ScopeOf(m) \in Scopes /\ (kind[m] # "terminal") \in BOOLEAN /\ (kind[m] = "queue") \in BOOLEAN
  BY <1>0 DEF TypeOK, ScopeOf, Scopes
<1>1. r \in Receipt
  BY <1>a DEF Receipt, Phases
<1>2. Transition(m, r, ok)
  BY DEF Accepted
<1>3. r.phase = "accepted"
  BY <1>0 DEF Accepted, TypeOK, Receipt
<1>4. r.recovered = mem[m].recovered
  BY <1>0 DEF TypeOK, Receipt
<1> HIDE DEF r
<1>5. TypeOK'
  BY <1>0, <1>1, <1>2, TransitionEffect DEF Accepted, TypeOK, Goto, Stages, Absent, Receipt, Phases, Scopes
<1>6. Frame(m)
  BY <1>0, <1>1, <1>2, TransitionEffect DEF Accepted, TypeOK, Goto, Frame
<1>7. MessageInv(m)'
  BY <1>0, <1>1, <1>2, <1>3, <1>4, TransitionEffect
     DEF Accepted, TypeOK, Goto, Unsettled, RecoverAdmitted, Processing, Receipt, MessageInv, HandlerPhase, Evidence, SettledOnDisk, Owner, Settled, Attempted
<1> QED
  BY <1>5, <1>6, <1>7, StepKeeps

\* The second acceptance save of a completed turn and its live delivery.
LEMMA CompletedKeeps ==
  ASSUME IInv, NEW m \in Messages, NEW ok \in BOOLEAN, Completed(m, ok)
  PROVE  IInv'
<1> DEFINE r == [mem[m] EXCEPT !.phase = "accepted"]
<1>0. TypeOK /\ MessageInv(m)
  BY DEF IInv
<1>a. mem[m] \in Receipt /\ ScopeOf(m) \in Scopes /\ (kind[m] # "terminal") \in BOOLEAN /\ (kind[m] = "queue") \in BOOLEAN
  BY <1>0 DEF TypeOK, ScopeOf, Scopes
<1>1. r \in Receipt
  BY <1>a DEF Receipt, Phases
<1>2. Transition(m, r, ok)
  BY DEF Completed
<1>3. r.phase = "accepted"
  BY <1>0 DEF Completed, TypeOK, Receipt
<1>4. r.recovered = mem[m].recovered
  BY <1>0 DEF TypeOK, Receipt
<1> HIDE DEF r
<1>5. TypeOK'
  BY <1>0, <1>1, <1>2, TransitionEffect DEF Completed, TypeOK, Goto, Stages, Absent, Receipt, Phases, Scopes
<1>6. Frame(m)
  BY <1>0, <1>1, <1>2, TransitionEffect DEF Completed, TypeOK, Goto, Frame
<1>7. MessageInv(m)'
  BY <1>0, <1>1, <1>2, <1>3, <1>4, TransitionEffect
     DEF Completed, TypeOK, Goto, Unsettled, RecoverAdmitted, Processing, Receipt, MessageInv, HandlerPhase, Evidence, SettledOnDisk, Owner, Settled, Attempted
<1> QED
  BY <1>5, <1>6, <1>7, StepKeeps

\* An unconfirmed terminal handoff.
LEMMA RuntimeUnconfirmedKeeps ==
  ASSUME IInv, NEW m \in Messages, NEW ok \in BOOLEAN, RuntimeUnconfirmed(m, ok)
  PROVE  IInv'
<1> DEFINE r == [mem[m] EXCEPT !.phase = "unconfirmed"]
<1>0. TypeOK /\ MessageInv(m)
  BY DEF IInv
<1>a. mem[m] \in Receipt /\ ScopeOf(m) \in Scopes /\ (kind[m] # "terminal") \in BOOLEAN /\ (kind[m] = "queue") \in BOOLEAN
  BY <1>0 DEF TypeOK, ScopeOf, Scopes
<1>1. r \in Receipt
  BY <1>a DEF Receipt, Phases
<1>2. Transition(m, r, ok)
  BY DEF RuntimeUnconfirmed
<1>3. r.phase = "unconfirmed"
  BY <1>0 DEF RuntimeUnconfirmed, TypeOK, Receipt
<1>4. r.recovered = mem[m].recovered
  BY <1>0 DEF TypeOK, Receipt
<1> HIDE DEF r
<1>5. TypeOK'
  BY <1>0, <1>1, <1>2, TransitionEffect DEF RuntimeUnconfirmed, TypeOK, Goto, Stages, Absent, Receipt, Phases, Scopes
<1>6. Frame(m)
  BY <1>0, <1>1, <1>2, TransitionEffect DEF RuntimeUnconfirmed, TypeOK, Goto, Frame
<1>7. MessageInv(m)'
  BY <1>0, <1>1, <1>2, <1>3, <1>4, TransitionEffect
     DEF RuntimeUnconfirmed, TypeOK, Goto, Unsettled, RecoverAdmitted, Processing, Receipt, MessageInv, HandlerPhase, Evidence, SettledOnDisk, Owner, Settled, Attempted
<1> QED
  BY <1>5, <1>6, <1>7, StepKeeps

\* Cancelling a received message.
LEMMA AbandonKeeps ==
  ASSUME IInv, NEW m \in Messages, NEW ok \in BOOLEAN, Abandon(m, ok)
  PROVE  IInv'
<1> DEFINE r == [mem[m] EXCEPT !.phase = "handled"]
<1>0. TypeOK /\ MessageInv(m)
  BY DEF IInv
<1>a. mem[m] \in Receipt /\ ScopeOf(m) \in Scopes /\ (kind[m] # "terminal") \in BOOLEAN /\ (kind[m] = "queue") \in BOOLEAN
  BY <1>0 DEF TypeOK, ScopeOf, Scopes
<1>1. r \in Receipt
  BY <1>a DEF Receipt, Phases
<1>2. Transition(m, r, ok)
  BY DEF Abandon
<1>3. r.phase = "handled"
  BY <1>0 DEF Abandon, TypeOK, Receipt
<1>4. r.recovered = mem[m].recovered
  BY <1>0 DEF TypeOK, Receipt
<1> HIDE DEF r
<1>5. TypeOK'
  BY <1>0, <1>1, <1>2, TransitionEffect DEF Abandon, TypeOK, Goto, Stages, Absent, Receipt, Phases, Scopes
<1>6. Frame(m)
  BY <1>0, <1>1, <1>2, TransitionEffect DEF Abandon, TypeOK, Goto, Frame
<1>7. MessageInv(m)'
  BY <1>0, <1>1, <1>2, <1>3, <1>4, TransitionEffect
     DEF Abandon, TypeOK, Goto, Unsettled, RecoverAdmitted, Processing, Receipt, MessageInv, HandlerPhase, Evidence, SettledOnDisk, Owner, Settled, Attempted
<1> QED
  BY <1>5, <1>6, <1>7, StepKeeps

\* A history read that passes the guard finds no handler at work.
LEMMA RecoverAcceptedKeeps ==
  ASSUME IInv, NEW m \in Messages, NEW ok \in BOOLEAN, RecoverAccepted(m, ok)
  PROVE  IInv'
<1> DEFINE r == [mem[m] EXCEPT !.phase = "accepted", !.turn = TRUE, !.recovered = TRUE]
<1>0. TypeOK /\ MessageInv(m)
  BY DEF IInv
<1>a. mem[m] \in Receipt /\ ScopeOf(m) \in Scopes /\ (kind[m] # "terminal") \in BOOLEAN /\ (kind[m] = "queue") \in BOOLEAN
  BY <1>0 DEF TypeOK, ScopeOf, Scopes
<1>1. r \in Receipt
  BY <1>a DEF Receipt, Phases
<1>2. Transition(m, r, ok)
  BY DEF RecoverAccepted
<1>3. r.phase = "accepted"
  BY <1>0 DEF RecoverAccepted, TypeOK, Receipt
<1>4. r.recovered = TRUE
  BY <1>0 DEF TypeOK, Receipt
<1> HIDE DEF r
<1>5. TypeOK'
  BY <1>0, <1>1, <1>2, TransitionEffect DEF RecoverAccepted, TypeOK, Goto, Stages, Absent, Receipt, Phases, Scopes
<1>6. Frame(m)
  BY <1>0, <1>1, <1>2, TransitionEffect DEF RecoverAccepted, TypeOK, Goto, Frame
<1>7. MessageInv(m)'
  BY <1>0, <1>1, <1>2, <1>3, <1>4, TransitionEffect
     DEF RecoverAccepted, TypeOK, Goto, Unsettled, RecoverAdmitted, Processing, Receipt, MessageInv, HandlerPhase, Evidence, SettledOnDisk, Owner, Settled, Attempted
<1> QED
  BY <1>5, <1>6, <1>7, StepKeeps

\* Acceptance repaired from the queue or the terminal handoff.
LEMMA RecoverOwnedKeeps ==
  ASSUME IInv, NEW m \in Messages, NEW ok \in BOOLEAN, RecoverOwned(m, ok)
  PROVE  IInv'
<1> DEFINE r == [mem[m] EXCEPT !.phase = "accepted", !.turn = (kind[m] = "queue")]
<1>0. TypeOK /\ MessageInv(m)
  BY DEF IInv
<1>a. mem[m] \in Receipt /\ ScopeOf(m) \in Scopes /\ (kind[m] # "terminal") \in BOOLEAN /\ (kind[m] = "queue") \in BOOLEAN
  BY <1>0 DEF TypeOK, ScopeOf, Scopes
<1>1. r \in Receipt
  BY <1>a DEF Receipt, Phases
<1>2. Transition(m, r, ok)
  BY DEF RecoverOwned
<1>3. r.phase = "accepted"
  BY <1>0 DEF RecoverOwned, TypeOK, Receipt
<1>4. r.recovered = mem[m].recovered
  BY <1>0 DEF TypeOK, Receipt
<1> HIDE DEF r
<1>5. TypeOK'
  BY <1>0, <1>1, <1>2, TransitionEffect DEF RecoverOwned, TypeOK, Goto, Stages, Absent, Receipt, Phases, Scopes
<1>6. Frame(m)
  BY <1>0, <1>1, <1>2, TransitionEffect DEF RecoverOwned, TypeOK, Goto, Frame
<1>7. MessageInv(m)'
  BY <1>0, <1>1, <1>2, <1>3, <1>4, TransitionEffect
     DEF RecoverOwned, TypeOK, Goto, Unsettled, RecoverAdmitted, Processing, Receipt, MessageInv, HandlerPhase, Evidence, SettledOnDisk, Owner, Settled, Attempted
<1> QED
  BY <1>5, <1>6, <1>7, StepKeeps

\* Settling a recovered duty.
LEMMA RecoveredResultDeliveredKeeps ==
  ASSUME IInv, NEW m \in Messages, NEW ok \in BOOLEAN, RecoveredResultDelivered(m, ok)
  PROVE  IInv'
<1> DEFINE r == [mem[m] EXCEPT !.phase = "handled"]
<1>0. TypeOK /\ MessageInv(m)
  BY DEF IInv
<1>a. mem[m] \in Receipt /\ ScopeOf(m) \in Scopes /\ (kind[m] # "terminal") \in BOOLEAN /\ (kind[m] = "queue") \in BOOLEAN
  BY <1>0 DEF TypeOK, ScopeOf, Scopes
<1>1. r \in Receipt
  BY <1>a DEF Receipt, Phases
<1>2. Transition(m, r, ok)
  BY DEF RecoveredResultDelivered
<1>3. r.phase = "handled"
  BY <1>0 DEF RecoveredResultDelivered, TypeOK, Receipt
<1>4. r.recovered = mem[m].recovered
  BY <1>0 DEF TypeOK, Receipt
<1> HIDE DEF r
<1>5. TypeOK'
  BY <1>0, <1>1, <1>2, TransitionEffect DEF RecoveredResultDelivered, TypeOK, Goto, Stages, Absent, Receipt, Phases, Scopes
<1>6. Frame(m)
  BY <1>0, <1>1, <1>2, TransitionEffect DEF RecoveredResultDelivered, TypeOK, Goto, Frame
<1>7. MessageInv(m)'
  BY <1>0, <1>1, <1>2, <1>3, <1>4, TransitionEffect
     DEF RecoveredResultDelivered, TypeOK, Goto, Unsettled, RecoverAdmitted, Processing, Receipt, MessageInv, HandlerPhase, Evidence, SettledOnDisk, Owner, Settled, Attempted
<1> QED
  BY <1>5, <1>6, <1>7, StepKeeps

\* Releasing a claim.
LEMMA ReleasePreparationKeeps ==
  ASSUME IInv, NEW m \in Messages, ReleasePreparation(m)
  PROVE  IInv'
<1>0. TypeOK /\ MessageInv(m)
  BY DEF IInv
<1>1. TypeOK'
  BY <1>0 DEF ReleasePreparation, TypeOK, Goto, Stages, Absent, Receipt, Phases, Scopes
<1>2. Frame(m)
  BY <1>0 DEF ReleasePreparation, TypeOK, Goto, Frame
<1>3. MessageInv(m)'
  BY <1>0 DEF ReleasePreparation, TypeOK, Goto, MessageInv, HandlerPhase, Evidence, SettledOnDisk, Owner, Settled, Attempted
<1> QED
  BY <1>1, <1>2, <1>3, StepKeeps

\* The request leaves once: the submitting stage knows of no earlier one.
LEMMA SendKeeps ==
  ASSUME IInv, NEW m \in Messages, Send(m)
  PROVE  IInv'
<1>0. TypeOK /\ MessageInv(m)
  BY DEF IInv
<1>1. TypeOK'
  BY <1>0 DEF Send, TypeOK, Goto, Stages, Absent, Receipt, Phases, Scopes
<1>2. Frame(m)
  BY <1>0 DEF Send, TypeOK, Goto, Frame
<1>3. MessageInv(m)'
  BY <1>0 DEF Send, TypeOK, Goto, MessageInv, HandlerPhase, Evidence, SettledOnDisk, Owner, Settled, Attempted
<1> QED
  BY <1>1, <1>2, <1>3, StepKeeps

\* An acknowledged handler returns.
LEMMA AcknowledgedKeeps ==
  ASSUME IInv, NEW m \in Messages, Acknowledged(m)
  PROVE  IInv'
<1>0. TypeOK /\ MessageInv(m)
  BY DEF IInv
<1>1. TypeOK'
  BY <1>0 DEF Acknowledged, TypeOK, Goto, Stages, Absent, Receipt, Phases, Scopes
<1>2. Frame(m)
  BY <1>0 DEF Acknowledged, TypeOK, Goto, Frame
<1>3. MessageInv(m)'
  BY <1>0 DEF Acknowledged, TypeOK, Goto, MessageInv, HandlerPhase, Evidence, SettledOnDisk, Owner, Settled, Attempted
<1> QED
  BY <1>1, <1>2, <1>3, StepKeeps

\* A handler that returns without an acceptance.
LEMMA AnsweredKeeps ==
  ASSUME IInv, NEW m \in Messages, Answered(m)
  PROVE  IInv'
<1>0. TypeOK /\ MessageInv(m)
  BY DEF IInv
<1>1. TypeOK'
  BY <1>0 DEF Answered, TypeOK, Goto, Stages, Absent, Receipt, Phases, Scopes
<1>2. Frame(m)
  BY <1>0 DEF Answered, TypeOK, Goto, Frame
<1>3. MessageInv(m)'
  BY <1>0 DEF Answered, TypeOK, Goto, MessageInv, HandlerPhase, Evidence, SettledOnDisk, Owner, Settled, Attempted
<1> QED
  BY <1>1, <1>2, <1>3, StepKeeps

\* An error in a handler.
LEMMA ThrowKeeps ==
  ASSUME IInv, NEW m \in Messages, Throw(m)
  PROVE  IInv'
<1>0. TypeOK /\ MessageInv(m)
  BY DEF IInv
<1>1. TypeOK'
  BY <1>0 DEF Throw, TypeOK, Goto, Stages, Absent, Receipt, Phases, Scopes
<1>2. Frame(m)
  BY <1>0 DEF Throw, TypeOK, Goto, Frame
<1>3. MessageInv(m)'
  BY <1>0 DEF Throw, TypeOK, Goto, MessageInv, HandlerPhase, Evidence, SettledOnDisk, Owner, Settled, Attempted
<1> QED
  BY <1>1, <1>2, <1>3, StepKeeps

\* The native core takes a request.
LEMMA NativeApplyKeeps ==
  ASSUME IInv, NEW m \in Messages, NativeApply(m)
  PROVE  IInv'
<1>0. TypeOK /\ MessageInv(m)
  BY DEF IInv
<1>1. TypeOK'
  BY <1>0 DEF NativeApply, TypeOK, Goto, Stages, Absent, Receipt, Phases, Scopes
<1>2. Frame(m)
  BY <1>0 DEF NativeApply, TypeOK, Goto, Frame
<1>3. MessageInv(m)'
  BY <1>0 DEF NativeApply, TypeOK, Goto, MessageInv, HandlerPhase, Evidence, SettledOnDisk, Owner, Settled, Attempted
<1> QED
  BY <1>1, <1>2, <1>3, StepKeeps

\* A request is lost.
LEMMA NativeLoseKeeps ==
  ASSUME IInv, NEW m \in Messages, NativeLose(m)
  PROVE  IInv'
<1>0. TypeOK /\ MessageInv(m)
  BY DEF IInv
<1>1. TypeOK'
  BY <1>0 DEF NativeLose, TypeOK, Goto, Stages, Absent, Receipt, Phases, Scopes
<1>2. Frame(m)
  BY <1>0 DEF NativeLose, TypeOK, Goto, Frame
<1>3. MessageInv(m)'
  BY <1>0 DEF NativeLose, TypeOK, Goto, MessageInv, HandlerPhase, Evidence, SettledOnDisk, Owner, Settled, Attempted
<1> QED
  BY <1>1, <1>2, <1>3, StepKeeps

\* A refused request leaves nothing in flight.
LEMMA NativeRefuseKeeps ==
  ASSUME IInv, NEW m \in Messages, NativeRefuse(m)
  PROVE  IInv'
<1>0. TypeOK /\ MessageInv(m)
  BY DEF IInv
<1>1. TypeOK'
  BY <1>0 DEF NativeRefuse, TypeOK, Goto, Stages, Absent, Receipt, Phases, Scopes
<1>2. Frame(m)
  BY <1>0 DEF NativeRefuse, TypeOK, Goto, Frame
<1>3. MessageInv(m)'
  BY <1>0 DEF NativeRefuse, TypeOK, Goto, MessageInv, HandlerPhase, Evidence, SettledOnDisk, Owner, Settled, Attempted
<1> QED
  BY <1>1, <1>2, <1>3, StepKeeps

\* Starting a history read.
LEMMA ObserveKeeps ==
  ASSUME IInv, NEW m \in Messages, Observe(m)
  PROVE  IInv'
<1>0. TypeOK /\ MessageInv(m)
  BY DEF IInv
<1>1. TypeOK'
  BY <1>0 DEF Observe, TypeOK, Goto, Stages, Absent, Receipt, Phases, Scopes
<1>2. Frame(m)
  BY <1>0 DEF Observe, TypeOK, Goto, Frame
<1>3. MessageInv(m)'
  BY <1>0 DEF Observe, TypeOK, Goto, MessageInv, HandlerPhase, Evidence, SettledOnDisk, Owner, Settled, Attempted
<1> QED
  BY <1>1, <1>2, <1>3, StepKeeps

\* A history read without effect.
LEMMA ObservationEndsKeeps ==
  ASSUME IInv, NEW m \in Messages, ObservationEnds(m)
  PROVE  IInv'
<1>0. TypeOK /\ MessageInv(m)
  BY DEF IInv
<1>1. TypeOK'
  BY <1>0 DEF ObservationEnds, TypeOK, Goto, Stages, Absent, Receipt, Phases, Scopes
<1>2. Frame(m)
  BY <1>0 DEF ObservationEnds, TypeOK, Goto, Frame
<1>3. MessageInv(m)'
  BY <1>0 DEF ObservationEnds, TypeOK, Goto, MessageInv, HandlerPhase, Evidence, SettledOnDisk, Owner, Settled, Attempted
<1> QED
  BY <1>1, <1>2, <1>3, StepKeeps

\* The tombstone of a handler that returned.
LEMMA FinishKeeps ==
  ASSUME IInv, NEW m \in Messages, NEW ok \in BOOLEAN, Finish(m, ok)
  PROVE  IInv'
<1> DEFINE r == [mem[m] EXCEPT !.phase = "handled"]
<1>0. TypeOK /\ MessageInv(m)
  BY DEF IInv
<1>a. mem[m] \in Receipt
  BY <1>0 DEF TypeOK
<1>1. r \in Receipt /\ r.phase = "handled" /\ r.recovered = mem[m].recovered
  BY <1>a DEF Receipt, Phases
<1>2. CASE Transition(m, r, ok) /\ stage[m] = "returned"
  <2> HIDE DEF r
  <2>1. TypeOK'
    BY <1>0, <1>1, <1>2, TransitionEffect DEF Finish, TypeOK, Goto, Stages
  <2>2. Frame(m)
    BY <1>0, <1>1, <1>2, TransitionEffect DEF Finish, TypeOK, Goto, Frame
  <2>3. MessageInv(m)'
    BY <1>0, <1>1, <1>2, TransitionEffect
       DEF Finish, TypeOK, Goto, Receipt, MessageInv, HandlerPhase, Evidence, SettledOnDisk, Owner, Settled, Attempted
  <2> QED
    BY <2>1, <2>2, <2>3, StepKeeps
<1>3. CASE UNCHANGED journalVars /\ ok
  <2>1. TypeOK'
    BY <1>0, <1>3 DEF Finish, TypeOK, Goto, Stages, journalVars
  <2>2. Frame(m)
    BY <1>0, <1>3 DEF Finish, TypeOK, Goto, Frame, journalVars
  <2>3. MessageInv(m)'
    BY <1>0, <1>3 DEF Finish, TypeOK, Goto, journalVars, MessageInv, HandlerPhase, Evidence, SettledOnDisk, Owner, Settled, Attempted
  <2> QED
    BY <2>1, <2>2, <2>3, StepKeeps
<1> QED
  BY <1>2, <1>3 DEF Finish

\* An unknown outcome keeps the evidence.
LEMMA CatchUnknownKeeps ==
  ASSUME IInv, NEW m \in Messages, NEW ok \in BOOLEAN, CatchUnknown(m, ok)
  PROVE  IInv'
<1> DEFINE r == [mem[m] EXCEPT !.phase = "unconfirmed"]
<1>0. TypeOK /\ MessageInv(m)
  BY DEF IInv
<1>a. mem[m] \in Receipt
  BY <1>0 DEF TypeOK
<1>1. r \in Receipt /\ r.phase = "unconfirmed" /\ r.recovered = mem[m].recovered
  BY <1>a DEF Receipt, Phases
<1>2. CASE Transition(m, r, ok) /\ mem[m].phase = "submitting"
  <2> HIDE DEF r
  <2>1. TypeOK'
    BY <1>0, <1>1, <1>2, TransitionEffect DEF CatchUnknown, TypeOK, Goto, Stages
  <2>2. Frame(m)
    BY <1>0, <1>1, <1>2, TransitionEffect DEF CatchUnknown, TypeOK, Goto, Frame
  <2>3. MessageInv(m)'
    BY <1>0, <1>1, <1>2, TransitionEffect
       DEF CatchUnknown, TypeOK, Goto, Receipt, MessageInv, HandlerPhase, Evidence, SettledOnDisk, Owner, Settled, Attempted
  <2> QED
    BY <2>1, <2>2, <2>3, StepKeeps
<1>3. CASE UNCHANGED journalVars /\ ok
  <2>1. TypeOK'
    BY <1>0, <1>3 DEF CatchUnknown, TypeOK, Goto, Stages, journalVars
  <2>2. Frame(m)
    BY <1>0, <1>3 DEF CatchUnknown, TypeOK, Goto, Frame, journalVars
  <2>3. MessageInv(m)'
    BY <1>0, <1>3 DEF CatchUnknown, TypeOK, Goto, journalVars, MessageInv, HandlerPhase, Evidence, SettledOnDisk, Owner, Settled, Attempted
  <2> QED
    BY <2>1, <2>2, <2>3, StepKeeps
<1> QED
  BY <1>2, <1>3 DEF CatchUnknown

\* Only a definite refusal, with nothing in flight, returns to received.
LEMMA CatchDefiniteKeeps ==
  ASSUME IInv, NEW m \in Messages, NEW ok \in BOOLEAN, CatchDefinite(m, ok)
  PROVE  IInv'
<1> DEFINE r == [mem[m] EXCEPT !.phase = "received"]
<1>0. TypeOK /\ MessageInv(m)
  BY DEF IInv
<1>a. mem[m] \in Receipt
  BY <1>0 DEF TypeOK
<1>1. r \in Receipt /\ r.phase = "received" /\ r.recovered = mem[m].recovered
  BY <1>a DEF Receipt, Phases
<1>2. CASE Transition(m, r, ok) /\ mem[m].phase = "submitting"
  <2> HIDE DEF r
  <2>1. TypeOK'
    BY <1>0, <1>1, <1>2, TransitionEffect DEF CatchDefinite, TypeOK, Goto, Stages
  <2>2. Frame(m)
    BY <1>0, <1>1, <1>2, TransitionEffect DEF CatchDefinite, TypeOK, Goto, Frame
  <2>3. MessageInv(m)'
    BY <1>0, <1>1, <1>2, TransitionEffect
       DEF CatchDefinite, TypeOK, Goto, Receipt, MessageInv, HandlerPhase, Evidence, SettledOnDisk, Owner, Settled, Attempted
  <2> QED
    BY <2>1, <2>2, <2>3, StepKeeps
<1>3. CASE UNCHANGED journalVars /\ ok
  <2>1. TypeOK'
    BY <1>0, <1>3 DEF CatchDefinite, TypeOK, Goto, Stages, journalVars
  <2>2. Frame(m)
    BY <1>0, <1>3 DEF CatchDefinite, TypeOK, Goto, Frame, journalVars
  <2>3. MessageInv(m)'
    BY <1>0, <1>3 DEF CatchDefinite, TypeOK, Goto, journalVars, MessageInv, HandlerPhase, Evidence, SettledOnDisk, Owner, Settled, Attempted
  <2> QED
    BY <2>1, <2>2, <2>3, StepKeeps
<1> QED
  BY <1>2, <1>3 DEF CatchDefinite

\* Claiming concerns a message of which nothing is in flight.
LEMMA ClaimKeeps ==
  ASSUME IInv, NEW m \in Messages, NEW ok \in BOOLEAN, Claim(m, ok)
  PROVE  IInv'
<1>0. TypeOK /\ MessageInv(m) /\ Claimable(m) /\ ClaimSave(m, ok)
  BY DEF IInv, Claim
<1>1. TypeOK'
  BY <1>0, ClaimEffect DEF Claim, TypeOK
<1>2. Frame(m)
  BY <1>0, ClaimEffect DEF Claim, TypeOK, Frame
<1>3. MessageInv(m)'
  BY <1>0, ClaimEffect
     DEF Claim, Claimable, Processing, TypeOK, Receipt, MessageInv, HandlerPhase, Evidence, SettledOnDisk, Owner, Settled, Attempted
<1> QED
  BY <1>1, <1>2, <1>3, StepKeeps

\* A handler starts on a received message only.
LEMMA HandleKeeps ==
  ASSUME IInv, NEW m \in Messages, NEW ok \in BOOLEAN, Handle(m, ok)
  PROVE  IInv'
<1>0. TypeOK /\ MessageInv(m)
  BY DEF IInv
<1>1. CASE m \in claimed /\ ok /\ UNCHANGED <<mem, disk, appendUnavailable, faults>>
  <2>1. TypeOK'
    BY <1>0, <1>1 DEF Handle, TypeOK, Stages
  <2>2. Frame(m)
    BY <1>0, <1>1 DEF Handle, TypeOK, Frame
  <2>3. MessageInv(m)'
    BY <1>0, <1>1 DEF Handle, Processing, TypeOK, MessageInv, HandlerPhase, Evidence, SettledOnDisk, Owner, Settled, Attempted
  <2> QED
    BY <2>1, <2>2, <2>3, StepKeeps
<1>2. CASE Claimable(m) /\ ClaimSave(m, ok)
  <2>1. TypeOK'
    BY <1>0, <1>2, ClaimEffect DEF Handle, TypeOK, Stages
  <2>2. Frame(m)
    BY <1>0, <1>2, ClaimEffect DEF Handle, TypeOK, Frame
  <2>3. MessageInv(m)'
    BY <1>0, <1>2, ClaimEffect
       DEF Handle, Claimable, Processing, TypeOK, Receipt, MessageInv, HandlerPhase, Evidence, SettledOnDisk, Owner, Settled, Attempted
  <2> QED
    BY <2>1, <2>2, <2>3, StepKeeps
<1> QED
  BY <1>1, <1>2 DEF Handle

\* A restart trusts the file alone.
LEMMA RestartKeeps ==
  ASSUME IInv, Restart
  PROVE  IInv'
<1>0. Absent \in Receipt /\ [Absent EXCEPT !.phase = "handled"] \in Receipt
  BY DEF Absent, Receipt, Phases, Scopes
<1>a. Loaded(disk) \in [Messages -> Receipt]
  BY <1>0 DEF IInv, TypeOK, Loaded
<1>b. expected' \in [Messages -> Receipt]
  BY <1>0 DEF Restart
<1>c. stage' \in [Messages -> Stages] /\ faults' \in Nat
  BY DEF IInv, Restart, TypeOK, Stages
<1>1. TypeOK'
  BY <1>a, <1>b, <1>c DEF IInv, Restart, TypeOK
<1>2. ASSUME NEW m \in Messages PROVE MessageInv(m)'
  <2>1. TypeOK /\ MessageInv(m)
    BY DEF IInv
  <2> QED
    BY <2>1 DEF Restart, TypeOK, Loaded, Absent, Receipt, MessageInv, HandlerPhase, Evidence, SettledOnDisk, Owner, Settled, Attempted
<1> QED
  BY <1>1, <1>2 DEF IInv

-----------------------------------------------------------------------------

\* The first start satisfies the invariant.
LEMMA InitIInv == Init => IInv
<1> SUFFICES ASSUME Init PROVE IInv
  OBVIOUS
<1>1. TypeOK
  BY DEF Init, TypeOK, Loaded, Stages, Absent, Receipt, Phases, Scopes
<1>2. ASSUME NEW m \in Messages PROVE MessageInv(m)
  BY DEF Init, Loaded, Absent, MessageInv, HandlerPhase, Evidence, SettledOnDisk, Owner, Settled, Attempted
<1> QED
  BY <1>1, <1>2 DEF IInv

\* Every step preserves the invariant.
LEMMA NextIInv == IInv /\ [Next]_vars => IInv'
<1> SUFFICES ASSUME IInv, [Next]_vars PROVE IInv'
  OBVIOUS
<1>1. CASE UNCHANGED vars
  BY <1>1 DEF vars, IInv, TypeOK, MessageInv, HandlerPhase, Evidence, SettledOnDisk, Owner
<1>2. CASE Restart
  BY <1>2, RestartKeeps
<1>3. ASSUME NEW m \in Messages, SourceStep(m) PROVE IInv'
  BY <1>3, ReleasePreparationKeeps, ClaimKeeps, HandleKeeps, AbandonKeeps DEF SourceStep
<1>4. ASSUME NEW m \in Messages, HandlerStep(m) PROVE IInv'
  BY <1>4, SendKeeps, AcknowledgedKeeps, AnsweredKeeps, ThrowKeeps, SubmittingKeeps, ThreadCreatedKeeps,
     AcceptedKeeps, CompletedKeeps, FinishKeeps, RuntimeUnconfirmedKeeps, CatchUnknownKeeps, CatchDefiniteKeeps
     DEF HandlerStep
<1>5. ASSUME NEW m \in Messages, NativeStep(m) PROVE IInv'
  BY <1>5, NativeApplyKeeps, NativeLoseKeeps, NativeRefuseKeeps DEF NativeStep
<1>6. ASSUME NEW m \in Messages, RecoveryStep(m) PROVE IInv'
  BY <1>6, ObserveKeeps, ObservationEndsKeeps, RecoverAcceptedKeeps, RecoverOwnedKeeps, RecoveredResultDeliveredKeeps
     DEF RecoveryStep
<1> QED
  BY <1>1, <1>2, <1>3, <1>4, <1>5, <1>6 DEF Next

\* The invariant holds in every reachable state.
THEOREM Invariance == Spec => []IInv
  BY InitIInv, NextIInv, PTL DEF Spec

\* Type correctness of the journal and its handlers.
THEOREM TypeCorrect == Spec => []TypeOK
<1>1. IInv => TypeOK
  BY DEF IInv
<1> QED
  BY Invariance, <1>1, PTL

\* handle(), claim() and the recovery paths submit a source message to the native
\* core at most once.
THEOREM NativeOnceHolds == Spec => []NativeOnce
<1>1. IInv => NativeOnce
  BY DEF IInv, MessageInv, Evidence, NativeOnce
<1> QED
  BY Invariance, <1>1, PTL

\* The file a restart reads holds evidence of every attempt.
THEOREM AttemptIsDurableHolds == Spec => []AttemptIsDurable
<1>1. IInv => AttemptIsDurable
  BY DEF IInv, MessageInv, Evidence, AttemptIsDurable
<1> QED
  BY Invariance, <1>1, PTL

\* transition() and claim() never leave memory stronger than the file.
THEOREM MemoryNotStrongerHolds == Spec => []MemoryNotStronger
<1>1. IInv => MemoryNotStronger
  BY DEF IInv, MessageInv, SettledOnDisk, Settled, MemoryNotStronger
<1> QED
  BY Invariance, <1>1, PTL

\* What the receipt file says is sound through every save(), compact() and restart.
THEOREM JournalSound == Spec => []JournalIsSound
<1>1. TypeOK /\ AttemptIsDurable /\ MemoryNotStronger => JournalIsSound
  BY DEF JournalIsSound
<1> QED
  BY TypeCorrect, AttemptIsDurableHolds, MemoryNotStrongerHolds, <1>1, PTL

\* The live handler and recoverAccepted() never both own a result.
THEOREM OneResultOwnerHolds == Spec => []OneResultOwner
<1>1. IInv => OneResultOwner
  BY DEF IInv, MessageInv, Owner, OneResultOwner
<1> QED
  BY Invariance, <1>1, PTL
-----------------------------------------------------------------------------
(* A settled receipt stays settled.                                         *)

\* What AcceptedIsFinal asks of the receipt of one message.
StaysFinal(m) ==
  /\ mem[m].phase = "accepted" => mem'[m].phase \in {"accepted", "handled"}
  /\ mem[m].phase = "handled" => mem'[m].phase = "handled"

\* A step about m leaves the receipts of the other messages alone, so only its own counts.
LEMMA FinalByOne ==
  ASSUME NEW m \in Messages, StaysFinal(m), \A n \in Messages \ {m} : mem'[n] = mem[n]
  PROVE  \A n \in Messages : StaysFinal(n)
BY DEF StaysFinal

\* A transition whose receipt respects a settled phase respects it whether or not the
\* save succeeds.
LEMMA FinalTransition ==
  ASSUME TypeOK, NEW m \in Messages, NEW r \in Receipt, NEW ok \in BOOLEAN, Transition(m, r, ok),
         mem[m].phase = "accepted" => r.phase \in {"accepted", "handled"},
         mem[m].phase = "handled" => r.phase = "handled"
  PROVE  \A n \in Messages : StaysFinal(n)
<1>1. StaysFinal(m)
  BY TransitionEffect DEF StaysFinal
<1>2. \A n \in Messages \ {m} : mem'[n] = mem[n]
  BY TransitionEffect
<1> QED  BY <1>1, <1>2, FinalByOne

\* claim(), handle() and abandon() touch a receipt that is absent or received.
LEMMA SourceFinal ==
  ASSUME IInv, NEW m \in Messages, SourceStep(m)
  PROVE  \A n \in Messages : StaysFinal(n)
<1>0. TypeOK /\ mem[m] \in Receipt
  BY DEF IInv, TypeOK
<1>1. CASE ReleasePreparation(m)
  BY <1>1 DEF ReleasePreparation, StaysFinal
<1>2. ASSUME NEW ok \in BOOLEAN, ClaimSave(m, ok), Claimable(m) PROVE \A n \in Messages : StaysFinal(n)
  <2>1. \A n \in Messages \ {m} : mem'[n] = mem[n]
    BY <1>0, <1>2, ClaimEffect
  <2>2. StaysFinal(m)
    BY <1>2 DEF Claimable, StaysFinal
  <2> QED  BY <2>1, <2>2, FinalByOne
<1>3. ASSUME NEW ok \in BOOLEAN, Abandon(m, ok) PROVE \A n \in Messages : StaysFinal(n)
  <2> DEFINE r == [mem[m] EXCEPT !.phase = "handled"]
  <2>1. Transition(m, r, ok) /\ mem[m].phase = "received"
    BY <1>3 DEF Abandon
  <2>2. r \in Receipt
    BY <1>0 DEF Receipt, Phases
  <2> HIDE DEF r
  <2> QED  BY <1>0, <2>1, <2>2, FinalTransition
<1>4. ASSUME NEW ok \in BOOLEAN, Handle(m, ok) PROVE \A n \in Messages : StaysFinal(n)
  <2>1. CASE UNCHANGED mem
    BY <2>1 DEF StaysFinal
  <2>2. CASE Claimable(m) /\ ClaimSave(m, ok)
    BY <1>2, <2>2
  <2> QED  BY <1>4, <2>1, <2>2 DEF Handle
<1> QED  BY <1>1, <1>2, <1>3, <1>4 DEF SourceStep, Claim

\* The handler marks, accepts or catches a receipt only from the phase its stage
\* fixes; handle() after a normal return ends every phase in handled.
LEMMA HandlerFinal ==
  ASSUME IInv, NEW m \in Messages, HandlerStep(m)
  PROVE  \A n \in Messages : StaysFinal(n)
<1>0. TypeOK /\ mem[m] \in Receipt /\ HandlerPhase(m) /\ ScopeOf(m) \in Scopes /\ (kind[m] # "terminal") \in BOOLEAN
  BY DEF IInv, TypeOK, MessageInv, ScopeOf, Scopes
<1>1. CASE Send(m) \/ Acknowledged(m) \/ Answered(m) \/ Throw(m)
  BY <1>1 DEF Send, Acknowledged, Answered, Throw, StaysFinal
<1>2. ASSUME NEW ok \in BOOLEAN, NEW thread \in BOOLEAN, Submitting(m, thread, ok) PROVE \A n \in Messages : StaysFinal(n)
  <2> DEFINE r == [mem[m] EXCEPT !.scope = ScopeOf(m), !.thread = thread,
                                  !.phase = IF @ = "received" THEN "submitting" ELSE @]
  <2>1. Transition(m, r, ok) /\ mem[m].phase = "received"
    BY <1>0, <1>2 DEF Submitting, HandlerPhase
  <2>2. r \in Receipt
    BY <1>0 DEF Receipt, Phases
  <2> HIDE DEF r
  <2> QED  BY <1>0, <2>1, <2>2, FinalTransition
<1>3. ASSUME NEW ok \in BOOLEAN, ThreadCreated(m, ok) PROVE \A n \in Messages : StaysFinal(n)
  <2> DEFINE r == [mem[m] EXCEPT !.thread = TRUE]
  <2>1. Transition(m, r, ok) /\ mem[m].phase = "submitting"
    BY <1>0, <1>3 DEF ThreadCreated, HandlerPhase
  <2>2. r \in Receipt
    BY <1>0 DEF Receipt, Phases
  <2> HIDE DEF r
  <2> QED  BY <1>0, <2>1, <2>2, FinalTransition
<1>4. ASSUME NEW ok \in BOOLEAN, Accepted(m, ok) PROVE \A n \in Messages : StaysFinal(n)
  <2> DEFINE r == [mem[m] EXCEPT !.phase = "accepted", !.turn = (kind[m] # "terminal")]
  <2>1. Transition(m, r, ok) /\ mem[m].phase = "submitting"
    BY <1>0, <1>4 DEF Accepted, HandlerPhase
  <2>2. r \in Receipt
    BY <1>0 DEF Receipt, Phases
  <2> HIDE DEF r
  <2> QED  BY <1>0, <2>1, <2>2, FinalTransition
<1>5. ASSUME NEW ok \in BOOLEAN, Completed(m, ok) PROVE \A n \in Messages : StaysFinal(n)
  <2> DEFINE r == [mem[m] EXCEPT !.phase = "accepted"]
  <2>1. Transition(m, r, ok) /\ mem[m].phase = "accepted"
    BY <1>0, <1>5 DEF Completed, HandlerPhase
  <2>2. r \in Receipt /\ r.phase = "accepted"
    BY <1>0 DEF Receipt, Phases
  <2> HIDE DEF r
  <2> QED  BY <1>0, <2>1, <2>2, FinalTransition
<1>6. ASSUME NEW ok \in BOOLEAN, Finish(m, ok) PROVE \A n \in Messages : StaysFinal(n)
  <2> DEFINE r == [mem[m] EXCEPT !.phase = "handled"]
  <2>1. CASE UNCHANGED journalVars
    BY <2>1 DEF journalVars, StaysFinal
  <2>2. CASE Transition(m, r, ok)
    <3>1. r \in Receipt /\ r.phase = "handled"
      BY <1>0 DEF Receipt, Phases
    <3> HIDE DEF r
    <3> QED  BY <1>0, <2>2, <3>1, FinalTransition
  <2> QED  BY <1>6, <2>1, <2>2 DEF Finish
<1>7. ASSUME NEW ok \in BOOLEAN, RuntimeUnconfirmed(m, ok) PROVE \A n \in Messages : StaysFinal(n)
  <2> DEFINE r == [mem[m] EXCEPT !.phase = "unconfirmed"]
  <2>1. Transition(m, r, ok) /\ mem[m].phase = "submitting"
    BY <1>0, <1>7 DEF RuntimeUnconfirmed, HandlerPhase
  <2>2. r \in Receipt
    BY <1>0 DEF Receipt, Phases
  <2> HIDE DEF r
  <2> QED  BY <1>0, <2>1, <2>2, FinalTransition
<1>8. ASSUME NEW ok \in BOOLEAN, CatchUnknown(m, ok) \/ CatchDefinite(m, ok) PROVE \A n \in Messages : StaysFinal(n)
  <2> DEFINE r(p) == [mem[m] EXCEPT !.phase = p]
  <2>1. CASE UNCHANGED journalVars
    BY <2>1 DEF journalVars, StaysFinal
  <2>2. ASSUME NEW p \in {"unconfirmed", "received"}, Transition(m, r(p), ok), mem[m].phase = "submitting"
        PROVE  \A n \in Messages : StaysFinal(n)
    <3>1. r(p) \in Receipt
      BY <1>0 DEF Receipt, Phases
    <3> HIDE DEF r
    <3> QED  BY <1>0, <2>2, <3>1, FinalTransition
  <2> QED  BY <1>8, <2>1, <2>2 DEF CatchUnknown, CatchDefinite
<1> QED  BY <1>1, <1>2, <1>3, <1>4, <1>5, <1>6, <1>7, <1>8 DEF HandlerStep

\* A late history read acts only on an unsettled receipt, and a delivered recovered
\* result turns an acceptance into handled.
LEMMA RecoveryFinal ==
  ASSUME IInv, NEW m \in Messages, RecoveryStep(m)
  PROVE  \A n \in Messages : StaysFinal(n)
<1>0. TypeOK /\ mem[m] \in Receipt /\ (kind[m] = "queue") \in BOOLEAN
  BY DEF IInv, TypeOK
<1>1. CASE Observe(m) \/ ObservationEnds(m)
  BY <1>1 DEF Observe, ObservationEnds, StaysFinal
<1>2. ASSUME NEW ok \in BOOLEAN, RecoverAccepted(m, ok) PROVE \A n \in Messages : StaysFinal(n)
  <2> DEFINE r == [mem[m] EXCEPT !.phase = "accepted", !.turn = TRUE, !.recovered = TRUE]
  <2>1. Transition(m, r, ok) /\ mem[m].phase \notin {"accepted", "handled"}
    BY <1>2 DEF RecoverAccepted, RecoverAdmitted, Unsettled
  <2>2. r \in Receipt
    BY <1>0 DEF Receipt, Phases
  <2> HIDE DEF r
  <2> QED  BY <1>0, <2>1, <2>2, FinalTransition
<1>3. ASSUME NEW ok \in BOOLEAN, RecoverOwned(m, ok) PROVE \A n \in Messages : StaysFinal(n)
  <2> DEFINE r == [mem[m] EXCEPT !.phase = "accepted", !.turn = (kind[m] = "queue")]
  <2>1. Transition(m, r, ok) /\ mem[m].phase \notin {"accepted", "handled"}
    BY <1>3 DEF RecoverOwned, Unsettled
  <2>2. r \in Receipt
    BY <1>0 DEF Receipt, Phases
  <2> HIDE DEF r
  <2> QED  BY <1>0, <2>1, <2>2, FinalTransition
<1>4. ASSUME NEW ok \in BOOLEAN, RecoveredResultDelivered(m, ok) PROVE \A n \in Messages : StaysFinal(n)
  <2> DEFINE r == [mem[m] EXCEPT !.phase = "handled"]
  <2>1. Transition(m, r, ok)
    BY <1>4 DEF RecoveredResultDelivered
  <2>2. r \in Receipt /\ r.phase = "handled"
    BY <1>0 DEF Receipt, Phases
  <2> HIDE DEF r
  <2> QED  BY <1>0, <2>1, <2>2, FinalTransition
<1> QED  BY <1>1, <1>2, <1>3, <1>4 DEF RecoveryStep

\* A restart reads back a file that is at least as settled as memory was.
LEMMA RestartFinal ==
  ASSUME IInv, Restart
  PROVE  \A n \in Messages : StaysFinal(n)
<1> SUFFICES ASSUME NEW n \in Messages PROVE StaysFinal(n)
  OBVIOUS
<1>1. SettledOnDisk(n)
  BY DEF IInv, MessageInv
<1>2. mem'[n] = IF n \in Legacy /\ disk[n].phase = "absent" THEN [Absent EXCEPT !.phase = "handled"] ELSE disk[n]
  BY DEF Restart, Loaded
<1> QED  BY <1>1, <1>2 DEF SettledOnDisk, Settled, StaysFinal

\* One step keeps every settled receipt settled.
LEMMA StepFinal ==
  ASSUME IInv, [Next]_vars
  PROVE  \A n \in Messages : StaysFinal(n)
<1>1. CASE UNCHANGED vars
  BY <1>1 DEF vars, StaysFinal
<1>2. CASE Restart
  BY <1>2, RestartFinal
<1>3. ASSUME NEW m \in Messages, NativeStep(m) PROVE \A n \in Messages : StaysFinal(n)
  BY <1>3 DEF NativeStep, NativeApply, NativeLose, NativeRefuse, StaysFinal
<1> QED  BY <1>1, <1>2, <1>3, SourceFinal, HandlerFinal, RecoveryFinal DEF Next

\* No late error, redelivery, recovery, failed save or restart reopens a receipt that
\* was accepted or handled.
THEOREM AcceptedStaysFinal == Spec => AcceptedIsFinal
<1>1. IInv /\ [Next]_vars =>
        [\A m \in Messages :
           /\ mem[m].phase = "accepted" => mem'[m].phase \in {"accepted", "handled"}
           /\ mem[m].phase = "handled" => mem'[m].phase = "handled"]_vars
  BY StepFinal DEF StaysFinal
<1> QED  BY Invariance, <1>1, PTL DEF Spec, AcceptedIsFinal
=============================================================================
