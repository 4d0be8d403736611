----------------------------- MODULE PromptBuffer -----------------------------
(***************************************************************************)
(* The messages one conversation collects before it submits them together:  *)
(* src/bridge/prompt-buffer.ts with its callers in src/bridge/service.ts.   *)
(*                                                                         *)
(* Every change is saved before memory changes.  A submission takes the     *)
(* buffer through preparing (files are staged, nothing has left) and        *)
(* submitting (the intent is on disk, Codex may have the input), and hands  *)
(* it back or deletes it by its submission number, long after: in between   *)
(* the user may cancel and open another, the conversation may be bound to   *)
(* another session, and the process may die.                                *)
(*                                                                         *)
(* The buffer belongs to the service of an account.  Stopping and starting  *)
(* the account makes a new service with a new PromptBuffer, which reads the *)
(* file; handlers of the old one that still run keep the old PromptBuffer.  *)
(***************************************************************************)
EXTENDS Naturals, FiniteSets

CONSTANTS BufItems,       \* the messages, each with its own source identity
          MaxBufOwners,   \* bound: services the account has had
          MaxBatches,     \* bound: submissions begun
          MaxBufScopes,   \* bound: bindings of the conversation
          MaxBufFaults    \* bound: failed saves and crashes

ASSUME BufAssumption ==
  /\ IsFiniteSet(BufItems)
  /\ MaxBufOwners \in Nat \ {0} /\ MaxBatches \in Nat \ {0} /\ MaxBufScopes \in Nat
  /\ MaxBufFaults \in Nat

VARIABLES
  bufFile,     \* prompt-buffers.json, for this conversation
  bufMem,      \* PromptBuffer.buffers of every service, for this conversation
  bufLive,     \* the service in use; earlier ones are suspended
  bufScope,    \* the binding of the conversation (promptBufferScope)
  batch,       \* the submissions
  bufHeld,     \* history: messages the user was told are in the buffer, not dropped since
  bufUnder,    \* history: the binding each message was collected under
  overtaken,   \* history: a suspended service has saved its own copy
  bufFaults    \* failures so far

bufVars == <<bufFile, bufMem, bufLive, bufScope, batch, bufHeld, bufUnder, overtaken, bufFaults>>

BufOwners == 1..MaxBufOwners
Batches == 1..MaxBatches

\* items stands for the contents and for the sources they came from.
BufRow == [phase : {"absent", "collecting", "preparing", "submitting"},
           items : SUBSET BufItems, scope : Nat, id : Nat]

NoBuffer == [phase |-> "absent", items |-> {}, scope |-> 0, id |-> 0]

\* A submission, as far as it has come; wrote: Codex took the input, under it.
Batch == [at : {"unused", "preparing", "entered", "written", "over"}, by : Nat,
          items : SUBSET BufItems, scope : Nat, wrote : BOOLEAN, under : Nat]

BufInit ==
  /\ bufFile = NoBuffer
  /\ bufMem = [o \in BufOwners |-> NoBuffer]
  /\ bufLive = 1
  /\ bufScope = 1
  /\ batch = [s \in Batches |-> [at |-> "unused", by |-> 0, items |-> {}, scope |-> 0,
                                 wrote |-> FALSE, under |-> 0]]
  /\ bufHeld = {}
  /\ bufUnder = [i \in BufItems |-> 0]
  /\ overtaken = FALSE
  /\ bufFaults = 0

-----------------------------------------------------------------------------
BufFault == bufFaults < MaxBufFaults /\ bufFaults' = bufFaults + 1

\* mutate() in service o: a save that throws leaves memory, and the file as it
\* was or, when only the last flush failed, replaced.
BufSaved(o, row) ==
  /\ bufMem' = [bufMem EXCEPT ![o] = row]
  /\ bufFile' = row
  /\ overtaken' = (overtaken \/ o # bufLive)
  /\ UNCHANGED bufFaults

BufUnsaved(o, rows) ==
  /\ BufFault
  /\ bufFile' \in {bufFile} \cup rows
  /\ overtaken' = (overtaken \/ (o # bufLive /\ bufFile' # bufFile))
  /\ UNCHANGED bufMem

BufUnchanged == UNCHANGED <<bufMem, bufFile, overtaken, bufFaults>>

BufMine == bufMem[bufLive]

\* deliver() of the inbox keeps the messages of a conversation and its /prompt
\* commands in order: none is handled while a submission under the same binding
\* still is (a suspended service's included: the inbox outlives it).
BufInTurn == \A s \in Batches :
  batch[s].at \in {"preparing", "entered", "written"} => batch[s].scope # bufScope

\* isActive(), and expire() before any other call: a buffer left alone too long
\* is dropped while it is collecting, and only then.
BufExpire ==
  /\ BufMine.phase = "collecting"
  /\ bufHeld' = bufHeld \ BufMine.items
  /\ BufSaved(bufLive, NoBuffer) \/ BufUnsaved(bufLive, {NoBuffer})
  /\ UNCHANGED <<bufLive, bufScope, batch, bufUnder>>

\* start(), when there is no buffer, or an expired one that is dropped first.
BufStart ==
  LET row == [NoBuffer EXCEPT !.phase = "collecting", !.scope = bufScope]
  IN /\ BufInTurn
     /\ BufMine.phase \in {"absent", "collecting"}
     /\ bufHeld' = bufHeld \ BufMine.items
     /\ \/ BufSaved(bufLive, row)
        \/ BufUnsaved(bufLive, IF BufMine.phase = "absent" THEN {row} ELSE {NoBuffer})
        \/ /\ BufMine.phase = "collecting"
           /\ BufFault
           /\ bufMem' = [bufMem EXCEPT ![bufLive] = NoBuffer]
           /\ bufFile' \in {NoBuffer, row}
           /\ UNCHANGED overtaken
     /\ UNCHANGED <<bufLive, bufScope, batch, bufUnder>>

\* appendBatch() of a message not seen before, under the binding of the buffer.
BufAppend(i) ==
  LET row == [BufMine EXCEPT !.items = @ \cup {i}]
  IN /\ BufInTurn
     /\ BufMine.phase = "collecting" /\ BufMine.scope = bufScope
     /\ bufUnder[i] = 0
     /\ \/ BufSaved(bufLive, row) /\ bufHeld' = bufHeld \cup {i}
        \/ BufUnsaved(bufLive, {row}) /\ UNCHANGED bufHeld
     /\ bufUnder' = [bufUnder EXCEPT ![i] = bufScope]
     /\ UNCHANGED <<bufLive, bufScope, batch>>

\* cancel(), by the user or by clearConversationBindingState().
BufDrop ==
  /\ BufMine.phase # "absent"
  /\ bufHeld' = bufHeld \ BufMine.items
  /\ BufSaved(bufLive, NoBuffer) \/ BufUnsaved(bufLive, {NoBuffer})

BufCancel == BufDrop /\ UNCHANGED <<bufLive, bufScope, batch, bufUnder>>

\* The conversation gets another binding; some of the ways to it cancel the buffer.
BufRebind ==
  /\ bufScope < MaxBufScopes
  /\ bufScope' = bufScope + 1
  /\ \/ BufDrop
     \/ BufUnchanged /\ UNCHANGED bufHeld
  /\ UNCHANGED <<bufLive, batch, bufUnder>>

\* mutate() saves the buffers of all conversations: a change for another one
\* writes what service o has in memory for this one.
BufElsewhere(o) ==
  /\ o <= bufLive
  /\ bufFile # bufMem[o]
  /\ bufFile' = bufMem[o]
  /\ overtaken' = (overtaken \/ o # bufLive)
  /\ UNCHANGED <<bufMem, bufLive, bufScope, batch, bufHeld, bufUnder, bufFaults>>

-----------------------------------------------------------------------------
(* A submission.                                                           *)

\* Mutant: whatever buffer is there now is settled.
BufSettleAny(o, s, accepted) ==
  LET row == IF accepted THEN NoBuffer
             ELSE [bufMem[o] EXCEPT !.phase = "collecting", !.id = 0]
  IN IF bufMem[o].phase = "absent" THEN BufUnchanged
     ELSE BufSaved(o, row) \/ BufUnsaved(o, {row})

\* settle(): only the buffer this submission was begun with.
BufSettle(o, s, accepted) ==
  LET row == IF accepted THEN NoBuffer
             ELSE [bufMem[o] EXCEPT !.phase = "collecting", !.id = 0]
  IN IF bufMem[o].id # s THEN BufUnchanged
     ELSE BufSaved(o, row) \/ BufUnsaved(o, {row})

BatchAt(s, place) == batch' = [batch EXCEPT ![s].at = place]

\* begin() for /prompt done: an empty buffer is dropped.
BufBegin(s) ==
  LET row == [BufMine EXCEPT !.phase = "preparing", !.id = s]
  IN /\ batch[s].at = "unused" /\ \A r \in 1..s-1 : batch[r].at # "unused"
     /\ BufInTurn
     /\ BufMine.phase = "collecting" /\ BufMine.scope = bufScope
     /\ \/ /\ BufMine.items = {}
           /\ BufSaved(bufLive, NoBuffer) \/ BufUnsaved(bufLive, {NoBuffer})
           /\ UNCHANGED batch
        \/ /\ BufMine.items # {}
           /\ BufSaved(bufLive, row)
           /\ batch' = [batch EXCEPT ![s] =
                [@ EXCEPT !.at = "preparing", !.by = bufLive, !.items = row.items,
                          !.scope = bufScope]]
        \/ /\ BufMine.items # {}
           /\ BufUnsaved(bufLive, {row})
           /\ UNCHANGED batch
     /\ UNCHANGED <<bufLive, bufScope, bufHeld, bufUnder>>

\* stillBound() and assertInputCurrent(): the service is in use, the binding the one
\* that the handler began with.
BatchCurrent(s) == batch[s].by = bufLive /\ batch[s].scope = bufScope

\* runCodexTurn prepares the input and gives up, or records the intent with
\* submitting(); a failure before that hands the buffer back.
BufPrepared(s) ==
  LET o == batch[s].by
      row == [bufMem[o] EXCEPT !.phase = "submitting"]
      back == [bufMem[o] EXCEPT !.phase = "collecting", !.id = 0]
      mine == bufMem[o].id = s /\ bufMem[o].phase = "preparing"
  IN /\ batch[s].at = "preparing"
     /\ \/ BufSettle(o, s, FALSE) /\ BatchAt(s, "over")
        \/ BatchCurrent(s) /\ mine /\ BufSaved(o, row) /\ BatchAt(s, "entered")
        \/ /\ BatchCurrent(s) /\ mine
           /\ \/ BufUnsaved(o, {row, back})
              \/ /\ BufFault /\ bufMem' = [bufMem EXCEPT ![o] = back] /\ bufFile' = back
                 /\ UNCHANGED overtaken
           /\ BatchAt(s, "over")
     /\ UNCHANGED <<bufLive, bufScope, bufHeld, bufUnder>>

\* The backend is entered: Codex takes the input under a guard that still
\* holds; or an error says it was not sent; or nobody knows, and the buffer
\* stays held, as it does when the guard refuses with an error of its own.
BufRun(s) ==
  /\ batch[s].at = "entered"
  /\ \/ /\ BufSettle(batch[s].by, s, FALSE)
        /\ BatchAt(s, "over")
     \/ /\ BatchCurrent(s)
        /\ batch' = [batch EXCEPT ![s].at = "written", ![s].wrote = TRUE, ![s].under = bufScope]
        /\ BufUnchanged
     \/ /\ \/ BatchAt(s, "over")
           \/ BatchCurrent(s) /\ batch' = [batch EXCEPT ![s].at = "over", ![s].wrote = TRUE,
                                                        ![s].under = bufScope]
        /\ BufUnchanged
  /\ UNCHANGED <<bufLive, bufScope, bufHeld, bufUnder>>

\* onTurnStarted, or the confirmed receipt of a terminal: accepted(), which the
\* return of the run repeats.  A failed save ends the run with an error.
BufAccepted(s) ==
  /\ batch[s].at = "written"
  /\ BufSettle(batch[s].by, s, TRUE)
  /\ BatchAt(s, "over")
  /\ UNCHANGED <<bufLive, bufScope, bufHeld, bufUnder>>

-----------------------------------------------------------------------------
\* The constructor: a preparing buffer was never dispatched and is collecting
\* again; a submitting one stays held.
BufLoaded == IF bufFile.phase = "preparing"
             THEN [bufFile EXCEPT !.phase = "collecting", !.id = 0] ELSE bufFile

BufBoot ==
  /\ bufLive < MaxBufOwners
  /\ bufLive' = bufLive + 1
  /\ bufMem' = [bufMem EXCEPT ![bufLive'] = BufLoaded]
  /\ bufFile' = BufLoaded
  /\ UNCHANGED <<bufScope, bufHeld, bufUnder, overtaken>>

\* stopRuntime() and startAccount(): the monitor is awaited, handlers are not.
BufNewService == BufBoot /\ UNCHANGED <<batch, bufFaults>>

\* The process dies and is started again.
BufCrash ==
  /\ BufFault
  /\ BufBoot
  /\ batch' = [s \in Batches |-> IF batch[s].at = "unused" THEN batch[s]
                                 ELSE [batch[s] EXCEPT !.at = "over"]]

BufNext ==
  \/ BufExpire \/ BufStart \/ BufCancel \/ BufRebind \/ BufNewService \/ BufCrash
  \/ \E i \in BufItems : BufAppend(i)
  \/ \E o \in BufOwners : BufElsewhere(o)
  \/ \E s \in Batches : BufBegin(s) \/ BufPrepared(s) \/ BufRun(s) \/ BufAccepted(s)

BufSpec == BufInit /\ [][BufNext]_bufVars

-----------------------------------------------------------------------------
(* What it promises.                                                       *)

BufWrote(i) == {s \in Batches : batch[s].wrote /\ i \in batch[s].items}

\* No collected message is submitted twice, and none under another binding than
\* the one it was collected under.
BufSubmittedOnce == \A i \in BufItems :
  /\ Cardinality(BufWrote(i)) <= 1
  /\ \A s \in BufWrote(i) : batch[s].under = bufUnder[i]

\* A message the user was told is in the buffer is on disk until Codex has it,
\* unless the buffer is cancelled or expires: no outcome of an earlier
\* submission, no failed save and no crash loses it.
BufNothingLost == \A i \in bufHeld : i \in bufFile.items \/ BufWrote(i) # {}

\* Both hold as long as no suspended service writes its copy over the file
\* (PromptBuffer.settle of a handler that outlives its account's stop).
BufKept == ~overtaken => BufSubmittedOnce /\ BufNothingLost
=============================================================================
