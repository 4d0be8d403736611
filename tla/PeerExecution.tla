----------------------------- MODULE PeerExecution -----------------------------
(***************************************************************************)
(* One native write forwarded from the Gateway (the origin) to the          *)
(* Connector of the device that owns the thread:                            *)
(* src/peer/execution-service.ts with its receipts (src/peer/receipts.ts),  *)
(* the guard of src/peer/write-guard.ts, and the origin's side in           *)
(* src/peer/backend.ts, src/peer/registry.ts and src/peer/rpc.ts.           *)
(*                                                                         *)
(* The source identity of the input names a row of the device's journal.    *)
(* The origin may forward it several times: each forwarding is a call, with *)
(* the connection it went over.  A call outlives its connection: the origin *)
(* is told that the answer is lost while the handler on the device goes on, *)
(* finds the origin silent at its next callback, or does not ask any more.  *)
(*                                                                         *)
(* Rows of other inputs are left out except for what their saves do: the    *)
(* journal is one file, and any save replaces it by what memory says.       *)
(***************************************************************************)
EXTENDS Naturals, FiniteSets

CONSTANTS peerIdentity,   \* the source identity of the input (peerOperationId)
          MaxPeerCalls,   \* bound: forwardings of the input
          MaxPeerFaults   \* bound: failed saves, lost lines and restarts

ASSUME PeerAssumption == MaxPeerCalls \in Nat \ {0} /\ MaxPeerFaults \in Nat

VARIABLES
  peerKind,      \* the operation: the method, and whether a run names its thread
  peerMem,       \* the row in PeerReceipts.rows
  peerFile,      \* the row in the file
  peerCall,      \* the forwardings
  peerLine,      \* the connection, a new number for each; its state
  peerThread,    \* the origin has recorded the thread of a run that named none
  peerWritten,   \* the calls whose input Codex took
  peerFaults     \* failures so far

peerVars == <<peerKind, peerMem, peerFile, peerCall, peerLine, peerThread,
              peerWritten, peerFaults>>

PeerCalls == 1..MaxPeerCalls

\* run with and without a thread; steer and submitThreadMessage, whose answer
\* names the turn; addQueuedSubmission, which is not a turn yet.
PeerKinds == {"turn", "fresh", "message", "queue"}

PeerRow == [phase : {"none", "submitting", "accepted", "completed",
                     "not-submitted", "failed"},
            turn : BOOLEAN,                   \* turnId is set
            made : PeerKinds \cup {"none"}]   \* the fingerprint: what was asked for

PeerNoRow == [phase |-> "none", turn |-> FALSE, made |-> "none"]

PeerPlaces == {"idle", "asked", "begun", "created", "checked", "written", "noted",
               "failing", "ended"}

\* What the caller in the Gateway learns: nothing yet, known unsent
\* (CodexCommunicationError preflight, run and queue admission), unconfirmed
\* (submission), taken up (observation), an error of another class, a result.
PeerTold == {"none", "unsent", "unknown", "accepted", "error", "done"}

PeerCall == [at : PeerPlaces, line : Nat, kind : PeerKinds, started : BOOLEAN,
             told : PeerTold]

PeerInit ==
  /\ peerKind \in PeerKinds
  /\ peerMem = PeerNoRow
  /\ peerFile = PeerNoRow
  /\ peerCall = [c \in PeerCalls |->
       [at |-> "idle", line |-> 0, kind |-> peerKind, started |-> FALSE, told |-> "none"]]
  /\ peerLine = [id |-> 1, open |-> TRUE]
  /\ peerThread = FALSE
  /\ peerWritten = {}
  /\ peerFaults = 0

-----------------------------------------------------------------------------
PeerFault == peerFaults < MaxPeerFaults /\ peerFaults' = peerFaults + 1

\* write(): durable before memory changes.  A save that throws leaves memory,
\* and the file as it was or, when only the last flush failed, replaced.
PeerSaved(row) == peerMem' = row /\ peerFile' = row /\ UNCHANGED peerFaults
PeerUnsaved(row) == PeerFault /\ peerFile' \in {peerFile, row} /\ UNCHANGED peerMem

PeerOpen(c) == peerLine.open /\ peerCall[c].line = peerLine.id

\* The origin's callback leases are kept by connection and source identity: a
\* callback of any call of this input reaches the one that waits on the line.
PeerLease(c) == {d \in PeerCalls : peerCall[d].line = peerCall[c].line
                                     /\ peerCall[d].at # "idle" /\ peerCall[d].told = "none"}
PeerHeard(c) == PeerOpen(c) /\ PeerLease(c) # {}

\* The catch clause of invoke(): a turn the origin has heard of outweighs how
\* a broken communication is classified.
PeerBroken(c, answer) == IF peerCall[c].started THEN "accepted" ELSE answer

\* The handler ends and its answer reaches the origin if that still waits.
PeerEnds(c, answer) ==
  peerCall' = [peerCall EXCEPT ![c].at = "ended",
                               ![c].told = IF @ = "none" /\ PeerOpen(c) THEN answer ELSE @]

\* The catch clause of execute(): an accepted row stays, any other becomes
\* not-submitted or failed; an error while saving that takes the first's place.
PeerFails(c, unsent, answer) ==
  IF peerMem.phase = "accepted"
  THEN /\ PeerEnds(c, answer)
       /\ UNCHANGED <<peerMem, peerFile, peerFaults>>
  ELSE LET row == [peerMem EXCEPT !.phase = IF unsent THEN "not-submitted" ELSE "failed"]
       IN \/ PeerSaved(row) /\ PeerEnds(c, answer)
          \/ PeerUnsaved(row) /\ PeerEnds(c, "error")

PeerGoes(c, place) == peerCall' = [peerCall EXCEPT ![c].at = place]

-----------------------------------------------------------------------------
(* The origin.                                                             *)

\* invoke(): the n-th forwarding.  Without a connection it is known unsent;
\* while another waits on the same line it is refused as busy.  Once the origin
\* has recorded the thread of a fresh run, a repetition names it.
PeerForward(c) ==
  LET kind == IF peerKind = "fresh" /\ peerThread THEN "turn" ELSE peerKind
      call == [peerCall[c] EXCEPT !.line = peerLine.id, !.kind = kind]
      busy == \E d \in PeerCalls : peerCall[d].at # "idle"
                                     /\ peerCall[d].line = peerLine.id /\ peerCall[d].told = "none"
  IN /\ peerCall[c].at = "idle"
     /\ \A d \in 1..c-1 : peerCall[d].at # "idle"
     /\ peerCall' = [peerCall EXCEPT ![c] =
          IF ~peerLine.open THEN [call EXCEPT !.at = "ended", !.told = "unsent"]
          ELSE IF busy THEN [call EXCEPT !.at = "ended", !.told = "error"]
          ELSE [call EXCEPT !.at = "asked"]]
     /\ UNCHANGED <<peerKind, peerMem, peerFile, peerLine, peerThread, peerWritten, peerFaults>>

\* finish(), close(): the deadline passes, the caller lets go or the line is
\* gone; the request had left, so it is never known unsent.
PeerUnanswered(c) == peerCall[c].at # "idle" /\ peerCall[c].told = "none"

PeerLetGo(c) ==
  /\ PeerUnanswered(c)
  /\ PeerFault
  /\ peerCall' = [peerCall EXCEPT ![c].told = PeerBroken(c, "unknown")]
  /\ UNCHANGED <<peerKind, peerMem, peerFile, peerLine, peerThread, peerWritten>>

PeerLineDrops ==
  /\ peerLine.open
  /\ PeerFault
  /\ peerLine' = [peerLine EXCEPT !.open = FALSE]
  /\ peerCall' = [c \in PeerCalls |->
       IF PeerUnanswered(c) THEN [peerCall[c] EXCEPT !.told = PeerBroken(c, "unknown")]
       ELSE peerCall[c]]
  /\ UNCHANGED <<peerKind, peerMem, peerFile, peerThread, peerWritten>>

\* peer.register: the Connector dials again.
PeerRegisters ==
  /\ ~peerLine.open
  /\ peerLine' = [id |-> peerLine.id + 1, open |-> TRUE]
  /\ UNCHANGED <<peerKind, peerMem, peerFile, peerCall, peerThread, peerWritten, peerFaults>>

-----------------------------------------------------------------------------
(* The device.                                                             *)

\* Mutant: a failed row may be begun again, as if nothing had been sent.
PeerBeginFailed(row, kind) ==
  IF row.phase # "none" /\ row.made # kind THEN "error"
  ELSE IF row.phase \in {"none", "not-submitted", "failed"} THEN "begin"
  ELSE IF row.phase = "completed" THEN "done"
  ELSE IF row.turn THEN "accepted" ELSE "unknown"

\* begin() and the answers to a repetition: another input under the identity,
\* nothing to repeat, the recorded result, or a receipt that is not replayed.
PeerBegin(row, kind) ==
  IF row.phase # "none" /\ row.made # kind THEN "error"
  ELSE IF row.phase \in {"none", "not-submitted"} THEN "begin"
  ELSE IF row.phase = "completed" THEN "done"
  ELSE IF row.turn THEN "accepted" ELSE "unknown"

\* execute(): the thread is read, the origin asked whether it still authorizes
\* the write, and the intent recorded, or the prior receipt reported.
PeerExecute(c) ==
  LET answer == PeerBegin(peerMem, peerCall[c].kind)
      row == [phase |-> "submitting", turn |-> FALSE, made |-> peerCall[c].kind]
  IN /\ peerCall[c].at = "asked"
     /\ \/ /\ PeerEnds(c, PeerBroken(c, "unsent"))
           /\ UNCHANGED <<peerMem, peerFile, peerFaults>>
        \/ /\ PeerHeard(c) /\ answer # "begin"
           /\ PeerEnds(c, answer)
           /\ UNCHANGED <<peerMem, peerFile, peerFaults>>
        \/ /\ PeerHeard(c) /\ answer = "begin"
           /\ \/ PeerSaved(row) /\ PeerGoes(c, "begun")
              \/ PeerUnsaved(row) /\ PeerEnds(c, "error")
     /\ UNCHANGED <<peerKind, peerLine, peerThread, peerWritten>>

\* The backend refuses before it writes: communication, capability, admission.
PeerRefused(c) ==
  /\ peerCall[c].at \in {"begun", "created", "checked"}
  /\ PeerFails(c, TRUE, PeerBroken(c, "unsent"))
  /\ UNCHANGED <<peerKind, peerLine, peerThread, peerWritten>>

\* onThreadCreated: the new thread is recorded here, then the origin records
\* it; the backend awaits both.  The origin may have saved what it could not
\* confirm any more.
PeerThreadMade(c) ==
  LET row == [peerMem EXCEPT !.phase = "accepted"]
  IN /\ peerCall[c].at = "begun" /\ peerCall[c].kind = "fresh"
     /\ \/ /\ PeerUnsaved(row)
           /\ PeerGoes(c, "failing")
           /\ UNCHANGED peerThread
        \/ /\ PeerSaved(row)
           /\ peerThread' \in IF PeerHeard(c) THEN {peerThread, TRUE} ELSE {peerThread}
           /\ \/ PeerHeard(c) /\ peerThread' = TRUE /\ PeerGoes(c, "created")
              \/ PeerEnds(c, "error")
     /\ UNCHANGED <<peerKind, peerLine, peerWritten>>

\* peerWriteGuard: the origin is asked again at the native boundary; silence
\* is a preflight failure, a grant revoked on the device an error of its own.
PeerGuard(c) ==
  /\ \/ peerCall[c].at = "begun" /\ peerCall[c].kind # "fresh"
     \/ peerCall[c].at = "created"
  /\ \/ /\ PeerHeard(c)
        /\ PeerGoes(c, "checked")
        /\ UNCHANGED <<peerMem, peerFile, peerFaults>>
     \/ PeerFails(c, TRUE, PeerBroken(c, "unsent"))
     \/ PeerFails(c, FALSE, "error")
  /\ UNCHANGED <<peerKind, peerLine, peerThread, peerWritten>>

\* The native request leaves.  Codex answers, or its answer is lost, and then
\* nobody knows whether the input was taken.
PeerWrite(c) ==
  /\ peerCall[c].at = "checked"
  /\ \/ /\ peerWritten' = peerWritten \cup {c}
        /\ PeerGoes(c, "written")
        /\ UNCHANGED <<peerMem, peerFile, peerFaults>>
     \/ /\ peerWritten' \in {peerWritten, peerWritten \cup {c}}
        /\ PeerFails(c, FALSE, PeerBroken(c, "unknown"))
  /\ UNCHANGED <<peerKind, peerLine, peerThread>>

\* onTurnStarted of a run, the answer to a steer or a message: the turn is
\* recorded; a run also tells the origin, as far as it can be told.
PeerNote(c) ==
  LET row == [peerMem EXCEPT !.phase = "accepted", !.turn = TRUE]
      hears == {d \in PeerLease(c) : PeerOpen(c) /\ peerCall[c].kind # "message"}
  IN /\ peerCall[c].at = "written" /\ peerCall[c].kind # "queue"
     /\ \/ /\ PeerSaved(row)
           /\ \E heard \in {hears, {}} :
                peerCall' = [d \in PeerCalls |->
                  [peerCall[d] EXCEPT !.at = IF d = c THEN "noted" ELSE @,
                                      !.started = @ \/ d \in heard]]
        \/ PeerUnsaved(row) /\ PeerGoes(c, "failing")
     /\ UNCHANGED <<peerKind, peerLine, peerThread, peerWritten>>

\* A save after the input was taken, or after its thread was made, has failed.
PeerSaveFailed(c) ==
  /\ peerCall[c].at = "failing"
  /\ PeerFails(c, FALSE, "error")
  /\ UNCHANGED <<peerKind, peerLine, peerThread, peerWritten>>

\* Observation of a recorded turn ends without a result.
PeerObservationLost(c) ==
  /\ peerCall[c].at = "noted" /\ peerCall[c].kind # "message"
  /\ PeerFails(c, FALSE, "accepted")
  /\ UNCHANGED <<peerKind, peerLine, peerThread, peerWritten>>

\* complete(), then the answer.
PeerComplete(c) ==
  LET row == [peerMem EXCEPT !.phase = "completed"]
  IN /\ \/ peerCall[c].at = "noted"
        \/ peerCall[c].at = "written" /\ peerCall[c].kind = "queue"
     /\ \/ PeerSaved(row) /\ PeerEnds(c, "done")
        \/ PeerUnsaved(row) /\ PeerGoes(c, "failing")
     /\ UNCHANGED <<peerKind, peerLine, peerThread, peerWritten>>

\* Any other row is saved, and with it this one as memory has it.
PeerOtherSave ==
  /\ peerFile # peerMem
  /\ peerFile' = peerMem
  /\ UNCHANGED <<peerKind, peerMem, peerCall, peerLine, peerThread, peerWritten, peerFaults>>

\* The Connector dies and comes back: the constructor reads the file, the
\* handlers and the line are gone.
PeerRestart ==
  /\ PeerFault
  /\ peerMem' = peerFile
  /\ peerLine' = [peerLine EXCEPT !.open = FALSE]
  /\ peerCall' = [c \in PeerCalls |->
       IF peerCall[c].at = "idle" THEN peerCall[c]
       ELSE [peerCall[c] EXCEPT !.at = "ended",
               !.told = IF @ = "none" THEN PeerBroken(c, "unknown") ELSE @]]
  /\ UNCHANGED <<peerKind, peerFile, peerThread, peerWritten>>

PeerNext ==
  \/ \E c \in PeerCalls :
       \/ PeerForward(c) \/ PeerLetGo(c) \/ PeerExecute(c) \/ PeerRefused(c)
       \/ PeerThreadMade(c) \/ PeerGuard(c) \/ PeerWrite(c) \/ PeerNote(c)
       \/ PeerSaveFailed(c) \/ PeerObservationLost(c) \/ PeerComplete(c)
  \/ PeerLineDrops \/ PeerRegisters \/ PeerOtherSave \/ PeerRestart

PeerSpec == PeerInit /\ [][PeerNext]_peerVars

-----------------------------------------------------------------------------
(* What it promises.                                                       *)

PeerReport ==
  IF peerMem.phase = "none" THEN "none"
  ELSE IF peerMem.phase = "not-submitted" THEN "not-sent"
  ELSE IF peerMem.phase = "completed" \/ (peerMem.phase = "accepted" /\ peerMem.turn)
  THEN "confirmed" ELSE "unknown"

PeerJournal == INSTANCE AtMostOnce WITH
  Items <- {peerIdentity}, retryable <- {peerIdentity},
  written <- [i \in {peerIdentity} |-> Cardinality(peerWritten)],
  report <- [i \in {peerIdentity} |-> PeerReport]

\* No caller in the Gateway is told that an input is known unsent when its call
\* was or will be written, none is told of a turn or a result that is not there,
\* and a run without a thread is not submitted before the origin knows its thread.
PeerToldTrue == \A c \in PeerCalls :
  /\ peerCall[c].told = "unsent" => c \notin peerWritten
  /\ peerCall[c].told \in {"accepted", "done"} => peerWritten # {}
  /\ c \in peerWritten /\ peerCall[c].kind = "fresh" => peerThread

\* However often the origin forwards an input, over whatever lines, and whatever
\* is saved, lost or restarted on the way: the device's row is an at-most-once
\* journal of the native write (PeerReceipts.begin to failed), and what the origin
\* is told agrees with it (the catch clause of backend.ts invoke).
PeerHandoff == PeerJournal!ASpec /\ []PeerToldTrue
=============================================================================
