---------------------------- MODULE SessionControl ----------------------------
(***************************************************************************)
(* A message for a task that is already running:                            *)
(* src/bridge/session-control.ts with its callers in src/bridge/service.ts. *)
(*                                                                         *)
(* By the policy of the conversation the message is steered into the turn   *)
(* at once, or the user is offered a choice (a card: steer, queue, cancel). *)
(* Both are rows of one journal, session-controls.json.  A choice is        *)
(* claimed before anything is sent, by the first of the clicks; a steer     *)
(* keeps a receipt by its source identity and waits for its turn in the     *)
(* queue of the thread.                                                    *)
(*                                                                         *)
(* Memory is changed before it is saved; when the save throws, what the     *)
(* file says takes its place, and when that cannot be read the journal      *)
(* refuses every call until the process is started again.                   *)
(***************************************************************************)
EXTENDS Naturals, FiniteSets, Sequences

CONSTANTS steerMessage,    \* the source identity: the message, or the choice made of it
          MaxSteerCalls,   \* bound: times the message is handed over, or clicks on the card
          MaxSteerFaults   \* bound: failed saves and restarts

ASSUME SteerAssumption == MaxSteerCalls \in Nat \ {0} /\ MaxSteerFaults \in Nat

VARIABLES
  steerPolicy,   \* activeMessagePolicy: steer at once, or ask
  steerMem,      \* SessionControlJournal.state, the rows of this message
  steerFile,     \* the rows in the file
  steerUsable,   \* ~persistenceUnavailable
  steerCall,     \* handovers and clicks
  steerTail,     \* the queue of the thread: the calls in it, the first at work
  steerFlying,   \* calls whose request may still arrive, the answer being lost
  steerTaken,    \* calls by which Codex took the message
  steerFaults    \* failures so far

steerVars == <<steerPolicy, steerMem, steerFile, steerUsable, steerCall, steerTail,
               steerFlying, steerTaken, steerFaults>>

SteerCalls == 1..MaxSteerCalls

SteerRows == [receipt : {"none", "sending", "accepted", "uncertain"},
              choice : {"none", "pending", "submitted", "cancelled"}]

SteerPlaces == {"idle", "claimed", "waiting", "sending", "answered", "unsent", "doubt", "ended"}
SteerWays == {"steer", "queue", "cancel"}

\* What the user is told: nothing, steered, queued, not sent, cancelled, that
\* nobody knows, that the choice is used, or an error about the journal.
SteerTold == {"none", "accepted", "queued", "unsent", "cancelled", "unknown", "used", "error"}

SteerInit ==
  /\ steerPolicy \in {"steer", "ask"}
  /\ steerMem = [receipt |-> "none", choice |-> "none"]
  /\ steerFile = steerMem
  /\ steerUsable = TRUE
  /\ steerCall \in [SteerCalls -> [at : {"idle"}, way : SteerWays, told : {"none"}]]
  /\ steerPolicy = "steer" => \A c \in SteerCalls : steerCall[c].way = "steer"
  /\ steerTail = <<>>
  /\ steerFlying = {}
  /\ steerTaken = {}
  /\ steerFaults = 0

-----------------------------------------------------------------------------
SteerFault == steerFaults < MaxSteerFaults /\ steerFaults' = steerFaults + 1

\* save() of memory with these rows.
SteerSaved(rows) ==
  steerMem' = rows /\ steerFile' = rows /\ UNCHANGED <<steerUsable, steerFaults>>

SteerUnsaved(rows) ==
  /\ SteerFault
  /\ steerFile' \in {steerFile, rows}
  /\ \/ steerMem' = steerFile' /\ UNCHANGED steerUsable
     \/ steerMem' = rows /\ steerUsable' = FALSE

SteerUnchanged == UNCHANGED <<steerMem, steerFile, steerUsable, steerFaults>>

SteerPut(c, place, answer) ==
  steerCall' = [steerCall EXCEPT ![c].at = place, ![c].told = answer]

SteerAtWork(c) == steerTail # <<>> /\ Head(steerTail) = c

\* The call leaves the queue of the thread with this answer.
SteerLeaves(c, answer) == SteerPut(c, "ended", answer) /\ steerTail' = Tail(steerTail)

-----------------------------------------------------------------------------
(* The choice.                                                             *)

\* createChoice(): the card is sent when the save is done.
SteerOffer ==
  LET rows == [steerMem EXCEPT !.choice = "pending"]
  IN /\ steerPolicy = "ask" /\ steerUsable /\ steerMem.choice = "none"
     /\ SteerSaved(rows) \/ SteerUnsaved(rows)
     /\ UNCHANGED <<steerPolicy, steerCall, steerTail, steerFlying, steerTaken>>

\* claimChoice() for a click on the card: refused when used or expired.
SteerClaim(c) ==
  LET way == steerCall[c].way
      rows == [steerMem EXCEPT !.choice = IF way = "cancel" THEN "cancelled" ELSE "submitted"]
  IN /\ steerPolicy = "ask" /\ steerCall[c].at = "idle"
     /\ steerMem.choice # "none"
     /\ \/ ~steerUsable /\ SteerPut(c, "ended", "error") /\ SteerUnchanged
        \/ steerUsable /\ SteerPut(c, "ended", "used") /\ SteerUnchanged
        \/ /\ steerUsable /\ steerMem.choice = "pending"
           /\ \/ /\ SteerSaved(rows)
                 /\ IF way = "cancel" THEN SteerPut(c, "ended", "cancelled")
                    ELSE SteerPut(c, "claimed", "none")
              \/ SteerUnsaved(rows) /\ SteerPut(c, "ended", "error")
     /\ UNCHANGED <<steerPolicy, steerTail, steerFlying, steerTaken>>

\* The claimed message is queued for the next turn (NativeQueue.tla), once.
SteerQueues(c) ==
  /\ steerCall[c].at = "claimed" /\ steerCall[c].way = "queue"
  /\ \/ steerTaken' = steerTaken \cup {c} /\ SteerPut(c, "ended", "queued")
     \/ steerTaken' \in {steerTaken, steerTaken \cup {c}} /\ SteerPut(c, "ended", "unknown")
  /\ UNCHANGED <<steerPolicy, steerTail, steerFlying>> /\ SteerUnchanged

\* The binding has changed, the task has ended, another turn is running.
SteerDeclines(c) ==
  /\ steerCall[c].at = "claimed"
  /\ SteerPut(c, "ended", "unsent")
  /\ UNCHANGED <<steerPolicy, steerTail, steerFlying, steerTaken>> /\ SteerUnchanged

-----------------------------------------------------------------------------
(* The steer.                                                              *)

\* handleSteerCommand() or submitActiveThreadMessage() calls submit(), for the
\* claimed choice or for the message each time the inbox hands it over.
SteerSubmits(c) ==
  /\ steerCall[c].way = "steer"
  /\ steerCall[c].at = IF steerPolicy = "ask" THEN "claimed" ELSE "idle"
  /\ SteerPut(c, "waiting", "none")
  /\ steerTail' = Append(steerTail, c)
  /\ UNCHANGED <<steerPolicy, steerFlying, steerTaken>> /\ SteerUnchanged

\* The receipt of an earlier attempt answers, or the intent is recorded.
SteerBegins(c) ==
  LET rows == [steerMem EXCEPT !.receipt = "sending"]
  IN /\ SteerAtWork(c) /\ steerCall[c].at = "waiting"
     /\ \/ ~steerUsable /\ SteerLeaves(c, "error") /\ SteerUnchanged
        \/ /\ steerUsable /\ steerMem.receipt = "accepted"
           /\ SteerLeaves(c, "accepted") /\ SteerUnchanged
        \/ /\ steerUsable /\ steerMem.receipt \in {"sending", "uncertain"}
           /\ SteerLeaves(c, "unknown") /\ SteerUnchanged
        \/ /\ steerUsable /\ steerMem.receipt = "none"
           /\ \/ SteerSaved(rows) /\ SteerPut(c, "sending", "none") /\ UNCHANGED steerTail
              \/ SteerUnsaved(rows) /\ SteerLeaves(c, "error")
     /\ UNCHANGED <<steerPolicy, steerFlying, steerTaken>>

\* The backend answers, says the message was not submitted, or fails otherwise:
\* a guard of the action refused it, or the answer is lost.
SteerActs(c) ==
  /\ steerCall[c].at = "sending"
  /\ \/ /\ SteerPut(c, "answered", "none")
        /\ steerTaken' = steerTaken \cup {c} /\ UNCHANGED steerFlying
     \/ SteerPut(c, "unsent", "none") /\ UNCHANGED <<steerTaken, steerFlying>>
     \/ /\ SteerPut(c, "doubt", "none")
        /\ steerFlying' \in {steerFlying, steerFlying \cup {c}} /\ UNCHANGED steerTaken
  /\ UNCHANGED <<steerPolicy, steerTail>> /\ SteerUnchanged

SteerLands(c) ==
  /\ c \in steerFlying
  /\ steerFlying' = steerFlying \ {c}
  /\ steerTaken' = steerTaken \cup {c}
  /\ UNCHANGED <<steerPolicy, steerCall, steerTail>> /\ SteerUnchanged

\* The acceptance is saved; when that throws, the catch clause is next.
SteerAccepts(c) ==
  LET rows == [steerMem EXCEPT !.receipt = "accepted"]
  IN /\ steerCall[c].at = "answered"
     /\ \/ SteerSaved(rows) /\ SteerLeaves(c, "accepted")
        \/ SteerUnsaved(rows) /\ SteerPut(c, "doubt", "none") /\ UNCHANGED steerTail
     /\ UNCHANGED <<steerPolicy, steerFlying, steerTaken>>

\* Mutant: an acceptance that did reach the file is turned into doubt.
SteerCatchesAll(c) ==
  LET unsent == steerCall[c].at = "unsent"
      rows == [steerMem EXCEPT !.receipt = IF unsent THEN "none" ELSE "uncertain"]
  IN /\ steerCall[c].at \in {"unsent", "doubt"}
     /\ \/ ~steerUsable /\ SteerLeaves(c, "error") /\ SteerUnchanged
        \/ /\ steerUsable
           /\ \/ SteerSaved(rows) /\ SteerLeaves(c, IF unsent THEN "unsent" ELSE "unknown")
              \/ SteerUnsaved(rows) /\ SteerLeaves(c, "error")
     /\ UNCHANGED <<steerPolicy, steerFlying, steerTaken>>

\* The catch clause: the acceptance may be in the file for all that; a message
\* known to be unsent may be sent again, any other never.
SteerCatches(c) ==
  LET unsent == steerCall[c].at = "unsent"
      rows == [steerMem EXCEPT !.receipt = IF unsent THEN "none" ELSE "uncertain"]
  IN /\ steerCall[c].at \in {"unsent", "doubt"}
     /\ \/ ~steerUsable /\ SteerLeaves(c, "error") /\ SteerUnchanged
        \/ steerUsable /\ steerMem.receipt = "accepted" /\ SteerLeaves(c, "error") /\ SteerUnchanged
        \/ /\ steerUsable /\ steerMem.receipt # "accepted"
           /\ \/ SteerSaved(rows) /\ SteerLeaves(c, IF unsent THEN "unsent" ELSE "unknown")
              \/ SteerUnsaved(rows) /\ SteerLeaves(c, "error")
     /\ UNCHANGED <<steerPolicy, steerFlying, steerTaken>>

-----------------------------------------------------------------------------
\* The save of a row of another message throws.
SteerElsewhere ==
  /\ SteerFault
  /\ steerUsable
  /\ steerMem' = steerFile
  /\ steerUsable' \in BOOLEAN
  /\ UNCHANGED <<steerPolicy, steerFile, steerCall, steerTail, steerFlying, steerTaken>>

\* The process dies; requests that have left it may still arrive.
SteerRestart ==
  /\ SteerFault
  /\ steerMem' = steerFile
  /\ steerUsable' = TRUE
  /\ steerTail' = <<>>
  /\ steerCall' = [c \in SteerCalls |-> IF steerCall[c].at = "idle" THEN steerCall[c]
                                        ELSE [steerCall[c] EXCEPT !.at = "ended"]]
  /\ steerFlying' \in {steerFlying, steerFlying \cup {c \in SteerCalls : steerCall[c].at = "sending"}}
  /\ UNCHANGED <<steerPolicy, steerFile, steerTaken>>

SteerNext ==
  \/ SteerOffer \/ SteerElsewhere \/ SteerRestart
  \/ \E c \in SteerCalls :
       \/ SteerClaim(c) \/ SteerQueues(c) \/ SteerDeclines(c) \/ SteerSubmits(c) \/ SteerBegins(c)
       \/ SteerActs(c) \/ SteerLands(c) \/ SteerAccepts(c) \/ SteerCatches(c)

SteerSpec == SteerInit /\ [][SteerNext]_steerVars

-----------------------------------------------------------------------------
(* What it promises.                                                       *)

SteerReport ==
  CASE steerFile.receipt = "none" -> "none"
    [] steerFile.receipt \in {"sending", "uncertain"} -> "unknown"
    [] steerFile.receipt = "accepted" -> "confirmed"

SteersDone == {c \in steerTaken : steerCall[c].way = "steer"}

SteerJournal == INSTANCE AtMostOnce WITH
  Items <- {steerMessage}, retryable <- {steerMessage},
  written <- [m \in {steerMessage} |-> Cardinality(SteersDone)],
  report <- [m \in {steerMessage} |-> SteerReport]

\* What the user was told is true: a message reported as steered was, one
\* reported as unsent, cancelled or used was not sent by that call, and a
\* cancelled one is never sent by any.
SteerToldTrue == \A c \in SteerCalls :
  LET told == steerCall[c].told
  IN /\ told = "accepted" => SteersDone # {} /\ steerFile.receipt = "accepted"
     /\ told \in {"unsent", "cancelled", "used"} => c \notin steerTaken \cup steerFlying
     /\ told = "cancelled" => steerFile.choice = "cancelled" /\ steerTaken \cup steerFlying = {}

\* However often the card is clicked, the message of a choice reaches Codex
\* once, by the steer or by the queue.
SteerChoiceOnce == Cardinality(steerTaken) <= 1

\* The journal of steers (SessionControlJournal) implements the at-most-once
\* journal, and what it answers and its one-time choices hold through failed
\* saves, unreadable files, lost answers and restarts.
SteerPromise == SteerJournal!ASpec /\ [](SteerToldTrue /\ SteerChoiceOnce)
===============================================================================
