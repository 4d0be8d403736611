------------------------------ MODULE AtMostOnce ------------------------------
(***************************************************************************)
(* What a durable receipt journal promises of an external write that       *)
(* cannot be undone and whose acknowledgement may be lost: the write       *)
(* happens at most once, only after an intent is on record, and no report  *)
(* ever claims more than is known.  The journals of the Gateway and of its *)
(* Connectors are shown to implement this module.                          *)
(***************************************************************************)
EXTENDS Naturals

CONSTANT Items    \* the operations, each with one source identity

VARIABLES
  retryable,  \* operations that may be begun again, or forgotten, when known to be unsent
  written,    \* [Items -> Nat] external writes so far
  report      \* [Items -> Reports] what the journal answers

Reports == {"none", "unknown", "not-sent", "confirmed"}

aVars == <<retryable, written, report>>

AInit ==
  /\ retryable \subseteq Items
  /\ written = [i \in Items |-> 0]
  /\ report = [i \in Items |-> "none"]

Reported(i, from, to) == report[i] = from /\ report'[i] = to

\* Several operations may move in one step (a restart reads every receipt back).
Move(i) ==
  \/ written'[i] = written[i] /\ report'[i] = report[i]
  \/ written'[i] = written[i] /\ Reported(i, "none", "unknown")
  \/ written[i] = 0 /\ written'[i] = 1 /\ Reported(i, "unknown", "unknown")
  \/ written[i] = 0 /\ written'[i] = 0 /\ (Reported(i, "unknown", "not-sent") \/ Reported(i, "none", "not-sent"))
  \/ written[i] = 1 /\ written'[i] = 1 /\ Reported(i, "unknown", "confirmed")
  \/ i \in retryable /\ written'[i] = written[i] /\ Reported(i, "not-sent", "unknown")
  \/ i \in retryable /\ written[i] = 0 /\ written'[i] = 0 /\ Reported(i, "unknown", "none")

ANext ==
  /\ UNCHANGED retryable
  /\ written' \in [Items -> Nat]
  /\ report' \in [Items -> Reports]
  /\ \A i \in Items : Move(i)

ASpec == AInit /\ [][ANext]_aVars

\* Nothing reported as unsent was sent, and nothing is written twice.
WrittenOnce == \A i \in Items :
  /\ written[i] <= 1
  /\ report[i] \in {"none", "not-sent"} => written[i] = 0
  /\ report[i] = "confirmed" => written[i] = 1
===============================================================================
