------------------------------- MODULE MCRooms -------------------------------
(* Small instances of the native queue of one thread and of an approval that   *)
(* several rooms may answer, side by side: they share no state, and a behaviour *)
(* is one of the part it names.                                                *)
EXTENDS MCNativeQueue, Approvals

TwoRooms == {a1, a2}

VARIABLE part

\* What an initial state chooses is chosen for the part at work only.
MCInit ==
  /\ part \in {"queue", "approval"}
  /\ Init /\ ApprInit
  /\ part # "queue" => \A m \in Messages : account[m] = a1
  /\ part # "approval" => apprFollow = TwoRooms

MCNext ==
  /\ UNCHANGED part
  /\ \/ part = "queue" /\ Next /\ UNCHANGED apprVars
     \/ part = "approval" /\ ApprNext /\ UNCHANGED vars

MCSpec == MCInit /\ [][MCNext]_<<part, vars, apprVars>>

RoomsWithoutHistory == <<part, WithoutHistory, apprVars>>
==============================================================================
