------------------------------ MODULE MCFollowing ------------------------------
(* Small instances of what the Gateway does with one native thread, side by     *)
(* side: the queue of messages for it and the following of its turns.  They     *)
(* share no state here, and a behaviour is one of the part it names.            *)
EXTENDS MCNativeQueue, Following

VARIABLE part

\* What an initial state chooses is chosen for the part at work only.
MCInit ==
  /\ part \in {"queue", "following"}
  /\ Init /\ FolInit
  /\ part # "following" => folTurns.n = 0

MCNext ==
  /\ UNCHANGED part
  /\ \/ part = "queue" /\ Next /\ UNCHANGED folVars
     \/ part = "following" /\ FolStep /\ UNCHANGED vars

\* The fairness of FairSpec and FolFairness, each asked for of its own part only.
MCFairness ==
  /\ \A m \in Messages :
       /\ SF_vars(part = "queue" /\ ObserveList(m))
       /\ WF_vars(part = "queue" /\ ObserveStep(m))
       /\ WF_vars(part = "queue" /\ DispatchStep(m))
       /\ WF_vars(part = "queue" /\ NativeStart(m))
       /\ WF_vars(part = "queue" /\ TurnEnds(m))
       /\ WF_vars(part = "queue" /\ Index(m))
  /\ \A a \in Accounts : SF_vars(part = "queue" /\ Dispatch(a))
  /\ WF_vars(part = "queue" /\ ForeignEnds)
  /\ WF_vars(part = "queue" /\ DispatchDown)
  /\ WF_folVars(part = "following" /\ FolRefresh)
  /\ WF_folVars(part = "following" /\ FolObserve)
  /\ WF_folVars(part = "following" /\ (FolPending \/ FolAdvance \/ \E t \in FolTurns : FolWork(t)))
  /\ WF_folVars(part = "following" /\ FolHears)
  /\ \A t \in FolTurns : WF_folVars(part = "following" /\ FolRetried(t))

MCSpec == MCInit /\ [][MCNext]_<<part, vars, folVars>> /\ MCFairness

\* The result of a queued message that ran is delivered or marked as unconfirmed, and
\* the result of a followed turn, whoever began it, is delivered on its card.
ResultsArrive == ResultSettles /\ FolRepaired
===============================================================================
