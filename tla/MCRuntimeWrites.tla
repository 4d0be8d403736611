--------------------------- MODULE MCRuntimeWrites ---------------------------
(* Small instances of the journals of writes that leave the Gateway, side by   *)
(* side: they share no state, and a behaviour is one of the journal its `part` *)
(* names, the others stand still.                                              *)
EXTENDS RuntimeWrites, PeerExecution, PromptBuffer, SessionControl, TLC

CONSTANTS o1, o2, c1, c2, i1, r1

MCOps == {o1, o2}
MCCalls == {c1, c2}
OneInput == {i1}
OneResource == {r1}
TwoItems == {1, 2}

Symmetry == Permutations(MCOps) \union Permutations(MCCalls)

VARIABLE part

mcVars == <<part, vars, peerVars, bufVars, steerVars>>

\* What an initial state chooses is chosen for the part at work only, and the adapter
\* only for a create: nothing else reads it.
MCInit ==
  /\ part \in {"terminal", "peer", "buffer", "steer"}
  /\ Init /\ PeerInit /\ BufInit /\ SteerInit
  /\ part # "terminal" => adapter = "tui" /\ \A o \in Ops : kind[o] = "send"
  /\ (\A o \in Ops : kind[o] # "create") => adapter = "tui"
  /\ part # "peer" => peerKind = "turn"
  /\ part # "steer" => steerPolicy = "steer"

MCNext ==
  /\ UNCHANGED part
  /\ \/ part = "terminal" /\ Next /\ UNCHANGED <<peerVars, bufVars, steerVars>>
     \/ part = "peer" /\ PeerNext /\ UNCHANGED <<vars, bufVars, steerVars>>
     \/ part = "buffer" /\ BufNext /\ UNCHANGED <<vars, peerVars, steerVars>>
     \/ part = "steer" /\ SteerNext /\ UNCHANGED <<vars, peerVars, bufVars>>

MCSpec == MCInit /\ [][MCNext]_mcVars
==============================================================================
