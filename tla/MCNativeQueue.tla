---------------------------- MODULE MCNativeQueue ----------------------------
(* Small instances of NativeQueue for TLC. *)
EXTENDS NativeQueue, TLC

CONSTANTS m1, m2, a1, a2, f1

OneMessage == {m1}
TwoMessages == {m1, m2}
OneAccount == {a1}
TwoAccounts == {a1, a2}
Nobody == {}
OneItem == {f1}

\* What the steps and MessagesApart look at: all but "executed", which only
\* UnconfirmedByHandoff reads, and no step.
WithoutHistory == <<account, mem, file, down, lane, watch, disp, retained, wire, deletion, start, queue, turn,
                    indexed, busy, adds, faults>>

Symmetry == Permutations(TwoMessages) \union Permutations(TwoAccounts)
==============================================================================
