---------------------------- MODULE MCForwarding ----------------------------
(* Small instances of Forwarding for TLC. *)
EXTENDS Forwarding, TLC

CONSTANTS m1, m2, m3, s1, s2

OneMessage == {m1}
TwoMessages == {m1, m2}
ThreeMessages == {m1, m2, m3}
OneSession == {s1}
NoNewSessions == {}
TwoSessions == {s1, s2}

Symmetry == Permutations({m1, m2})

Inputs == {<<"turn", "automatic">>}
OrderedSources == {<<"turn", "automatic">>, <<"queue", "automatic">>, <<"control", "buffer">>, <<"control", "bypass">>}

EverySource == {<<"turn", "automatic">>, <<"queue", "automatic">>, <<"terminal", "automatic">>,
                <<"control", "automatic">>, <<"control", "buffer">>, <<"control", "bypass">>}
=============================================================================
