---------------------------- MODULE MCUpdateSystem ----------------------------
(* UpdateSystem for TLC: the values its configurations bind to constants.   *)
EXTENDS UpdateSystem, TLC

CONSTANTS a1, a2, c1, c2

OneApp == {a1}
TwoApps == {a1, a2}
OneConn == {c1}
TwoConns == {c1, c2}

\* Connections are interchangeable: nothing orders or names them.
AnyOrder == Permutations(TwoConns)
=============================================================================
