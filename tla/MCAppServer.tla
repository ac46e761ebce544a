----------------------------- MODULE MCAppServer -----------------------------
(* AppServer for TLC: the values its configurations bind to constants.      *)
EXTENDS AppServer, TLC

CONSTANTS a1, k1, c1, c2, c3

OneApp == {a1}
OneClient == {k1}
TwoConns == {c1, c2}
ThreeConns == {c1, c2, c3}

\* Connections are interchangeable: nothing orders or names them.
AnyOrder == Permutations(ThreeConns)
=============================================================================
