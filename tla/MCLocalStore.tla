---------------------------- MODULE MCLocalStore ----------------------------
(* LocalStore for TLC: the values its configurations bind to constants.     *)
EXTENDS LocalStore

CONSTANT a1

OneApp == {a1}
=============================================================================
