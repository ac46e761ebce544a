------------------------------ MODULE MCRequests ------------------------------
(***************************************************************************)
(* Values for the bounds of Requests are in the configuration.             *)
(***************************************************************************)
EXTENDS Requests
=============================================================================
