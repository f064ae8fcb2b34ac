---------------------------- MODULE MCGuestExec ----------------------------
(* Instances of GuestExec for TLC; one .cfg per run. *)
EXTENDS GuestContract, TLC
=============================================================================
