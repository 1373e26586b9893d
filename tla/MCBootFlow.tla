------------------------------ MODULE MCBootFlow ------------------------------
(***************************************************************************)
(* BootFlow for TLC.                                                       *)
(***************************************************************************)
EXTENDS BootFlow
=============================================================================
