------------------------------- MODULE MCUdcEp0 -------------------------------
(***************************************************************************)
(* UdcEp0 for TLC.                                                         *)
(***************************************************************************)
EXTENDS UdcEp0
=============================================================================
