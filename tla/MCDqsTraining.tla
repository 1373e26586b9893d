--------------------------- MODULE MCDqsTraining ----------------------------
(***************************************************************************)
(* DqsTraining over all records of a few delays.                           *)
(***************************************************************************)
EXTENDS DqsTraining
=============================================================================
