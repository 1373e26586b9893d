---------------------------- MODULE MCDdrConfig -----------------------------
(***************************************************************************)
(* DdrConfig with tables of one block and a half, on boards that use the   *)
(* first controller or both.                                               *)
(***************************************************************************)
EXTENDS DdrConfig

MCBoards == {{0}, {0, 1}}
=============================================================================
