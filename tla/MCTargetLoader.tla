--------------------------- MODULE MCTargetLoader ---------------------------
(***************************************************************************)
(* TargetLoader on small devices.                                          *)
(***************************************************************************)
EXTENDS TargetLoader

\* A partition table of two partitions; the second one ends beyond U32 units.
MCPartitions == {[start |-> 0, length |-> 1], [start |-> 1, length |-> 20]}

=============================================================================
