----------------------------- MODULE MCMmcPart ------------------------------
(***************************************************************************)
(* MmcPart on a card with five blocks in the user area and two in each     *)
(* boot partition.                                                         *)
(***************************************************************************)
EXTENDS MmcPart

S(a, n) == [start |-> a, cnt |-> n]

\* Within the boot partition, within the user area (one and two commands) and
\* past the end; none of them across the boundary.
MCSpans == {S(0, 1), S(0, 2), S(2, 1), S(2, 3), S(4, 2)}
MCTwoSpans == {S(0, 2), S(2, 3)}

\* The boot partition, the whole device and more, and the user area.
MCEraseSpans == {S(0, 2), S(0, 6), S(2, 3)}
MCRawSpans == {S(1, 2), S(3, 3)}

=============================================================================
