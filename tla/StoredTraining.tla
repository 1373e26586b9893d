--------------------------- MODULE StoredTraining ---------------------------
(***************************************************************************)
(* What keeping the DDR training results on flash promises: the memory     *)
(* runs on the results of one training, either the one just made or the    *)
(* one that is kept, and what is kept changes as a whole: to the results   *)
(* that are running, or to nothing.  A training is named by a number.      *)
(***************************************************************************)
EXTENDS Naturals

CONSTANT Trainings   \* the trainings there may be, positive numbers

None == 0

VARIABLES
  kept,      \* the training on flash, or None
  running    \* the training the memory runs on, or None

Init == kept = None /\ running = None

Train == running = None /\ running' \in Trainings /\ kept' \in {kept, None}
Commit == running # None /\ kept' = running /\ UNCHANGED running
Restore == running = None /\ kept # None /\ running' = kept /\ UNCHANGED kept
Stop == running' = None /\ kept' \in {kept, None}
Forget == kept' = None /\ UNCHANGED running

Next == Train \/ Commit \/ Restore \/ Stop \/ Forget
Spec == Init /\ [][Next]_<<kept, running>>

=============================================================================
