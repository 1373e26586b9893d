---------------------------- MODULE DqsTraining -----------------------------
(***************************************************************************)
(* The delay searches of board/leadcore/lc186x/dqs_training.c, for one     *)
(* slice of the data bus.  A sweep runs the memory controller's self test  *)
(* at every delay and records what fails; a filter looks for a window of   *)
(* delays that work; the delay in the middle of it (write_dq_training,     *)
(* read_dqs_training) or 3/4 clock before its end (gate_software_training) *)
(* is programmed.  The slices are searched alike and one by one.           *)
(***************************************************************************)
EXTENDS Integers, Sequences

CONSTANTS
  Delays,     \* delays of the data searches (256)
  Coarse,     \* coarse delays of the gate search (6), of half a clock each
  Fine,       \* fine delays for each of them (16), together a clock
  MinRun,     \* delays that work in a row to be a window (5)
  Lo, Hi,     \* limits of a data delay (0x30, 0x60)
  Standard,   \* write_dq_standard_value, read_dqs_standard_value
  Modulus     \* of the unsigned arithmetic

ASSUME SizeAssumption ==
  /\ Delays \in Nat /\ Coarse \in Nat /\ Fine \in Nat /\ MinRun \in Nat \ {0}
  /\ Fine % 4 = 0 /\ MinRun <= Delays /\ MinRun <= Coarse * Fine
ASSUME LimitAssumption == Lo \in Nat \ {0} /\ Hi \in 0..(Delays - 1) /\ Standard \in Lo..Hi
ASSUME ModulusAssumption == Modulus \in Nat /\ Modulus > Coarse * Fine

VARIABLES
  search,   \* "data" or "gate"
  record,   \* data_record: 0 where the self test passed, 1 where it failed
  j,        \* the delay looked at, from 0
  win,      \* [max_len, flag, data1, data2] of the filter
  found,    \* the middle of the window chosen, or its last delay
  set,      \* the delay programmed: [coarse, fine], a data delay as fine
  pc

vars == <<search, record, j, win, found, set, pc>>

Size == IF search = "data" THEN Delays ELSE Coarse * Fine
At(i) == record[i + 1]
NotFound == -1
NotSet == [coarse |-> 0, fine |-> NotFound]

-----------------------------------------------------------------------------
\* The sweep: bist_test at one delay after the other.  A self test that times out counts
\* as what its status bit says.
Sweep ==
  /\ pc = "sweep"
  /\ \E flag \in {0, 1} : record' = Append(record, flag)
  /\ pc' = IF Len(record') = Size THEN "look" ELSE "sweep"
  /\ UNCHANGED <<search, j, win, found, set>>

\* training_record_filter, and the same loops in gate_software_training.  The outer loop:
\* a window starts where MinRun delays work.
Look ==
  /\ pc = "look"
  /\ IF j > Size - MinRun
     THEN /\ pc' = "apply" /\ UNCHANGED <<j, win>>
          /\ found' = IF search = "data" /\ win.data1 = 0 /\ win.data2 = 0 THEN 0 ELSE found
     ELSE /\ UNCHANGED found
          /\ IF \A i \in j..(j + MinRun - 1) : At(i) = 0
             THEN pc' = "follow" /\ win' = [win EXCEPT !.data1 = j] /\ UNCHANGED j
             ELSE pc' = pc /\ j' = j + 1 /\ UNCHANGED win
  /\ UNCHANGED <<search, record, set>>

\* The delay a window stands for.
Pick(data1, data2) == IF search = "data" THEN (data1 + data2) \div 2 ELSE data2

\* The inner loop: the window ends at the first delay that fails, or with the record.  In
\* the first case the longest window is kept, and the first of these; in the second the
\* window is taken whatever its length.  The outer loop goes on behind that delay.
\* Faulty variant: every window replaces the one before.
FollowForgetsLongest ==
  /\ pc = "follow"
  /\ LET k == j + 1
         len == k - win.data1
         ends == k > Size - 1 \/ At(k) = 1
     IN /\ j' = IF ends THEN k + 1 ELSE k
        /\ pc' = IF ends THEN "look" ELSE "follow"
        /\ win' = IF ends THEN [win EXCEPT !.data2 = k - 1, !.flag = TRUE, !.max_len = len] ELSE win
        /\ found' = IF ends THEN Pick(win.data1, k - 1) ELSE found
  /\ UNCHANGED <<search, record, set>>

Follow ==
  /\ pc = "follow"
  /\ LET k == j + 1
         len == k - win.data1
         over == k > Size - 1
         ends == over \/ At(k) = 1
         longest == ends /\ ~over /\ (~win.flag \/ len > win.max_len)
     IN /\ j' = IF ends THEN k + 1 ELSE k
        /\ pc' = IF ends THEN "look" ELSE "follow"
        /\ win' = [win EXCEPT !.data2 = IF ends THEN k - 1 ELSE @,
                              !.flag = @ \/ longest,
                              !.max_len = IF longest THEN len ELSE @]
        /\ found' = IF over \/ longest THEN Pick(win.data1, k - 1) ELSE found
  /\ UNCHANGED <<search, record, set>>

\* write_dq_training and read_dqs_training: a delay out of the limits is replaced.

ApplyData ==
  /\ pc = "apply" /\ search = "data"
  /\ set' = [coarse |-> 0, fine |-> IF found < Lo \/ found > Hi THEN Standard ELSE found]
  /\ pc' = "done"
  /\ UNCHANGED <<search, record, j, win, found>>

\* gate_software_training: "find the last working value and then reduce by 3/4clk".  A
\* coarse delay is half a clock, Quarter fine delays are a quarter.  When no window was
\* found, the arrays hold what the stack had.
Quarter == Fine \div 4
Last == IF found # NotFound THEN {found} ELSE 0..(Size - 1)
\* Faulty variant: the borrow is one coarse delay, too.
ApplyGateOneCoarse ==
  /\ pc = "apply" /\ search = "gate"
  /\ \E d \in Last :
       set' = IF d % Fine >= Quarter
              THEN [coarse |-> (d \div Fine - 1) % Modulus, fine |-> (d % Fine) - Quarter]
              ELSE [coarse |-> (d \div Fine - 1) % Modulus, fine |-> (d % Fine) + Quarter]
  /\ pc' = "done"
  /\ UNCHANGED <<search, record, j, win, found>>

ApplyGate ==
  /\ pc = "apply" /\ search = "gate"
  /\ \E d \in Last :
       set' = IF d % Fine >= Quarter
              THEN [coarse |-> (d \div Fine - 1) % Modulus, fine |-> (d % Fine) - Quarter]
              ELSE [coarse |-> (d \div Fine - 2) % Modulus, fine |-> (d % Fine) + Quarter]
  /\ pc' = "done"
  /\ UNCHANGED <<search, record, j, win, found>>

Init ==
  /\ search \in {"data", "gate"}
  /\ record = <<>>
  /\ j = 0
  /\ win = [max_len |-> 0, flag |-> FALSE, data1 |-> 0, data2 |-> 0]
  /\ found = NotFound
  /\ set = NotSet
  /\ pc = "sweep"

Done == pc = "done" /\ UNCHANGED vars
Next == Sweep \/ Look \/ Follow \/ ApplyData \/ ApplyGate \/ Done

Spec == Init /\ [][Next]_vars

-----------------------------------------------------------------------------
(***************************************************************************)
(* Properties.                                                             *)
(***************************************************************************)
\* Every variable keeps its type; the inner loop never looks behind the record.
TypeOK ==
  /\ search \in {"data", "gate"}
  /\ record \in Seq({0, 1}) /\ Len(record) <= Size
  /\ pc \in {"sweep", "look", "follow", "apply", "done"}
  /\ pc = "follow" => j \in 0..(Size - 1)
  /\ j \in 0..(Size + 1)
  /\ win \in [max_len : 0..Size, flag : BOOLEAN, data1 : 0..(Size - 1), data2 : 0..(Size - 1)]
  /\ found \in NotFound..(Size - 1)
  /\ set \in [coarse : 0..(Modulus - 1), fine : NotFound..(Delays + Fine)]

\* The windows of a record: the longest stretches of delays that all work.
Windows ==
  {w \in (0..(Size - 1)) \X (0..(Size - 1)) :
     /\ w[2] - w[1] >= MinRun - 1
     /\ \A i \in w[1]..w[2] : At(i) = 0
     /\ w[1] > 0 => At(w[1] - 1) = 1
     /\ w[2] < Size - 1 => At(w[2] + 1) = 1}
Length(w) == w[2] - w[1] + 1
Better(v, w) ==
  \/ v[2] = Size - 1
  \/ w[2] # Size - 1 /\ (Length(v) > Length(w) \/ (Length(v) = Length(w) /\ v[1] <= w[1]))

\* The loops find what they are to find: of the windows the longest, of these the first;
\* a window at the end of the record before all others, however short it is.
FindsWindow ==
  pc \in {"apply", "done"} =>
    IF Windows = {} THEN found = IF search = "data" THEN 0 ELSE NotFound
    ELSE \E v \in Windows : (\A w \in Windows : Better(v, w)) /\ found = Pick(v[1], v[2])

\* A data delay that is programmed has passed the self test and lies within the limits,
\* or is the standard value.
ProgramsWorkingDelay ==
  pc = "done" /\ search = "data" =>
    set.fine = Standard \/ (set.fine \in Lo..Hi /\ At(set.fine) = 0)

\* The delay of a setting in fine delays, half a clock to a coarse one.
DelayOf(coarse, fine) == coarse * (Fine \div 2) + fine

\* The gate is 3/4 clock before the last delay that works, unless that one has a coarse
\* delay of 0 or 1: then the unsigned subtraction may wrap.
LateGateIsReduced ==
  pc = "done" /\ search = "gate" /\ found \div Fine >= 2 =>
    DelayOf(set.coarse, set.fine) = DelayOf(found \div Fine, found % Fine) - 3 * Quarter

\* What is programmed is right for what was found.
Safety == TypeOK /\ ProgramsWorkingDelay /\ LateGateIsReduced

=============================================================================
