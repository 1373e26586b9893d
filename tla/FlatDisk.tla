------------------------------ MODULE FlatDisk ------------------------------
(***************************************************************************)
(* What block_write and block_read promise their callers (flashex_write,   *)
(* flashex_read, flash_partition_write, ...): one flat array of blocks.  A *)
(* request runs over its blocks in order; a call that succeeds has moved   *)
(* all of them, a call that fails, or is cut off by a reset, a prefix.     *)
(***************************************************************************)
EXTENDS Integers, Sequences

CONSTANTS
  Lba,     \* blocks of the device (block_dev.lba)
  MaxOps   \* bound: requests per behaviour

VARIABLES
  disk,    \* contents: the number of the request that wrote a block, 0 if none
  req,     \* the request under way: [op, start, todo, got]
  out,     \* what the last call returned: [is, data]
  ops      \* requests so far

flatVars == <<disk, req, out, ops>>

Block == 0..(Lba - 1)
NoReq == [op |-> "idle", start |-> 0, todo |-> 0, got |-> <<>>]
Silent == [is |-> "none", data |-> <<>>]

FlatInit ==
  /\ disk = [b \in Block |-> 0]
  /\ req = NoReq
  /\ out = Silent
  /\ ops = 0

\* Any request, also one that runs past the end of the device.
Begin ==
  /\ req.op = "idle" /\ ops < MaxOps
  /\ req' \in [op : {"write", "read"}, start : Nat, todo : Nat \ {0}, got : {<<>>}]
  /\ out' = Silent
  /\ ops' = ops + 1
  /\ UNCHANGED disk

\* The first k of the blocks still to be written, or read.
Stored(k) ==
  [b \in Block |-> IF req.start <= b /\ b < req.start + k THEN ops ELSE disk[b]]
Fetched(k) == req.got \o [i \in 1..k |-> disk[req.start + i - 1]]

Move(k) ==
  /\ k <= req.todo /\ (k > 0 => req.start + k <= Lba)
  /\ disk' = IF req.op = "write" THEN Stored(k) ELSE disk

Advance(k) ==
  /\ req.op # "idle" /\ k < req.todo
  /\ Move(k)
  /\ req' = [req EXCEPT !.start = @ + k, !.todo = @ - k,
                        !.got = IF req.op = "read" THEN Fetched(k) ELSE @]
  /\ UNCHANGED <<out, ops>>

Finish ==
  /\ req.op # "idle"
  /\ Move(req.todo)
  /\ req' = NoReq
  /\ out' = [is |-> "ok", data |-> IF req.op = "read" THEN Fetched(req.todo) ELSE <<>>]
  /\ UNCHANGED ops

Fail(k) ==
  /\ req.op # "idle"
  /\ Move(k)
  /\ req' = NoReq
  /\ out' = [is |-> "fail", data |-> <<>>]
  /\ UNCHANGED ops

\* A request that is refused at once.
Refuse ==
  /\ req.op = "idle" /\ ops < MaxOps
  /\ out' = [is |-> "fail", data |-> <<>>]
  /\ ops' = ops + 1
  /\ UNCHANGED <<disk, req>>

\* Power goes, or the watchdog bites.
CutOff ==
  /\ req' = NoReq
  /\ out' = Silent
  /\ UNCHANGED <<disk, ops>>

FlatNext ==
  \/ Begin
  \/ \E k \in 0..Lba : Advance(k) \/ Fail(k)
  \/ Finish
  \/ Refuse
  \/ CutOff

FlatSpec == FlatInit /\ [][FlatNext]_flatVars

=============================================================================
