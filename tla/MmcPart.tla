------------------------------ MODULE MmcPart -------------------------------
(***************************************************************************)
(* The block device of drivers/mmc/mmc.c on an eMMC with hardware          *)
(* partitions.  Block numbers below BootBlks mean a boot partition, the    *)
(* others the user area, but the card has one partition open at a time:    *)
(* its PARTITION_CONFIG byte says which one, and mmc->part_num is the      *)
(* driver's copy of that.  mmc_bwrite and mmc_bread switch the card when   *)
(* the copy says so; flashex_erase switches it on its own; mmc_berase does *)
(* not switch it.                                                          *)
(*                                                                         *)
(* A call is one step that routes it, then one step for each command that  *)
(* moves blocks.  The board may be reset between any two of them.          *)
(***************************************************************************)
EXTENDS Integers, Sequences

CONSTANTS
  Lba,           \* blocks of the user area (block_dev.lba, capacity)
  BootBlks,      \* blocks of a boot partition (boot_part_size)
  BMax,          \* mmc->b_max, blocks moved by one command
  EraseGrp,      \* mmc->erase_grp_size
  Spans,         \* [start, cnt] of the block_write and block_read calls
  EraseSpans,    \* [start, cnt] of the flashex_erase calls
  RawSpans,      \* [start, cnt] of the block_erase calls of comip_flash.c
  SwitchFaults,  \* may CMD_SWITCH fail?
  IoFaults,      \* may the other commands fail?
  MaxOps         \* bound: calls per behaviour

Span == [start : Nat, cnt : Nat \ {0}]

ASSUME SizeAssumption == Lba \in Nat \ {0} /\ BootBlks \in 0..Lba
ASSUME ChunkAssumption == BMax \in Nat \ {0} /\ EraseGrp \in Nat \ {0}
ASSUME SpanAssumption ==
  Spans \subseteq Span /\ EraseSpans \subseteq Span /\ RawSpans \subseteq Span
ASSUME FaultAssumption == SwitchFaults \in BOOLEAN /\ IoFaults \in BOOLEAN
ASSUME OpsAssumption == MaxOps \in Nat

VARIABLES
  card,     \* [access, enable]: the card's PARTITION_CONFIG
  host,     \* [part_num, enable]: mmc->part_num, boot bits of mmc->part_config
  store,    \* what every partition of the card holds
  job,      \* the call under way
  result,   \* what the last call returned
  ops,      \* calls so far
  doubt     \* history: what has happened to the open partition since the copy was last
            \* set: "bypass", flashex_erase has switched the card, "failed", a switch
            \* was given up, or "none"

vars == <<card, host, store, job, result, ops, doubt>>

BootPart == {"PART_BOOT_1", "PART_BOOT_2"}
Part == BootPart \cup {"PART_USER"}

\* Boot bits of part_config: none, one of the boot partitions, or the whole
\* byte is MMCPART_NOAVAILABLE because the card has no partitions.
Enable == BootPart \cup {"none", "MMCPART_NOAVAILABLE"}
HasParts == host.enable # "MMCPART_NOAVAILABLE"

Block == 0..(Lba - 1)
PartSize(p) == IF p = "PART_USER" THEN Lba ELSE BootBlks
Erased == -1

Idle == [op |-> "idle", start |-> 0, todo |-> 0, got |-> <<>>,
         base |-> 0, cnt |-> 0, rest |-> 0]
Returns(r, data) == result' = [is |-> r, data |-> data]

\* mmc_init: CMD0 opens the user area; mmc_startup reads PARTITION_CONFIG.
Init ==
  /\ card \in [access : {"PART_USER"}, enable : Enable]
  /\ host = [part_num |-> "PART_USER", enable |-> card.enable]
  /\ store = [p \in Part |-> [b \in Block |-> 0]]
  /\ job = Idle
  /\ result = [is |-> "none", data |-> <<>>]
  /\ ops = 0
  /\ doubt = "none"

-----------------------------------------------------------------------------
(***************************************************************************)
(* Switching: sets of [card, host, ok], the possible outcomes of a call.   *)
(***************************************************************************)
Kept(c, h, ok) == [card |-> c, host |-> h, ok |-> ok]

\* Faulty variant of mmc_switch_part: the boot bits are not set.
mmc_switch_partNoEnable(c, h, p) ==
  {Kept([access |-> p, enable |-> h.enable], h, TRUE)}

\* A failed CMD_SWITCH may have reached the card.  Opening a boot partition
\* also makes it the one that is booted from.
mmc_switch_part(c, h, p) ==
  LET done == [access |-> p, enable |-> IF p \in BootPart THEN p ELSE h.enable]
  IN  {Kept(done, IF p \in BootPart THEN [h EXCEPT !.enable = p] ELSE h, TRUE)}
      \cup {Kept(x, h, FALSE) : x \in {y \in {c, done} : SwitchFaults}}

\* Faulty variant of mmc_switch_partition: the copy is not brought up to date.
mmc_switch_partitionForgets(c, h, p) ==
  IF h.enable = "MMCPART_NOAVAILABLE" THEN {Kept(c, h, FALSE)}
  ELSE mmc_switch_part(c, h, p)

\* Eleven tries; they end as one try would.
mmc_switch_partition(c, h, p) ==
  IF h.enable = "MMCPART_NOAVAILABLE" THEN {Kept(c, h, FALSE)}
  ELSE IF p = h.part_num THEN {Kept(c, h, TRUE)}
  ELSE {IF r.ok THEN [r EXCEPT !.host.part_num = p] ELSE r : r \in mmc_switch_part(c, h, p)}

\* (start + blkcnt) <= boot_blkcnt
InBoot(start, cnt) == start + cnt <= BootBlks

\* The way mmc_bwrite and mmc_bread choose the partition.
Route(start, cnt) ==
  IF InBoot(start, cnt)
  THEN IF host.part_num # "PART_USER" THEN {Kept(card, host, TRUE)}
       ELSE UNION {IF r.ok THEN {r} ELSE mmc_switch_partition(r.card, r.host, "PART_BOOT_2") :
                     r \in mmc_switch_partition(card, host, "PART_BOOT_1")}
  ELSE IF host.part_num = "PART_USER" THEN {Kept(card, host, TRUE)}
       ELSE mmc_switch_partition(card, host, "PART_USER")

\* Take outcome r of a switch: one that is given up leaves card and copy in
\* doubt; after one that succeeds their standing is d.
Switched(r, d) ==
  /\ card' = r.card
  /\ host' = r.host
  /\ doubt' = IF r.ok THEN d ELSE IF HasParts THEN "failed" ELSE doubt

\* mmc_switch_partition settles them, if it switches at all.
Settled(r) == IF r.card = card /\ r.host = host THEN doubt ELSE "none"

-----------------------------------------------------------------------------
(***************************************************************************)
(* block_write and block_read.                                             *)
(***************************************************************************)

\* The outcome of the switch is not looked at; mmc_set_blocklen may fail.
Start(op, s) ==
  /\ job.op = "idle" /\ ops < MaxOps
  /\ ops' = ops + 1
  /\ \E r \in Route(s.start, s.cnt) : Switched(r, Settled(r))
  /\ \/ /\ job' = [Idle EXCEPT !.op = op, !.start = s.start, !.todo = s.cnt,
                               !.base = s.start, !.cnt = s.cnt]
        /\ Returns("none", <<>>)
     \/ /\ IoFaults
        /\ Returns("fail", <<>>)
        /\ UNCHANGED job
  /\ UNCHANGED store

mmc_bwrite(s) == Start("write", s)

\* mmc_bread checks the range first.
mmc_bread(s) == s.start + s.cnt <= Lba /\ Start("read", s)

mmc_breadRefused(s) ==
  /\ job.op = "idle" /\ ops < MaxOps
  /\ s.start + s.cnt > Lba
  /\ ops' = ops + 1
  /\ Returns("fail", <<>>)
  /\ UNCHANGED <<card, host, store, job, doubt>>

\* Faulty variants of Chunk: the last, short command is as long as the others,
\* and the remainder is moved first.
ChunkWhole == BMax
ChunkRemainder == job.todo % BMax

\* (blocks_todo > b_max) ? b_max : blocks_todo
Chunk == IF job.todo > BMax THEN BMax ELSE job.todo

\* Faulty variant of Done: the block number is not advanced.
DoneInPlace(n) == [job EXCEPT !.todo = @ - n]

\* The loop's bookkeeping after n blocks.
Done(n) == [job EXCEPT !.start = @ + n, !.todo = @ - n]

Put(n, v) ==
  [store EXCEPT ![card.access] =
     [b \in Block |-> IF job.start <= b /\ b < job.start + n THEN v ELSE @[b]]]

\* The card moves no block beyond the end of the partition that is open.
OnCard(n) == job.start + n <= PartSize(card.access)

mmc_write_blocks ==
  /\ job.op = "write"
  /\ job.start + Chunk <= Lba /\ OnCard(Chunk)
  /\ store' = Put(Chunk, ops)
  /\ job' = IF Chunk = job.todo THEN Idle ELSE Done(Chunk)
  /\ Returns(IF Chunk = job.todo THEN "ok" ELSE "none", <<>>)
  /\ UNCHANGED <<card, host, ops, doubt>>

\* Refused by the driver, or by the card after k blocks.
WriteFails(k) ==
  /\ job.op = "write"
  /\ k <= Chunk /\ (k > 0 => OnCard(k))
  /\ \/ job.start + Chunk > Lba /\ k = 0
     \/ job.start + Chunk <= Lba /\ (IoFaults \/ ~OnCard(Chunk))
  /\ store' = Put(k, ops)
  /\ job' = Idle
  /\ Returns("fail", <<>>)
  /\ UNCHANGED <<card, host, ops, doubt>>

Got(n) == job.got \o [i \in 1..n |-> store[card.access][job.start + i - 1]]

mmc_read_blocks ==
  /\ job.op = "read"
  /\ OnCard(Chunk)
  /\ job' = IF Chunk = job.todo THEN Idle ELSE [Done(Chunk) EXCEPT !.got = Got(Chunk)]
  /\ Returns(IF Chunk = job.todo THEN "ok" ELSE "none",
             IF Chunk = job.todo THEN Got(Chunk) ELSE <<>>)
  /\ UNCHANGED <<card, host, store, ops, doubt>>

ReadFails ==
  /\ job.op = "read"
  /\ IoFaults \/ ~OnCard(Chunk)
  /\ job' = Idle
  /\ Returns("fail", <<>>)
  /\ UNCHANGED <<card, host, store, ops, doubt>>

-----------------------------------------------------------------------------
(***************************************************************************)
(* Erasing.                                                                *)
(***************************************************************************)
EraseJob(op, start, cnt, todo, rest) ==
  [op |-> op, start |-> start, todo |-> todo, got |-> <<>>,
   base |-> start, cnt |-> cnt, rest |-> rest]

\* From block 0 the boot partition is erased first; what is left of the length
\* is then erased from the start of the user area.
EraseCnt(s) == IF s.cnt > Lba THEN Lba ELSE s.cnt
EraseRest(s) == IF s.start = 0 /\ EraseCnt(s) > BootBlks THEN EraseCnt(s) - BootBlks ELSE 0

\* flashex_erase up to its first block_erase: one try at the switch, and
\* mmc->part_num stays as it was.
flashex_erase(s) ==
  /\ job.op = "idle" /\ ops < MaxOps
  /\ ops' = ops + 1
  /\ \/ /\ s.start = 0 /\ host.enable \notin BootPart
        /\ Returns("fail", <<>>)
        /\ UNCHANGED <<card, host, job, doubt>>
     \/ /\ s.start = 0 => host.enable \in BootPart
        /\ \E r \in mmc_switch_part(card, host,
                                    IF s.start = 0 THEN host.enable ELSE "PART_USER") :
             /\ Switched(r, "bypass")
             /\ IF r.ok
                THEN /\ job' = EraseJob("erase", s.start, EraseCnt(s),
                                        EraseCnt(s) - EraseRest(s), EraseRest(s))
                     /\ Returns("none", <<>>)
                ELSE /\ UNCHANGED job
                     /\ Returns("fail", <<>>)
  /\ UNCHANGED store

\* flash_partition_erase calls block_erase without looking at the partition.
block_erase(s) ==
  /\ job.op = "idle" /\ ops < MaxOps
  /\ ops' = ops + 1
  /\ job' = EraseJob("block_erase", s.start, s.cnt, s.cnt, 0)
  /\ Returns("none", <<>>)
  /\ UNCHANGED <<card, host, store, doubt>>

Group == IF job.todo > EraseGrp THEN EraseGrp ELSE job.todo

\* One erase command of mmc_berase; flashex_erase then goes on with the user
\* area, from the same start block, whether or not that switch succeeds.
mmc_erase_t ==
  /\ job.op \in {"erase", "block_erase"}
  /\ OnCard(Group)
  /\ store' = Put(Group, Erased)
  /\ IF Group < job.todo
     THEN /\ job' = Done(Group)
          /\ UNCHANGED <<card, host, result, doubt>>
     ELSE IF job.rest > 0
     THEN /\ job' = [job EXCEPT !.start = job.base, !.todo = job.rest, !.rest = 0]
          /\ \E r \in mmc_switch_part(card, host, "PART_USER") : Switched(r, "bypass")
          /\ UNCHANGED result
     ELSE /\ job' = Idle
          /\ Returns("ok", <<>>)
          /\ UNCHANGED <<card, host, doubt>>
  /\ UNCHANGED ops

\* flash_partition_erase takes any block that was erased for success.
EraseFails ==
  /\ job.op \in {"erase", "block_erase"}
  /\ IoFaults \/ ~OnCard(Group)
  /\ job' = Idle
  /\ Returns(IF job.op = "block_erase" /\ job.todo < job.cnt THEN "ok" ELSE "fail", <<>>)
  /\ UNCHANGED <<card, host, store, ops, doubt>>

-----------------------------------------------------------------------------
\* Reset at any point: mmc_init again.
Reboot ==
  /\ card' = [card EXCEPT !.access = "PART_USER"]
  /\ host' = [part_num |-> "PART_USER", enable |-> card.enable]
  /\ job' = Idle
  /\ Returns("none", <<>>)
  /\ doubt' = "none"
  /\ UNCHANGED <<store, ops>>

Transfer ==
  \/ mmc_write_blocks
  \/ \E k \in 0..BMax : WriteFails(k)
  \/ mmc_read_blocks
  \/ ReadFails
  \/ mmc_erase_t
  \/ EraseFails

Next ==
  \/ \E s \in Spans : mmc_bwrite(s) \/ mmc_bread(s) \/ mmc_breadRefused(s)
  \/ \E s \in EraseSpans : flashex_erase(s)
  \/ \E s \in RawSpans : block_erase(s)
  \/ Transfer
  \/ Reboot

Spec == Init /\ [][Next]_vars

\* A command that the driver or the card refuses.
Refused ==
  \/ job.op = "write" /\ (job.start + Chunk > Lba \/ ~OnCard(Chunk))
  \/ job.op = "read" /\ ~OnCard(Chunk)
  \/ job.op \in {"erase", "block_erase"} /\ ~OnCard(Group)

\* A call under way is carried on, since nothing else runs; a command that could
\* succeed need not fail.
Proceed == mmc_write_blocks \/ mmc_read_blocks \/ mmc_erase_t \/ (Refused /\ Transfer)
FairSpec == Spec /\ WF_vars(Proceed)

-----------------------------------------------------------------------------
(***************************************************************************)
(* Properties.                                                             *)
(***************************************************************************)

Job == [op : {"idle", "write", "read", "erase", "block_erase"}, start : Nat, todo : Nat,
        got : Seq(Int), base : Nat, cnt : Nat, rest : Nat]

\* Every variable of the block layer stays in its range.
TypeOK ==
  /\ card \in [access : Part, enable : Enable]
  /\ host \in [part_num : Part, enable : Enable]
  /\ store \in [Part -> [Block -> {Erased} \cup 0..MaxOps]]
  /\ job \in Job
  /\ result.is \in {"none", "ok", "fail"}
  /\ ops \in 0..MaxOps
  /\ doubt \in {"none", "bypass", "failed"}

\* mmc->part_num is the partition that the card has open, unless a switch was
\* given up or flashex_erase has gone round it: mmc_bwrite and mmc_bread decide
\* by it whether to switch at all.
PartNumIsOpen == doubt = "none" => host.part_num = card.access

\* When a call for blocks of the boot partition succeeds, all of them are in one
\* partition, the one that is open, and that is the one the card boots from,
\* except while a switch that was given up, or flashex_erase's own switch, leaves
\* mmc->part_num in doubt: mmc_bwrite then puts the boot image wherever the card
\* stands, the user area included, and reports success.
BootsWhatWasWritten ==
  [][/\ job.op = "write" /\ result'.is = "ok" /\ InBoot(job.base, job.cnt) /\ HasParts
     => /\ \A b \in job.base..(job.base + job.cnt - 1) : store'[card.access][b] = ops
        /\ doubt = "none" => card.access = card.enable /\ card.enable \in BootPart]_vars

\* A flashex_erase that succeeds has erased its range: blocks of the user area,
\* or, from block 0, the partition that is booted from and then the user area
\* for what is left of the length, unless the switch between the two failed.
\* The boot partitions are left alone by an erase that starts elsewhere.
EraseHitsItsRange ==
  [][job.op = "erase" =>
       /\ result'.is = "ok" /\ result.is = "none" /\ doubt = "bypass" =>
            LET last == job.base + job.cnt - 1 IN
            IF job.base # 0
            THEN \A b \in job.base..last : store'["PART_USER"][b] = Erased
            ELSE /\ \A b \in Block : b < BootBlks /\ b <= last =>
                                       store'[host.enable][b] = Erased
                 /\ \A b \in Block : b <= last - BootBlks =>
                                       store'["PART_USER"][b] = Erased
       /\ job.base # 0 => \A p \in BootPart : store'[p] = store[p]]_vars

\* A call comes to an end, however long and wherever it fails.
CallsEnd == job.op # "idle" ~> job.op = "idle"

\* The flat device that callers of block_write and block_read rely on: blocks
\* below BootBlks in the first boot partition, the others in the user area.
Flat == INSTANCE FlatDisk WITH
  disk <- [b \in Block |->
             store[IF b < BootBlks /\ HasParts THEN "PART_BOOT_1" ELSE "PART_USER"][b]],
  req <- [op |-> job.op, start |-> job.start, todo |-> job.todo, got |-> job.got],
  out <- result

\* The block layer implements the flat device.
ImplementsFlatDisk == Flat!FlatSpec

=============================================================================
