------------------------------ MODULE FlashOps ------------------------------
(***************************************************************************)
(* The eMMC as the target loader sees it: one flat array of data units,    *)
(* written and read in whole blocks through flashex_write, flashex_read    *)
(* and flashex_erase (drivers/misc/comip_flashex.c).  The hardware         *)
(* partitions behind the flat view are the subject of module MmcPart.      *)
(*                                                                         *)
(* A unit of data is a token that says where it comes from, never a        *)
(* concrete byte: the loader only copies data.                             *)
(***************************************************************************)
EXTENDS Integers

CONSTANTS
  BlkSize,    \* units in a block (mmc->write_bl_len, DEF_BLK_SIZE)
  FlashSize,  \* units in the device (mmc->capacity)
  BootSize,   \* units of the boot partition (mmc->boot_part_size)
  Faults      \* may the device fail a write or an erase?

ASSUME BlkSizeAssumption == BlkSize \in Nat \ {0}
ASSUME FlashSizeAssumption == FlashSize \in Nat /\ FlashSize % BlkSize = 0
ASSUME BootSizeAssumption == BootSize \in 0..FlashSize /\ BootSize % BlkSize = 0
ASSUME FaultsAssumption == Faults \in BOOLEAN

Addr == 0..(FlashSize - 1)

\* Faulty variant of BlkCnt: a block too many.
BlkCntPlusOne(len) == len \div BlkSize + 1

\* (len % blk_size) ? len / blk_size + 1 : len / blk_size
BlkCnt(len) ==
  IF len % BlkSize # 0 THEN len \div BlkSize + 1 ELSE len \div BlkSize

\* The first unit of the block that holds unit addr: start / blk_size.
BlkStart(addr) == (addr \div BlkSize) * BlkSize

\* The units that a call with (start, len) touches: whole blocks, from the
\* block that holds start.
Touched(start, len) ==
  {a \in Addr : BlkStart(start) <= a /\ a < BlkStart(start) + BlkCnt(len) * BlkSize}

\* The bound check of mmc_write_blocks and mmc_bread.
Fits(start, len) == BlkStart(start) + BlkCnt(len) * BlkSize <= FlashSize

\* mem with the units S overwritten from the buffer src, whose unit 0 goes to
\* the first unit of the first block.
Stored(mem, start, S, src) ==
  [a \in Addr |-> IF a \in S THEN src[a - BlkStart(start)] ELSE mem[a]]

\* What a failing operation on the units S may still have done: any of its
\* blocks.
Partial(S) ==
  {{a \in S : a \div BlkSize \in B} : B \in SUBSET {a \div BlkSize : a \in S}}

(***************************************************************************)
(* flashex_write: what the device holds after the call, and the call's     *)
(* verdict.  A call that fails may have stored any part of its data.       *)
(***************************************************************************)
flashex_write(mem, start, src, len) ==
  {[mem |-> Stored(mem, start, Touched(start, len), src), ok |-> TRUE] :
     x \in {y \in {0} : Fits(start, len) \/ len = 0}}
  \cup
  {[mem |-> Stored(mem, start, S, src), ok |-> FALSE] :
     S \in {T \in Partial(Touched(start, len)) :
              len # 0 /\ (Faults \/ ~Fits(start, len))}}

\* flashex_erase clips the length to the capacity.
EraseLen(len) == IF len > FlashSize THEN FlashSize ELSE len

\* The units erased.  From address 0 the boot partition comes first, and what
\* is left of the length is then taken from the start of the user area; any
\* other start address is in the user area.
Erased(start, len) ==
  LET n == EraseLen(len) IN
  IF start # 0 THEN {a \in Touched(start, n) : a >= BootSize}
  ELSE IF n <= BootSize THEN Touched(0, n)
  ELSE {a \in Addr : a < BootSize} \cup Touched(0, n - BootSize)

(***************************************************************************)
(* flashex_erase.  It refuses an empty or unaligned range, and a range     *)
(* that starts at 0 when no boot partition is enabled (part_config is the  *)
(* device's, so either answer is possible here); a failing erase stops     *)
(* anywhere.                                                               *)
(***************************************************************************)
flashex_erase(mem, start, len, blank) ==
  LET Wiped(S) == [a \in Addr |-> IF a \in S THEN blank ELSE mem[a]]
      valid == len # 0 /\ start % BlkSize = 0
      fits == start + EraseLen(len) <= FlashSize
  IN  {[mem |-> Wiped(Erased(start, len)), ok |-> TRUE] :
         x \in {y \in {0} : valid /\ fits}}
      \cup
      {[mem |-> mem, ok |-> FALSE] : x \in {y \in {0} : ~valid \/ start = 0}}
      \cup
      {[mem |-> Wiped(S), ok |-> FALSE] :
         S \in {T \in Partial(Erased(start, len)) : valid /\ (Faults \/ ~fits)}}

\* Faulty variant of flashex_read: the block number used as an address.
flashex_readBlkNo(mem, start, len) ==
  [i \in 0..(len - 1) |-> mem[(start \div BlkSize) + i]]

\* flashex_read: the blocks from start on, cut to the len units asked for.
flashex_read(mem, start, len) ==
  [i \in 0..(len - 1) |-> mem[BlkStart(start) + i]]

=============================================================================
