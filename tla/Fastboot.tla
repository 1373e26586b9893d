------------------------------ MODULE Fastboot ------------------------------
(***************************************************************************)
(* The fastboot gadget: fastboot_command_loop of                           *)
(* drivers/usb/gadget/fastboot.c, the partition functions of               *)
(* drivers/misc/comip_flash.c that it calls, and the sparse images of      *)
(* drivers/usb/gadget/sparse_file.c.                                       *)
(*                                                                         *)
(* One turn of the loop is one action, except that a download is two, the  *)
(* command, answered with DATA, and the data; and that a flash command is  *)
(* one action for the checks before the first write and one for every      *)
(* write to the device, a chunk of a sparse image at a time.               *)
(*                                                                         *)
(* Memory and device are arrays of cells, a cell being a block or one of   *)
(* the two headers of a sparse image; lengths that the code counts in      *)
(* bytes are counted in units, BlkSize of them to a cell.                  *)
(*                                                                         *)
(* The initial state and the next-state relation have the names of the     *)
(* code, fastboot_init and fastboot_command_loop.                          *)
(***************************************************************************)
EXTENDS Integers, Sequences

CONSTANTS
  BlkSize,      \* units in a block (read_bl_len = write_bl_len = sector_size)
  U32,          \* 2^32, in units
  Lba,          \* blocks of the device
  Parts,        \* partition table: a sequence of [name, start, length] in blocks
  Names,        \* partition names the host uses
  Images,       \* the host's images: a sequence of [size, sparse, total, cells, chunks]
  DownloadMax,  \* download_max, in units
  Faults,       \* the calls that the device may fail: a set of "write", "erase"
  MaxCmds       \* bound: commands per behaviour

Cells(len) == (len + BlkSize - 1) \div BlkSize

(***************************************************************************)
(* Cells.  A raw image is data; a sparse one a header, then for each chunk *)
(* a header and, if it is raw, the chunk's data (sparse_format.h).  A data *)
(* cell names the image's block that it holds.                             *)
(***************************************************************************)
Kinds == {"raw", "dont_care", "fill"}
CellOf == [k : Kinds \cup {"data", "blank", "sparse"}, img : Nat, i : Nat, n : Nat]
Cell(k, im, i, n) == [k |-> k, img |-> im, i |-> i, n |-> n]
Data(im, i) == Cell("data", im, i, 0)
Blank == Cell("blank", 0, 0, 0)

\* An image: its size in units, total_blks of its header, its cells, and for
\* each chunk the cell of its header and the block where its output starts.
HostImage == [size : Nat, sparse : BOOLEAN, total : Nat, cells : Seq(CellOf),
              chunks : Seq([kind : Kinds, n : Nat, off : Nat, blk : Nat])]

\* The data of chunk c, in blocks.
RawLen(c) == IF c.kind = "raw" THEN c.n ELSE 0

\* A chunk follows the one before it, in the image as in its output.
Follows(c, p) == c.off = p.off + 1 + RawLen(p) /\ c.blk = p.blk + p.n

ImageHolds(im, I) ==
  /\ Len(I.cells) = Cells(I.size)
  /\ IF I.sparse
     THEN /\ Len(I.cells) > 0
          /\ I.cells[1] = Cell("sparse", im, 0, Len(I.chunks))
          /\ \A c \in 1..Len(I.chunks) : LET ch == I.chunks[c] IN
               /\ ch.off + 1 + RawLen(ch) <= Len(I.cells)
               /\ IF c = 1 THEN ch.off = 1 /\ ch.blk = 0 ELSE Follows(ch, I.chunks[c - 1])
               /\ I.cells[ch.off + 1] = Cell(ch.kind, im, c, ch.n)
               /\ \A j \in 1..RawLen(ch) : I.cells[ch.off + 1 + j] = Data(im, ch.blk + j - 1)
     ELSE \A j \in 1..Len(I.cells) : I.cells[j] = Data(im, j - 1)
  /\ \A j \in 1..Len(I.cells) : I.cells[j].k = "raw" => j + I.cells[j].n <= Len(I.cells)

ASSUME BlkAssumption ==
  /\ BlkSize \in Nat \ {0} /\ Lba \in Nat /\ DownloadMax \in Nat
  /\ U32 \in Nat \ {0} /\ U32 % BlkSize = 0
\* In every table of include/configs the last partition, userdata, starts below 4 GiB;
\* it may well be longer than that.
ASSUME PartAssumption ==
  /\ Parts \in Seq([name : STRING, start : Nat, length : Nat])
  /\ \A i \in 1..Len(Parts) : Parts[i].start * BlkSize < U32
ASSUME ImageAssumption ==
  Images \in Seq(HostImage) /\ \A im \in 1..Len(Images) : ImageHolds(im, Images[im])
ASSUME BoundAssumption == Faults \subseteq {"write", "erase"} /\ MaxCmds \in Nat

VARIABLES
  state,      \* fastboot_state
  expected,   \* image whose data cmd_download waits for, 0 if none
  size,       \* download_size
  buf,        \* what is at download_base
  disk,       \* what the device holds
  job,        \* flash_partition_erase_write under way
  replies,    \* answers to the last command
  cmds,       \* commands so far
  loaded      \* history: image of the last download that was answered with OKAY

FastbootVars == <<state, expected, size, buf, disk, job, replies, cmds, loaded>>

\* The locals of write_unsparse: chunks still to do, src in the buffer, at on the
\* device, out that has been output so far.
Job == [on : BOOLEAN, sparse : BOOLEAN, start : Nat, length : Nat,
        todo : Nat, src : Nat, at : Nat, out : Nat]
NoJob == [on |-> FALSE, sparse |-> FALSE, start |-> 0, length |-> 0,
          todo |-> 0, src |-> 0, at |-> 0, out |-> 0]

BufLen == Cells(DownloadMax) + 1
Addr == 0..(Lba - 1)

fastboot_init ==
  /\ state = "STATE_OFFLINE" /\ expected = 0 /\ size = 0
  /\ buf = [i \in 0..(BufLen - 1) |-> Blank]
  /\ disk = [b \in Addr |-> Data(0, b)]
  /\ job = NoJob /\ replies = <<>> /\ cmds = 0 /\ loaded = 0

-----------------------------------------------------------------------------
(***************************************************************************)
(* The device (drivers/mmc), called with ret the value it returns.         *)
(***************************************************************************)

\* cnt blocks from buf[src] on to block b; a failing call stores a prefix.
block_write(b, cnt, src, ret) ==
  LET Puts(k) == disk' = [x \in Addr |-> IF b <= x /\ x < b + k THEN buf[src + (x - b)]
                                         ELSE disk[x]]
  IN  \/ b + cnt <= Lba /\ ret = cnt /\ Puts(cnt)
      \/ /\ "write" \in Faults \/ b + cnt > Lba
         /\ ret = 0
         /\ \E k \in 0..cnt : (k = 0 \/ b + k <= Lba) /\ Puts(k)

\* mmc_berase returns the number of blocks it has erased.
block_erase(b, cnt, ret) ==
  /\ ret = cnt \/ "erase" \in Faults \/ b + ret >= Lba
  /\ ret = 0 \/ b + ret <= Lba
  /\ disk' = [x \in Addr |-> IF b <= x /\ x < b + ret THEN Blank ELSE disk[x]]

-----------------------------------------------------------------------------
(***************************************************************************)
(* Answers.  A conversation is [state, out]; fastboot_ack answers only in  *)
(* STATE_COMMAND, and takes the state to STATE_COMPLETE.                   *)
(***************************************************************************)

\* Faulty variant of fastboot_ack: the state is left alone.
fastboot_ackAgain(c, code) ==
  IF c.state # "STATE_COMMAND" THEN c ELSE [c EXCEPT !.out = Append(@, code)]

fastboot_ack(c, code) ==
  IF c.state # "STATE_COMMAND" THEN c
  ELSE [state |-> "STATE_COMPLETE", out |-> Append(c.out, code)]

InCommand(out) == [state |-> "STATE_COMMAND", out |-> out]

\* The end of a turn: a handler that has not answered is answered for, and
\* after STATE_ERROR the loop starts over.
EndTurn(c) ==
  LET e == IF c.state = "STATE_COMMAND" THEN fastboot_ack(c, "FAIL") ELSE c IN
  /\ state' = IF e.state = "STATE_ERROR" THEN "STATE_OFFLINE" ELSE e.state
  /\ replies' = e.out

\* The loop reads a command.
Reads == expected = 0 /\ ~job.on /\ cmds < MaxCmds /\ cmds' = cmds + 1

Answers(ret) == EndTurn(fastboot_ack(InCommand(<<>>), IF ret = 0 THEN "OKAY" ELSE "FAIL"))

\* getvar, boot, continue, powerdown, reboot-bootloader.
cmd_simple ==
  /\ Reads
  /\ Answers(0)
  /\ UNCHANGED <<expected, size, buf, disk, job, loaded>>

\* reboot: answered, then fastboot_init again.
cmd_reboot ==
  /\ Reads
  /\ state' = "STATE_OFFLINE" /\ size' = 0 /\ loaded' = 0
  /\ buf' = [i \in 0..(BufLen - 1) |-> Blank]
  /\ replies' = fastboot_ack(InCommand(<<>>), "OKAY").out
  /\ UNCHANGED <<expected, disk, job>>

\* No command has this prefix: the state is not STATE_COMMAND.
UnknownCommand ==
  /\ Reads
  /\ EndTurn(fastboot_ack([state |-> state, out |-> <<>>], "FAIL"))
  /\ UNCHANGED <<expected, size, buf, disk, job, loaded>>

\* Faulty variant of Fits: the length is not checked.
FitsAlways(im) == TRUE

\* ~(len > download_max)
Fits(im) == Images[im].size <= DownloadMax

cmd_download(im) ==
  /\ Reads
  /\ size' = 0 /\ loaded' = 0
  /\ IF Fits(im)
     THEN /\ expected' = im
          /\ state' = "STATE_COMMAND"
          /\ replies' = <<"DATA">>
     ELSE Answers(1) /\ UNCHANGED expected
  /\ UNCHANGED <<buf, disk, job>>

\* n units arrive; fewer than announced is an error, and not answered.
DownloadData(n) ==
  /\ buf' = [i \in 0..(BufLen - 1) |-> IF i < Cells(n) THEN Images[expected].cells[i + 1]
                                      ELSE buf[i]]
  /\ expected' = 0
  /\ IF n = Images[expected].size
     THEN /\ size' = n
          /\ loaded' = expected
          /\ EndTurn(fastboot_ack(InCommand(replies), "OKAY"))
     ELSE /\ EndTurn([state |-> "STATE_ERROR", out |-> replies])
          /\ UNCHANGED <<size, loaded>>
  /\ UNCHANGED <<disk, job, cmds>>

-----------------------------------------------------------------------------
(***************************************************************************)
(* Flash and erase.                                                        *)
(***************************************************************************)

\* partition_find_by_name takes the first partition of that name.
Found(name) ==
  {Parts[i] : i \in {j \in 1..Len(Parts) :
     Parts[j].name = name /\ \A k \in 1..(j - 1) : Parts[k].name # name}}

NotFound(name) ==
  /\ Reads
  /\ Found(name) = {}
  /\ Answers(1)
  /\ UNCHANGED <<expected, size, buf, disk, job, loaded>>

\* Faulty variant of StartBlock: the address in bytes is passed on.
StartBlockBytes(part) == (part.start * BlkSize) % U32

\* The first block: sector_size * start, a product of 32 bits, over read_bl_len.
StartBlock(part) == ((part.start * BlkSize) % U32) \div BlkSize

\* The file, and the output that the header of a sparse image announces; the size
\* of the partition is a product of 64 bits here.
TooLarge(part) == size > part.length * BlkSize
OutputTooLarge(part) == buf[0].k = "sparse" /\ Images[buf[0].img].total > part.length

\* flash_partition_erase_write up to its first write.
cmd_flash(part) ==
  /\ Reads
  /\ IF TooLarge(part) \/ OutputTooLarge(part)
     THEN Answers(1) /\ UNCHANGED job
     ELSE /\ job' = [on |-> TRUE, sparse |-> buf[0].k = "sparse",
                     start |-> part.start, length |-> part.length,
                     todo |-> buf[0].n, src |-> 1, at |-> StartBlock(part), out |-> 0]
          /\ state' = "STATE_COMMAND" /\ replies' = <<>>
  /\ UNCHANGED <<expected, size, buf, disk, loaded>>

\* flash_partition_erase_write returns, and cmd_flash answers.
Ends(ret) == job' = NoJob /\ Answers(ret)

\* Faulty variant of RawBlocks: one block more than there is.
RawBlocksTwoMore(n) == n \div BlkSize + 2

\* file_size / read_bl_len + 1
RawBlocks(n) == n \div BlkSize + 1

WriteRaw ==
  /\ job.on /\ ~job.sparse
  /\ \E ret \in {0, RawBlocks(size)} :
       block_write(job.at, RawBlocks(size), 0, ret) /\ Ends(IF ret > 0 THEN 0 ELSE 1)
  /\ UNCHANGED <<expected, size, buf, cmds, loaded>>

\* write_unsparse, one chunk: src walks through the buffer and at through the
\* device.  Any chunk but RAW and DONT_CARE ends it, as does one that takes the
\* output past the partition.
BadChunk(c) == c.k \notin {"raw", "dont_care"} \/ job.out + c.n > job.length

\* Faulty variant of Passed: at stays where it is over a DONT_CARE chunk.
PassedNot(c) ==
  [job EXCEPT !.todo = @ - 1, !.out = @ + c.n,
              !.at = IF c.k = "raw" THEN @ + c.n ELSE @,
              !.src = @ + 1 + (IF c.k = "raw" THEN c.n ELSE 0)]

Passed(c) ==
  [job EXCEPT !.todo = @ - 1, !.out = @ + c.n, !.at = @ + c.n,
              !.src = @ + 1 + (IF c.k = "raw" THEN c.n ELSE 0)]

WriteChunk ==
  LET c == buf[job.src] IN
  /\ job.on /\ job.sparse /\ job.todo > 0
  /\ \/ BadChunk(c) /\ Ends(1) /\ UNCHANGED disk
     \/ /\ ~BadChunk(c) /\ c.k = "dont_care"
        /\ job' = Passed(c) /\ UNCHANGED <<disk, state, replies>>
     \/ /\ ~BadChunk(c) /\ c.k = "raw"
        /\ \E ret \in {0, c.n} :
             /\ block_write(job.at, c.n, job.src + 1, ret)
             /\ IF ret = c.n THEN job' = Passed(c) /\ UNCHANGED <<state, replies>>
                ELSE Ends(1)
  /\ UNCHANGED <<expected, size, buf, cmds, loaded>>

ChunksDone ==
  /\ job.on /\ job.sparse /\ job.todo = 0
  /\ Ends(0)
  /\ UNCHANGED <<expected, size, buf, disk, cmds, loaded>>

\* The length in bytes is passed as the number of blocks; sector_size * length is a
\* product of 32 bits, so that a partition of 4 GiB or more loses the upper ones.
EraseCount(part) == (part.length * BlkSize) % U32

flash_partition_erase(part, ret) == block_erase(StartBlock(part), EraseCount(part), ret)

cmd_erase(part) ==
  /\ Reads
  /\ \E ret \in 0..EraseCount(part) :
       /\ flash_partition_erase(part, ret)
       /\ Answers(IF ret > 0 THEN 0 ELSE 1)
  /\ UNCHANGED <<expected, size, buf, job, loaded>>

fastboot_command_loop ==
  \/ cmd_simple \/ cmd_reboot \/ UnknownCommand
  \/ \E im \in 1..Len(Images) : cmd_download(im)
  \/ expected # 0 /\ \E n \in 0..Images[expected].size : DownloadData(n)
  \/ \E name \in Names :
       NotFound(name) \/ \E p \in Found(name) : cmd_flash(p) \/ cmd_erase(p)
  \/ WriteRaw \/ WriteChunk \/ ChunksDone

FastbootSpec == fastboot_init /\ [][fastboot_command_loop]_FastbootVars

-----------------------------------------------------------------------------
(***************************************************************************)
(* Properties.                                                             *)
(***************************************************************************)
States == {"STATE_OFFLINE", "STATE_COMMAND", "STATE_COMPLETE", "STATE_ERROR"}

\* Every variable of the gadget stays in its range.
FastbootTypeOK ==
  /\ state \in States
  /\ expected \in 0..Len(Images) /\ loaded \in 0..Len(Images)
  /\ size \in 0..DownloadMax
  /\ buf \in [0..(BufLen - 1) -> CellOf] /\ DOMAIN disk = Addr
  /\ job \in Job
  /\ replies \in Seq({"DATA", "OKAY", "FAIL"})
  /\ cmds \in 0..MaxCmds

\* A command gets at most one of OKAY and FAIL, also when a handler answers and
\* the loop finds the state untouched.
OneVerdict ==
  \A i, j \in 1..Len(replies) : replies[i] # "DATA" /\ replies[j] # "DATA" => i = j

\* What an image says a partition holds: the data of its raw blocks, each at its
\* offset, don't-care blocks counted.
Says(im, i) ==
  IF Images[im].sparse
  THEN \E c \in 1..Len(Images[im].chunks) : LET ch == Images[im].chunks[c] IN
         ch.kind = "raw" /\ ch.blk <= i /\ i < ch.blk + ch.n
  ELSE i < Cells(Images[im].size)

\* A flash command that is answered with OKAY after a download has put the whole
\* image into the partition.
OkayMeansFlashed ==
  [][job.on /\ replies' = <<"OKAY">> /\ loaded # 0
     => \A i \in 0..(job.length - 1) :
          Says(loaded, i) => disk'[job.start + i] = Data(loaded, i)]_FastbootVars

\* A flash command changes no block outside its partition; if its image is raw,
\* as long as that does not fill the partition to its last block.
FlashStaysInside ==
  [][job.on /\ (job.sparse \/ size < job.length * BlkSize)
     => \A b \in Addr : disk'[b] # disk[b] =>
          job.start <= b /\ b < job.start + job.length]_FastbootVars

\* An erase that is answered with OKAY has erased the whole partition, on a
\* device that does not fail erases (mmc_berase reports how far it came, and
\* flash_partition_erase takes any block for success) and unless the 32 bits that
\* are kept of the length in bytes are a number smaller than the length in blocks.
\* Below 4 GiB they never are; a userdata that is little longer than a multiple of
\* 4 GiB is answered with OKAY and erased in part.
EraseCovers ==
  [][\A name \in Names : \A p \in Found(name) :
       /\ cmd_erase(p) /\ replies' = <<"OKAY">>
       /\ "erase" \notin Faults /\ p.length <= EraseCount(p)
       => \A i \in 0..(p.length - 1) : disk'[p.start + i] = Blank]_FastbootVars

=============================================================================
