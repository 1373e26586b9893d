---------------------------- MODULE TargetLoader ----------------------------
(***************************************************************************)
(* The device side of the download tool: loader_scheduler of               *)
(* drivers/usb/gadget/targetloader.c.                                      *)
(*                                                                         *)
(* The loader is a loop: receive one packet, let pre_handle check it       *)
(* against the expectation left by the previous one, run the command's     *)
(* case, flush the staging buffer if it is due, answer.  One action is one *)
(* turn of that loop.  The host is the environment: it chooses the command *)
(* and its operands, and waits for the answer, except that it streams      *)
(* CMD_DATA packets, which are not answered over USB; so a turn is atomic  *)
(* for both sides.                                                         *)
(*                                                                         *)
(* What the host is relied on to respect, and the code does not check, is  *)
(* in the operators named Host...; what it may get wrong is an input.      *)
(***************************************************************************)
EXTENDS FlashOps

CONSTANTS
  TmpBufSize,   \* TMP_BUF_SIZE, units in the staging buffer
  UpDataSize,   \* UP_DATA_SIZE, units in one upload packet
  DefPackLen,   \* DEF_PACK_LEN, operand units of a common packet
  HdrSize,      \* units of (data_type, data_len) in front of a zip chunk
  WordSize,     \* units in the 32-bit word that a fill chunk counts
  U32,          \* 2^32: u32 arithmetic is modulo U32
  U64,          \* 2^64: u64 arithmetic is modulo U64
  ForceResp,    \* tl_force_resp: TRUE over a serial line, FALSE over USB
  StAddrs,      \* start addresses the host uses
  ImgLens,      \* image lengths and byte counts the host announces
  EraseLens,    \* lengths of the segments the host erases
  UpAddrs,      \* start addresses of the host's uploads
  UpLens,       \* lengths of the host's uploads
  PktSizes,     \* packet sizes the host announces
  Zips,         \* image types the host announces: 0 raw, 2 zip, 1 undefined
  FillLens,     \* lengths, in words, of the host's fill chunks
  SkipLens,     \* lengths of the host's skip chunks
  BigOffsets,   \* offsets the host sends with CMD_UNZIP_INFO
  ShortLens,    \* lengths sent with CMD_EFUSE_WRITE_LEN, CMD_PART_NAME_LEN
  Partitions,   \* partition table: a set of [start, length] in blocks
  MaxImages,    \* bound: downloads per behaviour
  MaxOffset     \* bound: sum of the offsets sent after a link

ASSUME BufAssumption == TmpBufSize \in Nat \ {0} /\ TmpBufSize % BlkSize = 0
ASSUME UpAssumption == UpDataSize \in Nat \ {0} /\ UpDataSize % BlkSize = 0
ASSUME PackAssumption == DefPackLen \in Nat /\ HdrSize \in Nat /\ WordSize \in Nat \ {0}
ASSUME WidthAssumption ==
  U32 \in Nat \ {0} /\ U64 \in Nat \ {0} /\ U32 <= U64 /\ U64 % U32 = 0
ASSUME RespAssumption == ForceResp \in BOOLEAN
ASSUME AddrsAssumption ==
  /\ StAddrs \subseteq Nat /\ \A a \in StAddrs : a % BlkSize = 0
  /\ BigOffsets \subseteq Nat /\ \A a \in BigOffsets : a % BlkSize = 0
  /\ UpAddrs \subseteq Nat /\ \A a \in UpAddrs : a % BlkSize = 0
ASSUME LensAssumption ==
  /\ ImgLens \subseteq 1..(U64 - 1) /\ EraseLens \subseteq Nat /\ UpLens \subseteq 1..(U32 - 1)
  /\ FillLens \subseteq Nat /\ SkipLens \subseteq Nat /\ ShortLens \subseteq Nat
ASSUME PktAssumption == PktSizes \subseteq 1..TmpBufSize /\ Zips \subseteq 0..2
ASSUME PartAssumption == Partitions \subseteq [start : Nat, length : Nat]
ASSUME BoundsAssumption == MaxImages \in Nat /\ MaxOffset \in Nat

VARIABLES
  halted,     \* the loader is in TLERR's endless print loop
  linked,     \* f_linked
  exp,        \* exp_info: [flag, cmd, size]
  ld,         \* ld_set, but for the fields that are written and never read
  rest,       \* rest_bytes
  threshold,  \* packets staged since the last flush
  max_cnt,    \* packets that fill the staging buffer
  buf,        \* tmp_desc.buf
  tmpsize,    \* tmp_desc.size
  upsize,     \* up_desc.size
  flash,      \* the device's contents
  reply,      \* the answer of the last turn, and the data it carries
  \* History variables: the host's side of the conversation.
  img,        \* number of the image being, or last, downloaded
  wpos,       \* device address of the next unit of that image
  left,       \* packet bytes the host has still to send
  want,       \* what the image says every device address holds
  lost,       \* a flashex_write of this image has failed
  up          \* the upload under way: [on, start, req, kept, got]

staging == <<threshold, max_cnt, buf, tmpsize>>
image == <<img, wpos, left, want, lost>>
vars == <<halted, linked, exp, ld, rest, staging, upsize, flash, reply, image, up>>

\* CMD_CHECK stands for the commands that only report success, CMD_RESET for
\* the two resets, CMD_TL_DOWNLOAD for those with an empty case, CMD_FAIL for
\* any command without a case.
Commands ==
  {"CMD_NONE", "CMD_LINK_EST", "CMD_UNZIP_INFO", "CMD_DEV_BASE_ADDR",
   "CMD_EFUSE_WRITE_LEN", "CMD_EFUSE_WRITE_DATA", "CMD_EFUSE_READ",
   "CMD_DEVICE_INFO", "CMD_ERASE_SEG_ST_ADDR", "CMD_ERASE_SEG_END_ADDR",
   "CMD_ERASEFLASH", "CMD_PROG_DEV_ST_ADDR", "CMD_PROG_DEV_END_ADDR",
   "CMD_PART_NAME_LEN", "CMD_PART_NAME_STRING", "CMD_PART_REQ_ST",
   "CMD_PART_REQ_SZ", "CMD_DATA_PACKET_SIZE", "CMD_DATA", "CMD_DATA_SYNC",
   "CMD_CHECK", "CMD_RVRS_DWNLD", "CMD_UPLD_DATA_SIZE", "CMD_SUCCESS",
   "CMD_PARTITION_DATA", "CMD_RESET", "CMD_TL_DOWNLOAD", "CMD_FAIL"}

Answers == {"none", "CMD_CONNECT", "CMD_ACK", "CMD_SUCCESS", "CMD_FAIL",
            "CMD_RESP_DATA", "CMD_EFUSE_READ_RSP", "CMD_DATA", "echo"}

(***************************************************************************)
(* Data.  The unit of image i for device address a is <<i, a>>.            *)
(***************************************************************************)
Unit(i, a) == <<i, a>>
FillUnit(i) == <<i, -1>>
Blank == <<0, -1>>         \* an erased unit
Zero == <<0, -2>>          \* calloc'ed memory
OldUnit(a) == <<0, a>>     \* what the device held before
Val == Nat \X Int
DontCare == <<-1, 0>>      \* the image says nothing of this address

BufIndex == 0..(TmpBufSize - 1)
NoUpload == [on |-> FALSE, start |-> 0, req |-> 0, kept |-> 0, got |-> 0]
LoaderZero == [once |-> 0, all |-> 0, zip |-> 0, start |-> 0, cur |-> 0, offset |-> 0]

(***************************************************************************)
(* exp_info is a local of loader_scheduler: flag and size are assigned     *)
(* before the loop, cmd_id is not.  Neither is ld_set.                     *)
(***************************************************************************)
Init ==
  /\ halted = FALSE /\ linked = FALSE
  /\ exp \in [flag : {FALSE}, cmd : {"CMD_NONE", "CMD_DATA"}, size : {DefPackLen}]
  /\ ld \in {LoaderZero, [LoaderZero EXCEPT !.zip = 2, !.offset = BlkSize]}
  /\ rest = 0 /\ threshold = 0 /\ max_cnt = 0 /\ tmpsize = 0 /\ upsize = 0
  /\ buf = [i \in BufIndex |-> Zero]
  /\ flash = [a \in Addr |-> OldUnit(a)]
  /\ reply = [is |-> "none", data |-> <<>>]
  /\ img = 0 /\ wpos = 0 /\ left = 0 /\ lost = FALSE
  /\ want = [a \in Addr |-> DontCare]
  /\ up = NoUpload

-----------------------------------------------------------------------------
(***************************************************************************)
(* Receiving a packet, and the shape of a turn.                            *)
(***************************************************************************)

\* Faulty variant of pre_handle: the expectation is not checked.
pre_handleUnchecked(c) == c

\* While an expectation is set, any other command is taken for CMD_FAIL.
pre_handle(c) == IF exp.flag /\ c # exp.cmd THEN "CMD_FAIL" ELSE c

\* The loader runs the case of command c: it is linked, or c links it.
Accepts(c) ==
  /\ ~halted
  /\ pre_handle(c) = c
  /\ linked \/ c = "CMD_LINK_EST"

\* The host sends the second command of a pair only after the first one.
HostContinues(c) == exp.flag /\ exp.cmd = c

Answer(r) == reply' = [is |-> r, data |-> <<>>]
expect_info(flag, cmd, size) == [flag |-> flag, cmd |-> cmd, size |-> size]
Unexpect == [exp EXCEPT !.flag = FALSE]

\* A turn that only sets the expectation e and the settings l, and answers r.
Turn(c, e, l, r) ==
  /\ Accepts(c)
  /\ linked' = TRUE
  /\ exp' = e
  /\ ld' = l
  /\ Answer(r)
  /\ up' = NoUpload
  /\ UNCHANGED <<halted, rest, staging, upsize, flash, image>>

\* A command that is not CMD_LINK_EST, before the link: no answer.
NotLinked ==
  /\ ~halted /\ ~linked
  /\ Answer("none")
  /\ UNCHANGED <<halted, linked, exp, ld, rest, staging, upsize, flash, image, up>>

\* The switch's default: a command that was not expected, or has no case.
Rejected(c) ==
  /\ ~halted /\ linked
  /\ pre_handle(c) = "CMD_FAIL"
  /\ Answer("CMD_FAIL")
  /\ up' = NoUpload
  /\ UNCHANGED <<halted, linked, exp, ld, rest, staging, upsize, flash, image>>

\* soft_reset and hard_reset only print, for ever.
Reset ==
  /\ Accepts("CMD_RESET")
  /\ halted' = TRUE
  /\ UNCHANGED <<linked, exp, ld, rest, staging, upsize, flash, reply, image, up>>

\* TLERR never returns.
Hang == halted /\ UNCHANGED vars

-----------------------------------------------------------------------------
(***************************************************************************)
(* Commands that leave flash and staging buffer alone.                     *)
(***************************************************************************)

\* ld_set is cleared.  The size expected of a partition table is the byte at
\* address 1, not a byte of the packet: it may be anything.
LinkEst ==
  \/ Turn("CMD_LINK_EST", Unexpect, LoaderZero, "CMD_CONNECT")
  \/ \E s \in {0} \cup PktSizes :
       Turn("CMD_LINK_EST", expect_info(TRUE, "CMD_PARTITION_DATA", s),
            LoaderZero, "CMD_CONNECT")

UnzipInfo(z) ==
  \/ \E v \in StAddrs :
       Turn("CMD_UNZIP_INFO", exp, [ld EXCEPT !.zip = z, !.start = v], "CMD_ACK")
  \/ \E v \in ImgLens :
       Turn("CMD_UNZIP_INFO", exp, [ld EXCEPT !.zip = z, !.all = v], "CMD_ACK")
  \/ \E v \in BigOffsets :
       /\ ld.offset + v <= MaxOffset
       /\ Turn("CMD_UNZIP_INFO", exp, [ld EXCEPT !.zip = z, !.offset = @ + v], "CMD_ACK")

\* Answered from tables and registers.
Query ==
  \/ Turn("CMD_DEV_BASE_ADDR", Unexpect, ld, "CMD_ACK")
  \/ Turn("CMD_DEVICE_INFO", Unexpect, ld, "CMD_RESP_DATA")
  \/ Turn("CMD_EFUSE_READ", Unexpect, ld, "CMD_EFUSE_READ_RSP")

\* CMD_RAM_CHECK, CMD_FLASH_CHECK, CMD_DEV_PROTECT, CMD_DEV_UNPROTECT and
\* CMD_PARTITION_DATA do nothing and report success.
Check(c) == Turn(c, expect_info(FALSE, exp.cmd, DefPackLen), ld, "CMD_SUCCESS")

\* CMD_CHANGE_CONFIG ... CMD_TL_DOWNLOAD: the packet goes back as it came.
NoOperation == Turn("CMD_TL_DOWNLOAD", exp, ld, "echo")

EfuseWriteLen(n) ==
  Turn("CMD_EFUSE_WRITE_LEN", expect_info(TRUE, "CMD_EFUSE_WRITE_DATA", n), ld, "CMD_ACK")

\* The expectation is dropped, but its size stays.
EfuseWriteData ==
  /\ HostContinues("CMD_EFUSE_WRITE_DATA")
  /\ \E r \in {"CMD_ACK", "CMD_FAIL"} : Turn("CMD_EFUSE_WRITE_DATA", Unexpect, ld, r)

PartNameLen(n) ==
  Turn("CMD_PART_NAME_LEN",
       expect_info(TRUE, "CMD_PART_NAME_STRING", n + DefPackLen), ld, "CMD_ACK")

\* The partition's address in units is a product of two u32.
PartNameString ==
  LET e == expect_info(FALSE, exp.cmd, DefPackLen) IN
  /\ HostContinues("CMD_PART_NAME_STRING")
  /\ \/ \E p \in Partitions :
          LET a == (p.start * BlkSize) % U32 IN
          Turn("CMD_PART_NAME_STRING", e, [ld EXCEPT !.start = a, !.cur = a], "CMD_ACK")
     \/ Turn("CMD_PART_NAME_STRING", e, ld, "CMD_FAIL")

PartReqSt ==
  Turn("CMD_PART_REQ_ST", expect_info(TRUE, "CMD_PART_REQ_SZ", DefPackLen), ld,
       "CMD_RESP_DATA")

PartReqSz ==
  Turn("CMD_PART_REQ_SZ", expect_info(FALSE, exp.cmd, DefPackLen), ld, "CMD_RESP_DATA")

EraseSegStAddr(a) ==
  Turn("CMD_ERASE_SEG_ST_ADDR", expect_info(TRUE, "CMD_ERASE_SEG_END_ADDR", exp.size),
       [ld EXCEPT !.start = a + ld.offset], "CMD_ACK")

ProgDevStAddr(a) ==
  Turn("CMD_PROG_DEV_ST_ADDR", expect_info(TRUE, "CMD_PROG_DEV_END_ADDR", exp.size),
       [ld EXCEPT !.start = a + ld.offset], "CMD_ACK")

-----------------------------------------------------------------------------
(***************************************************************************)
(* Erasing.                                                                *)
(***************************************************************************)

\* The host names the last address of a segment of n units.
EraseSegEndAddr(n) ==
  /\ Accepts("CMD_ERASE_SEG_END_ADDR") /\ HostContinues("CMD_ERASE_SEG_END_ADDR")
  /\ rest' = n % U64
  /\ \E w \in flashex_erase(flash, ld.start, n, Blank) :
        /\ flash' = w.mem
        /\ Answer(IF w.ok THEN "CMD_SUCCESS" ELSE "CMD_FAIL")
  /\ exp' = Unexpect
  /\ UNCHANGED <<halted, linked, ld, staging, upsize, image, up>>

\* The length is the capacity plus one; TLERR stops the loader on failure.
EraseFlash ==
  /\ Accepts("CMD_ERASEFLASH")
  /\ ld' = [ld EXCEPT !.start = 0]
  /\ rest' = (FlashSize + 1) % U64
  /\ \E w \in flashex_erase(flash, 0, FlashSize + 1, Blank) :
        /\ flash' = w.mem
        /\ halted' = ~w.ok
        /\ IF w.ok THEN Answer("CMD_SUCCESS") ELSE UNCHANGED reply
  /\ exp' = Unexpect
  /\ up' = NoUpload
  /\ UNCHANGED <<linked, staging, upsize, image>>

-----------------------------------------------------------------------------
(***************************************************************************)
(* Downloading an image.                                                   *)
(***************************************************************************)

\* What the loader will count down: the bytes of the packets to come.
DownloadBytes(n) == IF ld.zip # 0 THEN ld.all ELSE n

ProgDevEndAddr(n) ==
  /\ Accepts("CMD_PROG_DEV_END_ADDR") /\ HostContinues("CMD_PROG_DEV_END_ADDR")
  /\ img < MaxImages
  /\ ld' = [ld EXCEPT !.cur = ld.start]
  /\ rest' = DownloadBytes(n)
  /\ exp' = expect_info(TRUE, "CMD_DATA_PACKET_SIZE", exp.size)
  /\ Answer("CMD_ACK")
  /\ img' = img + 1
  /\ wpos' = ld.start
  /\ left' = IF ld.zip = 0 THEN n ELSE ld.all
  /\ want' = [a \in Addr |-> DontCare]
  /\ lost' = FALSE
  /\ UNCHANGED <<halted, linked, staging, upsize, flash, up>>

\* Faulty variant of MaxCnt: bytes taken for packets.
MaxCntBytes(size) == TmpBufSize

\* "ensure gap at the end of tmp buf"
MaxCnt(size) == TmpBufSize \div size

\* The host's packets are no longer than what it has to send; raw packets
\* hold whole blocks ("always 0x2000"); every zip packet has room for its
\* header.
HostPacket(n) ==
  /\ n <= left
  /\ ld.zip = 0 => n % BlkSize = 0
  /\ ld.zip # 0 => n > HdrSize /\ (left % n = 0 \/ left % n > HdrSize)

DataPacketSize(n) ==
  /\ Accepts("CMD_DATA_PACKET_SIZE") /\ HostContinues("CMD_DATA_PACKET_SIZE")
  /\ HostPacket(n)
  /\ exp' = expect_info(TRUE, "CMD_DATA", n)
  /\ ld' = [ld EXCEPT !.once = n]
  /\ threshold' = 0
  /\ max_cnt' = MaxCnt(n)
  /\ Answer("CMD_ACK")
  /\ UNCHANGED <<halted, linked, rest, buf, tmpsize, upsize, flash, image, up>>

\* Faulty variant of RestAfter: one byte too many is counted.
RestAfterOffByOne == rest - exp.size - 1

\* rest_bytes -= exp_info.size, and the expectation for the next packet.
RestAfter == (rest - exp.size) % U64

\* Faulty variant of ExpectAfter: the last packet is not cut to what is left.
ExpectAfterUncut ==
  IF RestAfter # 0 THEN exp
  ELSE [flag |-> TRUE, cmd |-> "CMD_DATA_SYNC", size |-> DefPackLen]

ExpectAfter ==
  IF RestAfter > exp.size THEN exp
  ELSE IF RestAfter # 0 THEN [exp EXCEPT !.size = RestAfter]
  ELSE [flag |-> TRUE, cmd |-> "CMD_DATA_SYNC", size |-> DefPackLen]

\* The tail of case CMD_DATA, for every kind of packet.
Consume ==
  /\ rest' = RestAfter
  /\ exp' = ExpectAfter
  /\ left' = left - exp.size
  /\ Answer(IF ForceResp THEN "CMD_ACK" ELSE "none")
  /\ UNCHANGED <<linked, max_cnt, upsize, img, up>>

\* The staging buffer with the image's next n units appended.
Staged(n) ==
  [i \in BufIndex |->
     IF tmpsize <= i /\ i < tmpsize + n THEN Unit(img, wpos + (i - tmpsize))
     ELSE buf[i]]

\* The host has sent n more units of its image: those at wpos, or fill units.
HostSends(n, fill) ==
  /\ wpos' = wpos + n
  /\ want' = [a \in Addr |->
                IF wpos <= a /\ a < wpos + n
                THEN (IF fill THEN FillUnit(img) ELSE Unit(img, a))
                ELSE want[a]]

\* "tmp buf full to sync": the verdict of flashex_write is not looked at.
ThresholdFlush(b, size, cnt) ==
  IF max_cnt # 0 /\ max_cnt = cnt
  THEN \E w \in flashex_write(flash, ld.cur, b, size) :
         /\ flash' = w.mem
         /\ lost' = (lost \/ ~w.ok)
         /\ ld' = [ld EXCEPT !.cur = @ + size]
         /\ tmpsize' = 0
         /\ threshold' = 0
  ELSE /\ tmpsize' = size
       /\ threshold' = cnt
       /\ UNCHANGED <<flash, lost, ld>>

DataRaw ==
  /\ Accepts("CMD_DATA") /\ HostContinues("CMD_DATA")
  /\ ld.zip = 0
  /\ buf' = Staged(exp.size)
  /\ HostSends(exp.size, FALSE)
  /\ ThresholdFlush(Staged(exp.size), tmpsize + exp.size, threshold + 1)
  /\ Consume
  /\ UNCHANGED halted

\* The data of a zip packet lies in the packet: the code copies zip_data_len
\* bytes of it without comparing that length with the packet's or the buffer's.
HostChunk(n) == n <= exp.size - HdrSize

\* A zip packet of raw data, data_len = n, a whole number of blocks.
DataZipRaw(n) ==
  /\ Accepts("CMD_DATA") /\ HostContinues("CMD_DATA")
  /\ ld.zip = 2
  /\ HostChunk(n) /\ n % BlkSize = 0
  /\ buf' = Staged(n)
  /\ HostSends(n, FALSE)
  /\ ThresholdFlush(Staged(n), tmpsize + n, threshold + 1)
  /\ Consume
  /\ UNCHANGED halted

\* "raw data len(%x) can't div DEF_BLK_SIZE": TLERR stops the loader.
DataZipOdd(n) ==
  /\ Accepts("CMD_DATA") /\ HostContinues("CMD_DATA")
  /\ ld.zip = 2
  /\ HostChunk(n) /\ n % BlkSize # 0
  /\ buf' = Staged(n)
  /\ tmpsize' = tmpsize + n
  /\ threshold' = threshold + 1
  /\ halted' = TRUE
  /\ UNCHANGED <<linked, exp, ld, rest, max_cnt, upsize, flash, reply, image, up>>

\* Faulty variant of FillBytes: the length taken for bytes.
FillBytesUnscaled(n) == n % U32

\* The fill loop writes zip_data_len * 4 bytes in u32 arithmetic, a buffer full
\* at a time; once only a multiple of 2^32 is left it spins on zero bytes.
FillBytes(n) == (n * WordSize) % U32
FillSpins(n) == n * WordSize >= U32

\* "fill a region with a value": what is staged is forced out first.  None of
\* the verdicts is looked at, and the check of the length comes after the loop
\* has counted zip_data_len down to 0.
DataZipFill(n) ==
  /\ Accepts("CMD_DATA") /\ HostContinues("CMD_DATA")
  /\ ld.zip = 2
  /\ \E w1 \in flashex_write(flash, ld.cur, buf, tmpsize) :
       \E w2 \in flashex_write(w1.mem, ld.cur + tmpsize,
                               [i \in Addr |-> FillUnit(img)], FillBytes(n)) :
         /\ flash' = w2.mem
         /\ lost' = (lost \/ ~w1.ok \/ ~w2.ok)
  /\ ld' = [ld EXCEPT !.cur = @ + tmpsize + FillBytes(n)]
  /\ buf' = [i \in BufIndex |-> FillUnit(img)]
  /\ tmpsize' = 0
  /\ threshold' = 0
  /\ halted' = FillSpins(n)
  /\ HostSends(n * WordSize, TRUE)
  /\ Consume

\* "skip a region and don't care its data".
DataZipSkip(n) ==
  /\ Accepts("CMD_DATA") /\ HostContinues("CMD_DATA")
  /\ ld.zip = 2
  /\ \E w \in flashex_write(flash, ld.cur, buf, tmpsize) :
       /\ flash' = w.mem
       /\ lost' = (lost \/ ~w.ok)
  /\ ld' = [ld EXCEPT !.cur = @ + tmpsize + n]
  /\ tmpsize' = 0
  /\ threshold' = 0
  /\ halted' = (n % BlkSize # 0)
  /\ wpos' = wpos + n
  /\ Consume
  /\ UNCHANGED <<buf, want>>

\* An unknown data_type, or an image type that is not supported.
DataIgnored ==
  /\ Accepts("CMD_DATA") /\ HostContinues("CMD_DATA")
  /\ ld.zip # 0
  /\ Consume
  /\ UNCHANGED <<halted, ld, threshold, buf, tmpsize, flash, wpos, want, lost>>

\* The only write of a download whose verdict counts.
DataSync ==
  /\ Accepts("CMD_DATA_SYNC")
  /\ \E w \in flashex_write(flash, ld.cur, buf, tmpsize) :
       /\ flash' = w.mem
       /\ lost' = (lost \/ ~w.ok)
       /\ halted' = ~w.ok
       /\ IF w.ok
          THEN /\ Answer("CMD_SUCCESS")
               /\ tmpsize' = 0
               /\ threshold' = 0
               /\ exp' = expect_info(FALSE, "CMD_LINK_EST", DefPackLen)
          ELSE UNCHANGED <<reply, tmpsize, threshold, exp>>
  /\ up' = NoUpload
  /\ UNCHANGED <<linked, ld, rest, max_cnt, buf, upsize, img, wpos, left, want>>

-----------------------------------------------------------------------------
(***************************************************************************)
(* Uploading.                                                              *)
(***************************************************************************)

RvrsDwnld(a) ==
  /\ Accepts("CMD_RVRS_DWNLD")
  /\ ld' = [ld EXCEPT !.start = a, !.cur = a, !.once = UpDataSize]
  /\ upsize' = UpDataSize
  /\ exp' = expect_info(TRUE, "CMD_UPLD_DATA_SIZE", exp.size)
  /\ Answer("CMD_ACK")
  /\ up' = NoUpload
  /\ UNCHANGED <<halted, linked, rest, staging, flash, image>>

\* One packet, when r bytes are left, of the upload u if it is one; TLERR on a
\* read error.  A read of no blocks succeeds anywhere.
SendChunk(r, u) ==
  LET n == IF r < UpDataSize THEN r ELSE upsize IN
  /\ upsize' = n
  /\ \/ /\ n = 0 \/ Fits(ld.cur, n)
        /\ rest' = (r - n) % U64
        /\ reply' = [is |-> "CMD_DATA", data |-> flashex_read(flash, ld.cur, n)]
        /\ up' = IF u.on THEN [u EXCEPT !.got = @ + n] ELSE u
        /\ UNCHANGED halted
     \/ /\ Faults \/ ~Fits(ld.cur, n)
        /\ n # 0
        /\ halted' = TRUE
        /\ UNCHANGED <<rest, reply, up>>
  /\ UNCHANGED <<linked, staging, flash, image>>

\* The size is stored through a u32 pointer: rest_bytes keeps the upper half
\* that the last countdown left there.
KeptHalf == (rest \div U32) * U32

\* Faulty variant of UploadBytes: the size is added to what was left.
UploadBytesAdded(n) == rest + n

UploadBytes(n) == KeptHalf + n

UpldDataSize(n) ==
  /\ Accepts("CMD_UPLD_DATA_SIZE") /\ HostContinues("CMD_UPLD_DATA_SIZE")
  /\ SendChunk(UploadBytes(n), [on |-> TRUE, start |-> ld.start, req |-> n,
                                kept |-> KeptHalf, got |-> 0])
  /\ ld' = [ld EXCEPT !.all = UploadBytes(n), !.cur = @ + upsize']
  /\ exp' = [exp EXCEPT !.flag = FALSE]

\* CMD_SUCCESS acknowledges a packet of an upload, but it is taken at any time:
\* outside an upload too it reads on where the last command left cur_addr, as
\* long as that left something in rest_bytes.
UploadNext ==
  /\ Accepts("CMD_SUCCESS")
  /\ rest # 0
  /\ SendChunk(rest, up)
  /\ ld' = [ld EXCEPT !.cur = @ + upsize']
  /\ UNCHANGED exp

UploadEnd ==
  /\ Accepts("CMD_SUCCESS")
  /\ rest = 0
  /\ Answer("none")
  /\ up' = [up EXCEPT !.on = FALSE]
  /\ UNCHANGED <<halted, linked, exp, ld, rest, staging, upsize, flash, image>>

-----------------------------------------------------------------------------
(***************************************************************************)
(* One turn of the loop, by what it can do to the flash.                   *)
(***************************************************************************)
Quiet ==
  \/ NotLinked
  \/ \E c \in Commands : Rejected(c)
  \/ Reset
  \/ LinkEst
  \/ \E z \in Zips : UnzipInfo(z)
  \/ Query
  \/ Check("CMD_CHECK")
  \/ HostContinues("CMD_PARTITION_DATA") /\ Check("CMD_PARTITION_DATA")
  \/ NoOperation
  \/ \E n \in ShortLens : EfuseWriteLen(n) \/ PartNameLen(n)
  \/ EfuseWriteData
  \/ PartNameString
  \/ PartReqSt
  \/ PartReqSz
  \/ \E a \in StAddrs : ProgDevStAddr(a) \/ EraseSegStAddr(a)

Erase ==
  \/ \E n \in EraseLens : EraseSegEndAddr(n)
  \/ EraseFlash

Download ==
  \/ \E n \in ImgLens : ProgDevEndAddr(n)
  \/ \E n \in PktSizes : DataPacketSize(n)
  \/ DataRaw
  \/ \E n \in 0..TmpBufSize : DataZipRaw(n) \/ DataZipOdd(n)
  \/ \E n \in FillLens : DataZipFill(n)
  \/ \E n \in SkipLens : DataZipSkip(n)
  \/ DataIgnored
  \/ DataSync

Upload ==
  \/ \E a \in UpAddrs : RvrsDwnld(a)
  \/ \E n \in UpLens : UpldDataSize(n)
  \/ UploadNext
  \/ UploadEnd

Next == Quiet \/ Erase \/ Download \/ Upload \/ Hang

Spec == Init /\ [][Next]_vars

-----------------------------------------------------------------------------
(***************************************************************************)
(* Properties.                                                             *)
(***************************************************************************)

ExpectInfo == [flag : BOOLEAN, cmd : Commands, size : Nat]
LoaderSet == [once : Nat, all : 0..(U64 - 1), zip : 0..2, start : Nat, cur : Nat,
              offset : Nat]

\* Every variable of loader_scheduler stays in its range.
TypeOK ==
  /\ halted \in BOOLEAN /\ linked \in BOOLEAN /\ lost \in BOOLEAN
  /\ exp \in ExpectInfo
  /\ ld \in LoaderSet
  /\ rest \in 0..(U64 - 1) /\ threshold \in Nat /\ max_cnt \in Nat
  /\ tmpsize \in Nat /\ upsize \in Nat
  /\ buf \in [BufIndex -> Val]
  /\ flash \in [Addr -> Val]
  /\ reply.is \in Answers
  /\ img \in Nat /\ wpos \in Nat /\ left \in Int
  /\ want \in [Addr -> Val \cup {DontCare}]
  /\ up \in [on : BOOLEAN, start : Nat, req : Nat, kept : Nat, got : Nat]

\* The staged packets, raw ones and zip ones whose data lies in the packet
\* (HostChunk), never run past the end of tmp_desc.buf, whatever the packet size
\* announced with CMD_DATA_PACKET_SIZE.
NoBufferOverflow == tmpsize <= TmpBufSize

\* Data of a download is expected, staged, or waiting for its CMD_DATA_SYNC.
DataPhase == exp.flag /\ exp.cmd \in {"CMD_DATA", "CMD_DATA_SYNC"}

\* From a host that sends the second command of a pair only after the first
\* (HostContinues), nothing of one download is left in the staging buffer for the
\* next: a new CMD_DATA_PACKET_SIZE clears the packet count but not tmp_desc.size.
NothingLeftStaged == ~halted /\ ~DataPhase => tmpsize = 0

\* The loader's countdown agrees with what the host has still to send: it asks
\* for CMD_DATA_SYNC exactly when the host has sent its last byte, and no
\* packet it expects is longer than what is left (rest_bytes never wraps).
CountdownAgrees ==
  ~halted /\ exp.flag =>
    /\ exp.cmd = "CMD_DATA" =>
         rest = left /\ left > 0 /\ exp.size = (IF left < ld.once THEN left ELSE ld.once)
    /\ exp.cmd = "CMD_DATA_SYNC" => left = 0

\* While an image streams in, and as long as the device has taken every write,
\* each unit sent so far is on the device below cur_addr or staged at its
\* offset from cur_addr.
Placed(a) ==
  IF a < ld.cur THEN flash[a] = want[a]
  ELSE a - ld.cur < tmpsize /\ buf[a - ld.cur] = want[a]

StreamIsPlaced ==
  DataPhase /\ ~lost /\ ~halted =>
    /\ wpos = ld.cur + tmpsize
    /\ \A a \in Addr : want[a] # DontCare => Placed(a)

\* When the CMD_DATA_SYNC that ends a download is answered with CMD_SUCCESS and
\* no write has failed, every unit of the image is on the device.
SyncMeansOnFlash ==
  [][HostContinues("CMD_DATA_SYNC") /\ reply'.is = "CMD_SUCCESS" /\ ~lost'
     => \A a \in Addr : want[a] # DontCare => flash'[a] = want[a]]_vars

\* Apart from the erase commands, a turn of the loop changes only blocks of the
\* image under way: from its start address to the block of its last unit.
OnlyTheImageChanges ==
  [][Erase \/ \A a \in Addr : flash'[a] # flash[a] =>
        ld.start <= a /\ a < BlkStart(wpos' + BlkSize - 1)]_vars

\* During an upload, bytes sent and bytes left add up to the size asked for and
\* the upper half that rest_bytes had before: the host gets exactly what it asked
\* for, and that multiple of 4 GiB more when an erase, or an upload given up, had
\* left 4 GiB or more there.
UploadIsExact ==
  up.on => up.got + rest = up.req + up.kept /\ up.kept % U32 = 0

\* Every packet of an upload carries the device's units that follow those of
\* the packet before.
UploadIsInOrder ==
  [][up'.on /\ up' # up =>
       reply'.data = [i \in 0..(upsize' - 1) |->
                        flash[up'.start + (up'.got - upsize') + i]]]_vars

=============================================================================
