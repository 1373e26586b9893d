------------------------- MODULE TargetLoaderProofs -------------------------
(***************************************************************************)
(* Proofs about TargetLoader, for every value of its constants.            *)
(*                                                                         *)
(* Type correctness is not inductive by itself: flashex_write reads the    *)
(* staging buffer as far as the last whole block, so flash stays an array  *)
(* of data only if tmp_desc.size never passes the buffer's end, and that   *)
(* depends on the packet counter, the packet size and the countdown, which *)
(* the expectation ties together from one packet to the next (IInv).       *)
(*                                                                         *)
(* Where data goes needs more: what is read and in which order (UpInv),    *)
(* where a download writes (PlaceInv), and what (AlignInv): flashex_write  *)
(* works in whole blocks, so a flush is harmless only if it starts at the  *)
(* beginning of one.                                                       *)
(***************************************************************************)
EXTENDS TargetLoader, TLAPS

-----------------------------------------------------------------------------
(***************************************************************************)
(* Arithmetic.                                                             *)
(***************************************************************************)

\* Quotient and remainder.
LEMMA DivMod ==
  ASSUME NEW a \in Nat, NEW b \in Nat \ {0}
  PROVE  /\ a \div b \in Nat
         /\ a % b \in 0..(b - 1)
         /\ a = b * (a \div b) + (a % b)
         /\ (a \div b) * b <= a
BY Z3

\* The remainder of any integer: what u64 arithmetic keeps.
LEMMA ModRange ==
  ASSUME NEW a \in Int, NEW b \in Nat \ {0}
  PROVE  a % b \in 0..(b - 1)
BY Z3

\* A value in range is its own remainder.
LEMMA ModSmall ==
  ASSUME NEW b \in Nat \ {0}, NEW a \in 0..(b - 1)
  PROVE  a % b = a
BY Z3

\* A multiple of b, written as a product.
LEMMA Multiple ==
  ASSUME NEW a \in Nat, NEW b \in Nat \ {0}, a % b = 0
  PROVE  (a \div b) * b = a
BY Z3

\* Whole blocks: rounding up stays within a bound that is whole blocks.
LEMMA BlkCntBound ==
  ASSUME NEW n \in Nat, NEW m \in Nat, n <= m, m % BlkSize = 0
  PROVE  /\ BlkCnt(n) \in Nat
         /\ BlkCnt(n) * BlkSize <= m
<1>1. BlkSize \in Nat \ {0}
  BY BlkSizeAssumption
<1>2. CASE n % BlkSize = 0
  BY <1>1, <1>2, DivMod, Multiple DEF BlkCnt
<1>3. CASE n % BlkSize # 0
  <2> DEFINE q == n \div BlkSize  k == m \div BlkSize
  <2>1. q \in Nat /\ q * BlkSize < n /\ k \in Nat /\ k * BlkSize = m
    BY <1>1, <1>3, DivMod, Multiple
  <2>2. q < k
    <3> HIDE DEF q, k
    <3>1. q * BlkSize < k * BlkSize
      BY <2>1, <1>1
    <3>2. ASSUME k <= q PROVE FALSE
      <4>1. k * BlkSize <= q * BlkSize
        BY <3>2, <2>1, <1>1, Z3
      <4> QED BY <4>1, <3>1, <2>1, <1>1, Z3
    <3> QED BY <3>2, <2>1
  <2>3. (q + 1) * BlkSize <= m
    <3> HIDE DEF q, k
    <3>1. (q + 1) * BlkSize <= k * BlkSize
      BY <2>1, <2>2, <1>1, Z3
    <3> QED BY <3>1, <2>1
  <2>4. BlkCnt(n) = q + 1
    BY <1>3 DEF BlkCnt
  <2> QED BY <2>1, <2>3, <2>4
<1> QED BY <1>2, <1>3

-----------------------------------------------------------------------------
(***************************************************************************)
(* What flashex_write and flashex_erase leave on the device.               *)
(***************************************************************************)

Data(S) == [S -> Val]

\* A write whose blocks all come from data leaves data on the device.
LEMMA StoredType ==
  ASSUME NEW mem \in Data(Addr), NEW start \in Nat, NEW src, NEW len \in Nat,
         NEW S \in SUBSET Touched(start, len),
         \A a \in Touched(start, len) : src[a - BlkStart(start)] \in Val
  PROVE  Stored(mem, start, S, src) \in Data(Addr)
BY DEF Stored, Data

\* So does flashex_write, whatever its verdict.
LEMMA WriteType ==
  ASSUME NEW mem \in Data(Addr), NEW start \in Nat, NEW src, NEW len \in Nat,
         \A a \in Touched(start, len) : src[a - BlkStart(start)] \in Val,
         NEW w \in flashex_write(mem, start, src, len)
  PROVE  w.mem \in Data(Addr) /\ w.ok \in BOOLEAN
<1>1. \A S \in Partial(Touched(start, len)) : S \in SUBSET Touched(start, len)
  BY DEF Partial
<1>2. \/ w = [mem |-> Stored(mem, start, Touched(start, len), src), ok |-> TRUE]
      \/ \E S \in Partial(Touched(start, len)) :
           w = [mem |-> Stored(mem, start, S, src), ok |-> FALSE]
  BY DEF flashex_write
<1>3. CASE w = [mem |-> Stored(mem, start, Touched(start, len), src), ok |-> TRUE]
  BY <1>3, StoredType
<1>4. ASSUME NEW S \in Partial(Touched(start, len)),
             w = [mem |-> Stored(mem, start, S, src), ok |-> FALSE]
      PROVE  w.mem \in Data(Addr) /\ w.ok \in BOOLEAN
  <2>1. Stored(mem, start, S, src) \in Data(Addr)
    BY <1>1, <1>4, StoredType
  <2> QED BY <1>4, <2>1
<1> QED BY <1>2, <1>3, <1>4

\* The staging buffer is a good source for what is staged in it.
LEMMA BufSource ==
  ASSUME NEW b \in [BufIndex -> Val], NEW start \in Nat, NEW len \in 0..TmpBufSize
  PROVE  \A a \in Touched(start, len) : b[a - BlkStart(start)] \in Val
<1>1. BlkCnt(len) \in Nat /\ BlkCnt(len) * BlkSize <= TmpBufSize
  BY BlkCntBound, BufAssumption
<1>2. BlkStart(start) \in Nat
  <2>1. start \div BlkSize \in Nat
    BY DivMod, BlkSizeAssumption
  <2> QED BY <2>1, BlkSizeAssumption DEF BlkStart
<1>3. ASSUME NEW a \in Touched(start, len)
      PROVE  a - BlkStart(start) \in BufIndex
  <2> DEFINE s == BlkStart(start)  m == BlkCnt(len) * BlkSize
  <2>1. a \in Int /\ s <= a /\ a < s + m
    BY FlashSizeAssumption DEF Touched, Addr
  <2>2. s \in Nat /\ m \in Nat /\ m <= TmpBufSize
    BY <1>1, <1>2, BlkSizeAssumption
  <2> HIDE DEF s, m
  <2>3. a - s \in 0..(TmpBufSize - 1)
    BY <2>1, <2>2, BufAssumption
  <2> QED BY <2>3 DEF BufIndex, s
<1> QED BY <1>3

\* flashex_erase leaves data on the device, whatever its verdict.
LEMMA EraseType ==
  ASSUME NEW mem \in Data(Addr), NEW start \in Nat, NEW len \in Nat, NEW blank \in Val,
         NEW w \in flashex_erase(mem, start, len, blank)
  PROVE  w.mem \in Data(Addr) /\ w.ok \in BOOLEAN
<1> DEFINE Wiped(S) == [a \in Addr |-> IF a \in S THEN blank ELSE mem[a]]
<1>1. ASSUME NEW S PROVE Wiped(S) \in Data(Addr)
  BY DEF Data
<1>2. \/ w = [mem |-> Wiped(Erased(start, len)), ok |-> TRUE]
      \/ w = [mem |-> mem, ok |-> FALSE]
      \/ \E S \in Partial(Erased(start, len)) : w = [mem |-> Wiped(S), ok |-> FALSE]
  BY DEF flashex_erase
<1> HIDE DEF Wiped
<1>3. CASE w = [mem |-> Wiped(Erased(start, len)), ok |-> TRUE]
  BY <1>1, <1>3
<1>4. CASE w = [mem |-> mem, ok |-> FALSE]
  BY <1>4
<1>5. ASSUME NEW S \in Partial(Erased(start, len)), w = [mem |-> Wiped(S), ok |-> FALSE]
      PROVE  w.mem \in Data(Addr) /\ w.ok \in BOOLEAN
  BY <1>1, <1>5
<1> QED BY <1>2, <1>3, <1>4, <1>5

-----------------------------------------------------------------------------
(***************************************************************************)
(* The inductive invariant.                                                *)
(***************************************************************************)

\* While packets come in, the count of staged packets is below the count that
\* fills the buffer, and bounds what is staged.
Streaming == ~halted /\ HostContinues("CMD_DATA")

StageInv ==
  /\ NoBufferOverflow
  /\ NothingLeftStaged
  /\ Streaming =>
       /\ ld.once \in 1..TmpBufSize
       /\ exp.size \in 1..ld.once
       /\ max_cnt = TmpBufSize \div ld.once
       /\ threshold < max_cnt
       /\ tmpsize <= threshold * ld.once

\* The countdown starts at what the host has announced.
CountInv ==
  /\ CountdownAgrees
  /\ HostContinues("CMD_DATA_PACKET_SIZE") => rest = left

IInv == TypeOK /\ StageInv /\ CountInv

\* The commands of a download's inner part, for which more than the type of
\* the expectation matters.
Inner == {"CMD_DATA_PACKET_SIZE", "CMD_DATA", "CMD_DATA_SYNC"}

\* Updates of ld_set that keep its type.
LEMMA LoaderUpdates ==
  ASSUME NEW l \in LoaderSet
  PROVE  /\ \A n \in Nat : /\ [l EXCEPT !.start = n] \in LoaderSet
                           /\ [l EXCEPT !.cur = n] \in LoaderSet
                           /\ [l EXCEPT !.once = n] \in LoaderSet
         /\ \A z \in 0..2, n \in Nat : /\ [l EXCEPT !.zip = z, !.start = n] \in LoaderSet
                                       /\ [l EXCEPT !.zip = z, !.offset = n] \in LoaderSet
         /\ \A z \in 0..2, b \in 0..(U64 - 1) : [l EXCEPT !.zip = z, !.all = b] \in LoaderSet
         /\ \A n, m \in Nat : [l EXCEPT !.start = n, !.cur = m] \in LoaderSet
         /\ \A n, m, k \in Nat : [l EXCEPT !.start = n, !.cur = m, !.once = k] \in LoaderSet
         /\ \A b \in 0..(U64 - 1), n \in Nat : [l EXCEPT !.all = b, !.cur = n] \in LoaderSet
BY DEF LoaderSet

\* Initially nothing is expected and nothing is staged.
LEMMA InitInv == Init => IInv
<1> SUFFICES ASSUME Init PROVE IInv
  OBVIOUS
<1>1. exp.flag = FALSE /\ tmpsize = 0 /\ exp \in ExpectInfo
  BY PackAssumption DEF Init, ExpectInfo, Commands
<1>2. ld \in LoaderSet
  <2>1. LoaderZero \in LoaderSet
    BY WidthAssumption DEF LoaderZero, LoaderSet
  <2>2. [LoaderZero EXCEPT !.zip = 2, !.offset = BlkSize] \in LoaderSet
    <3>1. BlkSize \in Nat /\ 2 \in 0..2
      BY BlkSizeAssumption
    <3> QED BY <2>1, <3>1, LoaderUpdates
  <2> QED BY <2>1, <2>2 DEF Init
<1>3. /\ buf \in [BufIndex -> Val]
      /\ flash \in [Addr -> Val]
      /\ want \in [Addr -> Val \cup {DontCare}]
  BY FlashSizeAssumption DEF Init, Val, Zero, OldUnit, Addr
<1>4. TypeOK
  <2>1. reply.is \in Answers
    BY DEF Init, Answers
  <2>2. up \in [on : BOOLEAN, start : Nat, req : Nat, kept : Nat, got : Nat]
    BY DEF Init, NoUpload
  <2>3. halted \in BOOLEAN /\ linked \in BOOLEAN /\ lost \in BOOLEAN
    BY DEF Init
  <2>4. /\ rest \in 0..(U64 - 1) /\ threshold \in Nat /\ max_cnt \in Nat
        /\ tmpsize \in Nat /\ upsize \in Nat
        /\ img \in Nat /\ wpos \in Nat /\ left \in Int
    BY WidthAssumption DEF Init
  <2> QED BY <1>1, <1>2, <1>3, <2>1, <2>2, <2>3, <2>4 DEF TypeOK
<1>5. StageInv /\ CountInv
  BY <1>1, BufAssumption
     DEF StageInv, CountInv, NoBufferOverflow, NothingLeftStaged, CountdownAgrees,
         Streaming, HostContinues
<1> QED BY <1>4, <1>5 DEF IInv

\* A command that is accepted is the expected one, if one is expected.
LEMMA AcceptedIsExpected ==
  ASSUME NEW c \in Commands \ {"CMD_FAIL"}, Accepts(c), exp.flag
  PROVE  exp.cmd = c
BY DEF Accepts, pre_handle

\* Turns that do not touch the staging buffer, and neither start nor end the
\* inner part of a download.
LEMMA OuterTurn ==
  ASSUME IInv, TypeOK', UNCHANGED staging, UNCHANGED left,
         ~halted, ~(exp.flag /\ exp.cmd \in Inner), ~(exp'.flag /\ exp'.cmd \in Inner)
  PROVE  IInv'
<1>1. tmpsize' = 0
  BY DEF IInv, StageInv, NothingLeftStaged, DataPhase, Inner, staging
<1>2. StageInv'
  BY <1>1, BufAssumption
     DEF StageInv, NoBufferOverflow, NothingLeftStaged, Streaming, HostContinues, Inner
<1>3. CountInv'
  BY DEF CountInv, CountdownAgrees, HostContinues, Inner
<1> QED BY <1>2, <1>3 DEF IInv

\* A quiet turn with sensible operands.
LEMMA TurnInv ==
  ASSUME IInv, NEW c \in Commands \ (Inner \cup {"CMD_FAIL"}), NEW e \in ExpectInfo,
         NEW l \in LoaderSet, NEW r \in Answers, Turn(c, e, l, r),
         e = exp \/ ~e.flag \/ e.cmd \notin Inner
  PROVE  IInv'
<1>1. ~halted /\ ~(exp.flag /\ exp.cmd \in Inner)
  BY AcceptedIsExpected DEF Turn, Accepts
<1>2. ~(exp'.flag /\ exp'.cmd \in Inner)
  BY <1>1 DEF Turn
<1>3. TypeOK'
  BY DEF IInv, TypeOK, Turn, Answer, NoUpload, staging, image
<1> QED BY <1>1, <1>2, <1>3, OuterTurn DEF Turn, staging, image

UploadState == [on : BOOLEAN, start : Nat, req : Nat, kept : Nat, got : Nat]

\* No upload is a state of an upload.
LEMMA NoUploadType == NoUpload \in UploadState
BY DEF NoUpload, UploadState

\* An answer is one of the answers.
LEMMA AnswerType ==
  ASSUME NEW r \in Answers, Answer(r)
  PROVE  reply'.is \in Answers
BY DEF Answer

\* NotLinked, Rejected, Reset and Hang: nothing but the answer, the upload's
\* end or the halt.
LEMMA IdleInv ==
  ASSUME IInv,
         NotLinked \/ (\E c \in Commands : Rejected(c)) \/ Reset \/ Hang
  PROVE  IInv'
<1>1. UNCHANGED <<linked, exp, ld, rest, staging, upsize, flash, image>>
  BY DEF NotLinked, Rejected, Reset, Hang, vars
<1>2. halted' \in BOOLEAN /\ (halted => halted')
  BY DEF NotLinked, Rejected, Reset, Hang, vars, IInv, TypeOK, Accepts
<1>3. reply'.is \in Answers
  <2>1. reply' = reply \/ Answer("none") \/ Answer("CMD_FAIL")
    BY DEF NotLinked, Rejected, Reset, Hang, vars
  <2>2. "none" \in Answers /\ "CMD_FAIL" \in Answers
    BY DEF Answers
  <2> QED BY <2>1, <2>2, AnswerType DEF IInv, TypeOK
<1>4. up' \in UploadState
  <2>1. up' = up \/ up' = NoUpload
    BY DEF NotLinked, Rejected, Reset, Hang, vars
  <2> QED BY <2>1, NoUploadType DEF IInv, TypeOK, UploadState
<1>5. TypeOK'
  BY <1>1, <1>2, <1>3, <1>4 DEF IInv, TypeOK, staging, image, UploadState
<1>6. StageInv' /\ CountInv'
  BY <1>1, <1>2
     DEF IInv, StageInv, CountInv, NoBufferOverflow, NothingLeftStaged, CountdownAgrees,
         DataPhase, Streaming, HostContinues, staging, image
<1> QED BY <1>5, <1>6 DEF IInv

\* Expectations that a quiet turn may set.
LEMMA ExpectType ==
  ASSUME IInv
  PROVE  /\ exp \in ExpectInfo /\ exp.size \in Nat /\ exp.cmd \in Commands
         /\ Unexpect \in ExpectInfo /\ ~Unexpect.flag
         /\ \A f \in BOOLEAN, c \in Commands, n \in Nat :
              /\ expect_info(f, c, n) \in ExpectInfo
              /\ expect_info(f, c, n).flag = f
              /\ expect_info(f, c, n).cmd = c
              /\ expect_info(f, c, n).size = n
<1>1. exp \in ExpectInfo
  BY DEF IInv, TypeOK
<1> QED BY <1>1 DEF Unexpect, ExpectInfo, expect_info

\* The quiet commands.
LEMMA QuietInv ==
  ASSUME IInv, Quiet
  PROVE  IInv'
<1> USE ExpectType
<1> DEFINE Outer == Commands \ (Inner \cup {"CMD_FAIL"})
<1>1. ld \in LoaderSet
  BY DEF IInv, TypeOK
<1>2. /\ {"CMD_LINK_EST", "CMD_UNZIP_INFO", "CMD_DEV_BASE_ADDR", "CMD_DEVICE_INFO",
          "CMD_EFUSE_READ", "CMD_EFUSE_WRITE_LEN", "CMD_EFUSE_WRITE_DATA", "CMD_CHECK",
          "CMD_PARTITION_DATA", "CMD_TL_DOWNLOAD", "CMD_PART_NAME_LEN",
          "CMD_PART_NAME_STRING", "CMD_PART_REQ_ST", "CMD_PART_REQ_SZ",
          "CMD_ERASE_SEG_ST_ADDR", "CMD_ERASE_SEG_END_ADDR", "CMD_PROG_DEV_ST_ADDR",
          "CMD_PROG_DEV_END_ADDR"} \subseteq Outer
      /\ Outer \subseteq Commands /\ \A c \in Outer : c \notin Inner
  BY DEF Commands, Inner
<1>3. {"CMD_CONNECT", "CMD_ACK", "CMD_RESP_DATA", "CMD_EFUSE_READ_RSP", "CMD_SUCCESS",
       "CMD_FAIL", "echo"} \subseteq Answers
  BY DEF Answers
<1> HIDE DEF Outer
<1>4. ASSUME NEW c \in Outer, NEW e \in ExpectInfo, NEW l \in LoaderSet, NEW r \in Answers,
             Turn(c, e, l, r), e = exp \/ ~e.flag \/ e.cmd \notin Inner
      PROVE  IInv'
  BY <1>4, TurnInv DEF Outer
<1>5. ASSUME NEW c \in Outer, NEW r \in Answers, NEW l \in LoaderSet,
             \/ Turn(c, Unexpect, l, r)
             \/ Turn(c, exp, l, r)
             \/ \E d \in Commands, n \in Nat : Turn(c, expect_info(FALSE, d, n), l, r)
             \/ \E d \in Outer, n \in Nat : Turn(c, expect_info(TRUE, d, n), l, r)
      PROVE  IInv'
  <2>1. CASE Turn(c, Unexpect, l, r) BY <2>1, <1>4
  <2>2. CASE Turn(c, exp, l, r) BY <2>2, <1>4
  <2>3. CASE \E d \in Commands, n \in Nat : Turn(c, expect_info(FALSE, d, n), l, r)
    <3>1. PICK d \in Commands, n \in Nat : Turn(c, expect_info(FALSE, d, n), l, r)
      BY <2>3
    <3> QED BY <3>1, <1>4
  <2>4. CASE \E d \in Outer, n \in Nat : Turn(c, expect_info(TRUE, d, n), l, r)
    <3>1. PICK d \in Outer, n \in Nat : Turn(c, expect_info(TRUE, d, n), l, r)
      BY <2>4
    <3>2. /\ expect_info(TRUE, d, n) \in ExpectInfo
          /\ expect_info(TRUE, d, n).cmd \notin Inner
      <4>1. d \in Commands /\ d \notin Inner
        BY <1>2
      <4>2. expect_info(TRUE, d, n) \in ExpectInfo /\ expect_info(TRUE, d, n).cmd = d
        BY <4>1 DEF expect_info, ExpectInfo
      <4> QED BY <4>1, <4>2
    <3> QED BY <3>1, <3>2, <1>4
  <2> QED BY <1>5, <2>1, <2>2, <2>3, <2>4
<1>6. DefPackLen \in Nat
  BY PackAssumption
<1>7. CASE NotLinked \/ (\E c \in Commands : Rejected(c)) \/ Reset
  BY <1>7, IdleInv
<1>8. CASE LinkEst
  <2>1. LoaderZero \in LoaderSet
    BY WidthAssumption DEF LoaderZero, LoaderSet
  <2>2. {0} \cup PktSizes \subseteq Nat
    BY PktAssumption, BufAssumption
  <2> QED BY <1>8, <1>2, <1>3, <1>5, <2>1, <2>2 DEF LinkEst
<1>9. ASSUME NEW z \in Zips, UnzipInfo(z) PROVE IInv'
  <2>1. z \in 0..2 /\ ld.offset \in Nat
    BY PktAssumption, <1>1 DEF LoaderSet
  <2>2. CASE \E v \in StAddrs :
               Turn("CMD_UNZIP_INFO", exp, [ld EXCEPT !.zip = z, !.start = v], "CMD_ACK")
    <3>1. \A v \in StAddrs : [ld EXCEPT !.zip = z, !.start = v] \in LoaderSet
      BY <1>1, <2>1, AddrsAssumption, LoaderUpdates
    <3> QED BY <2>2, <3>1, <1>2, <1>3, <1>5
  <2>3. CASE \E v \in ImgLens :
               Turn("CMD_UNZIP_INFO", exp, [ld EXCEPT !.zip = z, !.all = v], "CMD_ACK")
    <3>1. \A v \in ImgLens : [ld EXCEPT !.zip = z, !.all = v] \in LoaderSet
      <4>1. \A v \in ImgLens : v \in 0..(U64 - 1)
        BY LensAssumption, WidthAssumption
      <4> QED BY <4>1, <1>1, <2>1, LoaderUpdates
    <3> QED BY <2>3, <3>1, <1>2, <1>3, <1>5
  <2>4. CASE \E v \in BigOffsets :
               Turn("CMD_UNZIP_INFO", exp, [ld EXCEPT !.zip = z, !.offset = @ + v], "CMD_ACK")
    <3>1. \A v \in BigOffsets : [ld EXCEPT !.zip = z, !.offset = @ + v] \in LoaderSet
      <4>1. ASSUME NEW v \in BigOffsets
            PROVE  [ld EXCEPT !.zip = z, !.offset = ld.offset + v] \in LoaderSet
        <5>1. ld.offset + v \in Nat
          BY <2>1, AddrsAssumption
        <5> QED BY <5>1, <1>1, <2>1, LoaderUpdates
      <4> QED BY <4>1
    <3> QED BY <2>4, <3>1, <1>2, <1>3, <1>5
  <2> QED BY <1>9, <2>2, <2>3, <2>4 DEF UnzipInfo
<1>10. CASE Query
  BY <1>10, <1>1, <1>2, <1>3, <1>5 DEF Query
<1>11. CASE Check("CMD_CHECK") \/ Check("CMD_PARTITION_DATA")
  BY <1>11, <1>1, <1>2, <1>3, <1>5, <1>6 DEF Check
<1>12. CASE NoOperation
  BY <1>12, <1>1, <1>2, <1>3, <1>5 DEF NoOperation
<1>13. ASSUME NEW n \in ShortLens, EfuseWriteLen(n) \/ PartNameLen(n) PROVE IInv'
  <2>1. n \in Nat /\ n + DefPackLen \in Nat
    BY <1>6, LensAssumption
  <2> QED BY <1>13, <2>1, <1>1, <1>2, <1>3, <1>5 DEF EfuseWriteLen, PartNameLen
<1>14. CASE EfuseWriteData
  BY <1>14, <1>1, <1>2, <1>3, <1>5, ZenonT(40) DEF EfuseWriteData
<1>15. CASE PartNameString
  <2>1. ASSUME NEW q \in Partitions
        PROVE  LET a == (q.start * BlkSize) % U32
               IN  [ld EXCEPT !.start = a, !.cur = a] \in LoaderSet
    <3> DEFINE a == (q.start * BlkSize) % U32
    <3>1. q.start \in Nat /\ BlkSize \in Nat /\ U32 \in Nat \ {0}
      BY PartAssumption, BlkSizeAssumption, WidthAssumption
    <3>2. q.start * BlkSize \in Int
      BY <3>1
    <3>3. a \in 0..(U32 - 1)
      BY <3>1, <3>2, ModRange
    <3>4. a \in Nat
      BY <3>3
    <3> HIDE DEF a
    <3>5. [ld EXCEPT !.start = a, !.cur = a] \in LoaderSet
      BY <3>4, <1>1, LoaderUpdates
    <3> QED BY <3>5 DEF a
  <2>2. CASE \E q \in Partitions :
               LET a == (q.start * BlkSize) % U32 IN
               Turn("CMD_PART_NAME_STRING", expect_info(FALSE, exp.cmd, DefPackLen),
                    [ld EXCEPT !.start = a, !.cur = a], "CMD_ACK")
    BY <2>1, <2>2, <1>2, <1>3, <1>5, <1>6
  <2>3. CASE Turn("CMD_PART_NAME_STRING", expect_info(FALSE, exp.cmd, DefPackLen), ld,
                  "CMD_FAIL")
    BY <2>3, <1>1, <1>2, <1>3, <1>5, <1>6
  <2> QED BY <1>15, <2>2, <2>3 DEF PartNameString
<1>16. CASE PartReqSt \/ PartReqSz
  BY <1>16, <1>1, <1>2, <1>3, <1>5, <1>6 DEF PartReqSt, PartReqSz
<1>17. ASSUME NEW a \in StAddrs, ProgDevStAddr(a) \/ EraseSegStAddr(a) PROVE IInv'
  <2>1. a + ld.offset \in Nat
    BY AddrsAssumption, <1>1 DEF LoaderSet
  <2>2. [ld EXCEPT !.start = a + ld.offset] \in LoaderSet
    BY <2>1, <1>1, LoaderUpdates
  <2> QED BY <1>17, <2>2, <1>2, <1>3, <1>5 DEF ProgDevStAddr, EraseSegStAddr
<1> QED
  BY <1>7, <1>8, <1>9, <1>10, <1>11, <1>12, <1>13, <1>14, <1>15, <1>16, <1>17 DEF Quiet

-----------------------------------------------------------------------------
(***************************************************************************)
(* Erasing and uploading: the staging buffer is empty and stays so.        *)
(***************************************************************************)

\* CMD_ERASE_SEG_END_ADDR and CMD_ERASEFLASH.
LEMMA EraseInv ==
  ASSUME IInv, Erase
  PROVE  IInv'
<1> USE ExpectType
<1>1. /\ ld \in LoaderSet /\ ld.start \in Nat
      /\ flash \in Data(Addr)
      /\ Unexpect \in ExpectInfo
      /\ Blank \in Val
      /\ U64 \in Nat \ {0}
  BY WidthAssumption DEF IInv, TypeOK, LoaderSet, Data, Blank, Val
<1>2. "CMD_SUCCESS" \in Answers /\ "CMD_FAIL" \in Answers
  BY DEF Answers
<1>3. ASSUME NEW n \in EraseLens, EraseSegEndAddr(n) PROVE IInv'
  <2>1. n \in Nat /\ n % U64 \in 0..(U64 - 1)
    BY <1>1, LensAssumption, ModRange
  <2>2. PICK w \in flashex_erase(flash, ld.start, n, Blank) :
          flash' = w.mem /\ Answer(IF w.ok THEN "CMD_SUCCESS" ELSE "CMD_FAIL")
    BY <1>3 DEF EraseSegEndAddr
  <2>3. flash' \in [Addr -> Val]
    BY <1>1, <2>1, <2>2, EraseType DEF Data
  <2>4. reply'.is \in Answers
    BY <1>2, <2>2, AnswerType
  <2>5. TypeOK'
    BY <1>1, <1>3, <2>1, <2>3, <2>4 DEF IInv, TypeOK, EraseSegEndAddr, staging, image
  <2>6. ~halted /\ exp.cmd = "CMD_ERASE_SEG_END_ADDR" /\ ~exp'.flag
    BY <1>3 DEF EraseSegEndAddr, Accepts, HostContinues
  <2> QED BY <1>3, <2>5, <2>6, OuterTurn DEF EraseSegEndAddr, Inner, staging, image
<1>4. CASE EraseFlash
  <2>1. FlashSize + 1 \in Nat /\ (FlashSize + 1) % U64 \in 0..(U64 - 1)
    BY <1>1, FlashSizeAssumption, ModRange
  <2>2. PICK w \in flashex_erase(flash, 0, FlashSize + 1, Blank) :
          /\ flash' = w.mem
          /\ halted' = ~w.ok
          /\ IF w.ok THEN Answer("CMD_SUCCESS") ELSE UNCHANGED reply
    BY <1>4 DEF EraseFlash
  <2>3. flash' \in [Addr -> Val] /\ w.ok \in BOOLEAN
    BY <1>1, <2>1, <2>2, EraseType DEF Data
  <2>4. reply'.is \in Answers
    BY <1>2, <2>2, AnswerType DEF IInv, TypeOK
  <2>5. [ld EXCEPT !.start = 0] \in LoaderSet
    BY <1>1, LoaderUpdates
  <2>6. halted' \in BOOLEAN
    BY <2>2, <2>3
  <2>7. TypeOK'
    BY <1>1, <1>4, <2>1, <2>3, <2>4, <2>5, <2>6, NoUploadType
       DEF IInv, TypeOK, EraseFlash, staging, image, UploadState
  <2>8. "CMD_ERASEFLASH" \in Commands \ (Inner \cup {"CMD_FAIL"})
    BY DEF Commands, Inner
  <2>9. ~halted /\ ~(exp.flag /\ exp.cmd \in Inner) /\ ~exp'.flag
    BY <1>4, <2>8, AcceptedIsExpected DEF EraseFlash, Accepts
  <2> QED BY <1>4, <2>7, <2>9, OuterTurn DEF EraseFlash, staging, image
<1> QED BY <1>3, <1>4 DEF Erase

\* The size of an upload and the upper half that was kept: a word, or a multiple
\* of 2^32 and a word, which is below 2^64.
LEMMA UploadRange ==
  ASSUME IInv, NEW n \in UpLens
  PROVE  /\ n \in Nat /\ KeptHalf \in Nat /\ KeptHalf % U32 = 0
         /\ UploadBytes(n) \in 0..(U64 - 1)
<1> DEFINE q == rest \div U32  k == U64 \div U32
<1>1. /\ U32 \in Nat \ {0} /\ U64 \in Nat \ {0} /\ rest \in Nat /\ rest < U64
      /\ n \in Nat /\ n < U32
  BY WidthAssumption, LensAssumption DEF IInv, TypeOK
<1>2. q \in Nat /\ q * U32 <= rest
  BY <1>1, DivMod
<1>3. k \in Nat /\ k * U32 = U64
  BY <1>1, WidthAssumption, DivMod, Multiple
<1>4. KeptHalf = q * U32
  BY DEF KeptHalf
<1> HIDE DEF q, k
<1>5. q * U32 \in Nat /\ (q * U32) % U32 = 0
  BY <1>1, <1>2, Z3
<1>6. q * U32 + U32 <= U64
  <2>1. q < k
    <3>1. CASE k <= q
      <4>1. k * U32 <= q * U32
        BY <1>1, <1>2, <1>3, <3>1, Z3
      <4> QED BY <1>1, <1>2, <1>3, <1>5, <4>1
    <3> QED BY <1>2, <1>3, <3>1
  <2>2. (q + 1) * U32 <= k * U32
    BY <1>1, <1>2, <1>3, <2>1, Z3
  <2>3. (q + 1) * U32 = q * U32 + U32
    BY <1>1, <1>2
  <2> QED BY <1>3, <2>2, <2>3
<1> QED BY <1>1, <1>4, <1>5, <1>6 DEF UploadBytes

\* One packet, of an upload or not.
LEMMA ChunkType ==
  ASSUME IInv, NEW r \in 0..(U64 - 1), NEW u \in UploadState, SendChunk(r, u)
  PROVE  /\ upsize' \in Nat
         /\ rest' \in 0..(U64 - 1)
         /\ halted' \in BOOLEAN
         /\ reply'.is \in Answers
         /\ up' \in UploadState
<1> DEFINE n == IF r < UpDataSize THEN r ELSE upsize
<1>1. n \in Nat /\ upsize' = n
  BY WidthAssumption DEF IInv, TypeOK, SendChunk
<1>2. r - n \in Int /\ (r - n) % U64 \in 0..(U64 - 1)
  <2>1. r - n \in Int
    BY <1>1, WidthAssumption
  <2> QED BY <2>1, WidthAssumption, ModRange
<1>3. CASE /\ rest' = (r - n) % U64
           /\ reply' = [is |-> "CMD_DATA", data |-> flashex_read(flash, ld.cur, n)]
           /\ up' = IF u.on THEN [u EXCEPT !.got = @ + n] ELSE u
           /\ UNCHANGED halted
  <2>1. reply'.is \in Answers
    BY <1>3 DEF Answers
  <2>2. u.got + n \in Nat
    BY <1>1 DEF UploadState
  <2> HIDE DEF n
  <2>3. up' \in UploadState
    BY <1>3, <2>2 DEF UploadState
  <2> QED BY <1>1, <1>2, <1>3, <2>1, <2>3 DEF IInv, TypeOK
<1>4. CASE halted' = TRUE /\ UNCHANGED <<rest, reply, up>>
  BY <1>1, <1>4 DEF IInv, TypeOK, UploadState
<1> QED BY <1>3, <1>4 DEF SendChunk

\* The upload commands, and CMD_SUCCESS.
LEMMA UploadInv ==
  ASSUME IInv, Upload
  PROVE  IInv'
<1> USE ExpectType
<1>1. /\ ld \in LoaderSet /\ ld.start \in Nat /\ ld.cur \in Nat /\ upsize \in Nat
      /\ UpDataSize \in Nat
      /\ rest \in 0..(U64 - 1) /\ U64 \in Nat \ {0}
  BY WidthAssumption, UpAssumption DEF IInv, TypeOK, LoaderSet
<1>2. {"CMD_RVRS_DWNLD", "CMD_UPLD_DATA_SIZE", "CMD_SUCCESS"}
        \subseteq Commands \ (Inner \cup {"CMD_FAIL"})
  BY DEF Commands, Inner
<1>3. "CMD_ACK" \in Answers /\ "none" \in Answers
  BY DEF Answers
<1>4. ASSUME NEW a \in UpAddrs, RvrsDwnld(a) PROVE IInv'
  <2>1. [ld EXCEPT !.start = a, !.cur = a, !.once = UpDataSize] \in LoaderSet
    BY <1>1, AddrsAssumption, LoaderUpdates
  <2>2. reply'.is \in Answers
    BY <1>3, <1>4, AnswerType DEF RvrsDwnld
  <2>3. exp' = expect_info(TRUE, "CMD_UPLD_DATA_SIZE", exp.size)
    BY <1>4 DEF RvrsDwnld
  <2>4. exp' \in ExpectInfo /\ exp'.cmd \notin Inner
    BY <1>2, <2>3, ZenonT(40)
  <2>5. TypeOK'
    BY <1>1, <1>4, <2>1, <2>2, <2>4, NoUploadType
       DEF IInv, TypeOK, RvrsDwnld, staging, image, UploadState
  <2>6. ~halted /\ ~(exp.flag /\ exp.cmd \in Inner)
    BY <1>2, <1>4, AcceptedIsExpected DEF RvrsDwnld, Accepts
  <2> QED BY <1>4, <2>4, <2>5, <2>6, OuterTurn DEF RvrsDwnld, staging, image
<1>5. ASSUME NEW n \in UpLens, UpldDataSize(n) PROVE IInv'
  <2> DEFINE b == UploadBytes(n)
             u == [on |-> TRUE, start |-> ld.start, req |-> n, kept |-> KeptHalf, got |-> 0]
  <2>1. b \in 0..(U64 - 1) /\ u \in UploadState
    BY <1>1, UploadRange DEF UploadState
  <2>2. SendChunk(b, u)
    BY <1>5 DEF UpldDataSize
  <2> HIDE DEF b, u
  <2>3. /\ upsize' \in Nat /\ rest' \in 0..(U64 - 1) /\ halted' \in BOOLEAN
        /\ reply'.is \in Answers /\ up' \in UploadState
    BY <1>1, <2>1, <2>2, ChunkType
  <2>4. ld.cur + upsize' \in Nat
    BY <1>1, <2>3
  <2>5. ld' \in LoaderSet
    <3>1. ld' = [ld EXCEPT !.all = b, !.cur = ld.cur + upsize']
      BY <1>5 DEF UpldDataSize, b
    <3> QED BY <1>1, <2>1, <2>4, <3>1, LoaderUpdates
  <2>6. exp' = [exp EXCEPT !.flag = FALSE]
    BY <1>5 DEF UpldDataSize
  <2>7. exp' \in ExpectInfo /\ ~exp'.flag
    BY <2>6 DEF ExpectInfo
  <2>8. UNCHANGED <<linked, staging, flash, image>>
    BY <2>2 DEF SendChunk
  <2>9. TypeOK'
    BY <2>3, <2>5, <2>7, <2>8 DEF IInv, TypeOK, staging, image, UploadState
  <2>10. ~halted /\ ~(exp.flag /\ exp.cmd \in Inner)
    BY <1>2, <1>5, AcceptedIsExpected DEF UpldDataSize, Accepts
  <2> QED BY <2>7, <2>8, <2>9, <2>10, OuterTurn DEF staging, image
<1>6. CASE UploadNext
  <2>1. SendChunk(rest, up) /\ UNCHANGED exp /\ up \in UploadState
    BY <1>6 DEF UploadNext, IInv, TypeOK, UploadState
  <2>2. /\ upsize' \in Nat /\ rest' \in 0..(U64 - 1) /\ halted' \in BOOLEAN
        /\ reply'.is \in Answers /\ up' \in UploadState
    BY <1>1, <2>1, ChunkType
  <2>3. ld.cur + upsize' \in Nat
    BY <1>1, <2>2
  <2>4. ld' \in LoaderSet
    <3>1. ld' = [ld EXCEPT !.cur = ld.cur + upsize']
      BY <1>6 DEF UploadNext
    <3> QED BY <1>1, <2>3, <3>1, LoaderUpdates
  <2>5. UNCHANGED <<linked, staging, flash, image>>
    BY <2>1 DEF SendChunk
  <2>6. TypeOK'
    BY <2>1, <2>2, <2>4, <2>5 DEF IInv, TypeOK, staging, image, UploadState
  <2>7. ~halted /\ ~(exp.flag /\ exp.cmd \in Inner)
    BY <1>2, <1>6, AcceptedIsExpected DEF UploadNext, Accepts
  <2> QED BY <2>1, <2>5, <2>6, <2>7, OuterTurn DEF staging, image
<1>7. CASE UploadEnd
  <2>1. reply'.is \in Answers
    BY <1>3, <1>7, AnswerType DEF UploadEnd
  <2>2. up' \in UploadState
    <3>1. up' = [up EXCEPT !.on = FALSE] /\ up \in UploadState
      BY <1>7 DEF UploadEnd, IInv, TypeOK, UploadState
    <3> QED BY <3>1 DEF UploadState
  <2>3. TypeOK'
    BY <1>7, <2>1, <2>2 DEF IInv, TypeOK, UploadEnd, staging, image, UploadState
  <2>4. ~halted /\ ~(exp.flag /\ exp.cmd \in Inner)
    BY <1>2, <1>7, AcceptedIsExpected DEF UploadEnd, Accepts
  <2> QED BY <1>7, <2>3, <2>4, OuterTurn DEF UploadEnd, staging, image
<1> QED BY <1>4, <1>5, <1>6, <1>7 DEF Upload

-----------------------------------------------------------------------------
(***************************************************************************)
(* Downloading.                                                            *)
(***************************************************************************)

\* At least one packet fits in the buffer, and max_cnt packets do.
LEMMA PacketsFit ==
  ASSUME NEW n \in 1..TmpBufSize
  PROVE  /\ TmpBufSize \div n \in Nat
         /\ TmpBufSize \div n >= 1
         /\ (TmpBufSize \div n) * n <= TmpBufSize
<1>1. TmpBufSize \in Nat /\ n \in Nat \ {0} /\ n <= TmpBufSize
  BY BufAssumption
<1>2. /\ TmpBufSize \div n \in Nat
      /\ (TmpBufSize \div n) * n <= TmpBufSize
      /\ TmpBufSize = n * (TmpBufSize \div n) + (TmpBufSize % n)
      /\ TmpBufSize % n < n
  BY <1>1, DivMod
<1>3. TmpBufSize \div n # 0
  BY <1>1, <1>2
<1> QED BY <1>2, <1>3

\* What holds in a turn that takes a CMD_DATA packet.
LEMMA StreamingFacts ==
  ASSUME IInv, Accepts("CMD_DATA"), HostContinues("CMD_DATA")
  PROVE  /\ ~halted /\ Streaming
         /\ ld \in LoaderSet /\ ld.cur \in Nat /\ ld.once \in 1..TmpBufSize
         /\ exp \in ExpectInfo /\ exp.flag /\ exp.cmd = "CMD_DATA"
         /\ exp.size \in 1..ld.once /\ exp.size \in Nat
         /\ max_cnt \in Nat /\ threshold \in Nat /\ tmpsize \in Nat
         /\ max_cnt = TmpBufSize \div ld.once /\ threshold < max_cnt
         /\ tmpsize <= threshold * ld.once /\ tmpsize <= TmpBufSize
         /\ rest = left /\ left \in 1..(U64 - 1)
         /\ exp.size = (IF left < ld.once THEN left ELSE ld.once)
         /\ buf \in [BufIndex -> Val] /\ flash \in Data(Addr)
         /\ img \in Nat /\ wpos \in Nat /\ want \in [Addr -> Val \cup {DontCare}]
         /\ lost \in BOOLEAN
<1>1. ~halted /\ Streaming /\ exp.flag /\ exp.cmd = "CMD_DATA"
  BY DEF Accepts, HostContinues, Streaming
<1>2. ld \in LoaderSet /\ exp \in ExpectInfo /\ flash \in Data(Addr)
  BY DEF IInv, TypeOK, Data
<1>3. ld.cur \in Nat /\ exp.size \in Nat
  BY <1>2 DEF LoaderSet, ExpectInfo
<1>4. /\ rest = left /\ left > 0
      /\ exp.size = (IF left < ld.once THEN left ELSE ld.once)
  BY <1>1 DEF IInv, CountInv, CountdownAgrees
<1>5. left \in 1..(U64 - 1)
  BY <1>4, WidthAssumption DEF IInv, TypeOK
<1> QED BY <1>1, <1>2, <1>3, <1>4, <1>5 DEF IInv, TypeOK, StageInv, NoBufferOverflow

\* The countdown goes on: a full packet, a last short one, or CMD_DATA_SYNC.
LEMMA ConsumeInv ==
  ASSUME IInv, Accepts("CMD_DATA"), HostContinues("CMD_DATA"), Consume, ld'.once = ld.once
  PROVE  /\ rest' \in 0..(U64 - 1) /\ left' \in Int
         /\ exp' \in ExpectInfo
         /\ reply'.is \in Answers
         /\ CountInv'
         /\ exp'.flag /\ exp'.cmd \in {"CMD_DATA", "CMD_DATA_SYNC"}
         /\ exp'.cmd = "CMD_DATA" => exp'.size \in 1..ld.once
<1> DEFINE s == exp.size  o == ld.once
<1>1. /\ s \in Nat /\ s >= 1 /\ s <= o /\ o \in Nat /\ left \in 1..(U64 - 1) /\ rest = left
      /\ s = (IF left < o THEN left ELSE o)
      /\ exp \in ExpectInfo /\ exp.flag /\ exp.cmd = "CMD_DATA"
  BY StreamingFacts, BufAssumption
<1>2. /\ rest' = (rest - exp.size) % U64 /\ left' = left - s
      /\ exp' = ExpectAfter /\ ld'.once = o
  BY DEF Consume, RestAfter
<1>3. RestAfter = left - s /\ left - s \in 0..(U64 - 1) /\ left \in Nat
  <2>1. left - s \in 0..(U64 - 1) /\ left \in Nat
    BY <1>1, WidthAssumption
  <2>2. (left - s) % U64 = left - s
    BY <2>1, WidthAssumption, ModSmall
  <2> QED BY <1>1, <2>1, <2>2 DEF RestAfter
<1>4. reply'.is \in Answers
  <2>1. "CMD_ACK" \in Answers /\ "none" \in Answers
    BY DEF Answers
  <2> QED BY <2>1, AnswerType DEF Consume
<1>5. rest' = left' /\ rest' \in 0..(U64 - 1) /\ left' = left - s
  BY <1>2, <1>3 DEF RestAfter
<1>6. CASE left - s > s
  <2>1. exp' = exp
    BY <1>2, <1>3, <1>6 DEF ExpectAfter
  <2>2. s = o
    BY <1>1, <1>6
  <2>3. exp'.size = (IF left' < o THEN left' ELSE o)
    BY <1>1, <1>5, <1>6, <2>1, <2>2
  <2>4. CountInv'
    BY <1>1, <1>2, <1>3, <1>5, <2>1, <2>3, <1>6
       DEF CountInv, CountdownAgrees, HostContinues
  <2> QED BY <1>1, <1>4, <1>5, <2>1, <2>4
<1>7. CASE left - s <= s /\ left - s # 0
  <2>1. exp' = [exp EXCEPT !.size = left - s]
    BY <1>1, <1>2, <1>3, <1>7 DEF ExpectAfter
  <2>2. left - s \in Nat
    BY <1>3
  <2> HIDE DEF s, o
  <2>3. exp'.flag = exp.flag /\ exp'.cmd = exp.cmd /\ exp'.size = left - s /\ exp' \in ExpectInfo
    BY <1>1, <2>1, <2>2 DEF ExpectInfo
  <2>4. left - s > 0 /\ left - s <= o /\ s = o
    BY <1>1, <1>7, <2>2
  <2>5. CountInv'
    BY <1>1, <1>2, <1>5, <2>3, <2>4 DEF CountInv, CountdownAgrees, HostContinues
  <2> QED BY <1>1, <1>4, <1>5, <2>2, <2>3, <2>4, <2>5 DEF o
<1>8. CASE left - s = 0
  <2>1. exp' = [flag |-> TRUE, cmd |-> "CMD_DATA_SYNC", size |-> DefPackLen]
    BY <1>1, <1>2, <1>3, <1>8 DEF ExpectAfter
  <2>2. exp' \in ExpectInfo /\ exp'.flag /\ exp'.cmd = "CMD_DATA_SYNC"
    BY <2>1, PackAssumption DEF ExpectInfo, Commands
  <2>3. CountInv'
    BY <1>5, <1>8, <2>2 DEF CountInv, CountdownAgrees, HostContinues
  <2> QED BY <1>4, <1>5, <2>2, <2>3
<1> QED BY <1>1, <1>6, <1>7, <1>8

\* A packet that the counter lets in fits in the buffer.
LEMMA RoomForPacket ==
  ASSUME IInv, Accepts("CMD_DATA"), HostContinues("CMD_DATA"), NEW n \in 0..exp.size
  PROVE  /\ tmpsize + n \in 0..TmpBufSize
         /\ tmpsize + n <= (threshold + 1) * ld.once
<1> DEFINE o == ld.once  t == threshold  m == max_cnt
<1>1. /\ o \in Nat \ {0} /\ t \in Nat /\ m \in Nat /\ t < m /\ tmpsize \in Nat
      /\ tmpsize <= t * o /\ n \in Nat /\ n <= o /\ TmpBufSize \in Nat
      /\ m * o <= TmpBufSize
  BY StreamingFacts, PacketsFit, BufAssumption
<1> HIDE DEF o, t, m
<1>2. (t + 1) * o = t * o + o
  BY <1>1, Z3
<1>3. (t + 1) * o <= m * o
  BY <1>1, Z3
<1>4. t * o \in Nat /\ m * o \in Nat
  BY <1>1
<1> QED BY <1>1, <1>2, <1>3, <1>4 DEF o, t

\* The threshold flush keeps the counter below max_cnt.
LEMMA FlushInv ==
  ASSUME IInv, Accepts("CMD_DATA"), HostContinues("CMD_DATA"), NEW n \in 0..exp.size,
         NEW b \in [BufIndex -> Val], ThresholdFlush(b, tmpsize + n, threshold + 1)
  PROVE  /\ flash' \in [Addr -> Val] /\ lost' \in BOOLEAN
         /\ ld' \in LoaderSet /\ ld'.once = ld.once
         /\ tmpsize' \in Nat /\ tmpsize' <= TmpBufSize
         /\ threshold' \in Nat /\ threshold' < max_cnt
         /\ tmpsize' <= threshold' * ld.once
<1>1. /\ ld \in LoaderSet /\ ld.cur \in Nat /\ flash \in Data(Addr) /\ lost \in BOOLEAN
      /\ threshold \in Nat /\ max_cnt \in Nat /\ threshold < max_cnt
      /\ ld.once \in 1..TmpBufSize
  BY StreamingFacts
<1>2. tmpsize + n \in 0..TmpBufSize /\ tmpsize + n <= (threshold + 1) * ld.once
  BY RoomForPacket
<1>3. CASE max_cnt # 0 /\ max_cnt = threshold + 1
  <2>1. PICK w \in flashex_write(flash, ld.cur, b, tmpsize + n) :
          /\ flash' = w.mem
          /\ lost' = (lost \/ ~w.ok)
          /\ ld' = [ld EXCEPT !.cur = @ + (tmpsize + n)]
          /\ tmpsize' = 0
          /\ threshold' = 0
    BY <1>3 DEF ThresholdFlush
  <2>2. \A a \in Touched(ld.cur, tmpsize + n) : b[a - BlkStart(ld.cur)] \in Val
    BY <1>1, <1>2, BufSource
  <2>3. tmpsize + n \in Nat
    BY <1>2, BufAssumption
  <2>4. w.mem \in Data(Addr) /\ w.ok \in BOOLEAN
    BY <1>1, <2>2, <2>3, WriteType
  <2>5. ld' \in LoaderSet /\ ld'.once = ld.once
    <3>1. ld.cur + (tmpsize + n) \in Nat
      BY <1>1, <2>3
    <3> QED BY <1>1, <2>1, <3>1 DEF LoaderSet
  <2>6. 0 <= 0 * ld.once
    BY <1>1, BufAssumption
  <2> QED BY <1>1, <2>1, <2>4, <2>5, <2>6, BufAssumption DEF Data
<1>4. CASE ~(max_cnt # 0 /\ max_cnt = threshold + 1)
  <2>1. tmpsize' = tmpsize + n /\ threshold' = threshold + 1 /\ UNCHANGED <<flash, lost, ld>>
    BY <1>4 DEF ThresholdFlush
  <2>2. threshold + 1 < max_cnt
    BY <1>1, <1>4
  <2> QED BY <1>1, <1>2, <2>1, <2>2, BufAssumption DEF Data
<1> QED BY <1>3, <1>4

\* What a packet does to the buffer and to the host's picture.
LEMMA SendType ==
  ASSUME IInv, NEW n \in Nat, NEW f \in BOOLEAN
  PROVE  /\ Staged(n) \in [BufIndex -> Val]
         /\ HostSends(n, f) => wpos' \in Nat /\ want' \in [Addr -> Val \cup {DontCare}]
<1>1. /\ img \in Nat /\ wpos \in Nat /\ tmpsize \in Nat /\ buf \in [BufIndex -> Val]
      /\ want \in [Addr -> Val \cup {DontCare}]
  BY DEF IInv, TypeOK
<1>2. ASSUME NEW k \in BufIndex PROVE Unit(img, wpos + (k - tmpsize)) \in Val
  <2>1. wpos + (k - tmpsize) \in Int
    BY <1>1, BufAssumption DEF BufIndex
  <2> QED BY <1>1, <2>1 DEF Unit, Val
<1>3. ASSUME NEW a \in Addr PROVE FillUnit(img) \in Val /\ Unit(img, a) \in Val
  BY <1>1, FlashSizeAssumption DEF FillUnit, Unit, Val, Addr
<1>4. Staged(n) \in [BufIndex -> Val]
  BY <1>1, <1>2 DEF Staged
<1>5. ASSUME HostSends(n, f) PROVE wpos' \in Nat /\ want' \in [Addr -> Val \cup {DontCare}]
  BY <1>1, <1>3, <1>5 DEF HostSends
<1> QED BY <1>4, <1>5

\* A packet taken: the type and the counters give the invariant.
LEMMA PacketInv ==
  ASSUME IInv, Accepts("CMD_DATA"), HostContinues("CMD_DATA"), Consume,
         halted' \in BOOLEAN, ld' \in LoaderSet, ld'.once = ld.once,
         flash' \in [Addr -> Val], lost' \in BOOLEAN, buf' \in [BufIndex -> Val],
         wpos' \in Nat, want' \in [Addr -> Val \cup {DontCare}],
         tmpsize' \in Nat, tmpsize' <= TmpBufSize,
         threshold' \in Nat, threshold' < max_cnt, tmpsize' <= threshold' * ld.once
  PROVE  IInv'
<1>1. /\ rest' \in 0..(U64 - 1) /\ left' \in Int /\ exp' \in ExpectInfo
      /\ reply'.is \in Answers /\ CountInv'
      /\ exp'.flag /\ exp'.cmd \in {"CMD_DATA", "CMD_DATA_SYNC"}
      /\ exp'.cmd = "CMD_DATA" => exp'.size \in 1..ld.once
  BY ConsumeInv
<1>2. UNCHANGED <<linked, max_cnt, upsize, img, up>>
  BY DEF Consume
<1>3. TypeOK'
  BY <1>1, <1>2 DEF IInv, TypeOK
<1>4. StageInv'
  <2>1. ld.once \in 1..TmpBufSize /\ max_cnt = TmpBufSize \div ld.once
    BY StreamingFacts
  <2> QED BY <1>1, <1>2, <2>1
          DEF StageInv, NoBufferOverflow, NothingLeftStaged, DataPhase, Streaming,
              HostContinues
<1> QED BY <1>1, <1>3, <1>4 DEF IInv

\* Every command of a download.
LEMMA DownloadInv ==
  ASSUME IInv, Download
  PROVE  IInv'
<1> USE ExpectType
<1>1. /\ ld \in LoaderSet /\ ld.start \in Nat /\ ld.cur \in Nat /\ ld.all \in 0..(U64 - 1)
      /\ flash \in Data(Addr) /\ buf \in [BufIndex -> Val] /\ img \in Nat
      /\ tmpsize \in 0..TmpBufSize /\ tmpsize \in Nat /\ TmpBufSize \in Nat
      /\ lost \in BOOLEAN
  BY BufAssumption DEF IInv, TypeOK, LoaderSet, Data, StageInv, NoBufferOverflow
<1>2. "CMD_ACK" \in Answers /\ "CMD_SUCCESS" \in Answers
  BY DEF Answers
<1>3. ASSUME NEW w \in flashex_write(flash, ld.cur, buf, tmpsize)
      PROVE  w.mem \in Data(Addr) /\ w.ok \in BOOLEAN
  <2>1. \A a \in Touched(ld.cur, tmpsize) : buf[a - BlkStart(ld.cur)] \in Val
    BY <1>1, BufSource
  <2> QED BY <1>1, <2>1, WriteType
<1>4. ASSUME NEW n \in ImgLens, ProgDevEndAddr(n) PROVE IInv'
  <2>1. n \in 0..(U64 - 1) /\ rest' \in 0..(U64 - 1) /\ left' = rest' /\ left' \in Int
    <3>1. n \in 0..(U64 - 1)
      BY LensAssumption, WidthAssumption
    <3> QED BY <1>1, <1>4, <3>1, WidthAssumption DEF ProgDevEndAddr, DownloadBytes
  <2>2. exp' = expect_info(TRUE, "CMD_DATA_PACKET_SIZE", exp.size)
    BY <1>4 DEF ProgDevEndAddr
  <2>3. exp' \in ExpectInfo /\ exp'.cmd = "CMD_DATA_PACKET_SIZE"
    <3>1. "CMD_DATA_PACKET_SIZE" \in Commands
      BY DEF Commands
    <3> QED BY <2>2, <3>1
  <2>4. ld' \in LoaderSet /\ reply'.is \in Answers
    BY <1>1, <1>2, <1>4, AnswerType, LoaderUpdates DEF ProgDevEndAddr
  <2>5. want' \in [Addr -> Val \cup {DontCare}] /\ img' \in Nat /\ wpos' \in Nat
    BY <1>1, <1>4 DEF ProgDevEndAddr
  <2>6. TypeOK'
    BY <1>4, <2>1, <2>3, <2>4, <2>5 DEF ProgDevEndAddr, IInv, TypeOK, staging
  <2>7. tmpsize' = 0
    BY <1>4 DEF ProgDevEndAddr, Accepts, HostContinues, IInv, StageInv, NothingLeftStaged,
                DataPhase, staging
  <2>8. StageInv' /\ CountInv'
    BY <1>1, <2>1, <2>3, <2>7
       DEF StageInv, CountInv, NoBufferOverflow, NothingLeftStaged, Streaming,
           HostContinues, CountdownAgrees
  <2> QED BY <2>6, <2>8 DEF IInv
<1>5. ASSUME NEW n \in PktSizes, DataPacketSize(n) PROVE IInv'
  <2>1. n \in 1..TmpBufSize /\ n \in Nat
    BY PktAssumption, BufAssumption
  <2>2. exp' = expect_info(TRUE, "CMD_DATA", n)
    BY <1>5 DEF DataPacketSize
  <2>3. exp' \in ExpectInfo /\ exp'.cmd = "CMD_DATA" /\ exp'.flag /\ exp'.size = n
    <3>1. "CMD_DATA" \in Commands
      BY DEF Commands
    <3> QED BY <2>1, <2>2, <3>1, ZenonT(40)
  <2>4. ld' \in LoaderSet /\ ld'.once = n /\ reply'.is \in Answers
    <3>1. ld' = [ld EXCEPT !.once = n]
      BY <1>5 DEF DataPacketSize
    <3>2. ld' \in LoaderSet /\ ld'.once = n
      BY <1>1, <2>1, <3>1 DEF LoaderSet
    <3> QED BY <1>2, <1>5, <3>2, AnswerType DEF DataPacketSize
  <2>5. threshold' = 0 /\ max_cnt' = TmpBufSize \div n /\ max_cnt' \in Nat /\ max_cnt' >= 1
    BY <1>5, <2>1, PacketsFit DEF DataPacketSize, MaxCnt
  <2>6. TypeOK'
    <3>1. UNCHANGED <<halted, linked, rest, buf, tmpsize, upsize, flash, image, up>>
      BY <1>5 DEF DataPacketSize
    <3> QED BY <2>3, <2>4, <2>5, <3>1 DEF IInv, TypeOK, image
  <2>7. tmpsize' = 0 /\ rest' = left' /\ n <= left'
    BY <1>5 DEF DataPacketSize, Accepts, HostContinues, IInv, StageInv, NothingLeftStaged,
                DataPhase, CountInv, HostPacket, image
  <2>8. StageInv'
    <3>1. tmpsize' <= threshold' * ld'.once
      BY <2>1, <2>4, <2>5, <2>7
    <3> QED BY <1>1, <2>1, <2>3, <2>4, <2>5, <2>7, <3>1
            DEF StageInv, NoBufferOverflow, NothingLeftStaged, DataPhase, Streaming,
                HostContinues
  <2>9. CountInv'
    <3>1. left' \in Int
      BY <2>6 DEF TypeOK
    <3> QED BY <2>1, <2>3, <2>4, <2>7, <3>1 DEF CountInv, CountdownAgrees, HostContinues
  <2> QED BY <2>6, <2>8, <2>9 DEF IInv
<1>6. ASSUME NEW n \in 0..exp.size, Accepts("CMD_DATA"), HostContinues("CMD_DATA"), Consume,
             buf' = Staged(n), HostSends(n, FALSE),
             ThresholdFlush(Staged(n), tmpsize + n, threshold + 1), UNCHANGED halted
      PROVE  IInv'
  <2>1. n \in Nat
    BY <1>6
  <2>2. /\ Staged(n) \in [BufIndex -> Val]
        /\ wpos' \in Nat /\ want' \in [Addr -> Val \cup {DontCare}]
    BY <1>6, <2>1, SendType
  <2>3. halted' \in BOOLEAN
    BY <1>6 DEF IInv, TypeOK
  <2>4. /\ flash' \in [Addr -> Val] /\ lost' \in BOOLEAN
        /\ ld' \in LoaderSet /\ ld'.once = ld.once
        /\ tmpsize' \in Nat /\ tmpsize' <= TmpBufSize
        /\ threshold' \in Nat /\ threshold' < max_cnt
        /\ tmpsize' <= threshold' * ld.once
    BY <1>6, <2>2, FlushInv
  <2> QED BY <1>6, <2>2, <2>3, <2>4, PacketInv
<1>7. CASE DataRaw
  <2>1. exp.size \in 0..exp.size
    BY <1>7, StreamingFacts DEF DataRaw
  <2> QED BY <1>6, <1>7, <2>1 DEF DataRaw
<1>8. ASSUME NEW n \in 0..TmpBufSize, DataZipRaw(n) PROVE IInv'
  <2>1. n \in 0..exp.size
    <3>1. n \in Nat /\ exp.size \in Nat /\ HdrSize \in Nat /\ n <= exp.size - HdrSize
      BY <1>1, <1>8, PackAssumption DEF DataZipRaw, HostChunk
    <3> QED BY <3>1
  <2> QED BY <1>6, <1>8, <2>1 DEF DataZipRaw
<1>9. ASSUME NEW n \in 0..TmpBufSize, DataZipOdd(n) PROVE IInv'
  <2>1. n \in 0..exp.size /\ n \in Nat
    <3>1. n \in Nat /\ exp.size \in Nat /\ HdrSize \in Nat /\ n <= exp.size - HdrSize
      BY <1>1, <1>9, PackAssumption DEF DataZipOdd, HostChunk
    <3> QED BY <3>1
  <2>2. tmpsize' \in 0..TmpBufSize /\ threshold' \in Nat /\ buf' \in [BufIndex -> Val]
    <3>1. tmpsize + n \in 0..TmpBufSize
      BY <1>9, <2>1, RoomForPacket DEF DataZipOdd
    <3>2. Staged(n) \in [BufIndex -> Val]
      BY <2>1, SendType
    <3>3. threshold + 1 \in Nat
      BY DEF IInv, TypeOK
    <3> QED BY <1>9, <3>1, <3>2, <3>3 DEF DataZipOdd
  <2>3. halted' /\ UNCHANGED <<linked, exp, ld, rest, max_cnt, upsize, flash, reply, image, up>>
    BY <1>9 DEF DataZipOdd
  <2>4. TypeOK'
    BY <1>1, <1>9, <2>2, <2>3 DEF IInv, TypeOK, image, DataZipOdd
  <2>5. exp'.cmd = "CMD_DATA"
    BY <1>9, <2>3 DEF DataZipOdd, HostContinues
  <2>6. StageInv' /\ CountInv'
    BY <1>1, <2>2, <2>3, <2>5
       DEF StageInv, CountInv, NoBufferOverflow, NothingLeftStaged, Streaming,
           HostContinues, CountdownAgrees
  <2> QED BY <2>4, <2>6 DEF IInv
<1>10. ASSUME NEW n \in FillLens, DataZipFill(n) PROVE IInv'
  <2>1. n \in Nat /\ n * WordSize \in Nat /\ FillBytes(n) \in Nat
    <3>1. n \in Nat /\ WordSize \in Nat /\ U32 \in Nat \ {0}
      BY LensAssumption, PackAssumption, WidthAssumption
    <3>2. n * WordSize \in Nat
      BY <3>1
    <3>3. n * WordSize \in Int
      BY <3>2
    <3>4. FillBytes(n) \in 0..(U32 - 1)
      BY <3>1, <3>3, ModRange DEF FillBytes
    <3> QED BY <3>1, <3>2, <3>4
  <2>2. PICK w1 \in flashex_write(flash, ld.cur, buf, tmpsize) :
          \E w2 \in flashex_write(w1.mem, ld.cur + tmpsize,
                                  [k \in Addr |-> FillUnit(img)], FillBytes(n)) :
            flash' = w2.mem /\ lost' = (lost \/ ~w1.ok \/ ~w2.ok)
    BY <1>10 DEF DataZipFill
  <2>3. PICK w2 \in flashex_write(w1.mem, ld.cur + tmpsize,
                                  [k \in Addr |-> FillUnit(img)], FillBytes(n)) :
          flash' = w2.mem /\ lost' = (lost \/ ~w1.ok \/ ~w2.ok)
    BY <2>2
  <2>4. flash' \in [Addr -> Val] /\ lost' \in BOOLEAN
    <3> DEFINE src == [k \in Addr |-> FillUnit(img)]  st == ld.cur + tmpsize
    <3>1. w1.mem \in Data(Addr) /\ w1.ok \in BOOLEAN
      BY <1>3
    <3>2. st \in Nat
      BY <1>1
    <3>3. ASSUME NEW a \in Touched(st, FillBytes(n)) PROVE src[a - BlkStart(st)] \in Val
      <4>1. BlkStart(st) \in Nat /\ BlkStart(st) <= a /\ a \in Addr
        <5>1. st \div BlkSize \in Nat /\ BlkSize \in Nat
          BY <3>2, DivMod, BlkSizeAssumption
        <5>2. BlkStart(st) \in Nat
          BY <5>1 DEF BlkStart
        <5> QED BY <5>2 DEF Touched
      <4>2. a - BlkStart(st) \in Addr
        BY <4>1, FlashSizeAssumption DEF Addr
      <4>3. FillUnit(img) \in Val
        BY <1>1 DEF FillUnit, Val
      <4> QED BY <4>2, <4>3
    <3> HIDE DEF src, st
    <3>4. w2 \in flashex_write(w1.mem, st, src, FillBytes(n))
      BY DEF src, st
    <3>5. w2.mem \in Data(Addr) /\ w2.ok \in BOOLEAN
      BY <2>1, <3>1, <3>2, <3>3, <3>4, WriteType
    <3> QED BY <1>1, <2>3, <3>1, <3>5 DEF Data
  <2>5. ld' \in LoaderSet /\ ld'.once = ld.once
    <3>1. ld.cur + tmpsize + FillBytes(n) \in Nat
      BY <1>1, <2>1
    <3>2. ld' = [ld EXCEPT !.cur = ld.cur + tmpsize + FillBytes(n)]
      BY <1>10 DEF DataZipFill
    <3> QED BY <1>1, <3>1, <3>2 DEF LoaderSet
  <2>6. buf' \in [BufIndex -> Val] /\ wpos' \in Nat /\ want' \in [Addr -> Val \cup {DontCare}]
    <3>1. HostSends(n * WordSize, TRUE)
      BY <1>10 DEF DataZipFill
    <3>2. buf' \in [BufIndex -> Val]
      BY <1>1, <1>10 DEF DataZipFill, FillUnit, Val
    <3> QED BY <2>1, <3>1, <3>2, SendType
  <2>7. halted' \in BOOLEAN /\ tmpsize' = 0 /\ threshold' = 0
    BY <1>10, <2>1, WidthAssumption DEF DataZipFill, FillSpins
  <2>8. Accepts("CMD_DATA") /\ HostContinues("CMD_DATA") /\ Consume
    BY <1>10 DEF DataZipFill
  <2>9. threshold' < max_cnt /\ tmpsize' <= threshold' * ld.once /\ tmpsize' <= TmpBufSize
    BY <1>1, <2>7, <2>8, StreamingFacts
  <2> QED BY <2>4, <2>5, <2>6, <2>7, <2>8, <2>9, PacketInv
<1>11. ASSUME NEW n \in SkipLens, DataZipSkip(n) PROVE IInv'
  <2>1. PICK w \in flashex_write(flash, ld.cur, buf, tmpsize) :
          flash' = w.mem /\ lost' = (lost \/ ~w.ok)
    BY <1>11 DEF DataZipSkip
  <2>2. flash' \in [Addr -> Val] /\ lost' \in BOOLEAN
    BY <1>1, <1>3, <2>1 DEF Data
  <2>3. n \in Nat
    BY LensAssumption
  <2>4. ld' \in LoaderSet /\ ld'.once = ld.once
    <3>1. ld.cur + tmpsize + n \in Nat
      BY <1>1, <2>3
    <3>2. ld' = [ld EXCEPT !.cur = ld.cur + tmpsize + n]
      BY <1>11 DEF DataZipSkip
    <3> QED BY <1>1, <3>1, <3>2 DEF LoaderSet
  <2>5. /\ Accepts("CMD_DATA") /\ HostContinues("CMD_DATA") /\ Consume
        /\ tmpsize' = 0 /\ threshold' = 0 /\ halted' \in BOOLEAN
        /\ UNCHANGED <<buf, want>> /\ wpos' = wpos + n
    BY <1>11 DEF DataZipSkip
  <2>6. buf' \in [BufIndex -> Val] /\ wpos' \in Nat /\ want' \in [Addr -> Val \cup {DontCare}]
    BY <2>3, <2>5 DEF IInv, TypeOK
  <2>7. threshold' < max_cnt /\ tmpsize' <= threshold' * ld.once /\ tmpsize' <= TmpBufSize
    BY <1>1, <2>5, StreamingFacts
  <2> QED BY <2>2, <2>4, <2>5, <2>6, <2>7, PacketInv
<1>12. CASE DataIgnored
  <2>1. /\ Accepts("CMD_DATA") /\ HostContinues("CMD_DATA") /\ Consume
        /\ UNCHANGED <<halted, ld, threshold, buf, tmpsize, flash, wpos, want, lost>>
    BY <1>12 DEF DataIgnored
  <2>2. /\ halted' \in BOOLEAN /\ ld' \in LoaderSet /\ ld'.once = ld.once
        /\ flash' \in [Addr -> Val] /\ lost' \in BOOLEAN /\ buf' \in [BufIndex -> Val]
        /\ wpos' \in Nat /\ want' \in [Addr -> Val \cup {DontCare}]
    BY <2>1 DEF IInv, TypeOK
  <2>3. /\ tmpsize' \in Nat /\ tmpsize' <= TmpBufSize
        /\ threshold' \in Nat /\ threshold' < max_cnt /\ tmpsize' <= threshold' * ld.once
    BY <2>1, StreamingFacts
  <2> QED BY <2>1, <2>2, <2>3, PacketInv
<1>13. CASE DataSync
  <2>1. PICK w \in flashex_write(flash, ld.cur, buf, tmpsize) :
          /\ flash' = w.mem
          /\ lost' = (lost \/ ~w.ok)
          /\ halted' = ~w.ok
          /\ IF w.ok
             THEN /\ Answer("CMD_SUCCESS")
                  /\ tmpsize' = 0
                  /\ threshold' = 0
                  /\ exp' = expect_info(FALSE, "CMD_LINK_EST", DefPackLen)
             ELSE UNCHANGED <<reply, tmpsize, threshold, exp>>
    BY <1>13 DEF DataSync
  <2>2. flash' \in [Addr -> Val] /\ w.ok \in BOOLEAN /\ lost' \in BOOLEAN /\ halted' \in BOOLEAN
    BY <1>1, <1>3, <2>1 DEF Data
  <2>3. UNCHANGED <<linked, ld, rest, max_cnt, buf, upsize, img, wpos, left, want>>
    BY <1>13 DEF DataSync
  <2>4. up' \in UploadState
    BY <1>13, NoUploadType DEF DataSync
  <2>5. CASE w.ok
    <3>1. exp' \in ExpectInfo /\ ~exp'.flag
      <4>1. "CMD_LINK_EST" \in Commands /\ DefPackLen \in Nat
        BY PackAssumption DEF Commands
      <4>2. exp' = expect_info(FALSE, "CMD_LINK_EST", DefPackLen)
        BY <2>1, <2>5
      <4> QED BY <4>1, <4>2
    <3>2. reply'.is \in Answers /\ tmpsize' = 0 /\ threshold' = 0
      BY <1>2, <2>1, <2>5, AnswerType
    <3>3. TypeOK'
      BY <2>2, <2>3, <2>4, <3>1, <3>2 DEF IInv, TypeOK, UploadState
    <3>4. StageInv' /\ CountInv'
      BY <1>1, <3>1, <3>2
         DEF StageInv, CountInv, NoBufferOverflow, NothingLeftStaged, Streaming,
             HostContinues, CountdownAgrees
    <3> QED BY <3>3, <3>4 DEF IInv
  <2>6. CASE ~w.ok
    <3>1. halted' /\ UNCHANGED <<reply, tmpsize, threshold, exp>>
      BY <2>1, <2>6
    <3>2. TypeOK'
      BY <2>2, <2>3, <2>4, <3>1 DEF IInv, TypeOK, UploadState
    <3>3. ~HostContinues("CMD_DATA_PACKET_SIZE")
      <4>1. "CMD_DATA_SYNC" \in Commands \ {"CMD_FAIL"}
        BY DEF Commands
      <4>2. exp.flag => exp.cmd = "CMD_DATA_SYNC"
        BY <1>13, <4>1, AcceptedIsExpected DEF DataSync
      <4> QED BY <4>2 DEF HostContinues
    <3>4. StageInv' /\ CountInv'
      BY <1>1, <2>3, <3>1, <3>3
         DEF StageInv, CountInv, NoBufferOverflow, NothingLeftStaged, Streaming,
             HostContinues, CountdownAgrees
    <3> QED BY <3>2, <3>4 DEF IInv
  <2> QED BY <2>2, <2>5, <2>6
<1> QED BY <1>4, <1>5, <1>7, <1>8, <1>9, <1>10, <1>11, <1>12, <1>13 DEF Download

-----------------------------------------------------------------------------
(***************************************************************************)
(* The theorems.                                                           *)
(***************************************************************************)

\* Every step keeps the inductive invariant.
LEMMA StepInv == IInv /\ [Next]_vars => IInv'
<1> SUFFICES ASSUME IInv, [Next]_vars PROVE IInv'
  OBVIOUS
<1>1. CASE Quiet BY <1>1, QuietInv
<1>2. CASE Erase BY <1>2, EraseInv
<1>3. CASE Download BY <1>3, DownloadInv
<1>4. CASE Upload BY <1>4, UploadInv
<1>5. CASE Hang BY <1>5, IdleInv
<1>6. CASE UNCHANGED vars
  BY <1>6 DEF vars, staging, image, IInv, TypeOK, StageInv, CountInv, NoBufferOverflow,
              NothingLeftStaged, CountdownAgrees, DataPhase, Streaming, HostContinues
<1> QED BY <1>1, <1>2, <1>3, <1>4, <1>5, <1>6 DEF Next

\* loader_scheduler's variables keep their types and its staging buffer is
\* never overrun, for every buffer, block and packet size, every image and every
\* order of commands, from a host that respects the Host... operators: zip data
\* lies in its packet, and second commands and data come when they are expected.
THEOREM LoaderInvariant == Spec => []IInv
<1>1. Init => IInv
  BY InitInv
<1>2. IInv /\ [Next]_vars => IInv'
  BY StepInv
<1> QED BY <1>1, <1>2, PTL DEF Spec

\* Type correctness of the loader, the contents of the flash included, under the
\* same assumptions about the host.
THEOREM TypeCorrect == Spec => []TypeOK
<1>1. IInv => TypeOK
  BY DEF IInv
<1> QED BY <1>1, LoaderInvariant, PTL

\* The packet counter of CMD_DATA_PACKET_SIZE keeps every staged packet, raw or
\* zip with its data in the packet (HostChunk), inside tmp_desc.buf.
THEOREM BufferSafe == Spec => []NoBufferOverflow
<1>1. IInv => NoBufferOverflow
  BY DEF IInv, StageInv
<1> QED BY <1>1, LoaderInvariant, PTL

\* A download leaves nothing in the staging buffer for the next one, if the host
\* sends data and the second command of a pair only when they are expected
\* (HostContinues).
THEOREM BufferDrained == Spec => []NothingLeftStaged
<1>1. IInv => NothingLeftStaged
  BY DEF IInv, StageInv
<1> QED BY <1>1, LoaderInvariant, PTL

\* rest_bytes counts exactly what the host has still to send.
THEOREM CountdownCorrect == Spec => []CountdownAgrees
<1>1. IInv => CountdownAgrees
  BY DEF IInv, CountInv
<1> QED BY <1>1, LoaderInvariant, PTL

-----------------------------------------------------------------------------
(***************************************************************************)
(* Addresses that begin a block.                                           *)
(***************************************************************************)
Aligned(a) == a % BlkSize = 0

\* A multiple has no remainder.
LEMMA TimesMod ==
  ASSUME NEW q \in Nat, NEW b \in Nat \ {0}
  PROVE  (q * b) % b = 0
<1>1. q * b \in Nat
  OBVIOUS
<1>2. /\ (q * b) \div b \in Nat /\ (q * b) % b \in 0..(b - 1)
      /\ q * b = b * ((q * b) \div b) + ((q * b) % b)
  BY <1>1, DivMod
<1>3. ASSUME NEW d \in Nat, NEW m \in 0..(b - 1), q * b = b * d + m
      PROVE  m = 0
  <2>1. CASE d < q
    <3>1. PICK k \in Nat : q = d + 1 + k
      <4>1. q - d - 1 \in Nat /\ q = d + 1 + (q - d - 1)
        BY <2>1
      <4> QED BY <4>1
    <3>2. q * b = b * d + b + k * b /\ k * b \in Nat
      BY <3>1, Z3
    <3> QED BY <1>3, <3>2, Z3
  <2>2. CASE q < d
    <3>1. PICK k \in Nat : d = q + 1 + k
      <4>1. d - q - 1 \in Nat /\ d = q + 1 + (d - q - 1)
        BY <2>2
      <4> QED BY <4>1
    <3>2. b * d = q * b + b + k * b /\ k * b \in Nat
      BY <3>1, Z3
    <3> QED BY <1>3, <3>2, Z3
  <2>3. CASE q = d
    BY <1>3, <2>3, Z3
  <2> QED BY <2>1, <2>2, <2>3
<1> QED BY <1>2, <1>3

\* A sum of two aligned addresses is aligned.
LEMMA AlignedSum ==
  ASSUME NEW a \in Nat, NEW b \in Nat, Aligned(a), Aligned(b)
  PROVE  Aligned(a + b)
<1> DEFINE p == a \div BlkSize  q == b \div BlkSize
<1>1. BlkSize \in Nat \ {0}
  BY BlkSizeAssumption
<1>2. p \in Nat /\ q \in Nat /\ a = p * BlkSize /\ b = q * BlkSize
  BY <1>1, DivMod, Multiple DEF Aligned
<1> HIDE DEF p, q
<1>3. a + b = (p + q) * BlkSize /\ p + q \in Nat
  BY <1>1, <1>2, Z3
<1> QED BY <1>1, <1>3, TimesMod DEF Aligned

\* So is a difference.
LEMMA AlignedDifference ==
  ASSUME NEW a \in Nat, NEW b \in Nat, b <= a, Aligned(a), Aligned(b)
  PROVE  Aligned(a - b)
<1> DEFINE p == a \div BlkSize  q == b \div BlkSize
<1>1. BlkSize \in Nat \ {0}
  BY BlkSizeAssumption
<1>2. p \in Nat /\ q \in Nat /\ a = p * BlkSize /\ b = q * BlkSize
  BY <1>1, DivMod, Multiple DEF Aligned
<1> HIDE DEF p, q
<1>3. a - b = (p - q) * BlkSize
  BY <1>1, <1>2, Z3
<1>4. p - q \in Nat
  <2>1. ASSUME p < q PROVE FALSE
    <3>1. PICK k \in Nat : q = p + 1 + k
      <4>1. q - p - 1 \in Nat /\ q = p + 1 + (q - p - 1)
        BY <1>2, <2>1
      <4> QED BY <4>1
    <3>2. q * BlkSize = p * BlkSize + BlkSize + k * BlkSize /\ k * BlkSize \in Nat
      BY <1>1, <1>2, <3>1, Z3
    <3> QED BY <1>1, <1>2, <3>2
  <2> QED BY <1>2, <2>1
<1> QED BY <1>1, <1>3, <1>4, TimesMod DEF Aligned

\* BlkStart rounds down to a block, and an aligned address is its own block's start.
LEMMA BlkStartIs ==
  ASSUME NEW a \in Nat
  PROVE  /\ BlkStart(a) \in Nat /\ Aligned(BlkStart(a))
         /\ BlkStart(a) <= a /\ a < BlkStart(a) + BlkSize
         /\ Aligned(a) => BlkStart(a) = a
         /\ \A m \in Nat : Aligned(m) /\ m <= a => m <= BlkStart(a)
<1> DEFINE q == a \div BlkSize
<1>1. BlkSize \in Nat \ {0}
  BY BlkSizeAssumption
<1>2. q \in Nat /\ a % BlkSize \in 0..(BlkSize - 1) /\ a = BlkSize * q + (a % BlkSize)
  BY <1>1, DivMod
<1>3. BlkStart(a) = q * BlkSize
  BY DEF BlkStart
<1> HIDE DEF q
<1>4. q * BlkSize \in Nat /\ BlkSize * q = q * BlkSize
  BY <1>1, <1>2
<1>5. Aligned(BlkStart(a))
  BY <1>1, <1>2, <1>3, TimesMod DEF Aligned
<1>6. BlkStart(a) <= a /\ a < BlkStart(a) + BlkSize
  BY <1>1, <1>2, <1>3, <1>4
<1>7. Aligned(a) => BlkStart(a) = a
  BY <1>2, <1>3, <1>4 DEF Aligned
<1>8. ASSUME NEW m \in Nat, Aligned(m), m <= a, BlkStart(a) < m
      PROVE  FALSE
  <2> DEFINE p == m \div BlkSize
  <2>1. p \in Nat /\ m = p * BlkSize
    BY <1>1, <1>8, DivMod, Multiple DEF Aligned
  <2> HIDE DEF p
  <2>2. q < p
    <3>1. ASSUME p <= q PROVE FALSE
      <4>1. p * BlkSize <= q * BlkSize
        BY <1>1, <1>2, <2>1, <3>1, Z3
      <4> QED BY <1>3, <1>4, <1>8, <2>1, <4>1
    <3> QED BY <1>2, <2>1, <3>1
  <2>3. (q + 1) * BlkSize <= p * BlkSize
    BY <1>1, <1>2, <2>1, <2>2, Z3
  <2>4. (q + 1) * BlkSize = q * BlkSize + BlkSize
    BY <1>1, <1>2, Z3
  <2> QED BY <1>1, <1>3, <1>4, <1>6, <1>8, <2>1, <2>3, <2>4
<1>9. \A m \in Nat : Aligned(m) /\ m <= a => m <= BlkStart(a)
  BY <1>3, <1>4, <1>8
<1> QED BY <1>3, <1>4, <1>5, <1>6, <1>7, <1>9

\* What flashex_write touches: at least the len units from an aligned start,
\* none when len is 0, and no block beyond that of the last unit.
LEMMA TouchedIs ==
  ASSUME NEW start \in Nat, NEW len \in Nat
  PROVE  /\ len = 0 => Touched(start, len) = {}
         /\ \A a \in Addr : BlkStart(start) <= a /\ a < BlkStart(start) + len
                              => a \in Touched(start, len)
         /\ \A a \in Touched(start, len) :
              a \in Addr /\ BlkStart(start) <= a /\ a < BlkStart(start + len + BlkSize - 1)
<1> DEFINE s == BlkStart(start)  m == BlkCnt(len) * BlkSize  x == start + len + BlkSize - 1
<1>1. BlkSize \in Nat \ {0} /\ x \in Nat
  BY BlkSizeAssumption
<1>2. /\ s \in Nat /\ Aligned(s) /\ s <= start
      /\ BlkStart(x) \in Nat /\ Aligned(BlkStart(x)) /\ BlkStart(x) <= x
      /\ x < BlkStart(x) + BlkSize
  BY <1>1, BlkStartIs
<1>3. BlkCnt(len) \in Nat /\ m \in Nat /\ s + m <= BlkStart(x)
  <2> DEFINE d == BlkStart(x) - s
  <2>1. d \in Nat /\ len <= d
    BY <1>1, <1>2
  <2>2. Aligned(d)
    BY <1>2, <2>1, AlignedDifference
  <2> HIDE DEF d
  <2>3. BlkCnt(len) \in Nat /\ BlkCnt(len) * BlkSize <= d
    BY <2>1, <2>2, BlkCntBound DEF Aligned
  <2>4. m \in Nat
    BY <1>1, <2>3
  <2>5. d = BlkStart(x) - s
    BY DEF d
  <2> HIDE DEF m
  <2>6. m <= d
    BY <2>3 DEF m
  <2> HIDE DEF x, s
  <2> QED BY <1>2, <2>3, <2>4, <2>5, <2>6
<1>4. len <= m
  <2>1. /\ len \div BlkSize \in Nat /\ len % BlkSize \in 0..(BlkSize - 1)
        /\ len = BlkSize * (len \div BlkSize) + (len % BlkSize)
    BY <1>1, DivMod
  <2> DEFINE q == len \div BlkSize
  <2>2. BlkCnt(len) = (IF len % BlkSize # 0 THEN q + 1 ELSE q)
    BY DEF BlkCnt
  <2> HIDE DEF q
  <2>3. q \in Nat /\ len = BlkSize * q + (len % BlkSize)
    BY <2>1 DEF q
  <2>4. BlkSize * q = q * BlkSize /\ (q + 1) * BlkSize = q * BlkSize + BlkSize
        /\ q * BlkSize \in Nat
    BY <1>1, <2>3, Z3
  <2> QED BY <1>1, <2>1, <2>2, <2>3, <2>4
<1>5. len = 0 => m = 0
  <2>1. ASSUME len = 0 PROVE m = 0
    <3>1. 0 \div BlkSize = 0 /\ 0 % BlkSize = 0
      BY <1>1, Z3
    <3> QED BY <1>1, <2>1, <3>1 DEF BlkCnt
  <2> QED BY <2>1
<1>6. Touched(start, len) = {a \in Addr : s <= a /\ a < s + m}
  BY DEF Touched
<1>7. Addr \subseteq Nat
  BY FlashSizeAssumption DEF Addr
<1> HIDE DEF s, m, x
<1>8. len = 0 => Touched(start, len) = {}
  <2>1. ASSUME len = 0, NEW a \in Touched(start, len) PROVE FALSE
    <3>1. a \in Nat /\ s <= a /\ a < s + m /\ m = 0
      BY <1>5, <1>6, <1>7, <2>1
    <3> QED BY <1>2, <3>1
  <2> QED BY <2>1
<1>9. \A a \in Addr : s <= a /\ a < s + len => a \in Touched(start, len)
  BY <1>2, <1>3, <1>4, <1>6, <1>7
<1>10. \A a \in Touched(start, len) : a \in Addr /\ s <= a /\ a < BlkStart(x)
  <2>1. ASSUME NEW a \in Touched(start, len)
        PROVE  a \in Addr /\ s <= a /\ a < BlkStart(x)
    <3>1. a \in Addr /\ a \in Nat /\ s <= a /\ a < s + m
      BY <1>6, <1>7
    <3> QED BY <1>2, <1>3, <3>1
  <2> QED BY <2>1
<1> QED BY <1>8, <1>9, <1>10 DEF s, x

-----------------------------------------------------------------------------
(***************************************************************************)
(* What a quiet turn can do to the settings that later turns rely on.      *)
(***************************************************************************)

\* The commands that a later turn relies on being expected.
Apart == Inner \cup {"CMD_PROG_DEV_END_ADDR", "CMD_UPLD_DATA_SIZE"}

\* The expectation e and the settings l left by a quiet turn: only
\* CMD_PROG_DEV_ST_ADDR announces a command of Apart.
Announces(e, l) ==
  \/ e = exp \/ ~e.flag \/ e.cmd \notin Apart
  \/ e.cmd = "CMD_PROG_DEV_END_ADDR" /\ (Aligned(ld.offset) => Aligned(l.start))

QuietTurn(c, e, l, r) ==
  /\ Turn(c, e, l, r)
  /\ c \in Commands \ (Apart \cup {"CMD_FAIL"})
  /\ r \in Answers \ {"CMD_DATA"}
  /\ Announces(e, l)
  /\ Aligned(ld.offset) => Aligned(l.offset)
  /\ l.all \in {0, ld.all} \cup ImgLens

\* A quiet turn that was not refused is one of those.
LEMMA QuietShape ==
  ASSUME IInv, Quiet
  PROVE  \/ NotLinked \/ (\E c \in Commands : Rejected(c)) \/ Reset
         \/ \E c, e, l, r : QuietTurn(c, e, l, r)
<1> DEFINE Done == \E c, e, l, r : QuietTurn(c, e, l, r)
           Keeps(l) == l.offset = ld.offset /\ l.all = ld.all
           Outer == Commands \ (Apart \cup {"CMD_FAIL"})
           Says == Answers \ {"CMD_DATA"}
<1>1. ld \in LoaderSet /\ ld.offset \in Nat
  BY DEF IInv, TypeOK, LoaderSet
<1>2. /\ {"CMD_LINK_EST", "CMD_UNZIP_INFO", "CMD_DEV_BASE_ADDR", "CMD_DEVICE_INFO",
          "CMD_EFUSE_READ", "CMD_EFUSE_WRITE_LEN", "CMD_EFUSE_WRITE_DATA", "CMD_CHECK",
          "CMD_PARTITION_DATA", "CMD_TL_DOWNLOAD", "CMD_PART_NAME_LEN",
          "CMD_PART_NAME_STRING", "CMD_PART_REQ_ST", "CMD_PART_REQ_SZ",
          "CMD_ERASE_SEG_ST_ADDR", "CMD_ERASE_SEG_END_ADDR", "CMD_PROG_DEV_ST_ADDR"}
           \subseteq Outer
      /\ \A d \in Outer : d \notin Apart
  BY DEF Commands, Apart, Inner
<1>3. {"CMD_CONNECT", "CMD_ACK", "CMD_RESP_DATA", "CMD_EFUSE_READ_RSP", "CMD_SUCCESS",
       "CMD_FAIL", "echo"} \subseteq Says
  BY DEF Answers
<1>4. ASSUME NEW c \in Outer, NEW e, NEW l, NEW r \in Says, Turn(c, e, l, r), Announces(e, l),
             Aligned(ld.offset) => Aligned(l.offset), l.all \in {0, ld.all} \cup ImgLens
      PROVE  Done
  <2>1. QuietTurn(c, e, l, r)
    BY <1>4 DEF QuietTurn
  <2> QED BY <2>1
<1> HIDE DEF Done, Outer, Says
<1>5. ASSUME NEW l, Keeps(l)
      PROVE  (Aligned(ld.offset) => Aligned(l.offset)) /\ l.all \in {0, ld.all} \cup ImgLens
  BY <1>5
<1>6. ASSUME NEW c \in Outer, NEW r \in Says, NEW l, Keeps(l),
             \/ Turn(c, Unexpect, l, r)
             \/ Turn(c, exp, l, r)
             \/ \E d, n : Turn(c, expect_info(FALSE, d, n), l, r)
             \/ \E d \in Outer : \E n : Turn(c, expect_info(TRUE, d, n), l, r)
      PROVE  Done
  <2>1. CASE Turn(c, Unexpect, l, r)
    <3>1. Announces(Unexpect, l)
      <4>1. exp \in ExpectInfo
        BY DEF IInv, TypeOK
      <4> QED BY <4>1 DEF Unexpect, Announces, ExpectInfo
    <3> QED BY <1>4, <1>5, <1>6, <2>1, <3>1
  <2>2. CASE Turn(c, exp, l, r)
    <3>1. Announces(exp, l)
      BY DEF Announces
    <3> QED BY <1>4, <1>5, <1>6, <2>2, <3>1
  <2>3. CASE \E d, n : Turn(c, expect_info(FALSE, d, n), l, r)
    <3>1. PICK d, n : Turn(c, expect_info(FALSE, d, n), l, r)
      BY <2>3
    <3>2. Announces(expect_info(FALSE, d, n), l)
      BY DEF Announces, expect_info
    <3> QED BY <1>4, <1>5, <1>6, <3>1, <3>2
  <2>4. CASE \E d \in Outer : \E n : Turn(c, expect_info(TRUE, d, n), l, r)
    <3>1. PICK d \in Outer : \E n : Turn(c, expect_info(TRUE, d, n), l, r)
      BY <2>4
    <3>2. PICK n : Turn(c, expect_info(TRUE, d, n), l, r)
      BY <3>1
    <3>3. expect_info(TRUE, d, n).cmd = d /\ d \notin Apart
      BY <1>2 DEF expect_info
    <3>4. Announces(expect_info(TRUE, d, n), l)
      BY <3>3 DEF Announces
    <3> QED BY <1>4, <1>5, <1>6, <3>2, <3>4
  <2> QED BY <1>6, <2>1, <2>2, <2>3, <2>4
<1>7. Keeps(ld)
  OBVIOUS
<1>8. ASSUME LinkEst PROVE Done
  <2>1. LoaderZero.all = 0 /\ Aligned(LoaderZero.offset)
    <3>1. 0 % BlkSize = 0
      BY BlkSizeAssumption, ModSmall
    <3> QED BY <3>1 DEF LoaderZero, Aligned
  <2>2. CASE Turn("CMD_LINK_EST", Unexpect, LoaderZero, "CMD_CONNECT")
    <3>1. Announces(Unexpect, LoaderZero)
      <4>1. exp \in ExpectInfo
        BY DEF IInv, TypeOK
      <4> QED BY <4>1 DEF Unexpect, Announces, ExpectInfo
    <3> QED BY <1>2, <1>3, <1>4, <2>1, <2>2, <3>1
  <2>3. CASE \E s \in {0} \cup PktSizes :
               Turn("CMD_LINK_EST", expect_info(TRUE, "CMD_PARTITION_DATA", s),
                    LoaderZero, "CMD_CONNECT")
    <3>1. PICK s \in {0} \cup PktSizes :
               Turn("CMD_LINK_EST", expect_info(TRUE, "CMD_PARTITION_DATA", s),
                    LoaderZero, "CMD_CONNECT")
      BY <2>3
    <3>2. Announces(expect_info(TRUE, "CMD_PARTITION_DATA", s), LoaderZero)
      <4>1. "CMD_PARTITION_DATA" \notin Apart
        BY <1>2
      <4> QED BY <4>1 DEF Announces, expect_info
    <3> QED BY <1>2, <1>3, <1>4, <2>1, <3>1, <3>2
  <2> QED BY <1>8, <2>2, <2>3 DEF LinkEst
<1>9. ASSUME NEW z \in Zips, UnzipInfo(z) PROVE Done
  <2> DEFINE c == "CMD_UNZIP_INFO"
  <2>1. Announces(exp, ld) /\ \A l : Announces(exp, l)
    BY DEF Announces
  <2>2. ASSUME NEW l, Turn(c, exp, l, "CMD_ACK"), Aligned(ld.offset) => Aligned(l.offset),
               l.all \in {0, ld.all} \cup ImgLens
        PROVE  Done
    BY <1>2, <1>3, <1>4, <2>1, <2>2
  <2>3. CASE \E v \in StAddrs : Turn(c, exp, [ld EXCEPT !.zip = z, !.start = v], "CMD_ACK")
    <3>1. PICK v \in StAddrs : Turn(c, exp, [ld EXCEPT !.zip = z, !.start = v], "CMD_ACK")
      BY <2>3
    <3>2. Keeps([ld EXCEPT !.zip = z, !.start = v])
      BY <1>1 DEF LoaderSet
    <3> QED BY <1>5, <2>2, <3>1, <3>2
  <2>4. CASE \E v \in ImgLens : Turn(c, exp, [ld EXCEPT !.zip = z, !.all = v], "CMD_ACK")
    <3>1. PICK v \in ImgLens : Turn(c, exp, [ld EXCEPT !.zip = z, !.all = v], "CMD_ACK")
      BY <2>4
    <3>2. /\ [ld EXCEPT !.zip = z, !.all = v].offset = ld.offset
          /\ [ld EXCEPT !.zip = z, !.all = v].all = v
      BY <1>1 DEF LoaderSet
    <3> QED BY <2>2, <3>1, <3>2
  <2>5. CASE \E v \in BigOffsets :
               /\ ld.offset + v <= MaxOffset
               /\ Turn(c, exp, [ld EXCEPT !.zip = z, !.offset = @ + v], "CMD_ACK")
    <3>1. PICK v \in BigOffsets :
            Turn(c, exp, [ld EXCEPT !.zip = z, !.offset = @ + v], "CMD_ACK")
      BY <2>5
    <3>2. /\ [ld EXCEPT !.zip = z, !.offset = @ + v].offset = ld.offset + v
          /\ [ld EXCEPT !.zip = z, !.offset = @ + v].all = ld.all
      BY <1>1 DEF LoaderSet
    <3>3. Aligned(ld.offset) => Aligned(ld.offset + v)
      <4>1. v \in Nat /\ Aligned(v)
        BY AddrsAssumption DEF Aligned
      <4> QED BY <1>1, <4>1, AlignedSum
    <3> QED BY <2>2, <3>1, <3>2, <3>3
  <2> QED BY <1>9, <2>3, <2>4, <2>5 DEF UnzipInfo
<1>10. ASSUME Query PROVE Done
  BY <1>2, <1>3, <1>6, <1>7, <1>10 DEF Query
<1>11. ASSUME Check("CMD_CHECK") \/ Check("CMD_PARTITION_DATA") PROVE Done
  BY <1>2, <1>3, <1>6, <1>7, <1>11 DEF Check
<1>12. ASSUME NoOperation PROVE Done
  BY <1>2, <1>3, <1>6, <1>7, <1>12 DEF NoOperation
<1>13. ASSUME NEW n \in ShortLens, EfuseWriteLen(n) \/ PartNameLen(n) PROVE Done
  BY <1>2, <1>3, <1>6, <1>7, <1>13 DEF EfuseWriteLen, PartNameLen
<1>14. ASSUME EfuseWriteData PROVE Done
  BY <1>2, <1>3, <1>6, <1>7, <1>14 DEF EfuseWriteData
<1>15. ASSUME PartNameString PROVE Done
  <2>1. ASSUME NEW q \in Partitions, NEW a PROVE Keeps([ld EXCEPT !.start = a, !.cur = a])
    BY <1>1 DEF LoaderSet
  <2>2. CASE \E q \in Partitions :
               LET a == (q.start * BlkSize) % U32 IN
               Turn("CMD_PART_NAME_STRING", expect_info(FALSE, exp.cmd, DefPackLen),
                    [ld EXCEPT !.start = a, !.cur = a], "CMD_ACK")
    BY <2>1, <2>2, <1>2, <1>3, <1>6
  <2>3. CASE Turn("CMD_PART_NAME_STRING", expect_info(FALSE, exp.cmd, DefPackLen), ld,
                  "CMD_FAIL")
    BY <2>3, <1>2, <1>3, <1>6, <1>7
  <2> QED BY <1>15, <2>2, <2>3 DEF PartNameString
<1>16. ASSUME PartReqSt \/ PartReqSz PROVE Done
  BY <1>2, <1>3, <1>6, <1>7, <1>16 DEF PartReqSt, PartReqSz
<1>17. ASSUME NEW a \in StAddrs, ProgDevStAddr(a) \/ EraseSegStAddr(a) PROVE Done
  <2> DEFINE l == [ld EXCEPT !.start = a + ld.offset]
  <2>1. Keeps(l) /\ l.start = a + ld.offset
    BY <1>1 DEF LoaderSet
  <2>2. CASE EraseSegStAddr(a)
    BY <1>2, <1>3, <1>6, <2>1, <2>2 DEF EraseSegStAddr
  <2>3. CASE ProgDevStAddr(a)
    <3> DEFINE e == expect_info(TRUE, "CMD_PROG_DEV_END_ADDR", exp.size)
    <3>1. Aligned(ld.offset) => Aligned(l.start)
      <4>1. a \in Nat /\ Aligned(a)
        BY AddrsAssumption DEF Aligned
      <4> QED BY <1>1, <2>1, <4>1, AlignedSum
    <3>2. e.cmd = "CMD_PROG_DEV_END_ADDR"
      BY DEF expect_info
    <3> HIDE DEF e, l
    <3>3. Announces(e, l)
      BY <3>1, <3>2 DEF Announces
    <3>4. Turn("CMD_PROG_DEV_ST_ADDR", e, l, "CMD_ACK")
      BY <2>3 DEF ProgDevStAddr, e, l
    <3> QED BY <1>2, <1>3, <1>4, <1>5, <2>1, <3>3, <3>4
  <2> QED BY <1>17, <2>2, <2>3
<1> QED
  BY <1>8, <1>9, <1>10, <1>11, <1>12, <1>13, <1>14, <1>15, <1>16, <1>17
     DEF Quiet, Done

-----------------------------------------------------------------------------
(***************************************************************************)
(* Uploads.                                                                *)
(***************************************************************************)
UploadDue == HostContinues("CMD_UPLD_DATA_SIZE")

\* Nothing is expected during an upload; the loader reads on where the packets
\* sent so far end, and from the beginning of a block with the size of a full
\* packet, unless the last packet was a short one.
UpInv ==
  /\ up.on => ~exp.flag
  /\ ~halted /\ UploadDue =>
       ld.cur = ld.start /\ Aligned(ld.cur) /\ upsize = UpDataSize
  /\ ~halted /\ up.on =>
       /\ ld.cur = up.start + up.got
       /\ rest # 0 => Aligned(ld.cur) /\ upsize = UpDataSize

\* flashex_write: the verdict, and what a write that succeeds has done.
LEMMA WriteCases ==
  ASSUME NEW mem, NEW start, NEW src, NEW len, NEW w \in flashex_write(mem, start, src, len)
  PROVE  /\ w.ok = TRUE \/ w.ok = FALSE
         /\ w.ok => w.mem = Stored(mem, start, Touched(start, len), src)
         /\ \E S \in SUBSET Touched(start, len) : w.mem = Stored(mem, start, S, src)
<1>1. \A S \in Partial(Touched(start, len)) : S \in SUBSET Touched(start, len)
  BY DEF Partial
<1>2. \/ w = [mem |-> Stored(mem, start, Touched(start, len), src), ok |-> TRUE]
      \/ \E S \in Partial(Touched(start, len)) :
           w = [mem |-> Stored(mem, start, S, src), ok |-> FALSE]
  BY DEF flashex_write
<1>3. CASE w = [mem |-> Stored(mem, start, Touched(start, len), src), ok |-> TRUE]
  <2>1. Touched(start, len) \in SUBSET Touched(start, len)
    OBVIOUS
  <2> QED BY <1>3, <2>1
<1>4. ASSUME NEW S \in Partial(Touched(start, len)),
             w = [mem |-> Stored(mem, start, S, src), ok |-> FALSE]
      PROVE  /\ w.ok = FALSE
             /\ \E T \in SUBSET Touched(start, len) : w.mem = Stored(mem, start, T, src)
  <2>1. S \in SUBSET Touched(start, len)
    BY <1>1
  <2> QED BY <1>4, <2>1
<1> QED BY <1>2, <1>3, <1>4

\* A turn after which no upload is under way or due.
LEMMA NoUploadInv ==
  ASSUME ~up'.on, halted' \/ ~UploadDue'
  PROVE  UpInv'
BY DEF UpInv

\* An accepted command finds its own kind of expectation, or none.
LEMMA AcceptedApart ==
  ASSUME NEW c \in Commands \ (Apart \cup {"CMD_FAIL"}), NEW e, NEW l, Accepts(c),
         Announces(e, l)
  PROVE  /\ ~halted /\ (exp.flag => exp.cmd \notin Apart)
         /\ e.flag /\ e.cmd \in Apart =>
              e.cmd = "CMD_PROG_DEV_END_ADDR" /\ (Aligned(ld.offset) => Aligned(l.start))
<1>1. exp.flag => exp.cmd = c
  BY AcceptedIsExpected
<1>2. ~halted
  BY DEF Accepts
<1> QED BY <1>1, <1>2 DEF Announces

\* Initially there is no upload.
LEMMA InitUp == Init => UpInv
BY DEF Init, UpInv, NoUpload, UploadDue, HostContinues

\* The quiet commands end an upload, or leave everything about it alone.
LEMMA QuietUp ==
  ASSUME IInv, UpInv, Quiet \/ Hang
  PROVE  UpInv'
<1>1. CASE NotLinked \/ Reset \/ Hang
  <2>1. UNCHANGED <<exp, ld, rest, upsize, up>>
    BY <1>1 DEF NotLinked, Reset, Hang, vars
  <2>2. halted => halted'
    BY <1>1 DEF NotLinked, Reset, Hang, vars
  <2> QED BY <2>1, <2>2 DEF UpInv, UploadDue, HostContinues
<1>2. ASSUME NEW c \in Commands, Rejected(c) PROVE UpInv'
  <2>1. UNCHANGED <<halted, exp, ld, upsize>> /\ ~up'.on
    BY <1>2 DEF Rejected, NoUpload
  <2> QED BY <2>1 DEF UpInv, UploadDue, HostContinues
<1>3. ASSUME NEW c, NEW e, NEW l, NEW r, QuietTurn(c, e, l, r) PROVE UpInv'
  <2>1. Accepts(c) /\ exp' = e /\ up' = NoUpload
    BY <1>3 DEF QuietTurn, Turn
  <2>2. e.flag /\ e.cmd \in Apart => e.cmd = "CMD_PROG_DEV_END_ADDR"
    BY <1>3, <2>1, AcceptedApart DEF QuietTurn
  <2>3. ~UploadDue'
    BY <2>1, <2>2 DEF UploadDue, HostContinues, Apart
  <2>4. ~up'.on
    BY <2>1 DEF NoUpload
  <2> QED BY <2>3, <2>4, NoUploadInv
<1> QED BY <1>1, <1>2, <1>3, QuietShape

\* So do the erase commands and those of a download.
LEMMA EraseUp ==
  ASSUME IInv, UpInv, Erase
  PROVE  UpInv'
<1>1. exp' = Unexpect /\ ~exp'.flag
  <2>1. exp' = Unexpect /\ exp \in ExpectInfo
    BY DEF Erase, EraseSegEndAddr, EraseFlash, IInv, TypeOK
  <2> QED BY <2>1 DEF Unexpect, ExpectInfo
<1>2. ~UploadDue'
  BY <1>1 DEF UploadDue, HostContinues
<1>3. ASSUME NEW n \in EraseLens, EraseSegEndAddr(n) PROVE UpInv'
  <2>1. ~up.on /\ up' = up
    BY <1>3 DEF EraseSegEndAddr, HostContinues, UpInv
  <2> QED BY <1>2, <2>1, NoUploadInv
<1>4. CASE EraseFlash
  <2>1. ~up'.on
    BY <1>4 DEF EraseFlash, NoUpload
  <2> QED BY <1>2, <2>1, NoUploadInv
<1> QED BY <1>3, <1>4 DEF Erase

\* A packet of a download.
LEMMA ConsumeUp ==
  ASSUME IInv, UpInv, HostContinues("CMD_DATA"), Consume
  PROVE  UpInv'
<1>1. up' = up /\ exp.flag /\ exp.cmd = "CMD_DATA" /\ exp' = ExpectAfter
  BY DEF Consume, HostContinues
<1>2. ~up'.on
  BY <1>1 DEF UpInv
<1>3. exp'.cmd # "CMD_UPLD_DATA_SIZE"
  <2>1. exp \in ExpectInfo
    BY DEF IInv, TypeOK
  <2> QED BY <1>1, <2>1 DEF ExpectAfter, ExpectInfo
<1> QED BY <1>2, <1>3, NoUploadInv DEF UploadDue, HostContinues

\* Every command of a download.
LEMMA DownloadUp ==
  ASSUME IInv, UpInv, Download
  PROVE  UpInv'
<1>1. ASSUME NEW n \in ImgLens, ProgDevEndAddr(n) PROVE UpInv'
  <2>1. ~up.on /\ up' = up
    BY <1>1 DEF ProgDevEndAddr, HostContinues, UpInv
  <2>2. ~UploadDue'
    BY <1>1 DEF ProgDevEndAddr, UploadDue, HostContinues, expect_info
  <2> QED BY <2>1, <2>2, NoUploadInv
<1>2. ASSUME NEW n \in PktSizes, DataPacketSize(n) PROVE UpInv'
  <2>1. ~up.on /\ up' = up
    BY <1>2 DEF DataPacketSize, HostContinues, UpInv
  <2>2. ~UploadDue'
    BY <1>2 DEF DataPacketSize, UploadDue, HostContinues, expect_info
  <2> QED BY <2>1, <2>2, NoUploadInv
<1>3. ASSUME \/ DataRaw \/ DataIgnored
             \/ \E n \in 0..TmpBufSize : DataZipRaw(n)
             \/ \E n \in FillLens : DataZipFill(n)
             \/ \E n \in SkipLens : DataZipSkip(n)
      PROVE  UpInv'
  <2>1. HostContinues("CMD_DATA") /\ Consume
    BY <1>3 DEF DataRaw, DataZipRaw, DataZipFill, DataZipSkip, DataIgnored
  <2> QED BY <2>1, ConsumeUp
<1>4. ASSUME NEW n \in 0..TmpBufSize, DataZipOdd(n) PROVE UpInv'
  <2>1. ~up.on /\ up' = up /\ halted'
    BY <1>4 DEF DataZipOdd, HostContinues, UpInv
  <2> QED BY <2>1, NoUploadInv
<1>5. CASE DataSync
  <2>1. ~up'.on
    BY <1>5 DEF DataSync, NoUpload
  <2>2. halted' \/ ~exp'.flag
    <3>1. PICK w \in flashex_write(flash, ld.cur, buf, tmpsize) :
            /\ halted' = ~w.ok
            /\ w.ok => ~exp'.flag
      BY <1>5 DEF DataSync, expect_info
    <3>2. w.ok = TRUE \/ w.ok = FALSE
      BY WriteCases
    <3> QED BY <3>1, <3>2
  <2> QED BY <2>1, <2>2, NoUploadInv DEF UploadDue, HostContinues
<1> QED BY <1>1, <1>2, <1>3, <1>4, <1>5 DEF Download

\* One packet of an upload, read from where the last one ended: the loader
\* stops, or sends no more than is left, a full packet unless it is the last.
LEMMA ChunkUp ==
  ASSUME IInv, ~halted, NEW r \in 0..(U64 - 1), NEW u \in UploadState, u.on,
         SendChunk(r, u), upsize = UpDataSize, ld.cur = u.start + u.got, Aligned(ld.cur)
  PROVE  /\ upsize' \in Nat /\ UNCHANGED flash
         /\ \/ halted' /\ UNCHANGED <<rest, reply, up>>
            \/ /\ halted' = halted
               /\ upsize' <= r /\ rest' = r - upsize'
               /\ rest' # 0 => upsize' = UpDataSize
               /\ up' = [u EXCEPT !.got = @ + upsize']
               /\ reply' = [is |-> "CMD_DATA",
                            data |-> [i \in 0..(upsize' - 1) |-> flash[ld.cur + i]]]
<1> DEFINE n == IF r < UpDataSize THEN r ELSE upsize
<1>1. UpDataSize \in Nat \ {0} /\ r \in Nat /\ U64 \in Nat \ {0} /\ ld.cur \in Nat
  BY UpAssumption, WidthAssumption DEF UploadState
<1>2. /\ n \in Nat /\ n <= r /\ r - n \in 0..(U64 - 1)
      /\ r - n # 0 => n = UpDataSize
  BY <1>1
<1>3. upsize' = n /\ UNCHANGED flash
  BY DEF SendChunk
<1>4. (r - n) % U64 = r - n
  <2> HIDE DEF n
  <2> QED BY <1>1, <1>2, ModSmall
<1>5. flashex_read(flash, ld.cur, n) = [i \in 0..(n - 1) |-> flash[ld.cur + i]]
  <2>1. BlkStart(ld.cur) = ld.cur
    BY <1>1, BlkStartIs
  <2> HIDE DEF n
  <2> QED BY <2>1 DEF flashex_read
<1>6. \/ halted' /\ UNCHANGED <<rest, reply, up>>
      \/ /\ rest' = (r - n) % U64
         /\ reply' = [is |-> "CMD_DATA", data |-> flashex_read(flash, ld.cur, n)]
         /\ up' = [u EXCEPT !.got = @ + n]
         /\ UNCHANGED halted
  BY DEF SendChunk
<1> HIDE DEF n
<1> QED BY <1>2, <1>3, <1>4, <1>5, <1>6

\* What UpldDataSize and UploadNext find, and what the next packet leaves.
LEMMA SendUp ==
  ASSUME IInv, ~halted, NEW r \in 0..(U64 - 1), NEW u \in UploadState, u.on,
         SendChunk(r, u), upsize = UpDataSize, ld.cur = u.start + u.got, Aligned(ld.cur),
         ld'.cur = ld.cur + upsize', ~exp'.flag
  PROVE  UpInv'
<1>1. ld.cur \in Nat /\ UpDataSize \in Nat /\ Aligned(UpDataSize)
  BY UpAssumption DEF Aligned, UploadState
<1>2. CASE halted' /\ UNCHANGED <<rest, reply, up>>
  BY <1>2 DEF UpInv
<1>3. CASE /\ upsize' <= r /\ rest' = r - upsize'
           /\ rest' # 0 => upsize' = UpDataSize
           /\ up' = [u EXCEPT !.got = @ + upsize']
  <2>1. upsize' \in Nat
    BY ChunkUp
  <2>2. up'.on /\ up'.start = u.start /\ up'.got = u.got + upsize'
    BY <1>3 DEF UploadState
  <2>3. ld'.cur = up'.start + up'.got
    <3>1. u.start \in Nat /\ u.got \in Nat
      BY DEF UploadState
    <3> QED BY <2>1, <2>2, <3>1
  <2>4. rest' # 0 => Aligned(ld'.cur) /\ upsize' = UpDataSize
    BY <1>1, <1>3, AlignedSum
  <2> QED BY <2>2, <2>3, <2>4 DEF UpInv, UploadDue, HostContinues
<1> QED BY <1>2, <1>3, ChunkUp

\* The facts that the two commands of an upload start from.
LEMMA SendFacts ==
  ASSUME IInv, UpInv
  PROVE  /\ \A n \in UpLens : UpldDataSize(n) =>
              LET u == [on |-> TRUE, start |-> ld.start, req |-> n,
                        kept |-> KeptHalf, got |-> 0] IN
              /\ ~halted /\ ~up.on
              /\ UploadBytes(n) \in 0..(U64 - 1) /\ u \in UploadState
              /\ SendChunk(UploadBytes(n), u)
              /\ upsize = UpDataSize /\ ld.cur = u.start + u.got /\ Aligned(ld.cur)
              /\ ld'.cur = ld.cur + upsize' /\ ld'.offset = ld.offset
              /\ ~exp'.flag
         /\ UploadNext =>
              /\ ~halted /\ rest # 0 /\ rest \in 0..(U64 - 1)
              /\ up \in UploadState /\ SendChunk(rest, up)
              /\ ld'.cur = ld.cur + upsize' /\ ld'.offset = ld.offset
              /\ exp' = exp /\ (exp.flag => exp.cmd = "CMD_SUCCESS")
              /\ up.on =>
                   /\ upsize = UpDataSize /\ ld.cur = up.start + up.got /\ Aligned(ld.cur)
                   /\ ~exp'.flag
<1>1. /\ ld \in LoaderSet /\ ld.start \in Nat /\ ld.cur \in Nat
      /\ exp \in ExpectInfo /\ up \in UploadState
      /\ rest \in 0..(U64 - 1)
  BY DEF IInv, TypeOK, LoaderSet, UploadState
<1>2. ASSUME NEW n \in UpLens, UpldDataSize(n)
      PROVE  LET u == [on |-> TRUE, start |-> ld.start, req |-> n,
                       kept |-> KeptHalf, got |-> 0] IN
             /\ ~halted /\ ~up.on
             /\ UploadBytes(n) \in 0..(U64 - 1) /\ u \in UploadState
             /\ SendChunk(UploadBytes(n), u)
             /\ upsize = UpDataSize /\ ld.cur = u.start + u.got /\ Aligned(ld.cur)
             /\ ld'.cur = ld.cur + upsize' /\ ld'.offset = ld.offset
             /\ ~exp'.flag
  <2> DEFINE u == [on |-> TRUE, start |-> ld.start, req |-> n, kept |-> KeptHalf, got |-> 0]
  <2>1. UploadBytes(n) \in 0..(U64 - 1) /\ u \in UploadState
    BY <1>1, UploadRange DEF UploadState
  <2>2. u.start = ld.start /\ u.got = 0
    OBVIOUS
  <2>3. /\ ~halted /\ UploadDue /\ SendChunk(UploadBytes(n), u)
        /\ ld' = [ld EXCEPT !.all = UploadBytes(n), !.cur = @ + upsize']
        /\ exp' = [exp EXCEPT !.flag = FALSE]
    BY <1>2 DEF UpldDataSize, UploadDue, Accepts
  <2> HIDE DEF u
  <2>4. ld'.cur = ld.cur + upsize' /\ ld'.offset = ld.offset /\ ~exp'.flag
    BY <1>1, <2>3 DEF LoaderSet, ExpectInfo
  <2>5. ~up.on /\ upsize = UpDataSize /\ ld.cur = ld.start /\ Aligned(ld.cur)
    BY <2>3 DEF UpInv, UploadDue, HostContinues
  <2>6. ld.cur = u.start + u.got
    BY <1>1, <2>2, <2>5
  <2> QED BY <2>1, <2>3, <2>4, <2>5, <2>6 DEF u
<1>3. ASSUME UploadNext
      PROVE  /\ ~halted /\ rest # 0 /\ SendChunk(rest, up)
             /\ ld'.cur = ld.cur + upsize' /\ ld'.offset = ld.offset
             /\ exp' = exp /\ (exp.flag => exp.cmd = "CMD_SUCCESS")
             /\ up.on =>
                  /\ upsize = UpDataSize /\ ld.cur = up.start + up.got /\ Aligned(ld.cur)
                  /\ ~exp'.flag
  <2>1. /\ Accepts("CMD_SUCCESS") /\ ~halted /\ rest # 0 /\ exp' = exp
        /\ SendChunk(rest, up)
        /\ ld' = [ld EXCEPT !.cur = @ + upsize']
    BY <1>3 DEF UploadNext, Accepts
  <2>2. ld'.cur = ld.cur + upsize' /\ ld'.offset = ld.offset
    BY <1>1, <2>1 DEF LoaderSet
  <2>3. exp.flag => exp.cmd = "CMD_SUCCESS"
    <3>1. "CMD_SUCCESS" \in Commands \ (Apart \cup {"CMD_FAIL"})
      BY DEF Commands, Apart, Inner
    <3> QED BY <2>1, <3>1, AcceptedIsExpected
  <2> QED BY <2>1, <2>2, <2>3 DEF UpInv
<1> QED BY <1>1, <1>2, <1>3

\* The commands of an upload.
LEMMA UploadUp ==
  ASSUME IInv, UpInv, Upload
  PROVE  UpInv'
<1>1. ASSUME NEW a \in UpAddrs, RvrsDwnld(a) PROVE UpInv'
  <2>1. ld \in LoaderSet /\ Aligned(a)
    BY AddrsAssumption DEF IInv, TypeOK, Aligned
  <2>2. ld'.start = a /\ ld'.cur = a /\ upsize' = UpDataSize
    BY <1>1, <2>1 DEF RvrsDwnld, LoaderSet
  <2>3. ~up'.on
    BY <1>1 DEF RvrsDwnld, NoUpload
  <2> QED BY <2>1, <2>2, <2>3 DEF UpInv
<1>2. ASSUME NEW n \in UpLens, UpldDataSize(n) PROVE UpInv'
  <2> DEFINE b == UploadBytes(n)
             u == [on |-> TRUE, start |-> ld.start, req |-> n, kept |-> KeptHalf, got |-> 0]
  <2>1. /\ ~halted /\ b \in 0..(U64 - 1) /\ u \in UploadState
        /\ SendChunk(b, u) /\ upsize = UpDataSize
        /\ ld.cur = u.start + u.got /\ Aligned(ld.cur) /\ ld'.cur = ld.cur + upsize'
        /\ ~exp'.flag
    BY <1>2, SendFacts
  <2>2. u.on
    OBVIOUS
  <2> HIDE DEF b, u
  <2> QED BY <2>1, <2>2, SendUp
<1>3. CASE UploadNext
  <2>1. CASE up.on
    BY <1>3, <2>1, SendFacts, SendUp
  <2>2. CASE ~up.on
    <3>1. up' = up
      BY <1>3, <2>2, SendFacts DEF SendChunk
    <3>2. ~UploadDue'
      BY <1>3, SendFacts DEF UploadDue, HostContinues
    <3> QED BY <2>2, <3>1, <3>2, NoUploadInv
  <2> QED BY <2>1, <2>2
<1>4. CASE UploadEnd
  <2>1. up \in UploadState /\ up' = [up EXCEPT !.on = FALSE]
    BY <1>4 DEF UploadEnd, IInv, TypeOK, UploadState
  <2>2. ~up'.on
    BY <2>1 DEF UploadState
  <2>3. UNCHANGED <<exp, ld, upsize, halted>>
    BY <1>4 DEF UploadEnd
  <2> QED BY <2>2, <2>3 DEF UpInv, UploadDue, HostContinues
<1> QED BY <1>1, <1>2, <1>3, <1>4 DEF Upload

\* The invariant of uploads.
LEMMA UploadsInvariant == Spec => []UpInv
<1>1. IInv /\ UpInv /\ [Next]_vars => UpInv'
  <2> SUFFICES ASSUME IInv, UpInv, [Next]_vars PROVE UpInv'
    OBVIOUS
  <2>1. CASE UNCHANGED vars
    BY <2>1 DEF vars, UpInv, UploadDue, HostContinues
  <2> QED BY <2>1, QuietUp, EraseUp, DownloadUp, UploadUp DEF Next
<1> QED BY <1>1, InitUp, LoaderInvariant, PTL DEF Spec

\* A command of a download is no part of an upload.
LEMMA DownloadOff ==
  ASSUME IInv, UpInv, Download
  PROVE  ~up'.on
<1>1. CASE DataSync
  BY <1>1 DEF DataSync, NoUpload
<1>2. CASE ~DataSync
  <2>1. exp.flag /\ up' = up
    BY <1>2 DEF Download, ProgDevEndAddr, DataPacketSize, DataRaw, DataZipRaw, DataZipOdd,
                DataZipFill, DataZipSkip, DataIgnored, Consume, HostContinues
  <2> QED BY <2>1 DEF UpInv
<1> QED BY <1>1, <1>2

\* Packets of an upload carry the device's units in order: UpInv says where the
\* loader reads, and only UpldDataSize and UploadNext send one.
THEOREM UploadsInOrder == Spec => UploadIsInOrder
<1> DEFINE InOrder == up'.on /\ up' # up =>
                        reply'.data = [i \in 0..(upsize' - 1) |->
                                         flash[up'.start + (up'.got - upsize') + i]]
<1>1. ASSUME IInv, NEW r \in 0..(U64 - 1), ~halted, NEW u \in UploadState, u.on,
             SendChunk(r, u), upsize = UpDataSize, ld.cur = u.start + u.got, Aligned(ld.cur)
      PROVE  InOrder
  <2>1. CASE halted' /\ UNCHANGED <<rest, reply, up>>
    BY <2>1
  <2>2. CASE /\ up' = [u EXCEPT !.got = @ + upsize']
             /\ reply' = [is |-> "CMD_DATA",
                          data |-> [i \in 0..(upsize' - 1) |-> flash[ld.cur + i]]]
    <3>1. upsize' \in Nat /\ u.start \in Nat /\ u.got \in Nat
      BY <1>1, ChunkUp DEF UploadState
    <3>2. up'.start = u.start /\ up'.got = u.got + upsize'
      BY <2>2 DEF UploadState
    <3>3. ASSUME NEW i \in 0..(upsize' - 1)
          PROVE  ld.cur + i = up'.start + (up'.got - upsize') + i
      <4>1. PICK k \in Nat : k = upsize'
        BY <3>1
      <4>2. i \in 0..(k - 1)
        BY <4>1
      <4>3. u.start + ((u.got + k) - k) + i = u.start + u.got + i
        BY <3>1, <4>2
      <4> QED BY <1>1, <3>2, <4>1, <4>3
    <3>4. reply'.data = [i \in 0..(upsize' - 1) |-> flash[ld.cur + i]]
      BY <2>2
    <3> QED BY <3>3, <3>4
  <2> QED BY <1>1, <2>1, <2>2, ChunkUp
<1>2. ASSUME IInv, UpInv, [Next]_vars
      PROVE  InOrder
  <2>1. CASE Quiet
    <3>1. ASSUME NEW c, NEW e, NEW l, NEW r, QuietTurn(c, e, l, r) PROVE up' = NoUpload
      BY <3>1 DEF QuietTurn, Turn
    <3>2. up' = up \/ up' = NoUpload
      BY <1>2, <2>1, <3>1, QuietShape DEF NotLinked, Rejected, Reset
    <3> QED BY <3>2 DEF NoUpload
  <2>2. CASE Erase
    BY <2>2 DEF Erase, EraseSegEndAddr, EraseFlash, NoUpload
  <2>3. CASE Download
    BY <1>2, <2>3, DownloadOff
  <2>4. ASSUME NEW a \in UpAddrs, RvrsDwnld(a) PROVE InOrder
    BY <2>4 DEF RvrsDwnld, NoUpload
  <2>5. ASSUME NEW n \in UpLens, UpldDataSize(n) PROVE InOrder
    <3> DEFINE b == UploadBytes(n)
               u == [on |-> TRUE, start |-> ld.start, req |-> n, kept |-> KeptHalf, got |-> 0]
    <3>1. /\ ~halted /\ b \in 0..(U64 - 1) /\ u \in UploadState
          /\ SendChunk(b, u) /\ upsize = UpDataSize
          /\ ld.cur = u.start + u.got /\ Aligned(ld.cur)
      BY <1>2, <2>5, SendFacts
    <3>2. u.on
      OBVIOUS
    <3> HIDE DEF b, u, InOrder
    <3> QED BY <1>1, <1>2, <3>1, <3>2
  <2>6. CASE UploadNext
    <3>1. CASE up.on
      <4> HIDE DEF InOrder
      <4> QED BY <1>1, <1>2, <2>6, <3>1, SendFacts
    <3>2. CASE ~up.on
      BY <1>2, <2>6, <3>2, SendFacts DEF SendChunk
    <3> QED BY <3>1, <3>2
  <2>7. CASE UploadEnd
    <3>1. up \in UploadState /\ up' = [up EXCEPT !.on = FALSE]
      BY <1>2, <2>7 DEF UploadEnd, IInv, TypeOK, UploadState
    <3>2. ~up'.on
      BY <3>1 DEF UploadState
    <3> QED BY <3>2
  <2>8. CASE Hang \/ UNCHANGED vars
    BY <2>8 DEF Hang, vars
  <2> HIDE DEF InOrder
  <2> QED BY <1>2, <2>1, <2>2, <2>3, <2>4, <2>5, <2>6, <2>7, <2>8 DEF Next, Upload
<1>3. IInv /\ UpInv /\ [Next]_vars
        => [up'.on /\ up' # up =>
              reply'.data = [i \in 0..(upsize' - 1) |->
                               flash[up'.start + (up'.got - upsize') + i]]]_vars
  BY <1>2
<1> QED BY <1>3, LoaderInvariant, UploadsInvariant, PTL DEF Spec, UploadIsInOrder

-----------------------------------------------------------------------------
(***************************************************************************)
(* The size of an upload.  CMD_UPLD_DATA_SIZE stores it into the lower     *)
(* half of rest_bytes, so what it adds up to depends on the countdown that *)
(* the command before left there.                                          *)
(***************************************************************************)

\* What a packet of a download changes of the settings.
LEMMA DownloadKeeps ==
  ASSUME IInv, Download
  PROVE  /\ ld'.all = ld.all /\ ld'.start = ld.start /\ ld'.offset = ld.offset
         /\ ld'.zip = ld.zip
         /\ ld'.once = ld.once \/ \E n \in PktSizes : DataPacketSize(n)
<1>1. ld \in LoaderSet
  BY DEF IInv, TypeOK
<1>2. ASSUME NEW x, ld' = [ld EXCEPT !.cur = x] \/ ld' = ld
      PROVE  /\ ld'.all = ld.all /\ ld'.start = ld.start /\ ld'.offset = ld.offset
             /\ ld'.zip = ld.zip /\ ld'.once = ld.once
  BY <1>1, <1>2 DEF LoaderSet
<1>3. ASSUME NEW n \in PktSizes, DataPacketSize(n)
      PROVE  /\ ld'.all = ld.all /\ ld'.start = ld.start /\ ld'.offset = ld.offset
             /\ ld'.zip = ld.zip
  BY <1>1, <1>3 DEF DataPacketSize, LoaderSet
<1>4. CASE \E n \in ImgLens : ProgDevEndAddr(n)
  BY <1>2, <1>4 DEF ProgDevEndAddr
<1>5. ASSUME NEW b, NEW s, NEW c, ThresholdFlush(b, s, c)
      PROVE  \E x : ld' = [ld EXCEPT !.cur = x] \/ ld' = ld
  BY <1>5 DEF ThresholdFlush
<1>6. CASE DataRaw \/ (\E n \in 0..TmpBufSize : DataZipRaw(n))
  <2>1. PICK b, s, c : ThresholdFlush(b, s, c)
    BY <1>6 DEF DataRaw, DataZipRaw
  <2> QED BY <1>2, <1>5, <2>1
<1>7. CASE \/ \E n \in 0..TmpBufSize : DataZipOdd(n)
           \/ DataIgnored \/ DataSync
  <2>1. ld' = ld
    BY <1>7 DEF DataZipOdd, DataIgnored, DataSync
  <2> QED BY <1>2, <2>1
<1>8. CASE (\E n \in FillLens : DataZipFill(n)) \/ (\E n \in SkipLens : DataZipSkip(n))
  BY <1>2, <1>8 DEF DataZipFill, DataZipSkip
<1> QED BY <1>3, <1>4, <1>6, <1>7, <1>8, <1>2 DEF Download

\* The loader counts an upload down from the size it was asked for and what
\* rest_bytes kept, in as many packets as it takes, whatever commands came before.
THEOREM UploadsAreExact == Spec => []UploadIsExact
<1> USE DEF UploadIsExact
<1>1. Init => UploadIsExact
  BY DEF Init, NoUpload
<1>2. ASSUME IInv, UploadIsExact, NEW r \in 0..(U64 - 1), ~halted, NEW u \in UploadState,
             u.on, SendChunk(r, u), upsize = UpDataSize, ld.cur = u.start + u.got,
             Aligned(ld.cur), u.got + r = u.req + u.kept, u.kept % U32 = 0
      PROVE  UploadIsExact'
  <2>1. CASE halted' /\ UNCHANGED <<rest, reply, up>>
    BY <1>2, <2>1
  <2>2. CASE /\ upsize' <= r /\ rest' = r - upsize'
             /\ up' = [u EXCEPT !.got = @ + upsize']
    <3>1. upsize' \in Nat /\ r \in Nat /\ u.got \in Nat
      <4>1. upsize' \in Nat
        BY <1>2, ChunkUp
      <4>2. r \in Nat /\ u.got \in Nat
        BY <1>2, WidthAssumption DEF UploadState
      <4> QED BY <4>1, <4>2
    <3>2. up'.req = u.req /\ up'.kept = u.kept /\ up'.got = u.got + upsize'
      BY <2>2 DEF UploadState
    <3>3. PICK k \in Nat : k = upsize' /\ k <= r
      BY <2>2, <3>1
    <3>4. (u.got + k) + (r - k) = u.got + r
      BY <3>1, <3>3
    <3> QED BY <1>2, <2>2, <3>2, <3>3, <3>4
  <2> QED BY <1>2, <2>1, <2>2, ChunkUp
<1>3. ASSUME IInv, UpInv, UploadIsExact, [Next]_vars
      PROVE  UploadIsExact'
  <2>1. CASE Quiet
    <3>1. ASSUME NEW c, NEW e, NEW l, NEW r, QuietTurn(c, e, l, r) PROVE ~up'.on
      BY <3>1 DEF QuietTurn, Turn, NoUpload
    <3>2. CASE NotLinked \/ (\E c \in Commands : Rejected(c)) \/ Reset
      BY <1>3, <3>2 DEF NotLinked, Rejected, Reset, NoUpload
    <3> QED BY <1>3, <2>1, <3>1, <3>2, QuietShape
  <2>2. CASE Erase
    BY <1>3, <2>2 DEF Erase, EraseSegEndAddr, EraseFlash, HostContinues, UpInv, NoUpload
  <2>3. CASE Download
    BY <1>3, <2>3, DownloadOff
  <2>4. ASSUME NEW a \in UpAddrs, RvrsDwnld(a) PROVE UploadIsExact'
    BY <2>4 DEF RvrsDwnld, NoUpload
  <2>5. ASSUME NEW n \in UpLens, UpldDataSize(n) PROVE UploadIsExact'
    <3> DEFINE b == UploadBytes(n)
               u == [on |-> TRUE, start |-> ld.start, req |-> n, kept |-> KeptHalf, got |-> 0]
    <3>1. /\ ~halted /\ b \in 0..(U64 - 1) /\ u \in UploadState
          /\ SendChunk(b, u) /\ upsize = UpDataSize
          /\ ld.cur = u.start + u.got /\ Aligned(ld.cur)
      BY <1>3, <2>5, SendFacts
    <3>2. u.on /\ u.got + b = u.req + u.kept /\ u.kept % U32 = 0
      BY <1>3, UploadRange DEF UploadBytes
    <3> HIDE DEF b, u, UploadIsExact
    <3> QED BY <1>2, <1>3, <3>1, <3>2
  <2>6. CASE UploadNext
    <3>1. CASE up.on
      <4>1. up.got + rest = up.req + up.kept /\ up.kept % U32 = 0
        BY <1>3, <3>1
      <4> HIDE DEF UploadIsExact
      <4> QED BY <1>2, <1>3, <2>6, <3>1, <4>1, SendFacts
    <3>2. CASE ~up.on
      BY <1>3, <2>6, <3>2, SendFacts DEF SendChunk
    <3> QED BY <3>1, <3>2
  <2>7. CASE UploadEnd
    <3>1. up \in UploadState /\ up' = [up EXCEPT !.on = FALSE]
      BY <1>3, <2>7 DEF UploadEnd, IInv, TypeOK, UploadState
    <3> QED BY <3>1 DEF UploadState
  <2>8. CASE Hang \/ UNCHANGED vars
    BY <1>3, <2>8 DEF Hang, vars
  <2> QED
    BY <1>3, <2>1, <2>2, <2>3, <2>4, <2>5, <2>6, <2>7, <2>8 DEF Next, Upload
<1>4. IInv /\ UpInv /\ UploadIsExact /\ [Next]_vars => UploadIsExact'
  BY <1>3
<1> QED BY <1>1, <1>4, LoaderInvariant, UploadsInvariant, PTL DEF Spec

-----------------------------------------------------------------------------
(***************************************************************************)
(* Where the loader writes: between the start of the image and the block   *)
(* of the last unit that the host has sent.                                *)
(***************************************************************************)

\* A download is under way, from CMD_PROG_DEV_END_ADDR to CMD_DATA_SYNC.
Loading == ~halted /\ exp.flag /\ exp.cmd \in Inner

\* Images start at the beginning of a block; what is written and what is
\* staged add up to what the host has sent.
PlaceInv ==
  /\ Aligned(ld.offset)
  /\ HostContinues("CMD_PROG_DEV_END_ADDR") => Aligned(ld.start)
  /\ Loading => Aligned(ld.start) /\ ld.start <= ld.cur /\ wpos = ld.cur + tmpsize

\* flashex_write leaves the other units alone.
LEMMA WriteKeeps ==
  ASSUME NEW mem, NEW start \in Nat, NEW src, NEW len \in Nat,
         NEW w \in flashex_write(mem, start, src, len),
         NEW a \in Addr, a \notin Touched(start, len)
  PROVE  w.mem[a] = mem[a]
<1>1. PICK S \in SUBSET Touched(start, len) : w.mem = Stored(mem, start, S, src)
  BY WriteCases, ZenonT(40)
<1>2. a \notin S
  BY <1>1
<1> QED BY <1>1, <1>2 DEF Stored

\* A write that succeeds, from the beginning of a block.
LEMMA WriteOut ==
  ASSUME NEW mem, NEW start \in Nat, NEW src, NEW len \in Nat, Aligned(start) \/ len = 0,
         NEW w \in flashex_write(mem, start, src, len), w.ok, NEW a \in Addr
  PROVE  /\ a < start => w.mem[a] = mem[a]
         /\ start <= a /\ a < start + len => w.mem[a] = src[a - start]
<1>1. w.mem = Stored(mem, start, Touched(start, len), src)
  BY WriteCases
<1>2. a \in Nat
  BY FlashSizeAssumption DEF Addr
<1>3. ASSUME len = 0, a < start PROVE w.mem[a] = mem[a]
  BY <1>3, TouchedIs, WriteKeeps
<1>4. ASSUME Aligned(start) PROVE BlkStart(start) = start
  BY <1>4, BlkStartIs
<1>5. ASSUME Aligned(start), a < start PROVE w.mem[a] = mem[a]
  <2>1. a \notin Touched(start, len)
    BY <1>2, <1>4, <1>5, TouchedIs
  <2> QED BY <2>1, WriteKeeps
<1>6. ASSUME Aligned(start), start <= a, a < start + len PROVE w.mem[a] = src[a - start]
  <2>1. a \in Touched(start, len)
    BY <1>2, <1>4, <1>6, TouchedIs
  <2> QED BY <1>1, <1>4, <1>6, <2>1 DEF Stored
<1>7. len = 0 => ~(start <= a /\ a < start + len)
  BY <1>2
<1> QED BY <1>3, <1>5, <1>6, <1>7

\* The facts of a download that the proofs below start from.
LEMMA LoadFacts ==
  ASSUME IInv
  PROVE  /\ ld \in LoaderSet /\ ld.start \in Nat /\ ld.cur \in Nat /\ ld.offset \in Nat
         /\ tmpsize \in Nat /\ tmpsize <= TmpBufSize /\ TmpBufSize \in Nat
         /\ threshold \in Nat /\ exp.size \in Nat
         /\ wpos \in Nat /\ img \in Nat /\ BlkSize \in Nat \ {0}
         /\ buf \in [BufIndex -> Val] /\ flash \in [Addr -> Val] /\ DOMAIN want = Addr
         /\ Addr \subseteq Nat
  BY BufAssumption, BlkSizeAssumption, FlashSizeAssumption
     DEF IInv, TypeOK, LoaderSet, StageInv, NoBufferOverflow, ExpectInfo, Addr

\* Staging, with or without a flush.
LEMMA FlushMoves ==
  ASSUME IInv, NEW b, NEW n \in Nat, NEW c, ThresholdFlush(b, tmpsize + n, c)
  PROVE  \/ /\ ld' = ld /\ tmpsize' = tmpsize + n /\ flash' = flash /\ lost' = lost
         \/ /\ ld'.cur = ld.cur + tmpsize + n /\ tmpsize' = 0
            /\ \E w \in flashex_write(flash, ld.cur, b, tmpsize + n) :
                 flash' = w.mem /\ lost' = (lost \/ ~w.ok)
<1>1. ld \in LoaderSet /\ ld.cur \in Nat /\ tmpsize \in Nat
  BY LoadFacts
<1>2. CASE ld' = ld /\ tmpsize' = tmpsize + n /\ flash' = flash /\ lost' = lost
  BY <1>2
<1>3. ASSUME NEW w \in flashex_write(flash, ld.cur, b, tmpsize + n), flash' = w.mem,
             lost' = (lost \/ ~w.ok), ld' = [ld EXCEPT !.cur = @ + (tmpsize + n)],
             tmpsize' = 0
      PROVE  /\ ld'.cur = ld.cur + tmpsize + n /\ tmpsize' = 0
             /\ \E v \in flashex_write(flash, ld.cur, b, tmpsize + n) :
                  flash' = v.mem /\ lost' = (lost \/ ~v.ok)
  <2>1. ld'.cur = ld.cur + (tmpsize + n)
    BY <1>1, <1>3 DEF LoaderSet
  <2>2. ld.cur + (tmpsize + n) = ld.cur + tmpsize + n
    BY <1>1
  <2> QED BY <1>3, <2>1, <2>2
<1> QED BY <1>2, <1>3 DEF ThresholdFlush

\* The fill loop writes no more bytes than the chunk stands for, and all of
\* them unless it spins.
LEMMA FillIs ==
  ASSUME NEW n \in FillLens
  PROVE  /\ n * WordSize \in Nat /\ FillBytes(n) \in Nat /\ FillBytes(n) <= n * WordSize
         /\ FillSpins(n) \in BOOLEAN
         /\ ~FillSpins(n) => FillBytes(n) = n * WordSize
<1>1. n \in Nat /\ WordSize \in Nat /\ U32 \in Nat \ {0}
  BY LensAssumption, PackAssumption, WidthAssumption
<1>2. n * WordSize \in Nat
  BY <1>1
<1> DEFINE m == n * WordSize
<1> HIDE DEF m
<1>3. /\ m \div U32 \in Nat /\ m % U32 \in 0..(U32 - 1)
      /\ (m \div U32) * U32 <= m /\ m = U32 * (m \div U32) + (m % U32)
  BY <1>1, <1>2, DivMod DEF m
<1>4. m % U32 \in Nat /\ m % U32 <= m
  <2>1. U32 * (m \div U32) \in Nat
    BY <1>1, <1>3
  <2> QED BY <1>1, <1>2, <1>3, <2>1 DEF m
<1>5. m < U32 => m % U32 = m
  BY <1>1, <1>2, ModSmall DEF m
<1>6. ~FillSpins(n) => m < U32
  BY <1>1, <1>2 DEF FillSpins, m
<1> QED BY <1>1, <1>2, <1>4, <1>5, <1>6 DEF FillBytes, FillSpins, m

\* Initially no image is under way.
LEMMA InitPlace == Init => PlaceInv
<1>1. Aligned(0) /\ Aligned(BlkSize)
  <2>1. 0 % BlkSize = 0 /\ (1 * BlkSize) % BlkSize = 0 /\ 1 * BlkSize = BlkSize
    BY BlkSizeAssumption, ModSmall, TimesMod
  <2> QED BY <2>1 DEF Aligned
<1>2. /\ LoaderZero.offset = 0
      /\ [LoaderZero EXCEPT !.zip = 2, !.offset = BlkSize].offset = BlkSize
  BY DEF LoaderZero
<1>3. Init => ~exp.flag
  BY DEF Init
<1>4. Init => ld \in {LoaderZero, [LoaderZero EXCEPT !.zip = 2, !.offset = BlkSize]}
  BY DEF Init
<1>5. Init => Aligned(ld.offset)
  BY <1>1, <1>2, <1>4
<1> QED BY <1>3, <1>5 DEF PlaceInv, Loading, HostContinues

\* Turns outside a download: nothing is loading after them, or nothing has
\* changed that a download looks at.
LEMMA OutsideLoad ==
  ASSUME IInv, UpInv, PlaceInv, Quiet \/ Erase \/ Upload \/ Hang
  PROVE  /\ PlaceInv'
         /\ \/ ~Loading'
            \/ /\ UNCHANGED <<exp, ld, buf, tmpsize, flash, wpos, want, lost>>
               /\ halted => halted'
<1>1. ld \in LoaderSet /\ exp \in ExpectInfo
  BY DEF IInv, TypeOK
<1>2. CASE NotLinked \/ (\E c \in Commands : Rejected(c)) \/ Reset \/ Hang
  <2>1. UNCHANGED <<exp, ld, buf, tmpsize, flash, wpos, want, lost>> /\ (halted => halted')
    BY <1>2 DEF NotLinked, Rejected, Reset, Hang, vars, staging, image
  <2> QED BY <2>1 DEF PlaceInv, Loading, HostContinues
<1>3. ASSUME NEW c, NEW e, NEW l, NEW r, QuietTurn(c, e, l, r)
      PROVE  PlaceInv' /\ ~Loading'
  <2>1. Accepts(c) /\ exp' = e /\ ld' = l
    BY <1>3 DEF QuietTurn, Turn
  <2>2. /\ Aligned(l.offset)
        /\ e.flag /\ e.cmd \in Apart => e.cmd = "CMD_PROG_DEV_END_ADDR" /\ Aligned(l.start)
    BY <1>3, <2>1, AcceptedApart DEF QuietTurn, PlaceInv
  <2> QED BY <2>1, <2>2 DEF PlaceInv, Loading, HostContinues, Apart, Inner
<1>4. ASSUME Aligned(ld'.offset), ~exp'.flag \/ exp'.cmd \notin Apart
      PROVE  PlaceInv' /\ ~Loading'
  BY <1>4 DEF PlaceInv, Loading, HostContinues, Apart
<1>5. CASE Erase
  <2>1. exp' = Unexpect /\ (ld' = ld \/ ld' = [ld EXCEPT !.start = 0])
    BY <1>5 DEF Erase, EraseSegEndAddr, EraseFlash
  <2>2. ~exp'.flag /\ ld'.offset = ld.offset
    BY <1>1, <2>1 DEF Unexpect, ExpectInfo, LoaderSet
  <2> QED BY <1>4, <2>2 DEF PlaceInv
<1>6. CASE Upload
  <2>1. ASSUME NEW a \in UpAddrs, RvrsDwnld(a) PROVE PlaceInv' /\ ~Loading'
    <3>1. exp'.cmd = "CMD_UPLD_DATA_SIZE" /\ ld'.offset = ld.offset
      BY <1>1, <2>1 DEF RvrsDwnld, LoaderSet, expect_info
    <3>2. ~Loading' /\ ~HostContinues("CMD_PROG_DEV_END_ADDR")'
      BY <3>1 DEF Loading, Inner, HostContinues
    <3> QED BY <3>1, <3>2 DEF PlaceInv
  <2>2. ASSUME NEW n \in UpLens, UpldDataSize(n) PROVE PlaceInv' /\ ~Loading'
    <3>1. ~exp'.flag /\ ld'.offset = ld.offset
      BY <2>2, SendFacts
    <3> QED BY <1>4, <3>1 DEF PlaceInv
  <2>3. ASSUME UploadNext PROVE PlaceInv' /\ ~Loading'
    <3>1. exp' = exp /\ (exp.flag => exp.cmd = "CMD_SUCCESS") /\ ld'.offset = ld.offset
      BY <2>3, SendFacts
    <3>2. ~Loading' /\ ~HostContinues("CMD_PROG_DEV_END_ADDR")'
      BY <3>1 DEF Loading, Inner, HostContinues
    <3> QED BY <3>1, <3>2 DEF PlaceInv
  <2>4. ASSUME UploadEnd PROVE PlaceInv' /\ ~Loading'
    <3>1. exp' = exp /\ ld' = ld /\ Accepts("CMD_SUCCESS")
      BY <2>4 DEF UploadEnd
    <3>2. "CMD_SUCCESS" \in Commands \ (Apart \cup {"CMD_FAIL"})
      BY DEF Commands, Apart, Inner
    <3>3. exp.flag => exp.cmd = "CMD_SUCCESS"
      BY <3>1, <3>2, AcceptedIsExpected
    <3> QED BY <1>4, <3>1, <3>2, <3>3 DEF PlaceInv
  <2> QED BY <1>6, <2>1, <2>2, <2>3, <2>4 DEF Upload
<1> QED BY <1>2, <1>3, <1>5, <1>6, QuietShape

\* The commands of a download.
LEMMA DownloadPlace ==
  ASSUME IInv, PlaceInv, Download
  PROVE  PlaceInv'
<1>1. /\ ld'.offset = ld.offset /\ ld'.start = ld.start /\ Aligned(ld'.offset)
      /\ ld \in LoaderSet /\ ld.start \in Nat /\ ld.cur \in Nat /\ tmpsize \in Nat
      /\ wpos \in Nat
  BY DownloadKeeps, LoadFacts DEF PlaceInv
<1>2. ASSUME halted' \/ ~exp'.flag, ~HostContinues("CMD_PROG_DEV_END_ADDR")' PROVE PlaceInv'
  BY <1>1, <1>2 DEF PlaceInv, Loading
<1>3. ASSUME NEW n \in ImgLens, ProgDevEndAddr(n) PROVE PlaceInv'
  <2>1. /\ Aligned(ld.start) /\ tmpsize' = 0 /\ wpos' = ld.start
        /\ ld' = [ld EXCEPT !.cur = ld.start]
        /\ exp' = expect_info(TRUE, "CMD_DATA_PACKET_SIZE", exp.size)
    BY <1>3 DEF ProgDevEndAddr, Accepts, HostContinues, IInv, StageInv, NothingLeftStaged,
                DataPhase, staging, PlaceInv
  <2>2. ld'.cur = ld.start
    BY <1>1, <2>1 DEF LoaderSet
  <2>3. wpos' = ld'.cur + tmpsize' /\ ld'.start <= ld'.cur
    BY <1>1, <2>1, <2>2
  <2>4. ~HostContinues("CMD_PROG_DEV_END_ADDR")'
    BY <2>1 DEF HostContinues, expect_info
  <2> QED BY <1>1, <2>1, <2>3, <2>4 DEF PlaceInv
<1>4. ASSUME NEW n \in PktSizes, DataPacketSize(n) PROVE PlaceInv'
  <2>1. /\ Loading /\ tmpsize' = tmpsize /\ wpos' = wpos
        /\ ld' = [ld EXCEPT !.once = n] /\ exp' = expect_info(TRUE, "CMD_DATA", n)
    BY <1>4 DEF DataPacketSize, Accepts, HostContinues, Loading, Inner, image
  <2>2. ld'.cur = ld.cur
    BY <1>1, <2>1 DEF LoaderSet
  <2>3. ~HostContinues("CMD_PROG_DEV_END_ADDR")'
    BY <2>1 DEF HostContinues, expect_info
  <2>4. Aligned(ld.start) /\ ld.start <= ld.cur /\ wpos = ld.cur + tmpsize
    BY <2>1 DEF PlaceInv
  <2> QED BY <1>1, <2>1, <2>2, <2>3, <2>4 DEF PlaceInv
<1>5. ASSUME HostContinues("CMD_DATA"), Accepts("CMD_DATA"), exp' = exp \/ exp' = ExpectAfter,
             NEW x \in Nat, NEW y \in Nat, NEW n \in Nat, ld'.cur = x, tmpsize' = y,
             wpos' = wpos + n, x + y = ld.cur + tmpsize + n, ld.cur <= x
      PROVE  PlaceInv'
  <2>1. ~HostContinues("CMD_PROG_DEV_END_ADDR")'
    <3>1. exp \in ExpectInfo /\ exp.cmd = "CMD_DATA"
      BY <1>5 DEF IInv, TypeOK, HostContinues
    <3> QED BY <1>5, <3>1 DEF HostContinues, ExpectAfter, ExpectInfo
  <2>2. Aligned(ld.start) /\ ld.start <= ld.cur /\ wpos = ld.cur + tmpsize
    BY <1>5 DEF PlaceInv, Loading, Inner, HostContinues, Accepts
  <2>3. wpos + n = x + y /\ ld.start <= x
    BY <1>1, <1>5, <2>2
  <2> QED BY <1>1, <1>5, <2>1, <2>2, <2>3 DEF PlaceInv
<1>6. ASSUME NEW n \in Nat, HostContinues("CMD_DATA"), Accepts("CMD_DATA"), Consume,
             HostSends(n, FALSE), NEW b, ThresholdFlush(b, tmpsize + n, threshold + 1)
      PROVE  PlaceInv'
  <2>1. exp' = ExpectAfter /\ wpos' = wpos + n
    BY <1>6 DEF Consume, HostSends
  <2>2. CASE ld' = ld /\ tmpsize' = tmpsize + n
    BY <1>1, <1>5, <1>6, <2>1, <2>2
  <2>3. CASE ld'.cur = ld.cur + tmpsize + n /\ tmpsize' = 0
    <3>1. /\ ld.cur + tmpsize + n \in Nat /\ ld.cur <= ld.cur + tmpsize + n
          /\ (ld.cur + tmpsize + n) + 0 = ld.cur + tmpsize + n
      BY <1>1
    <3> QED BY <1>5, <1>6, <2>1, <2>3, <3>1
  <2> QED BY <1>6, <2>2, <2>3, FlushMoves
<1>7. CASE DataRaw
  <2>1. exp.size \in Nat
    BY LoadFacts
  <2> QED BY <1>6, <1>7, <2>1 DEF DataRaw
<1>8. ASSUME NEW n \in 0..TmpBufSize, DataZipRaw(n) PROVE PlaceInv'
  <2>1. n \in Nat
    BY BufAssumption
  <2> QED BY <1>6, <1>8, <2>1 DEF DataZipRaw
<1>9. ASSUME NEW n \in 0..TmpBufSize, DataZipOdd(n) PROVE PlaceInv'
  BY <1>2, <1>9 DEF DataZipOdd, HostContinues
<1>10. ASSUME NEW n \in FillLens, DataZipFill(n) PROVE PlaceInv'
  <2> DEFINE m == n * WordSize
  <2>1. /\ m \in Nat /\ FillBytes(n) \in Nat /\ FillSpins(n) \in BOOLEAN
        /\ ~FillSpins(n) => FillBytes(n) = m
    BY FillIs
  <2>2. /\ HostContinues("CMD_DATA") /\ Accepts("CMD_DATA") /\ exp' = ExpectAfter
        /\ wpos' = wpos + m /\ tmpsize' = 0 /\ halted' = FillSpins(n)
        /\ ld' = [ld EXCEPT !.cur = @ + tmpsize + FillBytes(n)]
    BY <1>10 DEF DataZipFill, Consume, HostSends
  <2>3. ld'.cur = ld.cur + tmpsize + FillBytes(n)
    BY <1>1, <2>2 DEF LoaderSet
  <2> HIDE DEF m
  <2>4. CASE FillSpins(n)
    <3>1. exp \in ExpectInfo /\ exp.cmd = "CMD_DATA"
      BY <2>2 DEF IInv, TypeOK, HostContinues
    <3>2. ~HostContinues("CMD_PROG_DEV_END_ADDR")'
      BY <2>2, <3>1 DEF HostContinues, ExpectAfter, ExpectInfo
    <3> QED BY <1>2, <2>2, <2>4, <3>2
  <2>5. CASE ~FillSpins(n)
    <3>1. /\ ld.cur + tmpsize + m \in Nat /\ ld.cur <= ld.cur + tmpsize + m
          /\ (ld.cur + tmpsize + m) + 0 = ld.cur + tmpsize + m
      BY <1>1, <2>1
    <3> QED BY <1>5, <2>1, <2>2, <2>3, <2>5, <3>1
  <2> QED BY <2>1, <2>4, <2>5
<1>11. ASSUME NEW n \in SkipLens, DataZipSkip(n) PROVE PlaceInv'
  <2>1. /\ HostContinues("CMD_DATA") /\ Accepts("CMD_DATA") /\ exp' = ExpectAfter
        /\ wpos' = wpos + n /\ tmpsize' = 0
        /\ ld' = [ld EXCEPT !.cur = @ + tmpsize + n]
    BY <1>11 DEF DataZipSkip, Consume
  <2>2. ld'.cur = ld.cur + tmpsize + n
    BY <1>1, <2>1 DEF LoaderSet
  <2>3. n \in Nat
    BY LensAssumption
  <2>4. /\ ld.cur + tmpsize + n \in Nat /\ ld.cur <= ld.cur + tmpsize + n
        /\ (ld.cur + tmpsize + n) + 0 = ld.cur + tmpsize + n
    BY <1>1, <2>3
  <2> QED BY <1>5, <2>1, <2>2, <2>3, <2>4
<1>12. CASE DataIgnored
  <2>1. /\ HostContinues("CMD_DATA") /\ Accepts("CMD_DATA") /\ exp' = ExpectAfter
        /\ wpos' = wpos /\ tmpsize' = tmpsize /\ ld' = ld
    BY <1>12 DEF DataIgnored, Consume
  <2>2. wpos + 0 = wpos /\ ld.cur + tmpsize + 0 = ld.cur + tmpsize /\ ld.cur <= ld.cur
    BY <1>1
  <2> QED BY <1>1, <1>5, <2>1, <2>2
<1>13. CASE DataSync
  <2>1. PICK w \in flashex_write(flash, ld.cur, buf, tmpsize) :
          /\ halted' = ~w.ok
          /\ IF w.ok THEN exp' = expect_info(FALSE, "CMD_LINK_EST", DefPackLen)
             ELSE exp' = exp
    BY <1>13 DEF DataSync
  <2>2. CASE w.ok = TRUE
    BY <1>2, <2>1, <2>2 DEF expect_info, HostContinues
  <2>3. CASE w.ok = FALSE
    <3>1. "CMD_DATA_SYNC" \in Commands \ {"CMD_FAIL"}
      BY DEF Commands
    <3>2. exp.flag => exp.cmd = "CMD_DATA_SYNC"
      BY <1>13, <3>1, AcceptedIsExpected DEF DataSync
    <3> QED BY <1>2, <2>1, <2>3, <3>2 DEF HostContinues
  <2>4. w.ok = TRUE \/ w.ok = FALSE
    BY WriteCases
  <2> QED BY <2>2, <2>3, <2>4
<1> QED BY <1>3, <1>4, <1>7, <1>8, <1>9, <1>10, <1>11, <1>12, <1>13 DEF Download

\* The invariant of where images go.
LEMMA PlaceInvariant == Spec => []PlaceInv
<1>1. IInv /\ UpInv /\ PlaceInv /\ [Next]_vars => PlaceInv'
  <2> SUFFICES ASSUME IInv, UpInv, PlaceInv, [Next]_vars PROVE PlaceInv'
    OBVIOUS
  <2>1. CASE UNCHANGED vars
    BY <2>1 DEF vars, staging, image, PlaceInv, Loading, HostContinues
  <2> QED BY <2>1, OutsideLoad, DownloadPlace DEF Next
<1> QED BY <1>1, InitPlace, LoaderInvariant, UploadsInvariant, PTL DEF Spec

\* What a write of a download touches lies in the image.
LEMMA HitsImage ==
  ASSUME IInv, PlaceInv, Loading, NEW s \in Nat, NEW len \in Nat, NEW e \in Nat,
         ld.cur <= s, s + len <= e, NEW a \in Touched(s, len)
  PROVE  ld.start <= a /\ a < BlkStart(e + BlkSize - 1)
<1> DEFINE x == s + len + BlkSize - 1  y == e + BlkSize - 1
<1>1. /\ x \in Nat /\ y \in Nat /\ x <= y
      /\ ld.start \in Nat /\ Aligned(ld.start) /\ ld.start <= s
  BY LoadFacts DEF PlaceInv
<1>2. a \in Nat /\ BlkStart(s) <= a /\ a < BlkStart(x)
  BY TouchedIs, LoadFacts
<1>3. BlkStart(s) \in Nat /\ ld.start <= BlkStart(s)
  BY <1>1, BlkStartIs
<1>4. BlkStart(x) \in Nat /\ Aligned(BlkStart(x)) /\ BlkStart(x) <= x /\ BlkStart(y) \in Nat
  BY <1>1, BlkStartIs
<1> HIDE DEF x, y
<1>5. BlkStart(x) <= BlkStart(y)
  <2>1. BlkStart(x) <= y
    BY <1>1, <1>4
  <2> QED BY <1>1, <1>4, <2>1, BlkStartIs
<1>6. ld.start <= a /\ a < BlkStart(y)
  BY <1>1, <1>2, <1>3, <1>4, <1>5
<1> QED BY <1>6 DEF y

\* A turn that is no erase command changes only blocks of the image under way,
\* because a write starts at or after its start and what is staged ends at the
\* host's last unit.
THEOREM OnlyTheImage == Spec => OnlyTheImageChanges
<1> DEFINE Hit(a) == ld.start <= a /\ a < BlkStart(wpos' + BlkSize - 1)
           Within == \A a \in Addr : flash'[a] # flash[a] => Hit(a)
<1>1. ASSUME IInv, PlaceInv, Loading, NEW m \in Nat, wpos' = wpos + m,
             NEW s \in Nat, NEW len \in Nat, ld.cur <= s, s + len <= ld.cur + tmpsize + m,
             NEW a \in Touched(s, len)
      PROVE  Hit(a)
  <2> DEFINE e == wpos + m
  <2>1. e \in Nat /\ wpos = ld.cur + tmpsize
    BY <1>1, LoadFacts DEF PlaceInv
  <2>2. s + len <= e
    BY <1>1, <2>1
  <2>3. wpos' = e
    BY <1>1
  <2> HIDE DEF e
  <2>4. ld.start <= a /\ a < BlkStart(e + BlkSize - 1)
    BY <1>1, <2>1, <2>2, HitsImage
  <2> QED BY <2>3, <2>4
<1>2. ASSUME IInv, PlaceInv, Loading, NEW m \in Nat, wpos' = wpos + m,
             NEW src, NEW len \in Nat, len <= tmpsize + m,
             NEW w \in flashex_write(flash, ld.cur, src, len), flash' = w.mem
      PROVE  Within
  <2> SUFFICES ASSUME NEW a \in Addr, flash'[a] # flash[a] PROVE Hit(a)
    OBVIOUS
  <2>1. /\ ld.cur \in Nat /\ tmpsize \in Nat /\ ld.cur <= ld.cur
        /\ ld.cur + len <= ld.cur + tmpsize + m
    BY <1>2, LoadFacts
  <2>2. a \in Touched(ld.cur, len)
    BY <1>2, <2>1, WriteKeeps
  <2> HIDE DEF Hit
  <2> QED BY <1>1, <1>2, <2>1, <2>2
<1>3. ASSUME IInv, UpInv, PlaceInv, Download
      PROVE  Within
  <2>1. Accepts("CMD_DATA") /\ HostContinues("CMD_DATA") => Loading
    BY DEF Accepts, HostContinues, Loading, Inner
  <2>2. /\ tmpsize \in Nat /\ ld.cur \in Nat /\ wpos \in Nat /\ exp.size \in Nat
        /\ TmpBufSize \in Nat
    BY <1>3, LoadFacts
  <2>3. CASE flash' = flash
    BY <2>3
  <2>4. ASSUME NEW n \in Nat, Loading, HostSends(n, FALSE), NEW b,
               ThresholdFlush(b, tmpsize + n, threshold + 1)
        PROVE  Within
    <3>1. wpos' = wpos + n /\ tmpsize + n \in Nat /\ tmpsize + n <= tmpsize + n
      BY <2>2, <2>4 DEF HostSends
    <3>2. CASE flash' = flash
      BY <3>2
    <3>3. ASSUME NEW w \in flashex_write(flash, ld.cur, b, tmpsize + n), flash' = w.mem
          PROVE  Within
      <4> DEFINE len == tmpsize + n
      <4>1. len \in Nat /\ len <= tmpsize + n /\ w \in flashex_write(flash, ld.cur, b, len)
        BY <3>1, <3>3
      <4> HIDE DEF len, Within
      <4> QED BY <1>2, <1>3, <2>4, <3>1, <3>3, <4>1
    <3> HIDE DEF Within
    <3> QED BY <1>3, <2>4, <3>2, <3>3, FlushMoves
  <2>5. CASE DataRaw
    <3> HIDE DEF Within
    <3> QED BY <2>1, <2>2, <2>4, <2>5 DEF DataRaw
  <2>6. ASSUME NEW n \in 0..TmpBufSize, DataZipRaw(n) PROVE Within
    <3>1. n \in Nat
      BY <2>2
    <3> HIDE DEF Within
    <3> QED BY <2>1, <2>4, <2>6, <3>1 DEF DataZipRaw
  <2>7. ASSUME NEW n \in FillLens, DataZipFill(n) PROVE Within
    <3> DEFINE m == n * WordSize  f == FillBytes(n)  st == ld.cur + tmpsize
               fill == [i \in Addr |-> FillUnit(img)]
    <3>1. PICK w1 \in flashex_write(flash, ld.cur, buf, tmpsize) :
            \E w2 \in flashex_write(w1.mem, st, fill, f) : flash' = w2.mem
      BY <2>7 DEF DataZipFill
    <3>2. PICK w2 \in flashex_write(w1.mem, st, fill, f) : flash' = w2.mem
      BY <3>1
    <3>3. Loading /\ wpos' = wpos + m
      BY <2>1, <2>7 DEF DataZipFill, HostSends
    <3>4. m \in Nat /\ f \in Nat /\ f <= m
      BY FillIs
    <3>5. /\ st \in Nat /\ ld.cur <= st /\ st + f <= ld.cur + tmpsize + m
          /\ ld.cur + tmpsize <= ld.cur + tmpsize + m /\ ld.cur <= ld.cur
      <4> HIDE DEF m, f
      <4> QED BY <2>2, <3>4
    <3> HIDE DEF m, f, st, fill
    <3> SUFFICES ASSUME NEW a \in Addr, flash'[a] # flash[a] PROVE Hit(a)
      OBVIOUS
    <3>6. CASE a \in Touched(st, f)
      <4> HIDE DEF Hit
      <4> QED BY <1>1, <1>3, <3>3, <3>4, <3>5, <3>6
    <3>7. CASE a \in Touched(ld.cur, tmpsize)
      <4> HIDE DEF Hit
      <4> QED BY <1>1, <1>3, <2>2, <3>3, <3>4, <3>5, <3>7
    <3>8. CASE a \notin Touched(st, f) /\ a \notin Touched(ld.cur, tmpsize)
      <4>1. w2.mem[a] = w1.mem[a]
        BY <3>2, <3>4, <3>5, <3>8, WriteKeeps
      <4>2. w1.mem[a] = flash[a]
        BY <2>2, <3>2, <3>8, WriteKeeps
      <4> QED BY <3>2, <4>1, <4>2
    <3> QED BY <3>6, <3>7, <3>8
  <2>8. ASSUME NEW n \in SkipLens, DataZipSkip(n) PROVE Within
    <3>1. PICK w \in flashex_write(flash, ld.cur, buf, tmpsize) : flash' = w.mem
      BY <2>8 DEF DataZipSkip
    <3>2. Loading /\ wpos' = wpos + n
      BY <2>1, <2>8 DEF DataZipSkip
    <3>3. n \in Nat /\ tmpsize <= tmpsize + n
      BY <2>2, LensAssumption
    <3> HIDE DEF Within
    <3> QED BY <1>2, <1>3, <2>2, <3>1, <3>2, <3>3
  <2>9. CASE DataSync
    <3>1. PICK w \in flashex_write(flash, ld.cur, buf, tmpsize) : flash' = w.mem
      BY <2>9 DEF DataSync
    <3>2. wpos' = wpos + 0 /\ tmpsize <= tmpsize + 0
      BY <2>2, <2>9 DEF DataSync
    <3>3. "CMD_DATA_SYNC" \in Commands \ {"CMD_FAIL"}
      BY DEF Commands
    <3>4. ~halted /\ (exp.flag => exp.cmd = "CMD_DATA_SYNC")
      BY <2>9, <3>3, AcceptedIsExpected DEF DataSync, Accepts
    <3>5. CASE exp.flag
      <4>1. Loading
        BY <3>4, <3>5 DEF Loading, Inner
      <4> HIDE DEF Within
      <4> QED BY <1>2, <1>3, <2>2, <3>1, <3>2, <4>1
    <3>6. CASE ~exp.flag
      <4>1. tmpsize = 0
        BY <1>3, <3>4, <3>6 DEF IInv, StageInv, NothingLeftStaged, DataPhase
      <4>2. \A a \in Addr : a \notin Touched(ld.cur, tmpsize)
        BY <2>2, <4>1, TouchedIs
      <4>3. \A a \in Addr : w.mem[a] = flash[a]
        BY <2>2, <4>2, WriteKeeps
      <4> QED BY <3>1, <4>3
    <3> QED BY <3>5, <3>6
  <2>10. CASE \/ \E n \in ImgLens : ProgDevEndAddr(n)
              \/ \E n \in PktSizes : DataPacketSize(n)
              \/ \E n \in 0..TmpBufSize : DataZipOdd(n)
              \/ DataIgnored
    BY <2>3, <2>10 DEF ProgDevEndAddr, DataPacketSize, DataZipOdd, DataIgnored
  <2> HIDE DEF Within
  <2> QED BY <1>3, <2>5, <2>6, <2>7, <2>8, <2>9, <2>10 DEF Download
<1>4. ASSUME IInv, UpInv, PlaceInv, [Next]_vars
      PROVE  Erase \/ Within
  <2>1. CASE Quiet
    <3>1. ASSUME NEW c, NEW e, NEW l, NEW r, QuietTurn(c, e, l, r) PROVE flash' = flash
      BY <3>1 DEF QuietTurn, Turn
    <3>2. flash' = flash
      BY <1>4, <2>1, <3>1, QuietShape DEF NotLinked, Rejected, Reset
    <3> QED BY <3>2
  <2>2. CASE Upload
    <3>1. flash' = flash
      BY <2>2 DEF Upload, RvrsDwnld, UpldDataSize, UploadNext, UploadEnd, SendChunk
    <3> QED BY <3>1
  <2>3. CASE Hang \/ UNCHANGED vars
    <3>1. flash' = flash
      BY <2>3 DEF Hang, vars
    <3> QED BY <3>1
  <2> HIDE DEF Within
  <2> QED BY <1>3, <1>4, <2>1, <2>2, <2>3 DEF Next
<1>5. IInv /\ UpInv /\ PlaceInv /\ [Next]_vars
        => [Erase \/ \A a \in Addr : flash'[a] # flash[a] =>
              ld.start <= a /\ a < BlkStart(wpos' + BlkSize - 1)]_vars
  BY <1>4
<1> QED
  BY <1>5, LoaderInvariant, UploadsInvariant, PlaceInvariant, PTL
     DEF Spec, OnlyTheImageChanges

-----------------------------------------------------------------------------
(***************************************************************************)
(* What is written: the image, unit by unit.                               *)
(***************************************************************************)

\* Fill chunks are whole blocks.  The code means to insist on it, but looks at
\* the length only after the fill loop has counted it down to 0.
WholeFills == \A n \in FillLens : Aligned(n * WordSize)

\* Every unit of the image sent so far is where it belongs.
AllPlaced == \A a \in Addr : want[a] # DontCare => Placed(a)

\* A flush starts at the beginning of a block, because all packets but a last
\* one are whole blocks.
AlignInv ==
  /\ ~halted /\ HostContinues("CMD_DATA_PACKET_SIZE") =>
       Aligned(ld.cur) /\ \A a \in Addr : want[a] = DontCare
  /\ Streaming =>
       /\ Aligned(ld.cur) /\ Aligned(tmpsize)
       /\ ld.zip = 0 => Aligned(ld.once)
  /\ ~halted /\ HostContinues("CMD_DATA_SYNC") => Aligned(ld.cur) \/ tmpsize = 0
  /\ ~halted /\ DataPhase /\ ~lost => AllPlaced

\* The conditions of AlignInv are those of a download under way.
LEMMA NotLoading ==
  ASSUME ~Loading'
  PROVE  AlignInv'
BY DEF AlignInv, Loading, Inner, HostContinues, Streaming, DataPhase

\* With n more units staged, everything sent is below cur_addr or staged, and
\* nothing beyond has been sent.
LEMMA StagedIs ==
  ASSUME IInv, AllPlaced, wpos = ld.cur + tmpsize, NEW n \in Nat, tmpsize + n <= TmpBufSize,
         HostSends(n, FALSE), NEW a \in Addr, want'[a] # DontCare
  PROVE  /\ a < ld.cur => flash[a] = want'[a]
         /\ ld.cur <= a => a < ld.cur + tmpsize + n /\ Staged(n)[a - ld.cur] = want'[a]
<1>1. /\ ld.cur \in Nat /\ tmpsize \in Nat /\ TmpBufSize \in Nat /\ a \in Nat
      /\ wpos \in Nat
  BY LoadFacts
<1>2. want'[a] = IF wpos <= a /\ a < wpos + n THEN Unit(img, a) ELSE want[a]
  BY DEF HostSends
<1>3. CASE wpos <= a /\ a < wpos + n
  <2>1. want'[a] = Unit(img, a) /\ ~(a < ld.cur) /\ a < ld.cur + tmpsize + n
    BY <1>1, <1>2, <1>3
  <2> DEFINE i == a - ld.cur
  <2>2. i \in BufIndex /\ tmpsize <= i /\ i < tmpsize + n /\ wpos + (i - tmpsize) = a
    BY <1>1, <1>3 DEF BufIndex
  <2> HIDE DEF i
  <2>3. Staged(n)[i] = Unit(img, a)
    BY <2>2 DEF Staged
  <2> QED BY <2>1, <2>3 DEF i
<1>4. CASE ~(wpos <= a /\ a < wpos + n)
  <2>1. want'[a] = want[a] /\ Placed(a)
    BY <1>2, <1>4 DEF AllPlaced
  <2>2. CASE a < ld.cur
    BY <1>1, <2>1, <2>2 DEF Placed
  <2>3. CASE ld.cur <= a
    <3> DEFINE i == a - ld.cur
    <3>1. i < tmpsize /\ buf[i] = want[a]
      BY <1>1, <2>1, <2>3 DEF Placed
    <3>2. i \in BufIndex /\ ~(tmpsize <= i) /\ a < ld.cur + tmpsize + n
      BY <1>1, <2>3, <3>1 DEF BufIndex
    <3> HIDE DEF i
    <3>3. Staged(n)[i] = buf[i]
      BY <3>2 DEF Staged
    <3> QED BY <1>1, <2>1, <2>3, <3>1, <3>2, <3>3 DEF i
  <2> QED BY <1>1, <2>2, <2>3
<1> QED BY <1>3, <1>4

\* Placed, for a state in which cur_addr and the count of staged units are known.
LEMMA PlacedNow ==
  ASSUME NEW c \in Nat, NEW t \in Nat, ld'.cur = c, tmpsize' = t,
         \A a \in Addr : want'[a] # DontCare =>
            IF a < c THEN flash'[a] = want'[a]
            ELSE a - c < t /\ buf'[a - c] = want'[a]
  PROVE  AllPlaced'
BY DEF AllPlaced, Placed

\* A packet of raw data.
LEMMA RawPlaced ==
  ASSUME IInv, NEW n \in Nat, tmpsize + n <= TmpBufSize,
         Aligned(ld.cur), wpos = ld.cur + tmpsize, ~lost => AllPlaced,
         HostSends(n, FALSE), buf' = Staged(n),
         ThresholdFlush(Staged(n), tmpsize + n, threshold + 1)
  PROVE  /\ ~lost' => AllPlaced'
         /\ \/ ld'.cur = ld.cur /\ tmpsize' = tmpsize + n
            \/ ld'.cur = ld.cur + tmpsize + n /\ tmpsize' = 0
<1> DEFINE c == ld.cur  t == tmpsize
<1>1. /\ ld.cur \in Nat /\ tmpsize \in Nat /\ TmpBufSize \in Nat /\ Addr \subseteq Nat
      /\ tmpsize + n \in Nat /\ ld.cur + tmpsize + n \in Nat
  BY LoadFacts
<1>2. ASSUME ~lost, NEW a \in Addr, want'[a] # DontCare
      PROVE  /\ a < ld.cur => flash[a] = want'[a]
             /\ ld.cur <= a => a < ld.cur + tmpsize + n /\ Staged(n)[a - ld.cur] = want'[a]
  BY <1>2, StagedIs
<1>3. CASE ld' = ld /\ tmpsize' = tmpsize + n /\ flash' = flash /\ lost' = lost
  <2>1. ASSUME ~lost PROVE AllPlaced'
    <3> DEFINE x == ld.cur  y == tmpsize + n
    <3>1. ASSUME NEW a \in Addr, want'[a] # DontCare
          PROVE  IF a < x THEN flash'[a] = want'[a] ELSE a - x < y /\ buf'[a - x] = want'[a]
      <4>1. CASE a < x
        BY <1>2, <1>3, <2>1, <3>1, <4>1
      <4>2. CASE ~(a < x)
        <5>1. x <= a /\ a \in Nat
          BY <1>1, <4>2
        <5>2. a < x + tmpsize + n /\ Staged(n)[a - x] = want'[a]
          BY <1>2, <2>1, <3>1, <5>1
        <5>3. a - x < y
          BY <1>1, <5>1, <5>2
        <5> QED BY <4>2, <5>2, <5>3
      <4> QED BY <4>1, <4>2
    <3>2. x \in Nat /\ y \in Nat /\ ld'.cur = x /\ tmpsize' = y
      BY <1>1, <1>3
    <3> HIDE DEF x, y
    <3> QED BY <3>1, <3>2, PlacedNow
  <2> QED BY <1>3, <2>1
<1>4. ASSUME ld'.cur = ld.cur + tmpsize + n, tmpsize' = 0,
             NEW w \in flashex_write(flash, ld.cur, Staged(n), tmpsize + n),
             flash' = w.mem, lost' = (lost \/ ~w.ok)
      PROVE  ~lost' => AllPlaced'
  <2> SUFFICES ASSUME ~lost' PROVE AllPlaced'
    OBVIOUS
  <2>1. ~lost /\ w.ok
    BY <1>4, WriteCases
  <2> DEFINE x == ld.cur + tmpsize + n
  <2>2. ASSUME NEW a \in Addr, want'[a] # DontCare
        PROVE  IF a < x THEN flash'[a] = want'[a] ELSE a - x < 0 /\ buf'[a - x] = want'[a]
    <3>1. /\ a < ld.cur => flash[a] = want'[a]
          /\ ld.cur <= a => a < x /\ Staged(n)[a - ld.cur] = want'[a]
      BY <1>2, <2>1, <2>2
    <3> DEFINE len == tmpsize + n
    <3>2. len \in Nat /\ w \in flashex_write(flash, ld.cur, Staged(n), len)
      BY <1>1, <1>4
    <3>3. ld.cur + len = x
      BY <1>1
    <3> HIDE DEF len, x
    <3>4. /\ a < ld.cur => w.mem[a] = flash[a]
          /\ ld.cur <= a /\ a < ld.cur + len => w.mem[a] = Staged(n)[a - ld.cur]
      <4> DEFINE start == ld.cur  src == Staged(n)
      <4>1. /\ start \in Nat /\ len \in Nat /\ (Aligned(start) \/ len = 0) /\ w.ok
            /\ w \in flashex_write(flash, start, src, len)
        BY <1>1, <2>1, <3>2
      <4> HIDE DEF start, src
      <4>2. /\ a < start => w.mem[a] = flash[a]
            /\ start <= a /\ a < start + len => w.mem[a] = src[a - start]
        BY <4>1, WriteOut
      <4> QED BY <4>2 DEF start, src
    <3>5. a \in Nat
      BY <1>1
    <3>6. a < ld.cur \/ ld.cur <= a
      BY <1>1, <3>5
    <3>7. x \in Nat /\ ld.cur <= x
      BY <1>1 DEF x
    <3>8. a < x
      BY <1>1, <3>1, <3>5, <3>6, <3>7
    <3>9. flash'[a] = want'[a]
      BY <1>4, <3>1, <3>3, <3>4, <3>6
    <3> QED BY <3>8, <3>9
  <2>3. x \in Nat /\ ld'.cur = x /\ tmpsize' = 0
    BY <1>1, <1>4
  <2> HIDE DEF x
  <2> QED BY <2>2, <2>3, PlacedNow
<1> QED BY <1>3, <1>4, FlushMoves

\* What a successful write of the staging buffer leaves on the device.
LEMMA FlushedOut ==
  ASSUME IInv, Aligned(ld.cur) \/ tmpsize = 0,
         NEW w \in flashex_write(flash, ld.cur, buf, tmpsize), w.ok
  PROVE  \A a \in Addr :
           /\ a < ld.cur => w.mem[a] = flash[a]
           /\ ld.cur <= a /\ a < ld.cur + tmpsize => w.mem[a] = buf[a - ld.cur]
<1> DEFINE start == ld.cur  len == tmpsize  src == buf
<1>1. /\ start \in Nat /\ len \in Nat /\ (Aligned(start) \/ len = 0)
      /\ w.ok /\ w \in flashex_write(flash, start, src, len)
  BY LoadFacts
<1> HIDE DEF start, len, src
<1>2. ASSUME NEW a \in Addr
      PROVE  /\ a < start => w.mem[a] = flash[a]
             /\ start <= a /\ a < start + len => w.mem[a] = src[a - start]
  BY <1>1, WriteOut, Z3T(30)
<1> QED BY <1>2 DEF start, len, src

\* A chunk whose contents, if any, the loader writes at once, behind what is
\* staged: a fill, or a region that is skipped.
LEMMA ChunkPlaced ==
  ASSUME IInv, NEW n \in Nat, Aligned(ld.cur), wpos = ld.cur + tmpsize, AllPlaced,
         NEW w \in flashex_write(flash, ld.cur, buf, tmpsize), w.ok,
         ld'.cur = ld.cur + tmpsize + n, tmpsize' = 0,
         \A a \in Addr : a < wpos => flash'[a] = w.mem[a],
         \A a \in Addr :
           \/ want'[a] = want[a] /\ (wpos <= a /\ a < wpos + n => want[a] = DontCare)
           \/ wpos <= a /\ a < wpos + n /\ flash'[a] = want'[a]
  PROVE  AllPlaced'
<1> DEFINE x == ld.cur + tmpsize + n
<1>1. /\ ld.cur \in Nat /\ tmpsize \in Nat /\ wpos \in Nat /\ x \in Nat /\ x = wpos + n
      /\ Addr \subseteq Nat
  BY LoadFacts
<1> HIDE DEF x
<1>2. \A a \in Addr :
        /\ a < ld.cur => w.mem[a] = flash[a]
        /\ ld.cur <= a /\ a < ld.cur + tmpsize => w.mem[a] = buf[a - ld.cur]
  BY FlushedOut
<1>3. ASSUME NEW a \in Addr, want'[a] # DontCare
      PROVE  IF a < x THEN flash'[a] = want'[a] ELSE a - x < 0 /\ buf'[a - x] = want'[a]
  <2>1. a \in Nat
    BY <1>1
  <2>2. CASE wpos <= a /\ a < wpos + n /\ flash'[a] = want'[a]
    BY <1>1, <2>1, <2>2
  <2>3. CASE want'[a] = want[a] /\ (wpos <= a /\ a < wpos + n => want[a] = DontCare)
    <3>1. want[a] # DontCare /\ Placed(a)
      BY <1>3, <2>3 DEF AllPlaced
    <3>2. a < wpos
      BY <1>1, <2>1, <2>3, <3>1 DEF Placed
    <3>3. flash'[a] = w.mem[a] /\ a < x
      BY <1>1, <2>1, <3>2
    <3>4. CASE a < ld.cur
      <4>1. w.mem[a] = flash[a]
        BY <1>2, <3>4
      <4>2. flash[a] = want[a]
        BY <3>1, <3>4 DEF Placed
      <4> QED BY <2>3, <3>3, <4>1, <4>2
    <3>5. CASE ~(a < ld.cur)
      <4>1. ld.cur <= a /\ a < ld.cur + tmpsize
        BY <1>1, <2>1, <3>2, <3>5
      <4>2. w.mem[a] = buf[a - ld.cur]
        BY <1>2, <4>1
      <4>3. buf[a - ld.cur] = want[a]
        BY <3>1, <3>5 DEF Placed
      <4> QED BY <2>3, <3>3, <4>2, <4>3
    <3> QED BY <3>4, <3>5
  <2> QED BY <2>2, <2>3
<1>4. ld'.cur = x
  BY DEF x
<1> QED BY <1>1, <1>3, <1>4, PlacedNow

\* Before the first image nothing is expected.
LEMMA InitAlign == Init => AlignInv
<1>1. Init => ~exp.flag
  BY DEF Init
<1> QED BY <1>1 DEF AlignInv, Streaming, HostContinues, DataPhase

\* What a packet must leave for the next one.
LEMMA AfterPacket ==
  ASSUME IInv, AlignInv, Accepts("CMD_DATA"), HostContinues("CMD_DATA"), exp' = ExpectAfter,
         ld'.zip = ld.zip, ld'.once = ld.once,
         NEW c \in Nat, NEW t \in Nat, ld'.cur = c, tmpsize' = t, Aligned(c) \/ t = 0,
         exp'.cmd = "CMD_DATA" => Aligned(c) /\ Aligned(t),
         ~lost' => AllPlaced'
  PROVE  AlignInv'
<1>1. exp \in ExpectInfo /\ exp.cmd = "CMD_DATA" /\ Streaming
  BY DEF IInv, TypeOK, HostContinues, Streaming, Accepts
<1>2. exp'.cmd \in {"CMD_DATA", "CMD_DATA_SYNC"}
  BY <1>1 DEF ExpectAfter, ExpectInfo
<1>3. ld.zip = 0 => Aligned(ld.once)
  BY <1>1 DEF AlignInv
<1>4. HostContinues("CMD_DATA_PACKET_SIZE")' => FALSE
  BY <1>2 DEF HostContinues
<1>5. Streaming' => exp'.cmd = "CMD_DATA"
  BY DEF Streaming, HostContinues
<1>6. Streaming' => /\ Aligned(ld'.cur) /\ Aligned(tmpsize')
                    /\ ld'.zip = 0 => Aligned(ld'.once)
  BY <1>3, <1>5
<1>7. Aligned(ld'.cur) \/ tmpsize' = 0
  OBVIOUS
<1> QED BY <1>4, <1>6, <1>7 DEF AlignInv, Aligned

\* While packets are expected the stream is placed, whatever comes next.
LEMMA PacketFacts ==
  ASSUME IInv, PlaceInv, AlignInv, Accepts("CMD_DATA"), HostContinues("CMD_DATA")
  PROVE  /\ Aligned(ld.cur) /\ Aligned(tmpsize) /\ wpos = ld.cur + tmpsize
         /\ ~lost => AllPlaced
         /\ ld.zip = 0 => Aligned(ld.once)
<1>1. Loading /\ Streaming /\ ~halted /\ DataPhase
  BY DEF Loading, Streaming, DataPhase, Accepts, HostContinues, Inner
<1> QED BY <1>1 DEF PlaceInv, AlignInv

\* A raw packet, or a zip packet of raw data.
LEMMA RawAlign ==
  ASSUME IInv, PlaceInv, AlignInv, Download, Accepts("CMD_DATA"), HostContinues("CMD_DATA"),
         NEW n \in 0..exp.size, HostSends(n, FALSE), buf' = Staged(n),
         ThresholdFlush(Staged(n), tmpsize + n, threshold + 1), Consume,
         ld'.once = ld.once, exp'.cmd = "CMD_DATA" => Aligned(n)
  PROVE  AlignInv'
<1>1. /\ Aligned(ld.cur) /\ Aligned(tmpsize) /\ wpos = ld.cur + tmpsize
      /\ ~lost => AllPlaced
  BY PacketFacts
<1>2. n \in Nat /\ tmpsize + n <= TmpBufSize
  <2>1. exp.size \in Nat /\ tmpsize \in Nat /\ TmpBufSize \in Nat
    BY LoadFacts
  <2> QED BY <2>1, RoomForPacket
<1>3. /\ ~lost' => AllPlaced'
      /\ \/ ld'.cur = ld.cur /\ tmpsize' = tmpsize + n
         \/ ld'.cur = ld.cur + tmpsize + n /\ tmpsize' = 0
  BY <1>1, <1>2, RawPlaced
<1>4. ld.cur \in Nat /\ tmpsize \in Nat /\ exp' = ExpectAfter /\ ld'.zip = ld.zip
  BY LoadFacts, DownloadKeeps DEF Consume
<1>5. CASE ld'.cur = ld.cur /\ tmpsize' = tmpsize + n
  <2> DEFINE c == ld.cur  t == tmpsize + n
  <2>1. c \in Nat /\ t \in Nat /\ Aligned(c) /\ ld'.cur = c /\ tmpsize' = t
    BY <1>1, <1>2, <1>4, <1>5
  <2>2. exp'.cmd = "CMD_DATA" => Aligned(t)
    BY <1>1, <1>2, <1>4, AlignedSum
  <2> HIDE DEF c, t
  <2> QED BY <1>3, <1>4, <2>1, <2>2, AfterPacket
<1>6. CASE ld'.cur = ld.cur + tmpsize + n /\ tmpsize' = 0
  <2> DEFINE c == ld.cur + tmpsize + n
  <2>1. c \in Nat /\ ld'.cur = c
    BY <1>2, <1>4, <1>6
  <2>2. exp'.cmd = "CMD_DATA" => Aligned(c)
    <3>1. ld.cur + tmpsize \in Nat /\ Aligned(ld.cur + tmpsize)
      BY <1>1, <1>4, AlignedSum
    <3> QED BY <1>2, <3>1, AlignedSum
  <2>3. Aligned(0)
    BY BlkSizeAssumption, ModSmall DEF Aligned
  <2> HIDE DEF c
  <2> QED BY <1>3, <1>4, <1>6, <2>1, <2>2, <2>3, AfterPacket
<1> QED BY <1>3, <1>5, <1>6

\* A raw packet after which another one is due is as long as announced.
LEMMA WholePacket ==
  ASSUME IInv, PlaceInv, AlignInv, Accepts("CMD_DATA"), HostContinues("CMD_DATA"),
         ld.zip = 0, exp' = ExpectAfter, exp'.cmd = "CMD_DATA"
  PROVE  Aligned(exp.size)
<1>1. /\ rest = left /\ left > 0 /\ exp.size = (IF left < ld.once THEN left ELSE ld.once)
      /\ left \in Int /\ rest \in Nat /\ U64 \in Nat \ {0}
  BY WidthAssumption
     DEF IInv, CountInv, CountdownAgrees, TypeOK, Accepts, HostContinues
<1>2. Aligned(ld.once)
  BY PacketFacts
<1>3. CASE left < ld.once
  <2>1. rest - exp.size = 0
    BY <1>1, <1>3
  <2>2. RestAfter = 0
    <3>1. 0 % U64 = 0
      BY <1>1, ModSmall
    <3> QED BY <2>1, <3>1 DEF RestAfter
  <2>3. exp.size \in Nat /\ ~(0 > exp.size)
    BY <1>1, <1>3
  <2> QED BY <2>2, <2>3 DEF ExpectAfter
<1> QED BY <1>1, <1>2, <1>3

\* A fill chunk, when the loop that writes it ends.
LEMMA FillAlign ==
  ASSUME WholeFills, IInv, PlaceInv, AlignInv, NEW n \in FillLens, DataZipFill(n), ~FillSpins(n)
  PROVE  AlignInv'
<1> DEFINE m == n * WordSize  st == ld.cur + tmpsize
           fill == [i \in Addr |-> FillUnit(img)]
<1>1. m \in Nat /\ FillBytes(n) = m /\ Aligned(m)
  BY FillIs DEF WholeFills
<1>2. /\ Accepts("CMD_DATA") /\ HostContinues("CMD_DATA") /\ exp' = ExpectAfter
      /\ ld' = [ld EXCEPT !.cur = @ + tmpsize + FillBytes(n)] /\ tmpsize' = 0
      /\ HostSends(m, TRUE)
  BY DEF DataZipFill, Consume
<1>3. PICK w1 \in flashex_write(flash, ld.cur, buf, tmpsize) :
        \E w2 \in flashex_write(w1.mem, st, fill, FillBytes(n)) :
          flash' = w2.mem /\ lost' = (lost \/ ~w1.ok \/ ~w2.ok)
  BY DEF DataZipFill
<1>4. PICK w2 \in flashex_write(w1.mem, st, fill, m) :
        flash' = w2.mem /\ lost' = (lost \/ ~w1.ok \/ ~w2.ok)
  BY <1>1, <1>3
<1>5. /\ Aligned(ld.cur) /\ Aligned(tmpsize) /\ wpos = st
      /\ ~lost => AllPlaced
  BY <1>2, PacketFacts
<1>6. /\ ld \in LoaderSet /\ ld.cur \in Nat /\ tmpsize \in Nat /\ st \in Nat /\ wpos \in Nat
      /\ FlashSize \in Nat
  BY LoadFacts, FlashSizeAssumption
<1>7. Aligned(st)
  BY <1>5, <1>6, AlignedSum
<1> HIDE DEF m
<1>8. /\ ld'.cur = ld.cur + tmpsize + m /\ ld'.zip = ld.zip /\ ld'.once = ld.once
      /\ ld.cur + tmpsize + m \in Nat
  BY <1>1, <1>2, <1>6 DEF LoaderSet
<1> HIDE DEF st, fill
<1>9. ASSUME NEW a \in Addr, w2.ok
      PROVE  /\ a < st => w2.mem[a] = w1.mem[a]
             /\ st <= a /\ a < st + m => w2.mem[a] = fill[a - st]
  <2> DEFINE mem == w1.mem
  <2>1. w2 \in flashex_write(mem, st, fill, m)
    BY <1>4
  <2> HIDE DEF mem
  <2>2. /\ a < st => w2.mem[a] = mem[a]
        /\ st <= a /\ a < st + m => w2.mem[a] = fill[a - st]
    BY <1>1, <1>6, <1>7, <1>9, <2>1, WriteOut
  <2> QED BY <2>2 DEF mem
<1>10. ASSUME ~lost' PROVE AllPlaced'
  <2>1. ~lost /\ w1.ok /\ w2.ok
    BY <1>3, <1>4, <1>10, WriteCases
  <2>2. \A a \in Addr : a < wpos => flash'[a] = w1.mem[a]
    BY <1>4, <1>5, <1>9, <2>1
  <2>3. AllPlaced
    BY <1>5, <2>1
  <2>4. ASSUME NEW a \in Addr
        PROVE  \/ want'[a] = want[a] /\ (wpos <= a /\ a < wpos + m => want[a] = DontCare)
               \/ wpos <= a /\ a < wpos + m /\ flash'[a] = want'[a]
    <3>1. want'[a] = IF wpos <= a /\ a < wpos + m THEN FillUnit(img) ELSE want[a]
      BY <1>2 DEF HostSends
    <3>2. CASE wpos <= a /\ a < wpos + m
      <4>1. a \in Nat /\ a < FlashSize
        BY <1>6 DEF Addr
      <4>2. a - st \in Addr
        BY <1>5, <1>6, <3>2, <4>1 DEF Addr
      <4>3. fill[a - st] = FillUnit(img)
        BY <4>2 DEF fill
      <4> QED BY <1>4, <1>5, <1>9, <2>1, <3>1, <3>2, <4>3
    <3> QED BY <3>1, <3>2
  <2> QED BY <1>1, <1>2, <1>5, <1>8, <2>1, <2>2, <2>3, <2>4, ChunkPlaced DEF st
<1> DEFINE c == ld.cur + tmpsize + m
<1>11. c \in Nat /\ ld'.cur = c
  BY <1>8
<1>12. Aligned(c)
  <2>1. c = st + m
    BY <1>1, <1>6 DEF st
  <2> QED BY <1>1, <1>6, <1>7, <2>1, AlignedSum
<1>13. Aligned(0)
  BY BlkSizeAssumption, ModSmall DEF Aligned
<1> HIDE DEF c
<1> QED BY <1>2, <1>8, <1>10, <1>11, <1>12, <1>13, AfterPacket

\* A region that is skipped, whole blocks long.
LEMMA SkipAlign ==
  ASSUME IInv, PlaceInv, AlignInv, NEW n \in SkipLens, DataZipSkip(n), Aligned(n)
  PROVE  AlignInv'
<1>1. n \in Nat
  BY LensAssumption
<1>2. /\ Accepts("CMD_DATA") /\ HostContinues("CMD_DATA") /\ exp' = ExpectAfter
      /\ ld' = [ld EXCEPT !.cur = @ + tmpsize + n] /\ tmpsize' = 0 /\ want' = want
  BY DEF DataZipSkip, Consume
<1>3. PICK w \in flashex_write(flash, ld.cur, buf, tmpsize) :
        flash' = w.mem /\ lost' = (lost \/ ~w.ok)
  BY DEF DataZipSkip
<1>4. /\ Aligned(ld.cur) /\ Aligned(tmpsize) /\ wpos = ld.cur + tmpsize
      /\ ~lost => AllPlaced
  BY <1>2, PacketFacts
<1>5. ld \in LoaderSet /\ ld.cur \in Nat /\ tmpsize \in Nat /\ wpos \in Nat /\ Addr \subseteq Nat
  BY LoadFacts
<1>6. /\ ld'.cur = ld.cur + tmpsize + n /\ ld'.zip = ld.zip /\ ld'.once = ld.once
      /\ ld.cur + tmpsize + n \in Nat
  BY <1>1, <1>2, <1>5 DEF LoaderSet
<1>7. ASSUME ~lost' PROVE AllPlaced'
  <2>1. AllPlaced /\ w.ok
    BY <1>3, <1>4, <1>7, WriteCases
  <2>2. ASSUME NEW a \in Addr, wpos <= a PROVE want[a] = DontCare
    <3>1. a \in Nat /\ ~(a < ld.cur) /\ ~(a - ld.cur < tmpsize)
      BY <1>4, <1>5, <2>2
    <3> QED BY <2>1, <3>1 DEF AllPlaced, Placed
  <2>3. \A a \in Addr : want'[a] = want[a] /\ (wpos <= a /\ a < wpos + n => want[a] = DontCare)
    BY <1>2, <2>2
  <2>4. \A a \in Addr : a < wpos => flash'[a] = w.mem[a]
    BY <1>3
  <2> QED BY <1>1, <1>2, <1>4, <1>6, <2>1, <2>3, <2>4, ChunkPlaced
<1> DEFINE c == ld.cur + tmpsize + n
<1>8. c \in Nat /\ ld'.cur = c
  BY <1>6
<1>9. Aligned(c)
  <2>1. ld.cur + tmpsize \in Nat /\ Aligned(ld.cur + tmpsize)
    BY <1>4, <1>5, AlignedSum
  <2> QED BY <1>1, <2>1, AlignedSum
<1>10. Aligned(0)
  BY BlkSizeAssumption, ModSmall DEF Aligned
<1> HIDE DEF c
<1> QED BY <1>2, <1>6, <1>7, <1>8, <1>9, <1>10, AfterPacket

\* The commands of a download.
LEMMA DownloadAlign ==
  ASSUME WholeFills, IInv, PlaceInv, AlignInv, Download
  PROVE  AlignInv'
<1>1. /\ ld \in LoaderSet /\ ld.cur \in Nat /\ tmpsize \in Nat /\ wpos \in Nat
      /\ exp.size \in Nat /\ TmpBufSize \in Nat /\ HdrSize \in Nat
  BY LoadFacts, PackAssumption
<1>2. Aligned(0)
  BY BlkSizeAssumption, ModSmall DEF Aligned
<1>3. ASSUME halted' \/ ~exp'.flag PROVE AlignInv'
  BY <1>3, NotLoading DEF Loading
<1>4. ASSUME NEW n \in ImgLens, ProgDevEndAddr(n) PROVE AlignInv'
  <2>1. /\ Aligned(ld.start) /\ ld' = [ld EXCEPT !.cur = ld.start]
        /\ exp' = expect_info(TRUE, "CMD_DATA_PACKET_SIZE", exp.size)
        /\ want' = [a \in Addr |-> DontCare]
    BY <1>4 DEF ProgDevEndAddr, PlaceInv
  <2>2. ld'.cur = ld.start /\ exp'.cmd = "CMD_DATA_PACKET_SIZE"
    BY <1>1, <2>1 DEF LoaderSet, expect_info
  <2>3. ~Streaming' /\ ~HostContinues("CMD_DATA_SYNC")' /\ ~DataPhase'
    BY <2>2 DEF Streaming, HostContinues, DataPhase
  <2>4. Aligned(ld'.cur) /\ \A a \in Addr : want'[a] = DontCare
    BY <2>1, <2>2
  <2> QED BY <2>3, <2>4 DEF AlignInv, Aligned
<1>5. ASSUME NEW n \in PktSizes, DataPacketSize(n) PROVE AlignInv'
  <2>1. /\ Loading /\ ~halted /\ HostContinues("CMD_DATA_PACKET_SIZE") /\ tmpsize' = tmpsize
        /\ want' = want /\ HostPacket(n)
        /\ ld' = [ld EXCEPT !.once = n] /\ exp' = expect_info(TRUE, "CMD_DATA", n)
    BY <1>5 DEF DataPacketSize, Accepts, HostContinues, Loading, Inner, image
  <2>2. ld'.cur = ld.cur /\ ld'.zip = ld.zip /\ ld'.once = n /\ exp'.cmd = "CMD_DATA"
    BY <1>1, <2>1 DEF LoaderSet, expect_info
  <2>3. ~HostContinues("CMD_DATA_PACKET_SIZE")' /\ ~HostContinues("CMD_DATA_SYNC")'
    BY <2>2 DEF HostContinues
  <2>4. tmpsize = 0
    BY <2>1 DEF IInv, StageInv, NothingLeftStaged, DataPhase, HostContinues
  <2>5. Aligned(ld.cur) /\ \A a \in Addr : want[a] = DontCare
    BY <2>1 DEF AlignInv
  <2>6. AllPlaced'
    BY <2>1, <2>5 DEF AllPlaced
  <2>7. Aligned(ld'.cur) /\ Aligned(tmpsize') /\ (ld'.zip = 0 => Aligned(ld'.once))
    BY <1>2, <2>1, <2>2, <2>4, <2>5 DEF HostPacket, Aligned
  <2> QED BY <2>3, <2>6, <2>7 DEF AlignInv, Aligned
<1>6. CASE DataRaw
  <2> DEFINE n == exp.size
  <2>1. /\ Accepts("CMD_DATA") /\ HostContinues("CMD_DATA") /\ ld.zip = 0
        /\ HostSends(n, FALSE) /\ buf' = Staged(n)
        /\ ThresholdFlush(Staged(n), tmpsize + n, threshold + 1) /\ Consume
        /\ exp' = ExpectAfter
    BY <1>6 DEF DataRaw, Consume
  <2>2. exp'.cmd = "CMD_DATA" => Aligned(n)
    BY <2>1, WholePacket
  <2>3. n \in 0..exp.size
    BY <1>1
  <2>4. ld'.once = ld.once
    BY <1>1, <2>1 DEF ThresholdFlush, LoaderSet
  <2> HIDE DEF n
  <2> QED BY <2>1, <2>2, <2>3, <2>4, RawAlign
<1>7. ASSUME NEW n \in 0..TmpBufSize, DataZipRaw(n) PROVE AlignInv'
  <2>1. /\ Accepts("CMD_DATA") /\ HostContinues("CMD_DATA")
        /\ HostSends(n, FALSE) /\ buf' = Staged(n)
        /\ ThresholdFlush(Staged(n), tmpsize + n, threshold + 1) /\ Consume
        /\ Aligned(n) /\ n <= exp.size - HdrSize
    BY <1>7 DEF DataZipRaw, HostChunk, Aligned
  <2>2. n \in 0..exp.size
    BY <1>1, <2>1
  <2>3. ld'.once = ld.once
    BY <1>1, <2>1 DEF ThresholdFlush, LoaderSet
  <2> QED BY <2>1, <2>2, <2>3, RawAlign
<1>8. ASSUME NEW n \in FillLens, DataZipFill(n) PROVE AlignInv'
  BY <1>3, <1>8, FillAlign DEF DataZipFill
<1>9. ASSUME NEW n \in SkipLens, DataZipSkip(n) PROVE AlignInv'
  BY <1>3, <1>9, SkipAlign DEF DataZipSkip, Aligned
<1>10. CASE DataIgnored
  <2> DEFINE c == ld.cur  t == tmpsize
  <2>1. /\ Accepts("CMD_DATA") /\ HostContinues("CMD_DATA") /\ exp' = ExpectAfter
        /\ UNCHANGED <<ld, buf, tmpsize, flash, want, lost>>
    BY <1>10 DEF DataIgnored, Consume
  <2>2. /\ Aligned(c) /\ Aligned(t) /\ c \in Nat /\ t \in Nat /\ ld'.cur = c /\ tmpsize' = t
        /\ ld'.zip = ld.zip /\ ld'.once = ld.once
    BY <1>1, <2>1, PacketFacts
  <2>3. ~lost' => AllPlaced'
    BY <2>1, PacketFacts DEF AllPlaced, Placed
  <2> HIDE DEF c, t
  <2> QED BY <2>1, <2>2, <2>3, AfterPacket
<1>11. CASE DataSync
  <2>1. PICK w \in flashex_write(flash, ld.cur, buf, tmpsize) :
          /\ halted' = ~w.ok
          /\ w.ok => exp' = expect_info(FALSE, "CMD_LINK_EST", DefPackLen)
    BY <1>11 DEF DataSync
  <2>2. CASE w.ok = TRUE
    BY <1>3, <2>1, <2>2 DEF expect_info
  <2>3. CASE w.ok = FALSE
    BY <1>3, <2>1, <2>3
  <2>4. w.ok = TRUE \/ w.ok = FALSE
    BY <1>1, WriteCases
  <2> QED BY <2>2, <2>3, <2>4
<1>12. ASSUME NEW n \in 0..TmpBufSize, DataZipOdd(n) PROVE AlignInv'
  BY <1>3, <1>12 DEF DataZipOdd
<1> QED BY <1>4, <1>5, <1>6, <1>7, <1>8, <1>9, <1>10, <1>11, <1>12 DEF Download

\* The invariant of what has been written and staged.
LEMMA AlignInvariant ==
  ASSUME WholeFills
  PROVE  Spec => []AlignInv
<1>1. ASSUME IInv, UpInv, PlaceInv, AlignInv, [Next]_vars PROVE AlignInv'
  <2>1. ASSUME UNCHANGED <<exp, ld, buf, tmpsize, flash, wpos, want, lost>>, halted => halted'
        PROVE  AlignInv'
    BY <1>1, <2>1 DEF AlignInv, AllPlaced, Placed, Streaming, HostContinues, DataPhase, Aligned,
                      IInv, TypeOK
  <2>2. CASE UNCHANGED vars
    BY <2>1, <2>2 DEF vars, staging, image
  <2>3. CASE Quiet \/ Erase \/ Upload \/ Hang
    BY <1>1, <2>1, <2>3, OutsideLoad, NotLoading
  <2> QED BY <1>1, <2>2, <2>3, DownloadAlign DEF Next
<1>2. IInv /\ UpInv /\ PlaceInv /\ AlignInv /\ [Next]_vars => AlignInv'
  BY <1>1
<1> QED BY <1>2, InitAlign, LoaderInvariant, UploadsInvariant, PlaceInvariant, PTL DEF Spec

\* As long as every write has succeeded, each unit that the host has sent is on
\* the device below cur_addr, or staged at its offset from cur_addr.
THEOREM StreamPlaced ==
  ASSUME WholeFills
  PROVE  Spec => []StreamIsPlaced
<1>1. IInv /\ PlaceInv /\ AlignInv => StreamIsPlaced
  BY DEF StreamIsPlaced, PlaceInv, AlignInv, AllPlaced, Loading, DataPhase, Inner
<1> QED BY <1>1, LoaderInvariant, PlaceInvariant, AlignInvariant, PTL

\* A CMD_SUCCESS for the CMD_DATA_SYNC that ends a download means that, unless
\* a write has failed, the device holds every unit of the image: only the turn
\* that takes the CMD_DATA_SYNC can answer so, and it writes what is staged.
THEOREM SyncOnFlash ==
  ASSUME WholeFills
  PROVE  Spec => SyncMeansOnFlash
<1> DEFINE Case == HostContinues("CMD_DATA_SYNC") /\ reply'.is = "CMD_SUCCESS" /\ ~lost'
           Held == \A a \in Addr : want[a] # DontCare => flash'[a] = want[a]
<1>1. ASSUME IInv, UpInv, PlaceInv, AlignInv, Case, DataSync PROVE Held
  <2>1. PICK w \in flashex_write(flash, ld.cur, buf, tmpsize) :
          flash' = w.mem /\ lost' = (lost \/ ~w.ok)
    BY <1>1 DEF DataSync
  <2>2. ~halted
    BY <1>1 DEF DataSync, Accepts
  <2>3. ld.cur \in Nat /\ tmpsize \in Nat
    BY <1>1, LoadFacts
  <2>4. ~lost /\ w.ok
    BY <1>1, <2>1, <2>3, WriteCases
  <2>5. AllPlaced /\ (Aligned(ld.cur) \/ tmpsize = 0)
    BY <1>1, <2>2, <2>4 DEF AlignInv, DataPhase, HostContinues
  <2>6. \A a \in Addr :
          /\ a < ld.cur => w.mem[a] = flash[a]
          /\ ld.cur <= a /\ a < ld.cur + tmpsize => w.mem[a] = buf[a - ld.cur]
    BY <1>1, <2>4, <2>5, FlushedOut
  <2>7. ASSUME NEW a \in Addr, want[a] # DontCare PROVE flash'[a] = want[a]
    <3>1. Placed(a) /\ a \in Nat
      BY <1>1, <2>5, <2>7, LoadFacts DEF AllPlaced
    <3>2. CASE a < ld.cur
      BY <2>1, <2>6, <3>1, <3>2 DEF Placed
    <3>3. CASE ~(a < ld.cur)
      <4>1. ld.cur <= a /\ a < ld.cur + tmpsize /\ buf[a - ld.cur] = want[a]
        BY <2>3, <3>1, <3>3 DEF Placed
      <4> QED BY <2>1, <2>6, <4>1
    <3> QED BY <3>2, <3>3
  <2> QED BY <2>7
<1>2. ASSUME IInv, UpInv, PlaceInv, AlignInv, [Next]_vars, Case, ~UNCHANGED vars PROVE DataSync
  <2>1. exp.flag /\ exp.cmd = "CMD_DATA_SYNC"
    BY <1>2 DEF HostContinues
  <2>2. ASSUME NEW c \in Commands \ {"CMD_FAIL", "CMD_DATA_SYNC"}, Accepts(c) PROVE FALSE
    BY <2>1, <2>2, AcceptedIsExpected
  <2>3. ASSUME NEW c, c # "CMD_DATA_SYNC", HostContinues(c) PROVE FALSE
    BY <2>1, <2>3 DEF HostContinues
  <2>4. CASE Quiet
    <3>1. ASSUME NEW c, NEW e, NEW l, NEW r, QuietTurn(c, e, l, r) PROVE FALSE
      <4>1. c \in Commands \ {"CMD_FAIL", "CMD_DATA_SYNC"} /\ Accepts(c)
        BY <3>1 DEF QuietTurn, Turn, Apart, Inner
      <4> QED BY <2>2, <4>1
    <3>2. ~NotLinked /\ ~(\E c \in Commands : Rejected(c))
      BY <1>2 DEF NotLinked, Rejected, Answer
    <3>3. ~Reset
      BY <2>2 DEF Reset, Commands
    <3> QED BY <1>2, <2>4, <3>1, <3>2, <3>3, QuietShape
  <2>5. CASE Erase
    BY <2>2, <2>3, <2>5 DEF Erase, EraseSegEndAddr, EraseFlash, Commands
  <2>6. CASE Upload
    BY <2>2, <2>3, <2>6 DEF Upload, RvrsDwnld, UpldDataSize, UploadNext, UploadEnd, Commands
  <2>7. CASE Download
    BY <2>3, <2>7 DEF Download, ProgDevEndAddr, DataPacketSize, DataRaw, DataZipRaw, DataZipOdd,
                      DataZipFill, DataZipSkip, DataIgnored
  <2>8. CASE Hang
    BY <1>2, <2>8 DEF Hang
  <2> QED BY <1>2, <2>4, <2>5, <2>6, <2>7, <2>8 DEF Next
<1>3. IInv /\ UpInv /\ PlaceInv /\ AlignInv /\ [Next]_vars => [Case => Held]_vars
  <2> SUFFICES ASSUME IInv, UpInv, PlaceInv, AlignInv, [Next]_vars, Case, ~UNCHANGED vars
               PROVE  Held
    OBVIOUS
  <2> HIDE DEF Case, Held
  <2> QED BY <1>1, <1>2
<1>4. IInv /\ UpInv /\ PlaceInv /\ AlignInv /\ [Next]_vars
        => [HostContinues("CMD_DATA_SYNC") /\ reply'.is = "CMD_SUCCESS" /\ ~lost'
            => \A a \in Addr : want[a] # DontCare => flash'[a] = want[a]]_vars
  BY <1>3
<1> QED
  BY <1>4, LoaderInvariant, UploadsInvariant, PlaceInvariant, AlignInvariant, PTL
     DEF Spec, SyncMeansOnFlash

=============================================================================
