--------------------------- MODULE DdrConfigProofs ---------------------------
(***************************************************************************)
(* Theorems about DdrConfig: the partition with the training results is a  *)
(* store that changes as a whole, memory runs on one training, and a boot  *)
(* trains only when it has to.                                             *)
(*                                                                         *)
(* They hold for boards that use the first memory controller, as every     *)
(* board of include/configs does.  On a board that uses the second alone,  *)
(* its results would be saved over the register values.                    *)
(***************************************************************************)
EXTENDS DdrConfig, TLAPS, SequenceTheorems

FirstUsed == \A b \in Boards : 0 \in b

-----------------------------------------------------------------------------
(***************************************************************************)
(* The inductive invariant.                                                *)
(***************************************************************************)
P == Pieces(InitLen)
D == Pieces(DqsLen)

\* Everything was restored, and the memory will be set up without training.
AllRestored == at.pc = "config" /\ ~at.need

\* The header that a firmware's save writes.
HeaderOf(f) ==
  [magic |-> TRUE, checksum |-> f, total |-> Header.total, init |-> Header.init,
   init_len |-> Header.init_len, trn |-> Header.trn, trn_len |-> Header.trn_len]

\* The block before the area of controller u.
Before(u) == IF u = 0 THEN P ELSE P + D

InitTable == [1..P -> Cell]
DqsTable == [1..D -> Cell]
Headers == [magic : BOOLEAN, checksum : 0..MaxFw, total : Nat, init : Nat, init_len : Nat,
            trn : [{0, 1} -> Nat], trn_len : [{0, 1} -> Nat]]

Types ==
  /\ use \in Boards /\ fw \in 1..MaxFw
  /\ flash \in [hdr : Headers, blk : [Blocks -> Cell]] /\ hdr \in Headers
  /\ ram \in [init : InitTable, dqs : [{0, 1} -> DqsTable]]
  /\ at \in [pc : Pc, need : BOOLEAN, done : Nat]
  /\ tally \in [boots : 0..MaxBoots, reads : 0..MaxReadFaults, writes : 0..MaxWriteFaults]
  /\ past \in [doubt : SUBSET {"init", "dqs", "torn"}, good : 0..MaxFw,
               failed : BOOLEAN, over : BOOLEAN]

\* The header on flash is none or that of a firmware this board has had.
HeaderInv ==
  /\ flash.hdr = NoHeader \/ \E f \in 1..fw : flash.hdr = HeaderOf(f)
  /\ at.pc \in {"restore_init", "restore0", "restore1"} \/ AllRestored =>
       flash.hdr = HeaderOf(fw) /\ hdr = flash.hdr
  /\ at.pc = "save" => hdr = HeaderOf(fw)

\* The firmware whose save was completed last is that of the header.  A boot in which no
\* read has failed trains when the header is not this firmware's.
NeedInv ==
  /\ past.good # 0 => flash.hdr = HeaderOf(past.good)
  /\ at.pc = "check" => at.need
  /\ at.pc \in {"restore_init", "restore0", "restore1"} => ~at.need
  /\ at.pc = "train" => at.need
  /\ at.pc \in {"config", "train"} /\ at.need /\ ~past.failed => flash.hdr # HeaderOf(fw)
  /\ at.pc = "save" /\ ~past.over => flash.hdr # HeaderOf(fw)
  /\ at.pc # "off" => tally.boots > 0

\* The training g fills the areas that the header of this firmware describes.
Kept1(g) ==
  /\ \A i \in 1..P : flash.blk[i] = [table |-> 2, piece |-> i, fw |-> fw, gen |-> g]
  /\ \A u \in use : \A i \in 1..D :
       flash.blk[Before(u) + i] = [table |-> u, piece |-> i, fw |-> fw, gen |-> g]

\* What a header on flash vouches for is one training.
FlashInv ==
  past.doubt = {} /\ flash.hdr = HeaderOf(fw) /\ ~(at.pc = "save" /\ past.over) =>
    \E g \in 1..MaxBoots : Kept1(g)

\* Up to training, register values are this firmware's; what was restored is what is kept.
OwnInit == \A i \in 1..P : /\ ram.init[i].table = 2 /\ ram.init[i].piece = i
                           /\ ram.init[i].fw = fw
InitRestored == \A i \in 1..P : ram.init[i] = flash.blk[i]
DqsRestored(u) == u \in use => \A i \in 1..D : ram.dqs[u][i] = flash.blk[Before(u) + i]

RamInv ==
  past.doubt = {} =>
    /\ at.pc \in {"check", "restore_init", "restore0", "restore1", "config", "train"} => OwnInit
    /\ at.pc \in {"restore0", "restore1"} \/ AllRestored => InitRestored
    /\ at.pc = "restore1" \/ AllRestored => DqsRestored(0)
    /\ AllRestored => DqsRestored(1)
    /\ at.pc = "save" => OneTraining(ram.init, ram.dqs, tally.boots)
    /\ at.pc = "up" => \E g \in 1..MaxBoots : OneTraining(ram.init, ram.dqs, g)

\* The blocks of a save, and those it has written.
Saved == P + D + (IF 1 \in use THEN D ELSE 0)
SaveInv ==
  at.pc = "save" =>
    /\ at.done <= Saved
    /\ \A i \in 1..P : i <= at.done => flash.blk[i] = ram.init[i]
    /\ \A u \in use : \A i \in 1..D :
         Before(u) + i <= at.done => flash.blk[Before(u) + i] = ram.dqs[u][i]
    /\ past.good = 0

IInv == /\ Types /\ HeaderInv /\ NeedInv /\ FlashInv /\ RamInv /\ SaveInv

-----------------------------------------------------------------------------
(***************************************************************************)
(* Where the areas lie.                                                    *)
(***************************************************************************)

\* The boards.
LEMMA BoardIs ==
  FirstUsed /\ Types => 0 \in use /\ use \subseteq {0, 1} /\ (1 \in use => use = {0, 1})
                        /\ (1 \notin use => use = {0})
BY BoardAssumption DEF FirstUsed, Types

\* Rounding up to blocks.
LEMMA Rounding ==
  ASSUME NEW a \in Nat, NEW k \in Nat
  PROVE  /\ Pieces(a) \in Nat /\ ROUND(a, BlkSz) = Pieces(a) * BlkSz
         /\ ROUND(k * BlkSz + a, BlkSz) = (k + Pieces(a)) * BlkSz
         /\ (k * BlkSz) \div BlkSz = k /\ (k * BlkSz) % BlkSz = 0
         /\ a > 0 => Pieces(a) > 0
         /\ a \in 1..BlkSz => Pieces(a) = 1
<1> DEFINE p == (a + BlkSz - 1) \div BlkSz
<1> USE SizeAssumption
<1>1. p \in Nat
  OBVIOUS
<1>2. \A n \in Nat : (n * BlkSz) \div BlkSz = n /\ (n * BlkSz) % BlkSz = 0
  OBVIOUS
<1>3. ROUND(a, BlkSz) = p * BlkSz /\ Pieces(a) = p
  BY <1>1, <1>2 DEF ROUND, Pieces
<1>4. ROUND(k * BlkSz + a, BlkSz) = (k + p) * BlkSz
  <2>1. (k * BlkSz + (a + BlkSz - 1)) \div BlkSz = k + p
    OBVIOUS
  <2>2. k * BlkSz + a + BlkSz - 1 = k * BlkSz + (a + BlkSz - 1)
    OBVIOUS
  <2>3. QED
    BY <2>1, <2>2 DEF ROUND
<1>5. a > 0 => p > 0
  OBVIOUS
<1>6. a \in 1..BlkSz => p = 1
  OBVIOUS
<1>7. QED
  BY <1>1, <1>2, <1>3, <1>4, <1>5, <1>6

\* The tables are not empty, and the header takes one block.
LEMMA SizesOfTables == P \in Nat \ {0} /\ D \in Nat \ {0} /\ Pieces(HdrLen) = 1
<1>1. InitLen \in Nat /\ InitLen > 0 /\ DqsLen \in Nat /\ DqsLen > 0
      /\ HdrLen \in Nat /\ HdrLen \in 1..BlkSz /\ 0 \in Nat
  BY SizeAssumption
<1>2. \A a \in Nat : /\ Pieces(a) \in Nat /\ (a > 0 => Pieces(a) > 0)
                     /\ (a \in 1..BlkSz => Pieces(a) = 1)
  BY <1>1, Rounding
<1>3. QED
  BY <1>1, <1>2 DEF P, D

\* The header of a save: the areas follow each other, from block 1 on.
LEMMA HeaderIs ==
  FirstUsed /\ Types =>
    \A f \in Nat :
      HeaderOf(f) =
        [magic |-> TRUE, checksum |-> f,
         total |-> HdrLen + InitLen + DqsLen + (IF 1 \in use THEN DqsLen ELSE 0),
         init |-> BlkSz, init_len |-> InitLen,
         trn |-> [u \in {0, 1} |-> IF u \in use THEN (1 + Before(u)) * BlkSz ELSE 0],
         trn_len |-> [u \in {0, 1} |-> IF u \in use THEN DqsLen ELSE 0]]
<1> SUFFICES ASSUME FirstUsed, Types, NEW f \in Nat
             PROVE  HeaderOf(f) =
        [magic |-> TRUE, checksum |-> f,
         total |-> HdrLen + InitLen + DqsLen + (IF 1 \in use THEN DqsLen ELSE 0),
         init |-> BlkSz, init_len |-> InitLen,
         trn |-> [u \in {0, 1} |-> IF u \in use THEN (1 + Before(u)) * BlkSz ELSE 0],
         trn_len |-> [u \in {0, 1} |-> IF u \in use THEN DqsLen ELSE 0]]
  OBVIOUS
<1> DEFINE trn0 == ROUND(ROUND(HdrLen, BlkSz) + InitLen, BlkSz)
           trn1 == ROUND(trn0 + DqsLen, BlkSz)
<1>1. ROUND(HdrLen, BlkSz) = BlkSz
  BY Rounding, SizesOfTables, SizeAssumption
<1>2. trn0 = (1 + P) * BlkSz
  <2>1. trn0 = ROUND(1 * BlkSz + InitLen, BlkSz)
    BY <1>1, SizeAssumption
  <2>2. QED
    BY <2>1, Rounding, SizeAssumption DEF P
<1>3. trn1 = (1 + P + D) * BlkSz
  BY <1>2, Rounding, SizesOfTables, SizeAssumption DEF D
<1>4. Header = [magic |-> TRUE, checksum |-> fw,
                total |-> HdrLen + InitLen + DqsLen + (IF 1 \in use THEN DqsLen ELSE 0),
                init |-> BlkSz, init_len |-> InitLen,
                trn |-> [u \in {0, 1} |-> IF u = 0 THEN trn0 ELSE IF 1 \in use THEN trn1 ELSE 0],
                trn_len |-> [u \in {0, 1} |-> IF u \in use THEN DqsLen ELSE 0]]
  BY <1>1, BoardIs DEF Header
<1>5. [u \in {0, 1} |-> IF u = 0 THEN trn0 ELSE IF 1 \in use THEN trn1 ELSE 0]
        = [u \in {0, 1} |-> IF u \in use THEN (1 + Before(u)) * BlkSz ELSE 0]
  <2>1. (1 + Before(0)) * BlkSz = trn0 /\ (1 + Before(1)) * BlkSz = trn1
    BY <1>2, <1>3, SizesOfTables DEF Before
  <2>2. QED
    BY <2>1, BoardIs
<1>6. QED
  BY <1>4, <1>5 DEF HeaderOf

\* Offsets in blocks.
LEMMA OffsetsAre ==
  FirstUsed /\ Types =>
    \A f \in Nat :
      /\ HeaderOf(f).init \div BlkSz = 1
      /\ \A u \in use : /\ HeaderOf(f).trn[u] # 0
                        /\ HeaderOf(f).trn[u] \div BlkSz = 1 + Before(u)
      /\ 1 \notin use => HeaderOf(f).trn[1] = 0
<1> SUFFICES ASSUME FirstUsed, Types, NEW f \in Nat
             PROVE  /\ HeaderOf(f).init \div BlkSz = 1
                    /\ \A u \in use : /\ HeaderOf(f).trn[u] # 0
                                      /\ HeaderOf(f).trn[u] \div BlkSz = 1 + Before(u)
                    /\ 1 \notin use => HeaderOf(f).trn[1] = 0
  OBVIOUS
<1>1. /\ HeaderOf(f).init = BlkSz
      /\ HeaderOf(f).trn = [u \in {0, 1} |-> IF u \in use THEN (1 + Before(u)) * BlkSz ELSE 0]
  BY HeaderIs
<1>2. HeaderOf(f).init \div BlkSz = 1
  BY <1>1, SizeAssumption
<1>3. ASSUME NEW u \in use
      PROVE  HeaderOf(f).trn[u] # 0 /\ HeaderOf(f).trn[u] \div BlkSz = 1 + Before(u)
  <2>1. HeaderOf(f).trn[u] = (1 + Before(u)) * BlkSz
    BY <1>1, BoardIs
  <2>2. 1 + Before(u) \in Nat \ {0}
    BY SizesOfTables DEF Before
  <2>3. (1 + Before(u)) * BlkSz # 0
    BY <2>2, SizeAssumption
  <2>4. QED
    BY <2>1, <2>2, <2>3, Rounding
<1>4. 1 \notin use => HeaderOf(f).trn[1] = 0
  BY <1>1
<1>5. QED
  BY <1>2, <1>3, <1>4

\* The areas lie within the partition.
LEMMA BlocksAre ==
  FirstUsed /\ Types =>
    /\ \A i \in 1..P : i \in Blocks
    /\ \A u \in use : \A i \in 1..D : Before(u) + i \in Blocks
<1>1. Blocks = 1..(1 + P + 2 * D)
  BY SizesOfTables DEF Blocks, P, D
<1>2. QED
  BY <1>1, SizesOfTables DEF Before

\* The header of a save has its type, and is trained for no other firmware.
LEMMA HeaderTyped ==
  FirstUsed /\ Types =>
    /\ NoHeader \in Headers
    /\ \A f \in 0..MaxFw : HeaderOf(f) \in Headers /\ HeaderOf(f) # NoHeader
                           /\ HeaderOf(f).checksum = f
<1>1. NoHeader \in Headers
  BY BoundAssumption DEF NoHeader, Headers
<1>2. ASSUME FirstUsed, Types, NEW f \in 0..MaxFw
      PROVE  HeaderOf(f) \in Headers /\ HeaderOf(f) # NoHeader /\ HeaderOf(f).checksum = f
  <2>1. f \in Nat
    BY BoundAssumption
  <2>2. [u \in {0, 1} |-> IF u \in use THEN (1 + Before(u)) * BlkSz ELSE 0] \in [{0, 1} -> Nat]
    <3>1. \A u \in {0, 1} : 1 + Before(u) \in Nat
      BY SizesOfTables DEF Before
    <3>2. \A u \in {0, 1} : (1 + Before(u)) * BlkSz \in Nat
      BY <3>1, SizeAssumption
    <3>3. QED
      BY <3>2
  <2>3. QED
    <3>1. [u \in {0, 1} |-> IF u \in use THEN DqsLen ELSE 0] \in [{0, 1} -> Nat]
      BY SizeAssumption
    <3>2. HdrLen + InitLen + DqsLen + (IF 1 \in use THEN DqsLen ELSE 0) \in Nat
          /\ BlkSz \in Nat /\ InitLen \in Nat
      BY SizeAssumption
    <3>3. HeaderOf(f) =
            [magic |-> TRUE, checksum |-> f,
             total |-> HdrLen + InitLen + DqsLen + (IF 1 \in use THEN DqsLen ELSE 0),
             init |-> BlkSz, init_len |-> InitLen,
             trn |-> [u \in {0, 1} |-> IF u \in use THEN (1 + Before(u)) * BlkSz ELSE 0],
             trn_len |-> [u \in {0, 1} |-> IF u \in use THEN DqsLen ELSE 0]]
      BY <1>2, <2>1, HeaderIs
    <3>4. HeaderOf(f) \in Headers
      BY <1>2, <2>2, <3>1, <3>2, <3>3 DEF Headers
    <3>5. HeaderOf(f).magic = TRUE /\ HeaderOf(f).checksum = f
      BY <3>3
    <3>6. NoHeader.magic = FALSE
      BY DEF NoHeader
    <3>7. QED
      BY <3>4, <3>5, <3>6
<1>3. QED
  BY <1>1, <1>2

\* ddr_need_training accepts what a save of this firmware writes, and nothing else that
\* the partition may hold.
LEMMA NeedTrainingIs ==
  FirstUsed /\ Types =>
    \A f \in 1..fw : NeedTraining(NoHeader) /\ (NeedTraining(HeaderOf(f)) <=> f # fw)
<1> SUFFICES ASSUME FirstUsed, Types, NEW f \in 1..fw
             PROVE  NeedTraining(NoHeader) /\ (NeedTraining(HeaderOf(f)) <=> f # fw)
  OBVIOUS
<1>1. NeedTraining(NoHeader)
  BY DEF NeedTraining, NoHeader
<1>2. f \in Nat
  OBVIOUS
<1> DEFINE h == HeaderOf(f)
<1>3. /\ h.magic = TRUE /\ h.checksum = f /\ h.init = BlkSz /\ h.init_len = InitLen
      /\ h.total = HdrLen + InitLen + DqsLen + (IF 1 \in use THEN DqsLen ELSE 0)
      /\ h.trn = [u \in {0, 1} |-> IF u \in use THEN (1 + Before(u)) * BlkSz ELSE 0]
      /\ h.trn_len = [u \in {0, 1} |-> IF u \in use THEN DqsLen ELSE 0]
  BY <1>2, HeaderIs
<1>4. BlkSz % BlkSz = 0
  BY SizeAssumption
<1>5. \A u \in {0, 1} : h.trn[u] % BlkSz = 0
  <2>1. \A u \in {0, 1} : 1 + Before(u) \in Nat
    BY SizesOfTables DEF Before
  <2>2. \A u \in {0, 1} : ((1 + Before(u)) * BlkSz) % BlkSz = 0
    BY <2>1, Rounding
  <2>3. 0 % BlkSz = 0
    BY SizeAssumption
  <2>4. QED
    BY <1>3, <2>2, <2>3
<1>6. h.total = h.init_len + h.trn_len[0] + h.trn_len[1] + HdrLen
  BY <1>3, BoardIs, SizeAssumption
<1>7. \A u \in use : h.trn_len[u] = DqsLen
  BY <1>3, BoardIs
<1>8. NeedTraining(h) <=> f # fw
  BY <1>3, <1>4, <1>5, <1>6, <1>7 DEF NeedTraining
<1>9. QED
  BY <1>1, <1>8

\* It depends on the board only.
LEMMA SameHeaders == ASSUME use' = use PROVE \A f : HeaderOf(f)' = HeaderOf(f)
BY DEF HeaderOf, Header

\* The header of a save is that of the firmware that is running.
LEMMA HeaderIsOwn == Header = HeaderOf(fw)
BY DEF HeaderOf, Header

-----------------------------------------------------------------------------
(***************************************************************************)
(* What flash_block_read makes of a buffer.                                *)
(***************************************************************************)

\* A buffer without junk holds what it held or what was read; all that was to be read if
\* no error was reported.
LEMMA ReadIs ==
  ASSUME NEW len \in Nat \ {0}, NEW off, NEW k \in Nat, off \div BlkSz = k,
         NEW old \in [1..Pieces(len) -> Cell],
         \A i \in 1..Pieces(len) : flash.blk[k + i - 1] \in Cell,
         NEW r \in Read(old, off, len)
  PROVE  /\ r.buf \in [1..Pieces(len) -> Cell] /\ r.faults \in {0, 1}
         /\ ~HasJunk(r.buf) => \A i \in 1..Pieces(len) : r.buf[i] \in {old[i], flash.blk[k + i - 1]}
         /\ ~HasJunk(r.buf) /\ r.ret = 0 =>
              \A i \in 1..Pieces(len) : r.buf[i] = flash.blk[k + i - 1]
<1> DEFINE n == Pieces(len)
           w == Whole(len)
           full == Load(old, off, n)
<1>1. n \in Nat /\ w \in Nat
  <2>1. 0 \in Nat /\ len \in Nat /\ len \div BlkSz \in Nat
    BY SizeAssumption
  <2>2. QED
    BY <2>1, Rounding DEF Whole
<1>2. Junk \in Cell
  BY BoundAssumption DEF Junk, Cell
<1>3. \A m \in Int : /\ Load(old, off, m) \in [1..n -> Cell]
                     /\ \A i \in 1..n : Load(old, off, m)[i] =
                          IF i <= m THEN flash.blk[k + i - 1] ELSE old[i]
  BY <1>1 DEF Load
<1>4. \/ r.buf = full /\ r.ret = 0 /\ r.faults = 0
      \/ r.buf = [full EXCEPT ![w + 1] = Junk] /\ r.ret = 0 /\ r.faults = 1
      \/ \E m \in 0..(w - 1) : /\ r.buf = Load(old, off, m) /\ r.ret = -1 /\ r.faults = 1
      \/ \E m \in 0..(w - 1) : /\ r.buf = [Load(old, off, m) EXCEPT ![m + 1] = Junk]
                               /\ r.ret = -1 /\ r.faults = 1
  BY DEF Read
<1> HIDE DEF n, w
<1>5. CASE r.buf = full /\ r.ret = 0 /\ r.faults = 0
  BY <1>1, <1>3, <1>5 DEF n
<1>6. CASE r.buf = [full EXCEPT ![w + 1] = Junk] /\ r.ret = 0 /\ r.faults = 1
  <2>1. full \in [1..n -> Cell] /\ \A i \in 1..n : full[i] = flash.blk[k + i - 1]
    BY <1>1, <1>3
  <2>2. r.buf \in [1..n -> Cell]
    BY <1>2, <1>6, <2>1
  <2>3. CASE w + 1 \in 1..n
    <3>1. r.buf[w + 1] = Junk /\ w + 1 \in DOMAIN r.buf
      BY <1>6, <2>1, <2>3
    <3>2. HasJunk(r.buf)
      BY <3>1 DEF HasJunk
    <3>3. QED
      BY <1>6, <2>2, <3>2 DEF n
  <2>4. CASE w + 1 \notin 1..n
    <3>1. \A i \in 1..n : r.buf[i] = full[i]
      BY <1>6, <2>1, <2>4
    <3>2. QED
      BY <1>6, <2>1, <2>2, <3>1 DEF n
  <2>5. QED
    BY <2>3, <2>4
<1>7. CASE \E m \in 0..(w - 1) : /\ r.buf = Load(old, off, m) /\ r.ret = -1 /\ r.faults = 1
  BY <1>1, <1>3, <1>7 DEF n
<1>8. CASE \E m \in 0..(w - 1) : /\ r.buf = [Load(old, off, m) EXCEPT ![m + 1] = Junk]
                                 /\ r.ret = -1 /\ r.faults = 1
  <2>1. PICK m \in 0..(w - 1) : /\ r.buf = [Load(old, off, m) EXCEPT ![m + 1] = Junk]
                                /\ r.ret = -1 /\ r.faults = 1
    BY <1>8
  <2>2. /\ Load(old, off, m) \in [1..n -> Cell]
        /\ \A i \in 1..n : Load(old, off, m)[i] \in {old[i], flash.blk[k + i - 1]}
    BY <1>1, <1>3
  <2>3. r.buf \in [1..n -> Cell]
    BY <1>2, <2>1, <2>2
  <2>4. CASE m + 1 \in 1..n
    <3>1. r.buf[m + 1] = Junk /\ m + 1 \in DOMAIN r.buf
      BY <2>1, <2>2, <2>4
    <3>2. HasJunk(r.buf)
      BY <3>1 DEF HasJunk
    <3>3. QED
      BY <2>1, <2>3, <3>2 DEF n
  <2>5. CASE m + 1 \notin 1..n
    <3>1. \A i \in 1..n : r.buf[i] = Load(old, off, m)[i]
      BY <2>1, <2>2, <2>5
    <3>2. QED
      BY <2>1, <2>2, <2>3, <3>1 DEF n
  <2>6. QED
    BY <2>4, <2>5
<1>9. QED
  BY <1>4, <1>5, <1>6, <1>7, <1>8

-----------------------------------------------------------------------------
(***************************************************************************)
(* What ddr_save_config_data writes.                                       *)
(***************************************************************************)
\* A table is a sequence.
LEMMA TableIsSeq ==
  ASSUME NEW S, NEW n \in Nat, NEW f \in [1..n -> S] PROVE f \in Seq(S) /\ Len(f) = n
OBVIOUS

\* The elements of one sequence after another.
LEMMA ConcatIs ==
  ASSUME NEW S, NEW s \in Seq(S), NEW t \in Seq(S)
  PROVE  /\ s \o t \in Seq(S) /\ Len(s \o t) = Len(s) + Len(t)
         /\ \A i \in 1..Len(s) : (s \o t)[i] = s[i]
         /\ \A i \in 1..Len(t) : (s \o t)[Len(s) + i] = t[i]
OBVIOUS

\* The blocks of one area, and that they are numbered from the area's first on.
Writes == [to : Int, cell : Cell]
LEMMA AreaIs ==
  ASSUME NEW n \in Nat, NEW buf \in [1..n -> Cell], NEW off, NEW k \in Nat,
         off \div BlkSz = 1 + k
  PROVE  /\ Area(buf, off) \in Seq(Writes) /\ Len(Area(buf, off)) = n
         /\ \A i \in 1..n : Area(buf, off)[i] = [to |-> k + i, cell |-> buf[i]]
<1>1. Len(buf) = n
  BY TableIsSeq
<1>2. Area(buf, off) = [i \in 1..n |-> [to |-> off \div BlkSz + i - 1, cell |-> buf[i]]]
  BY <1>1 DEF Area
<1>3. \A i \in 1..n : off \div BlkSz + i - 1 = k + i
  OBVIOUS
<1>4. \A i \in 1..n : Area(buf, off)[i] = [to |-> k + i, cell |-> buf[i]]
  BY <1>2, <1>3
<1>5. Area(buf, off) \in [1..n -> Writes]
  BY <1>2, <1>3 DEF Writes
<1>6. QED
  BY <1>4, <1>5, TableIsSeq

\* The register values, the results of each controller in use, the header: block after
\* block.
LEMMA SaveListIs ==
  ASSUME FirstUsed, Types, hdr = HeaderOf(fw)
  PROVE  /\ Len(SaveList) = Saved + 1 /\ Saved \in Nat
         /\ \A i \in 1..P : SaveList[i] = [to |-> i, cell |-> ram.init[i]]
         /\ \A u \in use : \A i \in 1..D :
              SaveList[Before(u) + i] = [to |-> Before(u) + i, cell |-> ram.dqs[u][i]]
         /\ SaveList[Saved + 1].to = 0
         /\ \A k \in 1..Saved : \/ k \in 1..P
                                \/ \E u \in use : \E i \in 1..D : k = Before(u) + i
<1> DEFINE A == Area(ram.init, hdr.init)
           B(u) == Area(ram.dqs[u], hdr.trn[u])
           C == IF 1 \in use THEN B(1) ELSE <<>>
           Last == <<[to |-> 0, cell |-> Junk]>>
<1>1. ram.init \in [1..P -> Cell] /\ \A u \in {0, 1} : ram.dqs[u] \in [1..D -> Cell]
  BY DEF Types, InitTable, DqsTable
<1>2. /\ P \in Nat \ {0} /\ D \in Nat \ {0} /\ 0 \in use
      /\ Before(0) = P /\ Before(1) = P + D
  BY SizesOfTables, BoardIs DEF Before
<1>3. /\ hdr.init \div BlkSz = 1
      /\ \A u \in use : hdr.trn[u] # 0 /\ hdr.trn[u] \div BlkSz = 1 + Before(u)
      /\ 1 \notin use => hdr.trn[1] = 0
  <2>1. fw \in Nat
    BY DEF Types
  <2>2. QED
    BY <2>1, OffsetsAre
<1>4. SaveList = A \o B(0) \o C \o Last
  BY <1>2, <1>3 DEF SaveList
<1>5. /\ A \in Seq(Writes) /\ Len(A) = P
      /\ \A i \in 1..P : A[i] = [to |-> i, cell |-> ram.init[i]]
  <2>1. PICK k \in Nat : k = 0
    OBVIOUS
  <2>2. hdr.init \div BlkSz = 1 + k /\ P \in Nat
    BY <1>2, <1>3, <2>1
  <2>3. \A i \in 1..P : A[i] = [to |-> k + i, cell |-> ram.init[i]]
    BY <1>1, <2>2, AreaIs
  <2>4. A \in Seq(Writes) /\ Len(A) = P
    BY <1>1, <2>2, AreaIs
  <2>5. \A i \in 1..P : k + i = i
    BY <2>1
  <2>6. QED
    BY <2>3, <2>4, <2>5
<1>6. ASSUME NEW u \in use
      PROVE  /\ B(u) \in Seq(Writes) /\ Len(B(u)) = D
             /\ \A i \in 1..D : B(u)[i] = [to |-> Before(u) + i, cell |-> ram.dqs[u][i]]
  <2>1. u = 0 \/ u = 1
    BY BoardIs
  <2>2. hdr.trn[u] \div BlkSz = 1 + Before(u)
    BY <1>3
  <2>3. ram.dqs[u] \in [1..D -> Cell]
    BY <1>1, <2>1
  <2>4. QED
    <3>1. Before(u) \in Nat /\ D \in Nat
      BY <1>2, <2>1
    <3>2. QED
      BY <2>2, <2>3, <3>1, AreaIs
<1>7. C \in Seq(Writes) /\ Len(C) = (IF 1 \in use THEN D ELSE 0)
  BY <1>6
<1>8. Last \in Seq(Writes) /\ Len(Last) = 1 /\ Last[1].to = 0
  <2>1. Junk \in Cell
    BY BoundAssumption DEF Junk, Cell
  <2>2. QED
    BY <2>1 DEF Writes
<1>9. 1 \in use => C = B(1)
  OBVIOUS
<1>10. /\ B(0) \in Seq(Writes) /\ Len(B(0)) = D
       /\ \A i \in 1..D : B(0)[i] = [to |-> P + i, cell |-> ram.dqs[0][i]]
  BY <1>2, <1>6
<1>11. 1 \in use => \A i \in 1..D : C[i] = [to |-> P + D + i, cell |-> ram.dqs[1][i]]
  BY <1>2, <1>6, <1>9
<1> DEFINE B0 == B(0)
<1>12. SaveList = A \o B0 \o C \o Last /\ B0 \in Seq(Writes) /\ Len(B0) = D
       /\ \A i \in 1..D : B0[i] = [to |-> P + i, cell |-> ram.dqs[0][i]]
  BY <1>4, <1>10
<1> HIDE DEF A, B, B0, C, Last
<1> DEFINE AB == A \o B0
           ABC == AB \o C
<1>13. /\ AB \in Seq(Writes) /\ Len(AB) = P + D
       /\ \A i \in 1..P : AB[i] = A[i]
       /\ \A i \in 1..D : AB[P + i] = B0[i]
  <2>1. A \in Seq(Writes) /\ B0 \in Seq(Writes)
    BY <1>5, <1>12
  <2>2. /\ A \o B0 \in Seq(Writes) /\ Len(A \o B0) = Len(A) + Len(B0)
        /\ \A i \in 1..Len(A) : (A \o B0)[i] = A[i]
        /\ \A i \in 1..Len(B0) : (A \o B0)[Len(A) + i] = B0[i]
    BY <2>1, ConcatIs
  <2>3. Len(A) = P /\ Len(B0) = D
    BY <1>5, <1>12
  <2>4. QED
    BY <2>2, <2>3
<1> HIDE DEF AB
<1>14. Saved \in Nat /\ Saved = P + D + Len(C) /\ Len(C) \in Nat
  BY <1>2, <1>7 DEF Saved
<1>15. /\ ABC \in Seq(Writes) /\ Len(ABC) = Saved
       /\ \A i \in 1..(P + D) : ABC[i] = AB[i]
       /\ \A i \in 1..Len(C) : ABC[P + D + i] = C[i]
  <2>1. AB \in Seq(Writes) /\ C \in Seq(Writes)
    BY <1>7, <1>13
  <2>2. /\ AB \o C \in Seq(Writes) /\ Len(AB \o C) = Len(AB) + Len(C)
        /\ \A i \in 1..Len(AB) : (AB \o C)[i] = AB[i]
        /\ \A i \in 1..Len(C) : (AB \o C)[Len(AB) + i] = C[i]
    BY <2>1, ConcatIs
  <2>3. Len(AB) = P + D
    BY <1>13
  <2>4. QED
    BY <1>14, <2>2, <2>3
<1> HIDE DEF ABC
<1>16. /\ Len(SaveList) = Saved + 1
       /\ \A i \in 1..Saved : SaveList[i] = ABC[i]
       /\ SaveList[Saved + 1] = Last[1]
  <2>1. SaveList = ABC \o Last
    BY <1>12 DEF ABC, AB
  <2>2. /\ Len(ABC \o Last) = Len(ABC) + Len(Last)
        /\ \A i \in 1..Len(ABC) : (ABC \o Last)[i] = ABC[i]
        /\ \A i \in 1..Len(Last) : (ABC \o Last)[Len(ABC) + i] = Last[i]
    <3>1. ABC \in Seq(Writes) /\ Last \in Seq(Writes)
      BY <1>8, <1>15
    <3>2. QED
      BY <3>1, ConcatIs
  <2>3. Len(ABC) = Saved /\ Len(Last) = 1 /\ 1 \in 1..1
    BY <1>8, <1>15
  <2>4. QED
    BY <2>1, <2>2, <2>3
<1>17. \A i \in 1..P : SaveList[i] = [to |-> i, cell |-> ram.init[i]]
  <2>1. ASSUME NEW i \in 1..P PROVE i \in 1..Saved /\ i \in 1..(P + D)
    BY <1>2, <1>14
  <2>2. QED
    BY <1>5, <1>13, <1>15, <1>16, <2>1
<1>18. \A i \in 1..D : SaveList[Before(0) + i] = [to |-> Before(0) + i, cell |-> ram.dqs[0][i]]
  <2>1. ASSUME NEW i \in 1..D PROVE P + i \in 1..Saved /\ P + i \in 1..(P + D)
    BY <1>2, <1>14
  <2>2. ASSUME NEW i \in 1..D
        PROVE  SaveList[P + i] = [to |-> P + i, cell |-> ram.dqs[0][i]]
    <3>1. SaveList[P + i] = ABC[P + i]
      BY <1>16, <2>1
    <3>2. ABC[P + i] = AB[P + i]
      BY <1>15, <2>1
    <3>3. AB[P + i] = B0[i]
      BY <1>13
    <3>4. QED
      BY <1>12, <3>1, <3>2, <3>3
  <2>3. QED
    BY <1>2, <2>2
<1>19. 1 \in use => \A i \in 1..D :
         SaveList[Before(1) + i] = [to |-> Before(1) + i, cell |-> ram.dqs[1][i]]
  <2>1. ASSUME NEW i \in 1..D, 1 \in use PROVE P + D + i \in 1..Saved /\ i \in 1..Len(C)
    BY <1>2, <1>7, <1>14, <2>1
  <2>2. QED
    BY <1>2, <1>11, <1>15, <1>16, <2>1
<1>20. \A k \in 1..Saved : \/ k \in 1..P
                           \/ \E u \in use : \E i \in 1..D : k = Before(u) + i
  <2>1. SUFFICES ASSUME NEW k \in 1..Saved, k > P
                 PROVE  \E u \in use : \E i \in 1..D : k = Before(u) + i
    BY <1>2
  <2>2. CASE k <= P + D
    <3>1. k - P \in 1..D /\ k = Before(0) + (k - P)
      BY <1>2, <1>14, <2>1, <2>2
    <3>2. QED
      BY <1>2, <3>1
  <2>3. CASE k > P + D
    <3>1. 1 \in use /\ k - (P + D) \in 1..D /\ k = Before(1) + (k - (P + D))
      BY <1>2, <1>14, <2>1, <2>3 DEF Saved
    <3>2. QED
      BY <3>1
  <2>4. QED
    BY <1>2, <1>14, <2>2, <2>3
<1>21. \A u \in use : u = 0 \/ u = 1
  BY BoardIs
<1>22. QED
  BY <1>8, <1>14, <1>16, <1>17, <1>18, <1>19, <1>20, <1>21

-----------------------------------------------------------------------------
(***************************************************************************)
(* What the two kinds of areas are restored to.                            *)
(***************************************************************************)
\* Restoring the register values: they are what is kept, or the boot trains.
LEMMA InitReads ==
  ASSUME FirstUsed, IInv, at.pc = "restore_init", NEW r \in Read(ram.init, hdr.init, InitLen)
  PROVE  /\ r.buf \in InitTable /\ r.faults \in {0, 1}
         /\ ~HasJunk(r.buf) => \A i \in 1..P : r.buf[i] \in {ram.init[i], flash.blk[i]}
         /\ ~HasJunk(r.buf) /\ r.ret = 0 => \A i \in 1..P : r.buf[i] = flash.blk[i]
<1>1. hdr.init \div BlkSz = 1 /\ 1 \in Nat /\ InitLen \in Nat \ {0}
  <2>1. hdr = HeaderOf(fw) /\ fw \in Nat
    BY DEF IInv, Types, HeaderInv
  <2>2. QED
    BY <2>1, OffsetsAre, SizeAssumption DEF IInv
<1>2. ram.init \in [1..Pieces(InitLen) -> Cell]
  BY DEF IInv, Types, InitTable, P
<1>3. \A i \in 1..P : 1 + i - 1 = i
  BY SizesOfTables
<1>4. \A i \in 1..Pieces(InitLen) : flash.blk[1 + i - 1] \in Cell
  BY <1>3, BlocksAre DEF IInv, Types, P
<1>5. /\ r.buf \in [1..Pieces(InitLen) -> Cell] /\ r.faults \in {0, 1}
      /\ ~HasJunk(r.buf) =>
           \A i \in 1..Pieces(InitLen) : r.buf[i] \in {ram.init[i], flash.blk[1 + i - 1]}
      /\ ~HasJunk(r.buf) /\ r.ret = 0 =>
           \A i \in 1..Pieces(InitLen) : r.buf[i] = flash.blk[1 + i - 1]
  BY <1>1, <1>2, <1>4, ReadIs
<1>6. QED
  BY <1>3, <1>5 DEF InitTable, P

\* An area is read only for a controller in use.
LEMMA DqsReads ==
  ASSUME FirstUsed, IInv, NEW u \in {0, 1}, at.pc = RestorePc[u + 1]
  PROVE  /\ hdr.trn[u] # 0 <=> u \in use
         /\ u \in use =>
              \A r \in Read(ram.dqs[u], hdr.trn[u], DqsLen) :
                /\ r.buf \in DqsTable /\ r.faults \in {0, 1}
                /\ ~HasJunk(r.buf) /\ r.ret = 0 =>
                     \A i \in 1..D : r.buf[i] = flash.blk[Before(u) + i]
<1>1. hdr = HeaderOf(fw) /\ fw \in Nat
  <2>1. at.pc \in {"restore0", "restore1"}
    BY DEF RestorePc
  <2>2. QED
    BY <2>1 DEF IInv, Types, HeaderInv
<1>2. hdr.trn[u] # 0 <=> u \in use
  BY <1>1, OffsetsAre, BoardIs DEF IInv
<1>3. ASSUME u \in use, NEW r \in Read(ram.dqs[u], hdr.trn[u], DqsLen)
      PROVE  /\ r.buf \in DqsTable /\ r.faults \in {0, 1}
             /\ ~HasJunk(r.buf) /\ r.ret = 0 =>
                  \A i \in 1..D : r.buf[i] = flash.blk[Before(u) + i]
  <2>1. hdr.trn[u] \div BlkSz = 1 + Before(u)
    BY <1>1, <1>3, OffsetsAre DEF IInv
  <2>2. Before(u) \in Nat /\ 1 + Before(u) \in Nat /\ DqsLen \in Nat \ {0}
    BY SizesOfTables, SizeAssumption DEF Before
  <2>3. ram.dqs[u] \in [1..Pieces(DqsLen) -> Cell]
    BY DEF IInv, Types, DqsTable, D
  <2>4. \A i \in 1..D : 1 + Before(u) + i - 1 = Before(u) + i
    BY <2>2, SizesOfTables
  <2>5. \A i \in 1..Pieces(DqsLen) : flash.blk[1 + Before(u) + i - 1] \in Cell
    BY <1>3, <2>4, BlocksAre DEF IInv, Types, D
  <2>6. PICK k \in Nat : k = 1 + Before(u)
    BY <2>2
  <2> DEFINE old == ram.dqs[u]
             off == hdr.trn[u]
  <2>7. /\ off \div BlkSz = k /\ \A i \in 1..Pieces(DqsLen) : flash.blk[k + i - 1] \in Cell
        /\ old \in [1..Pieces(DqsLen) -> Cell] /\ r \in Read(old, off, DqsLen)
    BY <1>3, <2>1, <2>3, <2>5, <2>6
  <2> HIDE DEF old, off
  <2>8. /\ r.buf \in [1..Pieces(DqsLen) -> Cell] /\ r.faults \in {0, 1}
        /\ ~HasJunk(r.buf) /\ r.ret = 0 =>
             \A i \in 1..Pieces(DqsLen) : r.buf[i] = flash.blk[k + i - 1]
    BY <2>2, <2>7, ReadIs
  <2>9. QED
    BY <2>4, <2>6, <2>8 DEF DqsTable, D
<1>4. QED
  BY <1>2, <1>3

-----------------------------------------------------------------------------
(***************************************************************************)
(* Types.                                                                  *)
(***************************************************************************)
\* Every step keeps the types.
LEMMA TypesKept == ASSUME FirstUsed, IInv, [Next]_vars PROVE Types'
<1> USE DEF IInv, Types
<1>1. CASE Boot
  <2>1. use' \in Boards /\ fw' \in 1..MaxFw /\ flash' = flash
    BY <1>1 DEF Boot
  <2>2. ram' \in [init : InitTable, dqs : [{0, 1} -> DqsTable]]
    <3>1. \A t \in 0..2, len \in {InitLen, DqsLen} : Fresh(t, len) \in [1..Pieces(len) -> Cell]
      <4>1. \A i \in 1..P : i \in Nat
        BY SizesOfTables
      <4>2. \A i \in 1..D : i \in Nat
        BY SizesOfTables
      <4>3. fw' \in 0..MaxFw /\ 0 \in 0..MaxBoots
        BY <2>1, BoundAssumption
      <4>4. QED
        BY <4>1, <4>2, <4>3 DEF Fresh, Cell, P, D
    <3>2. Fresh(2, InitLen) \in InitTable /\ \A u \in {0, 1} : Fresh(u, DqsLen) \in DqsTable
      BY <3>1 DEF InitTable, DqsTable, P, D
    <3>3. QED
      BY <1>1, <3>2 DEF Boot
  <2>3. hdr' \in Headers
    BY <1>1, HeaderTyped DEF Boot
  <2>4. at' \in [pc : Pc, need : BOOLEAN, done : Nat]
    BY <1>1 DEF Boot, Pc
  <2>5. tally' \in [boots : 0..MaxBoots, reads : 0..MaxReadFaults, writes : 0..MaxWriteFaults]
    BY <1>1, BoundAssumption DEF Boot
  <2>6. past' \in [doubt : SUBSET {"init", "dqs", "torn"}, good : 0..MaxFw,
                   failed : BOOLEAN, over : BOOLEAN]
    BY <1>1 DEF Boot
  <2>7. QED
    BY <2>1, <2>2, <2>3, <2>4, <2>5, <2>6
<1>2. CASE CheckHeader
  <2>1. PICK bad \in BOOLEAN :
          /\ ReadInto([faults |-> IF bad THEN 1 ELSE 0])
          /\ hdr' = IF bad THEN NoHeader ELSE flash.hdr
          /\ past' = [past EXCEPT !.failed = bad]
    BY <1>2 DEF CheckHeader
  <2>2. hdr' \in Headers
    BY <2>1, HeaderTyped
  <2>3. at' \in [pc : Pc, need : BOOLEAN, done : Nat]
    BY <1>2 DEF CheckHeader, Pc
  <2>4. tally' \in [boots : 0..MaxBoots, reads : 0..MaxReadFaults, writes : 0..MaxWriteFaults]
    BY <2>1, FaultAssumption DEF ReadInto
  <2>5. QED
    BY <1>2, <2>1, <2>2, <2>3, <2>4 DEF CheckHeader
<1>3. CASE RestoreInit
  <2>1. PICK r \in Read(ram.init, hdr.init, InitLen) :
          /\ ReadInto(r) /\ ram' = [ram EXCEPT !.init = r.buf]
          /\ Restored(r, "restore0") /\ Doubts(r, "init")
    BY <1>3 DEF RestoreInit
  <2>2. r.buf \in InitTable /\ r.faults \in {0, 1}
    BY <1>3, InitReads DEF RestoreInit
  <2>3. tally' \in [boots : 0..MaxBoots, reads : 0..MaxReadFaults, writes : 0..MaxWriteFaults]
    BY <2>1, <2>2, FaultAssumption DEF ReadInto
  <2>4. at' \in [pc : Pc, need : BOOLEAN, done : Nat]
    BY <2>1 DEF Restored, Pc
  <2>5. past' \in [doubt : SUBSET {"init", "dqs", "torn"}, good : 0..MaxFw,
                   failed : BOOLEAN, over : BOOLEAN]
    <3>1. (past.failed \/ r.ret # 0) \in BOOLEAN
      OBVIOUS
    <3>2. QED
      BY <2>1, <3>1 DEF Doubts
  <2>6. ram' \in [init : InitTable, dqs : [{0, 1} -> DqsTable]]
    BY <2>1, <2>2
  <2>7. QED
    BY <1>3, <2>3, <2>4, <2>5, <2>6 DEF RestoreInit
<1>4. ASSUME NEW u \in {0, 1}, RestoreDqs(u) PROVE Types'
  <2>1. CASE hdr.trn[u] = 0
    <3>1. at' = [at EXCEPT !.pc = RestorePc[u + 2]] /\ UNCHANGED <<ram, tally, past>>
      BY <1>4, <2>1 DEF RestoreDqs
    <3>2. RestorePc[u + 2] \in Pc
      BY DEF RestorePc, Pc
    <3>3. at' \in [pc : Pc, need : BOOLEAN, done : Nat]
      BY <3>1, <3>2
    <3>4. QED
      BY <1>4, <3>1, <3>3 DEF RestoreDqs
  <2>2. CASE hdr.trn[u] # 0
    <3>1. PICK r \in Read(ram.dqs[u], hdr.trn[u], DqsLen) :
            /\ ReadInto(r) /\ ram' = [ram EXCEPT !.dqs[u] = r.buf]
            /\ Restored(r, RestorePc[u + 2])
            /\ IF r.ret = 0 THEN Doubts(r, "dqs") ELSE past' = [past EXCEPT !.failed = TRUE]
      BY <1>4, <2>2 DEF RestoreDqs
    <3>2. r.buf \in DqsTable /\ r.faults \in {0, 1}
      BY <1>4, <2>2, DqsReads DEF RestoreDqs
    <3>3. tally' \in [boots : 0..MaxBoots, reads : 0..MaxReadFaults, writes : 0..MaxWriteFaults]
      BY <3>1, <3>2, FaultAssumption DEF ReadInto
    <3>4. at' \in [pc : Pc, need : BOOLEAN, done : Nat]
      <4>1. RestorePc[u + 2] \in Pc /\ "config" \in Pc
        BY DEF RestorePc, Pc
      <4>2. \/ at' = [at EXCEPT !.pc = RestorePc[u + 2]]
            \/ at' = [at EXCEPT !.pc = "config", !.need = TRUE]
        BY <3>1, Zenon DEF Restored
      <4>3. QED
        BY <4>1, <4>2
    <3>5. past' \in [doubt : SUBSET {"init", "dqs", "torn"}, good : 0..MaxFw,
                     failed : BOOLEAN, over : BOOLEAN]
      <4>1. (past.failed \/ r.ret # 0) \in BOOLEAN
        OBVIOUS
      <4>2. CASE r.ret = 0
        <5>1. Doubts(r, "dqs")
          BY <3>1, <4>2
        <5>2. QED
          BY <4>1, <5>1 DEF Doubts
      <4>3. CASE r.ret # 0
        BY <3>1, <4>3
      <4>4. QED
        BY <4>2, <4>3
    <3>6. ram' \in [init : InitTable, dqs : [{0, 1} -> DqsTable]]
      BY <3>1, <3>2
    <3>7. QED
      BY <1>4, <3>3, <3>4, <3>5, <3>6 DEF RestoreDqs
  <2>3. QED
    BY <2>1, <2>2
<1>5. CASE Config
  BY <1>5 DEF Config, Pc
<1>6. CASE Train
  <2>1. TrainedInit \in InitTable
    <3>1. tally.boots \in 0..MaxBoots /\ ram.init \in [1..P -> Cell]
      BY DEF InitTable
    <3>2. \A c \in Cell : [c EXCEPT !.gen = tally.boots] \in Cell
      BY <3>1 DEF Cell
    <3>3. QED
      BY <3>1, <3>2 DEF TrainedInit, InitTable
  <2>2. \A u \in {0, 1} : TrainedDqs(u) \in DqsTable
    <3>1. tally.boots \in 0..MaxBoots /\ fw \in 0..MaxFw
          /\ \A u \in {0, 1} : ram.dqs[u] \in [1..D -> Cell]
      BY DEF DqsTable
    <3>2. \A i \in 1..D : i \in Nat
      BY SizesOfTables
    <3>3. QED
      BY <3>1, <3>2 DEF TrainedDqs, DqsTable, Cell
  <2>3. ram' \in [init : InitTable, dqs : [{0, 1} -> DqsTable]]
    BY <1>6, <2>1, <2>2 DEF Train
  <2>4. hdr' \in Headers
    BY <1>6, HeaderTyped, HeaderIsOwn DEF Train
  <2>5. at' \in [pc : Pc, need : BOOLEAN, done : Nat]
    BY <1>6 DEF Train, Pc
  <2>6. past' \in [doubt : SUBSET {"init", "dqs", "torn"}, good : 0..MaxFw,
                   failed : BOOLEAN, over : BOOLEAN]
    <3>1. (~NeedTraining(flash.hdr)) \in BOOLEAN /\ 0 \in 0..MaxFw
      BY BoundAssumption
    <3>2. QED
      BY <1>6, <3>1 DEF Train
  <2>7. QED
    BY <1>6, <2>3, <2>4, <2>5, <2>6 DEF Train
<1>7. CASE Save
  <2>1. flash' \in [hdr : Headers, blk : [Blocks -> Cell]]
    <3>1. CASE SaveList[at.done + 1].to = 0
      BY <1>7, <3>1 DEF Save
    <3>2. CASE SaveList[at.done + 1].to # 0
      <4>1. at.done + 1 \in 1..(Saved + 1) /\ hdr = HeaderOf(fw)
        BY <1>7, SaveListIs DEF Save, HeaderInv, SaveInv
      <4>2. at.done + 1 \in 1..Saved
        BY <3>2, <4>1, SaveListIs
      <4>3. SaveList[at.done + 1].cell \in Cell
        <5>1. ram.init \in [1..P -> Cell] /\ \A u \in use : ram.dqs[u] \in [1..D -> Cell]
          BY BoardIs DEF InitTable, DqsTable
        <5>2. CASE at.done + 1 \in 1..P
          <6>1. SaveList[at.done + 1] = [to |-> at.done + 1, cell |-> ram.init[at.done + 1]]
            BY <4>1, <5>2, SaveListIs
          <6>2. SaveList[at.done + 1].cell = ram.init[at.done + 1]
            BY <6>1
          <6>3. QED
            BY <5>1, <5>2, <6>2
        <5>3. CASE \E u \in use : \E i \in 1..D : at.done + 1 = Before(u) + i
          <6>1. PICK u \in use, i \in 1..D : at.done + 1 = Before(u) + i
            BY <5>3
          <6>2. SaveList[Before(u) + i] = [to |-> Before(u) + i, cell |-> ram.dqs[u][i]]
            BY <4>1, SaveListIs
          <6>3. SaveList[at.done + 1].cell = ram.dqs[u][i]
            BY <6>1, <6>2
          <6>4. ram.dqs[u] \in [1..D -> Cell]
            BY <5>1
          <6>5. ram.dqs[u][i] \in Cell
            BY <6>4
          <6>6. QED
            BY <6>3, <6>5
        <5>4. QED
          BY <4>1, <4>2, <5>2, <5>3, SaveListIs
      <4>4. flash' = [flash EXCEPT !.blk[SaveList[at.done + 1].to] = SaveList[at.done + 1].cell]
        BY <1>7, <3>2 DEF Save
      <4>5. QED
        BY <4>3, <4>4
    <3>3. QED
      BY <3>1, <3>2
  <2>2. at' \in [pc : Pc, need : BOOLEAN, done : Nat]
    <3>1. \/ at' = [at EXCEPT !.done = @ + 1, !.pc = "up"]
          \/ at' = [at EXCEPT !.done = @ + 1, !.pc = "save"]
      BY <1>7 DEF Save
    <3>2. at.done + 1 \in Nat /\ "up" \in Pc /\ "save" \in Pc
      BY DEF Pc
    <3>3. QED
      BY <3>1, <3>2
  <2>3. past' \in [doubt : SUBSET {"init", "dqs", "torn"}, good : 0..MaxFw,
                   failed : BOOLEAN, over : BOOLEAN]
    <3>1. fw \in 0..MaxFw
      OBVIOUS
    <3>2. \/ past' = [past EXCEPT !.good = fw]
          \/ past' = past
      BY <1>7 DEF Save
    <3>3. QED
      BY <3>1, <3>2
  <2>4. QED
    BY <1>7, <2>1, <2>2, <2>3 DEF Save
<1>8. CASE SaveFails
  BY <1>8, FaultAssumption DEF SaveFails, Torn, Pc
<1>9. CASE Off
  BY <1>9 DEF Off, Torn, Pc
<1>10. CASE UNCHANGED vars
  BY <1>10 DEF vars
<1>11. QED
  BY <1>1, <1>2, <1>3, <1>4, <1>5, <1>6, <1>7, <1>8, <1>9, <1>10 DEF Next, Step

-----------------------------------------------------------------------------
(***************************************************************************)
(* The steps of memctl_init.                                               *)
(***************************************************************************)

\* Headers of different firmware differ.
LEMMA HeadersDiffer ==
  FirstUsed /\ Types =>
    \A f, g \in 0..MaxFw : (HeaderOf(f) = HeaderOf(g) => f = g) /\ HeaderOf(f) # NoHeader
BY HeaderTyped

\* The header on flash is trusted exactly when it is that of this firmware.
LEMMA TrustedIs ==
  FirstUsed /\ Types /\ HeaderInv => (NeedTraining(flash.hdr) <=> flash.hdr # HeaderOf(fw))
<1> SUFFICES ASSUME FirstUsed, Types, HeaderInv
             PROVE  NeedTraining(flash.hdr) <=> flash.hdr # HeaderOf(fw)
  OBVIOUS
<1>1. fw \in 0..MaxFw /\ fw \in 1..fw
  BY DEF Types
<1>2. CASE flash.hdr = NoHeader
  BY <1>1, <1>2, HeadersDiffer, NeedTrainingIs
<1>3. ASSUME NEW f \in 1..fw, flash.hdr = HeaderOf(f)
      PROVE  NeedTraining(flash.hdr) <=> flash.hdr # HeaderOf(fw)
  <2>1. f \in 0..MaxFw
    BY <1>1, BoundAssumption DEF Types
  <2>2. HeaderOf(f) = HeaderOf(fw) <=> f = fw
    BY <1>1, <2>1, HeadersDiffer
  <2>3. QED
    BY <1>3, <2>2, NeedTrainingIs
<1>4. QED
  BY <1>2, <1>3 DEF HeaderInv

\* A boot vouches for nothing yet; newer firmware finds a header that is not its own.
LEMMA BootKeeps == ASSUME FirstUsed, IInv, Types', Boot PROVE IInv'
<1>1. /\ at.pc = "off" /\ at'.pc = "check" /\ at'.need = TRUE /\ fw' \in {fw, fw + 1}
      /\ use' = use /\ flash' = flash /\ tally'.boots = tally.boots + 1
      /\ past'.doubt = past.doubt /\ past'.good = past.good /\ past'.failed = FALSE
  BY DEF Boot, IInv, Types
<1>2. \A f : HeaderOf(f)' = HeaderOf(f)
  BY <1>1, SameHeaders
<1>3. fw \in 1..MaxFw /\ fw' \in 1..MaxFw
  BY DEF IInv, Types
<1>4. HeaderInv'
  <2>1. 1..fw \subseteq 1..fw'
    BY <1>1, <1>3
  <2>2. QED
    BY <1>1, <1>2, <2>1 DEF IInv, HeaderInv, AllRestored
<1>5. NeedInv'
  <2>1. tally'.boots > 0
    BY <1>1 DEF IInv, Types
  <2>2. QED
    BY <1>1, <1>2, <2>1 DEF IInv, NeedInv
<1>6. FlashInv'
  <2>1. CASE fw' = fw
    BY <1>1, <1>2, <2>1 DEF IInv, FlashInv, Kept1
  <2>2. CASE fw' = fw + 1
    <3>1. \A f \in 0..fw : HeaderOf(f) # HeaderOf(fw + 1) /\ HeaderOf(fw + 1) # NoHeader
      <4>1. fw + 1 \in 0..MaxFw /\ 0..fw \subseteq 0..MaxFw
        BY <1>3, <2>2, BoundAssumption
      <4>2. QED
        <5>1. \A f, g \in 0..MaxFw : (HeaderOf(f) = HeaderOf(g) => f = g) /\ HeaderOf(f) # NoHeader
          BY HeadersDiffer DEF IInv
        <5>2. \A f \in 0..fw : f \in 0..MaxFw /\ f # fw + 1
          BY <1>3, <4>1
        <5>3. QED
          BY <4>1, <5>1, <5>2
    <3>2. flash'.hdr # HeaderOf(fw + 1)
      BY <1>1, <1>3, <3>1 DEF IInv, HeaderInv
    <3>3. QED
      BY <1>2, <2>2, <3>2 DEF FlashInv
  <2>3. QED
    BY <1>1, <2>1, <2>2
<1>7. RamInv'
  <2>1. ram'.init = Fresh(2, InitLen)
    BY DEF Boot
  <2>2. \A i \in 1..P : ram'.init[i] = [table |-> 2, piece |-> i, fw |-> fw', gen |-> 0]
    BY <2>1 DEF Fresh, P
  <2>3. OwnInit'
    <3>1. ASSUME NEW i \in 1..P
          PROVE  ram'.init[i].table = 2 /\ ram'.init[i].piece = i /\ ram'.init[i].fw = fw'
      <4>1. ram'.init[i] = [table |-> 2, piece |-> i, fw |-> fw', gen |-> 0]
        BY <2>2
      <4>2. QED
        BY <4>1
    <3>2. QED
      BY <3>1 DEF OwnInit
  <2>4. QED
    BY <1>1, <2>3 DEF RamInv, AllRestored
<1>8. SaveInv'
  BY <1>1 DEF SaveInv
<1>9. QED
  BY <1>4, <1>5, <1>6, <1>7, <1>8 DEF IInv

\* Either the header is this firmware's, or the boot will train.
LEMMA CheckHeaderKeeps == ASSUME FirstUsed, IInv, Types', CheckHeader PROVE IInv'
<1>1. PICK bad \in BOOLEAN : /\ hdr' = IF bad THEN NoHeader ELSE flash.hdr
                             /\ past' = [past EXCEPT !.failed = bad]
  BY DEF CheckHeader
<1>2. /\ at.pc = "check" /\ use' = use /\ fw' = fw /\ flash' = flash /\ ram' = ram
      /\ tally'.boots = tally.boots /\ at.need = TRUE
      /\ past'.doubt = past.doubt /\ past'.good = past.good /\ past'.failed = bad
  BY <1>1 DEF CheckHeader, ReadInto, IInv, Types, NeedInv
<1>3. \A f : HeaderOf(f)' = HeaderOf(f)
  BY <1>2, SameHeaders
<1>5. \/ /\ at'.pc = "config" /\ at'.need = TRUE
         /\ bad \/ flash.hdr # HeaderOf(fw)
      \/ /\ at'.pc = "restore_init" /\ at'.need = FALSE
         /\ ~bad /\ hdr' = flash.hdr /\ flash.hdr = HeaderOf(fw)
  <2>1. CASE NeedTraining(hdr')
    BY <1>1, <1>2, <2>1, TrustedIs DEF CheckHeader, IInv, Types
  <2>2. CASE ~NeedTraining(hdr')
    <3>1. NeedTraining(NoHeader)
      BY DEF NeedTraining, NoHeader
    <3>2. ~bad
      BY <1>1, <2>2, <3>1
    <3>3. QED
      BY <1>1, <1>2, <2>2, <3>2, TrustedIs DEF CheckHeader, IInv, Types
  <2>3. QED
    BY <2>1, <2>2
<1>6. HeaderInv'
  BY <1>2, <1>3, <1>5 DEF IInv, HeaderInv, AllRestored
<1>7. NeedInv'
  BY <1>2, <1>3, <1>5 DEF IInv, NeedInv
<1>8. FlashInv'
  BY <1>2, <1>3, <1>5 DEF IInv, FlashInv, Kept1
<1>9. RamInv'
  BY <1>2, <1>5 DEF IInv, RamInv, OwnInit, AllRestored
<1>10. SaveInv'
  BY <1>5 DEF SaveInv
<1>11. QED
  BY <1>6, <1>7, <1>8, <1>9, <1>10 DEF IInv

\* What a restored area vouches for.
LEMMA RestoreInitKeeps == ASSUME FirstUsed, IInv, Types', RestoreInit PROVE IInv'
<1>1. PICK r \in Read(ram.init, hdr.init, InitLen) :
        /\ ReadInto(r) /\ ram' = [ram EXCEPT !.init = r.buf]
        /\ Restored(r, "restore0") /\ Doubts(r, "init")
  BY DEF RestoreInit
<1>2. /\ at.pc = "restore_init" /\ use' = use /\ fw' = fw /\ flash' = flash /\ hdr' = hdr
      /\ tally'.boots = tally.boots /\ ram'.init = r.buf
      /\ past'.good = past.good
      /\ past'.failed = (past.failed \/ r.ret # 0)
      /\ past'.doubt = IF HasJunk(r.buf) THEN past.doubt \cup {"init"} ELSE past.doubt
  BY <1>1 DEF RestoreInit, ReadInto, Doubts, IInv, Types
<1>3. \/ r.ret = 0 /\ at'.pc = "restore0" /\ at'.need = at.need
      \/ r.ret # 0 /\ at'.pc = "config" /\ at'.need = TRUE
  BY <1>1 DEF Restored, IInv, Types
<1>4. \A f : HeaderOf(f)' = HeaderOf(f)
  BY <1>2, SameHeaders
<1>5. HeaderInv'
  BY <1>2, <1>3, <1>4 DEF IInv, HeaderInv, AllRestored
<1>6. NeedInv'
  BY <1>2, <1>3, <1>4 DEF IInv, NeedInv
<1>7. FlashInv'
  <2>1. past'.doubt = {} => past.doubt = {}
    BY <1>2
  <2>2. QED
    BY <1>2, <1>3, <1>4, <2>1 DEF IInv, FlashInv, Kept1
<1>8. ASSUME past'.doubt = {}
      PROVE  /\ \A i \in 1..P : ram'.init[i] \in {ram.init[i], flash.blk[i]}
             /\ r.ret = 0 => \A i \in 1..P : ram'.init[i] = flash.blk[i]
             /\ past.doubt = {}
  <2>1. ~HasJunk(r.buf) /\ past.doubt = {}
    BY <1>2, <1>8
  <2>2. QED
    BY <1>2, <2>1, InitReads
<1>9. past'.doubt = {} => OwnInit'
  <2>1. SUFFICES ASSUME past'.doubt = {} PROVE OwnInit'
    OBVIOUS
  <2>2. OwnInit
    BY <1>2, <1>8, <2>1 DEF IInv, RamInv
  <2>3. PICK g \in 1..MaxBoots : Kept1(g)
    BY <1>2, <1>8, <2>1 DEF IInv, FlashInv, HeaderInv
  <2>4. ASSUME NEW i \in 1..P
        PROVE  ram'.init[i].table = 2 /\ ram'.init[i].piece = i /\ ram'.init[i].fw = fw
    <3>1. ram'.init[i] \in {ram.init[i], flash.blk[i]}
      BY <1>8, <2>1
    <3>2. flash.blk[i] = [table |-> 2, piece |-> i, fw |-> fw, gen |-> g]
      BY <2>3 DEF Kept1
    <3>3. QED
      BY <2>2, <3>1, <3>2 DEF OwnInit
  <2>5. QED
    BY <1>2, <2>4 DEF OwnInit
<1>10. RamInv'
  <2>1. past'.doubt = {} /\ r.ret = 0 => InitRestored'
    BY <1>2, <1>8 DEF InitRestored
  <2>2. QED
    BY <1>3, <1>9, <2>1 DEF RamInv, AllRestored
<1>11. SaveInv'
  BY <1>3 DEF SaveInv
<1>12. QED
  BY <1>5, <1>6, <1>7, <1>10, <1>11 DEF IInv

\* The same for the results of each controller.
LEMMA RestoreDqsKeeps ==
  ASSUME FirstUsed, IInv, Types', NEW u \in {0, 1}, RestoreDqs(u) PROVE IInv'
<1>1. /\ at.pc = RestorePc[u + 1] /\ use' = use /\ fw' = fw /\ flash' = flash /\ hdr' = hdr
      /\ at.pc \in {"restore0", "restore1"} /\ (u = 0 <=> at.pc = "restore0")
      /\ RestorePc[u + 2] = IF u = 0 THEN "restore1" ELSE "config"
  BY DEF RestoreDqs, RestorePc
<1>2. \A f : HeaderOf(f)' = HeaderOf(f)
  BY <1>1, SameHeaders
<1>3. flash.hdr = HeaderOf(fw) /\ hdr = flash.hdr
  BY <1>1 DEF IInv, HeaderInv
\* Either way: where it goes, and that the area was restored if it goes on.
<1>4. /\ tally'.boots = tally.boots /\ past'.good = past.good
      /\ past'.doubt = {} => past.doubt = {}
      /\ ram'.init = ram.init
      /\ \A v \in {0, 1} : v # u => ram'.dqs[v] = ram.dqs[v]
      /\ \/ /\ at'.pc = RestorePc[u + 2] /\ at'.need = at.need
            /\ past'.failed = FALSE => past.failed = FALSE
            /\ past'.doubt = {} /\ u \in use =>
                 \A i \in 1..D : ram'.dqs[u][i] = flash.blk[Before(u) + i]
         \/ at'.pc = "config" /\ at'.need = TRUE /\ past'.failed = TRUE
  <2>1. CASE hdr.trn[u] = 0
    <3>1. u \notin use
      BY <1>1, <2>1, DqsReads
    <3>2. at' = [at EXCEPT !.pc = RestorePc[u + 2]] /\ UNCHANGED <<ram, tally, past>>
      BY <2>1 DEF RestoreDqs
    <3>3. QED
      BY <3>1, <3>2 DEF IInv, Types
  <2>2. CASE hdr.trn[u] # 0
    <3>1. PICK r \in Read(ram.dqs[u], hdr.trn[u], DqsLen) :
            /\ ReadInto(r) /\ ram' = [ram EXCEPT !.dqs[u] = r.buf]
            /\ Restored(r, RestorePc[u + 2])
            /\ IF r.ret = 0 THEN Doubts(r, "dqs") ELSE past' = [past EXCEPT !.failed = TRUE]
      BY <2>2 DEF RestoreDqs
    <3>2. ~HasJunk(r.buf) /\ r.ret = 0 => \A i \in 1..D : r.buf[i] = flash.blk[Before(u) + i]
      BY <1>1, <2>2, DqsReads
    <3>3. tally'.boots = tally.boots
      BY <3>1 DEF ReadInto, IInv, Types
    <3>4. /\ ram'.init = ram.init /\ ram'.dqs[u] = r.buf
          /\ \A v \in {0, 1} : v # u => ram'.dqs[v] = ram.dqs[v]
      BY <3>1 DEF IInv, Types
    <3>5. CASE r.ret = 0
      <4>1. at' = [at EXCEPT !.pc = RestorePc[u + 2]]
        BY <3>1, <3>5 DEF Restored
      <4>2. at'.pc = RestorePc[u + 2] /\ at'.need = at.need
        BY <4>1 DEF IInv, Types
      <4>3. Doubts(r, "dqs")
        BY <3>1, <3>5
      <4>4. /\ past'.good = past.good /\ past'.failed = (past.failed \/ r.ret # 0)
            /\ past'.doubt = IF HasJunk(r.buf) THEN past.doubt \cup {"dqs"} ELSE past.doubt
        BY <4>3 DEF Doubts, IInv, Types
      <4>5. past'.doubt = {} => past.doubt = {} /\ ~HasJunk(r.buf)
        BY <4>4
      <4>6. past'.failed = FALSE => past.failed = FALSE
        BY <4>4 DEF IInv, Types
      <4>7. QED
        BY <3>2, <3>3, <3>4, <3>5, <4>2, <4>4, <4>5, <4>6
    <3>6. CASE r.ret # 0
      <4>1. at' = [at EXCEPT !.pc = "config", !.need = TRUE]
        BY <3>1, <3>6 DEF Restored
      <4>2. past' = [past EXCEPT !.failed = TRUE]
        BY <3>1, <3>6
      <4>3. QED
        BY <3>3, <3>4, <4>1, <4>2 DEF IInv, Types
    <3>7. QED
      BY <3>5, <3>6
  <2>3. QED
    BY <2>1, <2>2
<1>5. at'.pc \in {"restore1", "config"}
  BY <1>1, <1>4
<1>6. HeaderInv'
  BY <1>1, <1>2, <1>3, <1>5 DEF IInv, HeaderInv
<1>7. NeedInv'
  <2>1. at'.pc = "config" /\ at'.need = TRUE => past'.failed = TRUE \/ at.need = TRUE
    BY <1>4
  <2>2. past.good # 0 => flash.hdr = HeaderOf(past.good)
    BY DEF IInv, NeedInv
  <2>3. tally.boots > 0
    BY <1>1 DEF IInv, NeedInv
  <2>4. at.need = FALSE
    BY <1>1 DEF IInv, NeedInv, Types
  <2>5. QED
    BY <1>1, <1>2, <1>4, <1>5, <2>1, <2>2, <2>3, <2>4 DEF NeedInv
<1>8. FlashInv'
  BY <1>1, <1>2, <1>4, <1>5 DEF IInv, FlashInv, Kept1
<1>9. past'.doubt = {} => OwnInit' /\ InitRestored' /\ (u = 1 => DqsRestored(0)')
  BY <1>1, <1>4 DEF IInv, RamInv, OwnInit, InitRestored, DqsRestored
<1>10. past'.doubt = {} /\ at'.need = FALSE => DqsRestored(u)'
  BY <1>1, <1>4 DEF DqsRestored
<1>11. RamInv'
  <2>1. at.need = FALSE
    BY <1>1 DEF IInv, NeedInv, Types
  <2>2. at'.pc = RestorePc[u + 2] => at'.need = FALSE \/ at'.need = TRUE
    BY <1>4, <2>1
  <2>3. CASE u = 0
    BY <1>1, <1>4, <1>5, <1>9, <1>10, <2>1, <2>3 DEF RamInv, AllRestored
  <2>4. CASE u = 1
    BY <1>1, <1>4, <1>5, <1>9, <1>10, <2>1, <2>4 DEF RamInv, AllRestored
  <2>5. QED
    BY <2>3, <2>4
<1>12. SaveInv'
  BY <1>5 DEF SaveInv
<1>13. QED
  BY <1>6, <1>7, <1>8, <1>11, <1>12 DEF IInv

\* What was restored is one training.
LEMMA RestoredIsOne ==
  ASSUME FirstUsed, IInv, AllRestored, past.doubt = {}, NEW g \in 1..MaxBoots, Kept1(g)
  PROVE  OneTraining(ram.init, ram.dqs, g)
<1>1. InitRestored /\ DqsRestored(0) /\ DqsRestored(1)
  BY DEF IInv, RamInv, AllRestored
<1>2. DOMAIN ram.init = 1..P /\ \A u \in use : DOMAIN ram.dqs[u] = 1..D
  BY BoardIs DEF IInv, Types, InitTable, DqsTable
<1>3. InPlace(ram.init, 2, g)
  BY <1>1, <1>2 DEF InPlace, InitRestored, Kept1
<1>4. ASSUME NEW u \in use PROVE InPlace(ram.dqs[u], u, g)
  <2>1. u = 0 \/ u = 1
    BY BoardIs DEF IInv
  <2>2. DqsRestored(u)
    BY <1>1, <2>1
  <2>3. QED
    BY <1>2, <2>2 DEF InPlace, DqsRestored, Kept1
<1>5. QED
  BY <1>3, <1>4 DEF OneTraining

\* Memory that comes up without training runs on what was restored.
LEMMA ConfigKeeps == ASSUME FirstUsed, IInv, Types', Config PROVE IInv'
<1>1. /\ at.pc = "config" /\ use' = use /\ fw' = fw /\ flash' = flash /\ hdr' = hdr /\ ram' = ram
      /\ tally' = tally /\ past' = past
      /\ at'.need = at.need
      /\ \/ at'.pc = "train" /\ at.need
         \/ at'.pc = "up" /\ ~at.need
         \/ at'.pc = "no_memory"
  BY DEF Config, IInv, Types
<1>2. \A f : HeaderOf(f)' = HeaderOf(f)
  BY <1>1, SameHeaders
<1>3. HeaderInv'
  BY <1>1, <1>2 DEF IInv, HeaderInv, AllRestored
<1>4. NeedInv'
  BY <1>1, <1>2 DEF IInv, NeedInv
<1>5. FlashInv'
  BY <1>1, <1>2 DEF IInv, FlashInv, Kept1
<1>6. RamInv'
  <2>1. ASSUME past.doubt = {}, ~at.need
        PROVE  \E g \in 1..MaxBoots : OneTraining(ram.init, ram.dqs, g)
    <3>1. AllRestored
      BY <1>1, <2>1 DEF AllRestored
    <3>2. \E g \in 1..MaxBoots : Kept1(g)
      BY <1>1, <2>1, <3>1 DEF IInv, FlashInv, HeaderInv
    <3>3. QED
      BY <2>1, <3>1, <3>2, RestoredIsOne
  <2>2. \A g : OneTraining(ram.init, ram.dqs, g)' <=> OneTraining(ram.init, ram.dqs, g)
    BY <1>1 DEF OneTraining, InPlace
  <2>3. past.doubt = {} => OwnInit'
    BY <1>1 DEF IInv, RamInv, OwnInit
  <2>4. QED
    BY <1>1, <2>1, <2>2, <2>3 DEF RamInv, AllRestored
<1>7. SaveInv'
  BY <1>1 DEF SaveInv
<1>8. QED
  BY <1>3, <1>4, <1>5, <1>6, <1>7 DEF IInv

\* Training fills both tables, unless the register values were half read.
LEMMA TrainedIsOne ==
  ASSUME FirstUsed, IInv, at.pc = "train", past.doubt = {}, Train
  PROVE  OneTraining(ram'.init, ram'.dqs, tally.boots)
<1>1. OwnInit /\ tally.boots > 0 /\ fw \in 1..MaxFw
  BY DEF IInv, RamInv, NeedInv, Types
<1>2. ram'.init = TrainedInit /\ ram'.dqs = [u \in {0, 1} |-> TrainedDqs(u)]
  BY DEF Train
<1>3. ram.init \in [1..P -> Cell] /\ \A u \in use : ram.dqs[u] \in [1..D -> Cell]
  BY BoardIs DEF IInv, Types, InitTable, DqsTable
<1>4. ASSUME NEW i \in 1..P
      PROVE  TrainedInit[i] = [table |-> 2, piece |-> i, fw |-> fw, gen |-> tally.boots]
  <2>1. ram.init[i] \in Cell /\ ram.init[i].table = 2 /\ ram.init[i].piece = i
        /\ ram.init[i].fw = fw
    BY <1>1, <1>3 DEF OwnInit
  <2>2. ram.init[i] # Junk
    BY <1>1, <2>1 DEF Junk
  <2>3. TrainedInit[i] = [ram.init[i] EXCEPT !.gen = tally.boots]
    BY <1>3, <2>2 DEF TrainedInit
  <2>4. QED
    BY <2>1, <2>3 DEF Cell
<1>5. InPlace(ram'.init, 2, tally.boots)
  <2>1. DOMAIN TrainedInit = 1..P
    BY <1>3 DEF TrainedInit
  <2>2. QED
    BY <1>2, <1>4, <2>1 DEF InPlace
<1>6. ASSUME NEW u \in use PROVE InPlace(ram'.dqs[u], u, tally.boots)
  <2>1. u \in {0, 1}
    BY BoardIs DEF IInv
  <2>2. ram'.dqs[u] = TrainedDqs(u)
    BY <1>2, <2>1
  <2>3. TrainedDqs(u) = [i \in 1..D |->
                           [table |-> u, piece |-> i, fw |-> fw, gen |-> tally.boots]]
    BY <1>3 DEF TrainedDqs
  <2>4. QED
    BY <2>2, <2>3 DEF InPlace
<1>7. QED
  BY <1>1, <1>5, <1>6 DEF OneTraining

\* Memory that is trained runs on one training, and nothing is saved of it yet.
LEMMA TrainKeeps == ASSUME FirstUsed, IInv, Types', Train PROVE IInv'
<1>1. /\ at.pc = "train" /\ use' = use /\ fw' = fw /\ flash' = flash /\ tally' = tally
      /\ at'.pc = "save" /\ at'.done = 0 /\ at'.need = at.need
      /\ past'.doubt = past.doubt /\ past'.good = 0 /\ past'.over = ~NeedTraining(flash.hdr)
  BY DEF Train, IInv, Types
<1>2. \A f : HeaderOf(f)' = HeaderOf(f)
  BY <1>1, SameHeaders
<1>3. hdr' = HeaderOf(fw)
  BY HeaderIsOwn DEF Train
<1>4. HeaderInv'
  BY <1>1, <1>2, <1>3 DEF IInv, HeaderInv, AllRestored
<1>5. NeedTraining(flash.hdr) <=> flash.hdr # HeaderOf(fw)
  BY TrustedIs DEF IInv
<1>6. NeedInv'
  BY <1>1, <1>2, <1>5 DEF IInv, NeedInv
<1>7. FlashInv'
  BY <1>1, <1>2, <1>5 DEF FlashInv
<1>8. RamInv'
  <2>1. past.doubt = {} => OneTraining(ram'.init, ram'.dqs, tally.boots)
    BY <1>1, TrainedIsOne
  <2>2. \A g : OneTraining(ram.init, ram.dqs, g)' <=> OneTraining(ram'.init, ram'.dqs, g)
    BY <1>1 DEF OneTraining, InPlace
  <2>3. QED
    BY <1>1, <2>1, <2>2 DEF RamInv, AllRestored
<1>9. SaveInv'
  <2>1. \A i \in 1..P : ~(i <= 0)
    OBVIOUS
  <2>2. \A u \in use : \A i \in 1..D : ~(Before(u) + i <= 0)
    BY SizesOfTables DEF Before
  <2>3. 0 <= Saved'
    BY SizesOfTables DEF Saved
  <2>4. QED
    BY <1>1, <2>1, <2>2, <2>3 DEF SaveInv
<1>10. QED
  BY <1>4, <1>6, <1>7, <1>8, <1>9 DEF IInv

\* A finished save has written one training.
LEMMA SavedIsOne ==
  ASSUME FirstUsed, IInv, at.pc = "save", at.done = Saved, past.doubt = {}
  PROVE  Kept1(tally.boots) /\ tally.boots \in 1..MaxBoots
<1>1. OneTraining(ram.init, ram.dqs, tally.boots)
  BY DEF IInv, RamInv
<1>2. DOMAIN ram.init = 1..P /\ \A u \in use : DOMAIN ram.dqs[u] = 1..D
  BY BoardIs DEF IInv, Types, InitTable, DqsTable
<1>3. \A i \in 1..P : i <= Saved
  BY SizesOfTables DEF Saved
<1>4. ASSUME NEW u \in use, NEW i \in 1..D PROVE Before(u) + i <= Saved
  <2>1. u = 0 \/ u = 1
    BY BoardIs DEF IInv
  <2>2. CASE u = 0
    BY <2>2, SizesOfTables DEF Saved, Before
  <2>3. CASE u = 1
    BY <2>3, SizesOfTables DEF Saved, Before
  <2>4. QED
    BY <2>1, <2>2, <2>3
<1>5. \A i \in 1..P : flash.blk[i] = [table |-> 2, piece |-> i, fw |-> fw, gen |-> tally.boots]
  BY <1>1, <1>2, <1>3 DEF IInv, SaveInv, OneTraining, InPlace
<1>6. ASSUME NEW u \in use, NEW i \in 1..D
      PROVE  flash.blk[Before(u) + i]
               = [table |-> u, piece |-> i, fw |-> fw, gen |-> tally.boots]
  <2>1. flash.blk[Before(u) + i] = ram.dqs[u][i]
    BY <1>4 DEF IInv, SaveInv
  <2>2. InPlace(ram.dqs[u], u, tally.boots)
    BY <1>1 DEF OneTraining
  <2>3. QED
    BY <1>2, <2>1, <2>2 DEF InPlace
<1>7. QED
  BY <1>5, <1>6 DEF Kept1, IInv, NeedInv, Types

\* One write of a save: the next block, or the header after the last.
LEMMA SaveIs ==
  ASSUME FirstUsed, IInv, Save
  PROVE  /\ at.pc = "save" /\ use' = use /\ fw' = fw /\ hdr' = hdr /\ ram' = ram /\ tally' = tally
         /\ at'.done = at.done + 1 /\ at'.need = at.need
         /\ past'.doubt = past.doubt /\ past'.over = past.over /\ past'.failed = past.failed
         /\ \/ /\ at.done < Saved /\ at'.pc = "save" /\ past'.good = past.good
               /\ flash'.hdr = flash.hdr
               /\ \A b \in Blocks : b # at.done + 1 => flash'.blk[b] = flash.blk[b]
               /\ at.done + 1 \in Blocks =>
                    flash'.blk[at.done + 1] = SaveList[at.done + 1].cell
            \/ /\ at.done = Saved /\ at'.pc = "up" /\ past'.good = fw
               /\ flash'.hdr = hdr /\ flash'.blk = flash.blk
<1>1. at.pc = "save" /\ use' = use /\ fw' = fw /\ hdr' = hdr /\ ram' = ram /\ tally' = tally
  BY DEF Save
<1>2. hdr = HeaderOf(fw) /\ at.done <= Saved
  BY <1>1 DEF IInv, HeaderInv, SaveInv
<1>3. Len(SaveList) = Saved + 1 /\ Saved \in Nat /\ at.done \in Nat
  BY <1>2, SaveListIs DEF IInv, Types
<1>4. at.done + 1 = Len(SaveList) <=> at.done = Saved
  BY <1>3
<1>5. at'.done = at.done + 1 /\ at'.need = at.need
      /\ past'.doubt = past.doubt /\ past'.over = past.over /\ past'.failed = past.failed
  BY DEF Save, IInv, Types
<1>6. CASE at.done = Saved
  <2>1. SaveList[at.done + 1].to = 0
    BY <1>2, <1>6, SaveListIs DEF IInv
  <2>2. flash' = [flash EXCEPT !.hdr = hdr] /\ at'.pc = "up" /\ past' = [past EXCEPT !.good = fw]
    BY <1>4, <1>6, <2>1 DEF Save, IInv, Types
  <2>3. QED
    BY <1>1, <1>5, <1>6, <2>2 DEF IInv, Types
<1>7. CASE at.done < Saved
  <2>1. at.done + 1 \in 1..Saved
    BY <1>3, <1>7
  <2>2. SaveList[at.done + 1].to = at.done + 1
    <3>1. CASE at.done + 1 \in 1..P
      <4>1. PICK i \in 1..P : i = at.done + 1
        BY <3>1
      <4>2. SaveList[i] = [to |-> i, cell |-> ram.init[i]]
        BY <1>2, SaveListIs DEF IInv
      <4>3. QED
        BY <4>1, <4>2
    <3>2. CASE \E u \in use : \E i \in 1..D : at.done + 1 = Before(u) + i
      <4>1. PICK u \in use, i \in 1..D : at.done + 1 = Before(u) + i
        BY <3>2
      <4>2. SaveList[Before(u) + i] = [to |-> Before(u) + i, cell |-> ram.dqs[u][i]]
        BY <1>2, SaveListIs DEF IInv
      <4>3. QED
        BY <4>1, <4>2
    <3>3. QED
      BY <1>2, <2>1, <3>1, <3>2, SaveListIs DEF IInv
  <2>3. at.done + 1 # 0 /\ at.done # Saved
    BY <1>3, <1>7
  <2>4. flash' = [flash EXCEPT !.blk[at.done + 1] = SaveList[at.done + 1].cell]
    BY <2>2, <2>3 DEF Save
  <2>5. at'.pc = "save" /\ past' = past
    BY <1>4, <2>3 DEF Save, IInv, Types
  <2>6. QED
    BY <1>1, <1>5, <1>7, <2>4, <2>5 DEF IInv, Types
<1>8. QED
  BY <1>2, <1>3, <1>6, <1>7

\* A block written is the one the list has next, and after the header all of them are.
LEMMA SaveKeeps == ASSUME FirstUsed, IInv, Types', Save PROVE IInv'
<1>1. /\ at.pc = "save" /\ use' = use /\ fw' = fw /\ hdr' = hdr /\ ram' = ram /\ tally' = tally
      /\ at'.done = at.done + 1 /\ at'.need = at.need
      /\ past'.doubt = past.doubt /\ past'.over = past.over /\ past'.failed = past.failed
  BY SaveIs
<1>2. \A f : HeaderOf(f)' = HeaderOf(f)
  BY <1>1, SameHeaders
<1>3. hdr = HeaderOf(fw) /\ fw \in 1..MaxFw /\ fw \in 1..fw /\ past.good = 0
      /\ tally.boots > 0 /\ at.done \in Nat
  BY <1>1 DEF IInv, HeaderInv, Types, SaveInv, NeedInv
<1>4. \A g : OneTraining(ram.init, ram.dqs, g)' <=> OneTraining(ram.init, ram.dqs, g)
  BY <1>1 DEF OneTraining, InPlace
<1>5. past.doubt = {} => OneTraining(ram.init, ram.dqs, tally.boots)
  BY <1>1 DEF IInv, RamInv
<1>6. CASE /\ at.done = Saved /\ at'.pc = "up" /\ past'.good = fw
           /\ flash'.hdr = hdr /\ flash'.blk = flash.blk
  <2>1. HeaderInv'
    <3>1. flash'.hdr = HeaderOf(fw)
      BY <1>3, <1>6
    <3>2. QED
      BY <1>1, <1>2, <1>3, <1>6, <3>1 DEF HeaderInv, AllRestored
  <2>2. NeedInv'
    BY <1>1, <1>2, <1>3, <1>6 DEF NeedInv
  <2>3. FlashInv'
    <3>1. past.doubt = {} => Kept1(tally.boots) /\ tally.boots \in 1..MaxBoots
      BY <1>1, <1>6, SavedIsOne
    <3>2. \A g : Kept1(g)' <=> Kept1(g)
      BY <1>1, <1>6 DEF Kept1
    <3>3. QED
      BY <1>1, <3>1, <3>2 DEF FlashInv
  <2>4. RamInv'
    <3>1. tally.boots \in 1..MaxBoots
      BY <1>3 DEF IInv, Types
    <3>2. QED
      BY <1>1, <1>4, <1>5, <1>6, <3>1 DEF RamInv, AllRestored
  <2>5. SaveInv'
    BY <1>6 DEF SaveInv
  <2>6. QED
    BY <2>1, <2>2, <2>3, <2>4, <2>5 DEF IInv
<1>7. CASE /\ at.done < Saved /\ at'.pc = "save" /\ past'.good = past.good
           /\ flash'.hdr = flash.hdr
           /\ \A b \in Blocks : b # at.done + 1 => flash'.blk[b] = flash.blk[b]
           /\ at.done + 1 \in Blocks => flash'.blk[at.done + 1] = SaveList[at.done + 1].cell
  <2>1. HeaderInv'
    BY <1>1, <1>2, <1>3, <1>7 DEF IInv, HeaderInv, AllRestored
  <2>2. NeedInv'
    BY <1>1, <1>2, <1>3, <1>7 DEF IInv, NeedInv
  <2>3. FlashInv'
    BY <1>1, <1>2, <1>7 DEF IInv, FlashInv, NeedInv
  <2>4. RamInv'
    BY <1>1, <1>4, <1>5, <1>7 DEF RamInv, AllRestored
  <2>5. SaveInv'
    <3>1. at.done + 1 <= Saved'
      BY <1>1, <1>3, <1>7, SizesOfTables DEF Saved
    <3>2. ASSUME NEW i \in 1..P, i <= at.done + 1 PROVE flash'.blk[i] = ram.init[i]
      <4>1. i \in Blocks
        BY BlocksAre DEF IInv
      <4>2. CASE i = at.done + 1
        <5>1. SaveList[i] = [to |-> i, cell |-> ram.init[i]]
          BY <1>3, SaveListIs DEF IInv
        <5>2. QED
          BY <1>7, <4>1, <4>2, <5>1
      <4>3. CASE i # at.done + 1
        <5>1. i <= at.done /\ i \in Blocks
          BY <1>3, <3>2, <4>1, <4>3
        <5>2. flash.blk[i] = ram.init[i]
          BY <1>1, <5>1 DEF IInv, SaveInv
        <5>3. QED
          BY <1>7, <4>3, <5>1, <5>2
      <4>4. QED
        BY <4>2, <4>3
    <3>3. ASSUME NEW u \in use, NEW i \in 1..D, Before(u) + i <= at.done + 1
          PROVE  flash'.blk[Before(u) + i] = ram.dqs[u][i]
      <4>1. Before(u) + i \in Blocks
        BY BlocksAre DEF IInv
      <4>2. CASE Before(u) + i = at.done + 1
        <5>1. SaveList[Before(u) + i] = [to |-> Before(u) + i, cell |-> ram.dqs[u][i]]
          BY <1>3, SaveListIs DEF IInv
        <5>2. flash'.blk[Before(u) + i] = SaveList[Before(u) + i].cell
          BY <1>7, <4>1, <4>2
        <5>3. QED
          BY <5>1, <5>2
      <4>3. CASE Before(u) + i # at.done + 1
        <5>1. Before(u) + i <= at.done
          BY <1>3, <3>3, <4>3, SizesOfTables DEF Before
        <5>2. flash.blk[Before(u) + i] = ram.dqs[u][i]
          BY <1>1, <5>1 DEF IInv, SaveInv
        <5>3. QED
          BY <1>7, <4>1, <4>3, <5>2
      <4>4. QED
        BY <4>2, <4>3
    <3>4. QED
      BY <1>1, <1>3, <1>7, <3>1, <3>2, <3>3 DEF SaveInv
  <2>6. QED
    BY <2>1, <2>2, <2>3, <2>4, <2>5 DEF IInv
<1>8. QED
  BY <1>6, <1>7, SaveIs

\* The end of a save, or of a boot: what is then vouched for was vouched for before.
LEMMA StopKeeps == ASSUME FirstUsed, IInv, Types', SaveFails \/ Off PROVE IInv'
<1>1. /\ use' = use /\ fw' = fw /\ flash' = flash /\ hdr' = hdr /\ ram' = ram
      /\ tally'.boots = tally.boots
      /\ at'.pc = "off" \/ (at.pc = "save" /\ at'.pc = "up")
      /\ past'.good = past.good
      /\ past'.doubt = past.doubt \/ past'.doubt # {}
      /\ at.pc = "save" /\ past.over => past'.doubt # {}
  <2>1. CASE SaveFails
    <3>1. past' = Torn(past) /\ at.pc = "save"
      BY <2>1 DEF SaveFails
    <3>2. past'.good = past.good /\ (past.over => past'.doubt # {})
          /\ (past'.doubt = past.doubt \/ past'.doubt # {})
      BY <3>1 DEF Torn, IInv, Types
    <3>3. QED
      BY <2>1, <3>1, <3>2 DEF SaveFails, IInv, Types
  <2>2. CASE Off
    <3>1. past' = IF at.pc = "save" THEN Torn(past) ELSE past
      BY <2>2 DEF Off
    <3>2. /\ past'.good = past.good
          /\ at.pc = "save" /\ past.over => past'.doubt # {}
          /\ past'.doubt = past.doubt \/ past'.doubt # {}
      BY <3>1 DEF Torn, IInv, Types
    <3>3. at'.pc = "off"
      BY <2>2 DEF Off
    <3>4. use' = use /\ fw' = fw /\ flash' = flash /\ hdr' = hdr /\ ram' = ram
          /\ tally'.boots = tally.boots
      BY <2>2 DEF Off
    <3>5. at'.pc = "off" \/ (at.pc = "save" /\ at'.pc = "up")
      BY <3>3
    <3>6. QED
      BY <3>2, <3>4, <3>5
  <2>3. QED
    BY <2>1, <2>2
<1>2. \A f : HeaderOf(f)' = HeaderOf(f)
  BY <1>1, SameHeaders
<1>3. HeaderInv'
  BY <1>1, <1>2 DEF IInv, HeaderInv, AllRestored
<1>4. NeedInv'
  BY <1>1, <1>2 DEF IInv, NeedInv
<1>5. FlashInv'
  <2>1. past'.doubt = {} => past.doubt = {} /\ ~(at.pc = "save" /\ past.over)
    BY <1>1
  <2>2. \A g : Kept1(g)' <=> Kept1(g)
    BY <1>1 DEF Kept1
  <2>3. QED
    BY <1>1, <1>2, <2>1, <2>2 DEF IInv, FlashInv
<1>6. RamInv'
  <2>1. ASSUME past.doubt = {}, at.pc = "save"
        PROVE  \E g \in 1..MaxBoots : OneTraining(ram.init, ram.dqs, g)
    BY <2>1 DEF IInv, RamInv, NeedInv, Types
  <2>2. \A g : OneTraining(ram.init, ram.dqs, g)' <=> OneTraining(ram.init, ram.dqs, g)
    BY <1>1 DEF OneTraining, InPlace
  <2>3. QED
    BY <1>1, <2>1, <2>2 DEF RamInv, AllRestored
<1>7. SaveInv'
  BY <1>1 DEF SaveInv
<1>8. QED
  BY <1>3, <1>4, <1>5, <1>6, <1>7 DEF IInv

\* The invariant is inductive.
LEMMA StepKeeps == ASSUME FirstUsed, IInv, [Next]_vars PROVE IInv'
<1>1. Types'
  BY TypesKept
<1>2. CASE UNCHANGED vars
  <2>1. use' = use /\ fw' = fw /\ flash' = flash /\ hdr' = hdr /\ ram' = ram /\ tally' = tally
        /\ at' = at /\ past' = past
    BY <1>2 DEF vars
  <2>2. \A f : HeaderOf(f)' = HeaderOf(f)
    BY <2>1, SameHeaders
  <2>3. (\A g : Kept1(g)' <=> Kept1(g))
        /\ \A g : OneTraining(ram.init, ram.dqs, g)' <=> OneTraining(ram.init, ram.dqs, g)
    BY <2>1 DEF Kept1, OneTraining, InPlace
  <2>4. HeaderInv' /\ NeedInv' /\ FlashInv'
    BY <2>1, <2>2, <2>3 DEF IInv, HeaderInv, NeedInv, FlashInv, AllRestored
  <2>5. RamInv'
    BY <2>1, <2>3 DEF IInv, RamInv, AllRestored, OwnInit, InitRestored, DqsRestored
  <2>6. SaveInv'
    BY <2>1 DEF IInv, SaveInv, Saved
  <2>7. QED
    BY <1>1, <2>4, <2>5, <2>6 DEF IInv
<1>3. CASE Next
  BY <1>1, <1>3, BootKeeps, CheckHeaderKeeps, RestoreInitKeeps, RestoreDqsKeeps, ConfigKeeps,
     TrainKeeps, SaveKeeps, StopKeeps DEF Next, Step
<1>4. QED
  BY <1>2, <1>3

-----------------------------------------------------------------------------
(***************************************************************************)
(* Theorems.                                                               *)
(***************************************************************************)
\* Every reachable state satisfies the invariant: the header on flash is one this board has
\* written, and what it vouches for, what was restored and what was saved are one training.
THEOREM Invariant == ASSUME FirstUsed PROVE Spec => []IInv
<1>1. Init => IInv
  <2>1. SUFFICES ASSUME Init PROVE IInv
    OBVIOUS
  <2>2. Types
    <3>1. Junk \in Cell
      BY BoundAssumption DEF Junk, Cell
    <3>2. NoHeader \in Headers
      BY BoundAssumption DEF NoHeader, Headers
    <3>3. use \in Boards /\ fw \in 1..MaxFw
          /\ flash \in [hdr : Headers, blk : [Blocks -> Cell]] /\ hdr \in Headers
      BY <2>1, <3>1, <3>2, BoundAssumption DEF Init
    <3>4. ram \in [init : InitTable, dqs : [{0, 1} -> DqsTable]]
      BY <2>1, <3>1 DEF Init, InitTable, DqsTable, P, D
    <3>5. at \in [pc : Pc, need : BOOLEAN, done : Nat]
      BY <2>1 DEF Init, Pc
    <3>6. /\ tally \in [boots : 0..MaxBoots, reads : 0..MaxReadFaults,
                        writes : 0..MaxWriteFaults]
          /\ past \in [doubt : SUBSET {"init", "dqs", "torn"}, good : 0..MaxFw,
                       failed : BOOLEAN, over : BOOLEAN]
      BY <2>1, BoundAssumption, FaultAssumption DEF Init
    <3>7. QED
      BY <3>3, <3>4, <3>5, <3>6 DEF Types
  <2>3. at.pc = "off" /\ flash.hdr = NoHeader /\ past.good = 0
    BY <2>1 DEF Init
  <2>4. flash.hdr # HeaderOf(fw)
    BY <2>2, <2>3, HeadersDiffer DEF Types
  <2>5. QED
    BY <2>2, <2>3, <2>4
       DEF IInv, HeaderInv, NeedInv, FlashInv, RamInv, SaveInv, AllRestored
<1>2. IInv /\ [Next]_vars => IInv'
  BY StepKeeps
<1>3. QED
  BY <1>1, <1>2, PTL DEF Spec

\* The training that tables hold.
LEMMA TrainingIs ==
  ASSUME NEW init, NEW dqs, NEW g \in 1..MaxBoots, 1 \in DOMAIN init, OneTraining(init, dqs, g)
  PROVE  TrainingOf(init, dqs) = g /\ TrainingOf(init, dqs) # Mixed
<1>1. init[1].gen = g
  BY DEF OneTraining, InPlace
<1>2. TrainingOf(init, dqs) = g
  BY <1>1 DEF TrainingOf
<1>3. QED
  BY <1>2, BoundAssumption DEF Mixed

\* Types; and memory that is up runs on the register values and on the results of one
\* training, after any sequence of resets, updates, failing writes and failing reads,
\* unless a read went wrong unnoticed, register values were half read, or a save was cut
\* short over a header that still vouched for the area.
THEOREM OneTrainingRuns == ASSUME FirstUsed PROVE Spec => []Safety
<1>1. IInv => TypeOK
  <2>1. SUFFICES ASSUME IInv PROVE TypeOK
    OBVIOUS
  <2>2. at.pc = "save" => at.done < Len(SaveList)
    <3>1. SUFFICES ASSUME at.pc = "save" PROVE at.done < Len(SaveList)
      OBVIOUS
    <3>2. hdr = HeaderOf(fw) /\ at.done <= Saved
      BY <2>1, <3>1 DEF IInv, HeaderInv, SaveInv
    <3>3. Len(SaveList) = Saved + 1 /\ Saved \in Nat /\ at.done \in Nat
      BY <2>1, <3>2, SaveListIs DEF IInv, Types
    <3>4. QED
      BY <3>2, <3>3
  <2>3. {hdr, flash.hdr} \subseteq Headers /\ flash.blk \in [Blocks -> Cell]
    BY <2>1 DEF IInv, Types
  <2>4. QED
    BY <2>1, <2>2, <2>3 DEF IInv, Types, TypeOK, Headers, InitTable, DqsTable, P, D
<1>2. IInv => RunsOnOneTraining
  <2>1. SUFFICES ASSUME IInv, at.pc = "up", past.doubt = {}
                 PROVE  TrainingOf(ram.init, ram.dqs) # Mixed
    BY DEF RunsOnOneTraining
  <2>2. PICK g \in 1..MaxBoots : OneTraining(ram.init, ram.dqs, g)
    BY <2>1 DEF IInv, RamInv
  <2>3. 1 \in DOMAIN ram.init
    BY <2>1, SizesOfTables DEF IInv, Types, InitTable
  <2>4. QED
    BY <2>2, <2>3, TrainingIs
<1>3. QED
  BY <1>1, <1>2, Invariant, PTL DEF Safety

\* A boot in which no read has failed does not train when the last save of this firmware
\* was completed.
THEOREM TrainsWhenNeeded == ASSUME FirstUsed PROVE Spec => []TrainsOnlyWhenNeeded
<1>1. IInv => TrainsOnlyWhenNeeded
  BY DEF IInv, Types, NeedInv, TrainsOnlyWhenNeeded
<1>2. QED
  BY <1>1, Invariant, PTL

-----------------------------------------------------------------------------
(***************************************************************************)
(* The store.                                                              *)
(***************************************************************************)
Trusted == past.doubt = {} /\ flash.hdr = HeaderOf(fw) /\ ~(at.pc = "save" /\ past.over)
Runs == past.doubt = {} /\ at.pc \in {"save", "up"}

\* What is kept and what runs, in terms of the invariant.
LEMMA KeptIs ==
  FirstUsed /\ IInv =>
    /\ ~Trusted => Kept = 0
    /\ \A g \in 1..MaxBoots : Trusted /\ Kept1(g) => Kept = g
    /\ Trusted => \E g \in 1..MaxBoots : Kept1(g)
<1> SUFFICES ASSUME FirstUsed, IInv
             PROVE  /\ ~Trusted => Kept = 0
                    /\ \A g \in 1..MaxBoots : Trusted /\ Kept1(g) => Kept = g
                    /\ Trusted => \E g \in 1..MaxBoots : Kept1(g)
  OBVIOUS
<1>1. NeedTraining(flash.hdr) <=> flash.hdr # HeaderOf(fw)
  BY TrustedIs DEF IInv
<1>2. ~Trusted => Kept = 0
  BY <1>1 DEF Trusted, Kept
<1>3. Trusted => \E g \in 1..MaxBoots : Kept1(g)
  BY DEF Trusted, IInv, FlashInv
<1>4. ASSUME NEW g \in 1..MaxBoots, Trusted, Kept1(g) PROVE Kept = g
  <2>1. /\ flash.hdr.init \div BlkSz = 1
        /\ \A u \in use : flash.hdr.trn[u] \div BlkSz = 1 + Before(u)
    <3>1. fw \in Nat /\ flash.hdr = HeaderOf(fw)
      BY <1>4 DEF IInv, Types, Trusted
    <3>2. QED
      BY <3>1, OffsetsAre DEF IInv
  <2> DEFINE init == [i \in 1..P |-> flash.blk[flash.hdr.init \div BlkSz + i - 1]]
             dqs == [u \in {0, 1} |-> [i \in 1..D |->
                       IF u \in use THEN flash.blk[flash.hdr.trn[u] \div BlkSz + i - 1] ELSE Junk]]
  <2>2. \A i \in 1..P : init[i] = [table |-> 2, piece |-> i, fw |-> fw, gen |-> g]
    <3>1. \A i \in 1..P : 1 + i - 1 = i
      BY SizesOfTables
    <3>2. QED
      BY <1>4, <2>1, <3>1 DEF Kept1
  <2>3. ASSUME NEW u \in use, NEW i \in 1..D
        PROVE  dqs[u][i] = [table |-> u, piece |-> i, fw |-> fw, gen |-> g]
    <3>1. u \in {0, 1}
      BY BoardIs DEF IInv
    <3>2. dqs[u][i] = flash.blk[flash.hdr.trn[u] \div BlkSz + i - 1]
      BY <3>1
    <3>3. flash.hdr.trn[u] \div BlkSz + i - 1 = Before(u) + i
      BY <2>1, <3>1, SizesOfTables DEF Before
    <3>4. QED
      BY <1>4, <3>2, <3>3 DEF Kept1
  <2>4. 1 \in DOMAIN init
    BY SizesOfTables
  <2>5. OneTraining(init, dqs, g)
    <3>1. \A u \in use : DOMAIN dqs[u] = 1..D
      BY BoardIs DEF IInv
    <3>2. DOMAIN init = 1..P
      OBVIOUS
    <3> HIDE DEF init, dqs
    <3>3. InPlace(init, 2, g)
      BY <2>2, <3>2 DEF InPlace
    <3>4. \A u \in use : InPlace(dqs[u], u, g)
      BY <2>3, <3>1 DEF InPlace
    <3>5. QED
      BY <3>3, <3>4 DEF OneTraining
  <2>6. FlashTraining = TrainingOf(init, dqs)
    BY DEF FlashTraining, P, D
  <2> HIDE DEF init, dqs
  <2>7. FlashTraining = g
    BY <2>4, <2>5, <2>6, TrainingIs
  <2>8. QED
    BY <1>1, <1>4, <2>7 DEF Trusted, Kept
<1>5. QED
  BY <1>2, <1>3, <1>4

\* The same for what memory runs on.
LEMMA RunningIs ==
  IInv => /\ ~Runs => Running = 0
          /\ \A g \in 1..MaxBoots : Runs /\ OneTraining(ram.init, ram.dqs, g) => Running = g
          /\ Runs => \E g \in 1..MaxBoots : OneTraining(ram.init, ram.dqs, g)
<1> SUFFICES ASSUME IInv
             PROVE  /\ ~Runs => Running = 0
                    /\ \A g \in 1..MaxBoots :
                         Runs /\ OneTraining(ram.init, ram.dqs, g) => Running = g
                    /\ Runs => \E g \in 1..MaxBoots : OneTraining(ram.init, ram.dqs, g)
  OBVIOUS
<1>1. ~Runs => Running = 0
  BY DEF Runs, Running
<1>2. ASSUME NEW g \in 1..MaxBoots, Runs, OneTraining(ram.init, ram.dqs, g) PROVE Running = g
  <2>1. 1 \in DOMAIN ram.init
    BY SizesOfTables DEF IInv, Types, InitTable
  <2>2. TrainingOf(ram.init, ram.dqs) = g
    BY <1>2, <2>1, TrainingIs
  <2>3. QED
    BY <1>2, <2>2 DEF Runs, Running
<1>3. Runs => \E g \in 1..MaxBoots : OneTraining(ram.init, ram.dqs, g)
  BY DEF Runs, IInv, RamInv, NeedInv, Types
<1>4. QED
  BY <1>1, <1>2, <1>3

\* Flash, firmware and board stay, and nothing runs before or after: what is kept stays, or
\* is given up.
LEMMA QuietStep ==
  ASSUME FirstUsed, IInv, IInv', use' = use, flash' = flash, past'.doubt = {} => past.doubt = {},
         Trusted' => Trusted /\ fw' = fw, ~Runs'
  PROVE  Store!Stop
<1>1. (FirstUsed /\ IInv =>
         /\ ~Trusted => Kept = 0
         /\ \A g \in 1..MaxBoots : Trusted /\ Kept1(g) => Kept = g
         /\ Trusted => \E g \in 1..MaxBoots : Kept1(g))'
  BY KeptIs, PTL
<1>2. (IInv =>
         /\ ~Runs => Running = 0
         /\ \A g \in 1..MaxBoots : Runs /\ OneTraining(ram.init, ram.dqs, g) => Running = g
         /\ Runs => \E g \in 1..MaxBoots : OneTraining(ram.init, ram.dqs, g))'
  BY RunningIs, PTL
<1>3. Running' = 0
  BY <1>2
<1>4. CASE ~Trusted'
  BY <1>1, <1>3, <1>4 DEF Store!Stop, Store!None
<1>5. CASE Trusted'
  <2>1. PICK g \in 1..MaxBoots : Kept1(g)
    BY <1>5, KeptIs
  <2>2. Kept1(g)'
    BY <1>5, <2>1 DEF Kept1
  <2>3. Kept = g /\ Kept' = g
    BY <1>1, <1>5, <2>1, <2>2, KeptIs
  <2>4. QED
    BY <1>3, <2>3 DEF Store!Stop, Store!None
<1>6. QED
  BY <1>4, <1>5

\* The partition implements StoredTraining: a training that was made is committed as a
\* whole when its header is written, a restored one is the one that is kept, and every
\* other step leaves what is kept or gives it up.
THEOREM StoreIsAtomic == ASSUME FirstUsed PROVE Spec => SaveIsAtomic
<1> DEFINE KeptNow ==
             FirstUsed /\ IInv =>
               /\ ~Trusted => Kept = 0
               /\ \A g \in 1..MaxBoots : Trusted /\ Kept1(g) => Kept = g
               /\ Trusted => \E g \in 1..MaxBoots : Kept1(g)
           RunningNow ==
             IInv =>
               /\ ~Runs => Running = 0
               /\ \A g \in 1..MaxBoots : Runs /\ OneTraining(ram.init, ram.dqs, g) => Running = g
               /\ Runs => \E g \in 1..MaxBoots : OneTraining(ram.init, ram.dqs, g)
<1>1. Init => Store!Init
  <2>1. SUFFICES ASSUME Init PROVE Store!Init
    OBVIOUS
  <2>2. flash.hdr = NoHeader /\ at.pc = "off" /\ past.doubt = {}
    BY <2>1 DEF Init
  <2>3. Kept = 0
    BY <2>2 DEF Kept, NeedTraining, NoHeader
  <2>4. Running = 0
    BY <2>2 DEF Running
  <2>5. QED
    BY <2>3, <2>4 DEF Store!Init, Store!None
<1>2. KeptNow /\ RunningNow
  BY KeptIs, RunningIs
<1>3. KeptNow'
  BY KeptIs, PTL
<1>4. RunningNow'
  BY RunningIs, PTL
<1>5. IInv /\ IInv' /\ [Next]_vars => [Store!Next]_<<Kept, Running>>
  <2> SUFFICES ASSUME IInv, IInv', [Next]_vars
               PROVE  Store!Next \/ UNCHANGED <<Kept, Running>>
    OBVIOUS
  <2> HIDE DEF KeptNow, RunningNow
  <2>1. CASE Boot
    <3>1. /\ at'.pc = "check" /\ at.pc = "off" /\ use' = use /\ flash' = flash
          /\ past'.doubt = past.doubt /\ fw' \in {fw, fw + 1}
      BY <2>1 DEF Boot, IInv, Types
    <3>2. \A f : HeaderOf(f)' = HeaderOf(f)
      BY <3>1, SameHeaders
    <3>3. fw' = fw + 1 => flash.hdr # HeaderOf(fw + 1)
      <4>1. SUFFICES ASSUME fw' = fw + 1 PROVE flash.hdr # HeaderOf(fw + 1)
        OBVIOUS
      <4>2. fw + 1 \in 0..MaxFw /\ fw + 1 \notin 1..fw /\ \A f \in 1..fw : f \in 0..MaxFw
        BY <4>1, BoundAssumption DEF IInv, Types
      <4>3. \A f \in 1..fw : HeaderOf(f) # HeaderOf(fw + 1)
        <5>1. \A f, g \in 0..MaxFw :
                (HeaderOf(f) = HeaderOf(g) => f = g) /\ HeaderOf(f) # NoHeader
          BY HeadersDiffer DEF IInv
        <5>2. QED
          BY <4>2, <5>1
      <4>4. HeaderOf(fw + 1) # NoHeader
        BY <4>2, HeadersDiffer DEF IInv
      <4>5. QED
        BY <4>3, <4>4 DEF IInv, HeaderInv
    <3>4. Trusted' => Trusted /\ fw' = fw
      BY <3>1, <3>2, <3>3 DEF Trusted
    <3>5. ~Runs'
      BY <3>1 DEF Runs
    <3>6. QED
      BY <3>1, <3>4, <3>5, QuietStep DEF Store!Next
  <2>2. CASE CheckHeader \/ RestoreInit \/ \E u \in {0, 1} : RestoreDqs(u)
    <3>1. /\ use' = use /\ flash' = flash /\ fw' = fw
          /\ at'.pc \notin {"save", "up"} /\ at.pc # "save"
          /\ past'.doubt = {} => past.doubt = {}
      <4>1. CASE CheckHeader
        BY <4>1 DEF CheckHeader, IInv, Types
      <4>2. CASE RestoreInit
        BY <4>2 DEF RestoreInit, Restored, Doubts, IInv, Types
      <4>3. ASSUME NEW u \in {0, 1}, RestoreDqs(u)
            PROVE  /\ at'.pc \notin {"save", "up"} /\ at.pc # "save"
                   /\ past'.doubt = {} => past.doubt = {}
        <5>1. RestorePc[u + 1] \in {"restore0", "restore1"}
              /\ RestorePc[u + 2] \in {"restore1", "config"}
          BY DEF RestorePc
        <5>2. CASE hdr.trn[u] = 0
          BY <4>3, <5>1, <5>2 DEF RestoreDqs, IInv, Types
        <5>3. CASE hdr.trn[u] # 0
          <6>1. PICK r \in Read(ram.dqs[u], hdr.trn[u], DqsLen) :
                  /\ Restored(r, RestorePc[u + 2])
                  /\ IF r.ret = 0 THEN Doubts(r, "dqs") ELSE past' = [past EXCEPT !.failed = TRUE]
            BY <4>3, <5>3 DEF RestoreDqs
          <6>2. at'.pc \in {RestorePc[u + 2], "config"}
            BY <6>1 DEF Restored, IInv, Types
          <6>3. past'.doubt = {} => past.doubt = {}
            <7>1. CASE r.ret = 0
              <8>1. past'.doubt = IF HasJunk(r.buf) THEN past.doubt \cup {"dqs"} ELSE past.doubt
                BY <6>1, <7>1 DEF Doubts, IInv, Types
              <8>2. QED
                BY <8>1
            <7>2. CASE r.ret # 0
              BY <6>1, <7>2 DEF IInv, Types
            <7>3. QED
              BY <7>1, <7>2
          <6>4. QED
            BY <4>3, <5>1, <6>2, <6>3 DEF RestoreDqs
        <5>4. QED
          BY <5>2, <5>3
      <4>4. QED
        BY <2>2, <4>1, <4>2, <4>3 DEF RestoreDqs
    <3>2. \A f : HeaderOf(f)' = HeaderOf(f)
      BY <3>1, SameHeaders
    <3>3. Trusted' => Trusted /\ fw' = fw
      BY <3>1, <3>2 DEF Trusted
    <3>4. ~Runs'
      BY <3>1 DEF Runs
    <3>5. QED
      BY <3>1, <3>3, <3>4, QuietStep DEF Store!Next
  <2>3. CASE Config
    <3>1. /\ use' = use /\ flash' = flash /\ fw' = fw /\ past' = past /\ ram' = ram
          /\ at.pc = "config" /\ at'.pc \in {"train", "up", "no_memory"}
          /\ at'.pc = "up" => AllRestored
      BY <2>3 DEF Config, IInv, Types, AllRestored
    <3>2. \A f : HeaderOf(f)' = HeaderOf(f)
      BY <3>1, SameHeaders
    <3>3. Trusted' => Trusted
      BY <3>1, <3>2 DEF Trusted
    <3>4. CASE ~Runs'
      BY <3>1, <3>3, <3>4, QuietStep DEF Store!Next
    <3>5. CASE Runs'
      <4>1. past.doubt = {} /\ AllRestored /\ Trusted
        BY <3>1, <3>5 DEF Runs, Trusted, IInv, HeaderInv
      <4>2. PICK g \in 1..MaxBoots : Kept1(g)
        BY <1>2, <4>1 DEF KeptNow
      <4>3. OneTraining(ram.init, ram.dqs, g)
        BY <4>1, <4>2, RestoredIsOne
      <4>4. OneTraining(ram.init, ram.dqs, g)' /\ Kept1(g)'
        BY <3>1, <4>2, <4>3 DEF OneTraining, InPlace, Kept1
      <4>5. Trusted'
        BY <3>1, <3>2, <4>1 DEF Trusted
      <4>6. Kept = g /\ Kept' = g
        BY <1>2, <1>3, <4>1, <4>2, <4>4, <4>5 DEF KeptNow
      <4>7. Running = 0 /\ Running' = g
        <5>1. ~Runs
          BY <3>1 DEF Runs
        <5>2. QED
          BY <1>2, <1>4, <3>5, <4>4, <5>1 DEF RunningNow
      <4>8. g # 0
        OBVIOUS
      <4>9. QED
        BY <4>6, <4>7, <4>8 DEF Store!Next, Store!Restore, Store!None
    <3>6. QED
      BY <3>4, <3>5
  <2>4. CASE Train
    <3>1. /\ use' = use /\ flash' = flash /\ fw' = fw /\ tally' = tally
          /\ at.pc = "train" /\ at'.pc = "save" /\ past'.doubt = past.doubt
          /\ past'.over = ~NeedTraining(flash.hdr)
      BY <2>4 DEF Train, IInv, Types
    <3>2. \A f : HeaderOf(f)' = HeaderOf(f)
      BY <3>1, SameHeaders
    <3>3. NeedTraining(flash.hdr) <=> flash.hdr # HeaderOf(fw)
      BY TrustedIs DEF IInv
    <3>4. ~Trusted'
      BY <3>1, <3>2, <3>3 DEF Trusted
    <3>5. Kept' = 0
      BY <1>3, <3>4 DEF KeptNow
    <3>6. CASE past.doubt # {}
      <4>1. ~Runs'
        BY <3>1, <3>6 DEF Runs
      <4>2. Running' = 0
        BY <1>4, <4>1 DEF RunningNow
      <4>3. QED
        BY <3>5, <4>2 DEF Store!Next, Store!Stop, Store!None
    <3>7. CASE past.doubt = {}
      <4>1. ~Runs /\ Runs'
        BY <3>1, <3>7 DEF Runs
      <4>2. PICK g \in 1..MaxBoots : OneTraining(ram.init, ram.dqs, g)'
        BY <1>4, <4>1 DEF RunningNow
      <4>3. Running = 0 /\ Running' = g
        BY <1>2, <1>4, <4>1, <4>2 DEF RunningNow
      <4>4. QED
        BY <3>5, <4>3 DEF Store!Next, Store!Train, Store!None
    <3>8. QED
      BY <3>6, <3>7
  <2>5. CASE Save
    <3>1. /\ at.pc = "save" /\ use' = use /\ fw' = fw /\ hdr' = hdr /\ ram' = ram
          /\ tally' = tally
          /\ past'.doubt = past.doubt /\ past'.over = past.over
          /\ \/ at.done < Saved /\ at'.pc = "save" /\ flash'.hdr = flash.hdr
             \/ at.done = Saved /\ at'.pc = "up" /\ flash'.hdr = hdr /\ flash'.blk = flash.blk
      BY <2>5, SaveIs
    <3>2. \A f : HeaderOf(f)' = HeaderOf(f)
      BY <3>1, SameHeaders
    <3>3. ~Trusted
      BY <3>1 DEF Trusted, IInv, NeedInv
    <3>4. Kept = 0
      BY <1>2, <3>3 DEF KeptNow
    <3>5. \A g : OneTraining(ram.init, ram.dqs, g)' <=> OneTraining(ram.init, ram.dqs, g)
      BY <3>1 DEF OneTraining, InPlace
    <3>6. Runs' <=> Runs
      BY <3>1 DEF Runs
    <3>7. Running' = Running
      <4>1. CASE ~Runs
        BY <1>2, <1>4, <3>6, <4>1 DEF RunningNow
      <4>2. CASE Runs
        <5>1. PICK g \in 1..MaxBoots : OneTraining(ram.init, ram.dqs, g)
          BY <1>2, <4>2 DEF RunningNow
        <5>2. QED
          BY <1>2, <1>4, <3>5, <3>6, <4>2, <5>1 DEF RunningNow
      <4>3. QED
        BY <4>1, <4>2
    <3>8. CASE at.done < Saved /\ at'.pc = "save" /\ flash'.hdr = flash.hdr
      <4>1. ~Trusted'
        BY <3>1, <3>2, <3>3, <3>8 DEF Trusted
      <4>2. QED
        BY <1>3, <3>4, <3>7, <4>1 DEF KeptNow
    <3>9. CASE /\ at.done = Saved /\ at'.pc = "up"
               /\ flash'.hdr = hdr /\ flash'.blk = flash.blk
      <4>1. CASE past.doubt # {}
        <5>1. ~Trusted'
          BY <3>1, <4>1 DEF Trusted
        <5>2. QED
          BY <1>3, <3>4, <3>7, <5>1 DEF KeptNow
      <4>2. CASE past.doubt = {}
        <5>1. Kept1(tally.boots) /\ tally.boots \in 1..MaxBoots
          BY <3>1, <3>9, <4>2, SavedIsOne
        <5>2. PICK g \in 1..MaxBoots : g = tally.boots
          BY <5>1
        <5>3. Kept1(g)'
          BY <3>1, <3>9, <5>1, <5>2 DEF Kept1
        <5>4. Trusted'
          BY <3>1, <3>2, <3>9, <4>2 DEF Trusted, IInv, HeaderInv
        <5>5. Kept' = g
          BY <1>3, <5>3, <5>4 DEF KeptNow
        <5>6. Runs /\ OneTraining(ram.init, ram.dqs, g)
          BY <3>1, <4>2, <5>2 DEF Runs, IInv, RamInv
        <5>7. Running = g
          BY <1>2, <5>6 DEF RunningNow
        <5>8. g # 0
          OBVIOUS
        <5>9. QED
          BY <3>7, <5>5, <5>7, <5>8 DEF Store!Next, Store!Commit, Store!None
      <4>3. QED
        BY <4>1, <4>2
    <3>10. QED
      BY <3>1, <3>8, <3>9
  <2>6. CASE SaveFails
    <3>1. /\ at.pc = "save" /\ use' = use /\ fw' = fw /\ flash' = flash /\ ram' = ram
          /\ at'.pc = "up"
      BY <2>6 DEF SaveFails, IInv, Types
    <3>2. past' = IF past.over THEN [past EXCEPT !.doubt = @ \cup {"torn"}] ELSE past
      BY <2>6 DEF SaveFails, Torn
    <3>3. \A f : HeaderOf(f)' = HeaderOf(f)
      BY <3>1, SameHeaders
    <3>4. ~Trusted
      BY <3>1 DEF Trusted, IInv, NeedInv
    <3>5. ~Trusted'
      BY <3>1, <3>2, <3>3 DEF Trusted, IInv, NeedInv, Types
    <3>6. Kept = 0 /\ Kept' = 0
      BY <1>2, <1>3, <3>4, <3>5 DEF KeptNow
    <3>7. CASE past'.doubt # {}
      <4>1. ~Runs'
        BY <3>7 DEF Runs
      <4>2. Running' = 0
        BY <1>4, <4>1 DEF RunningNow
      <4>3. QED
        BY <3>6, <4>2 DEF Store!Next, Store!Stop, Store!None
    <3>8. CASE past'.doubt = {}
      <4>1. Runs /\ Runs'
        BY <3>1, <3>2, <3>8 DEF Runs, IInv, Types
      <4>2. PICK g \in 1..MaxBoots : OneTraining(ram.init, ram.dqs, g)
        BY <1>2, <4>1 DEF RunningNow
      <4>3. OneTraining(ram.init, ram.dqs, g)'
        BY <3>1, <4>2 DEF OneTraining, InPlace
      <4>4. Running = g /\ Running' = g
        BY <1>2, <1>4, <4>1, <4>2, <4>3 DEF RunningNow
      <4>5. QED
        BY <3>6, <4>4
    <3>9. QED
      BY <3>7, <3>8
  <2>7. CASE Off
    <3>1. UNCHANGED <<use, fw, flash, ram, hdr, tally>> /\ at'.pc = "off"
      BY <2>7 DEF Off
    <3>2. /\ past'.doubt = {} => past.doubt = {} /\ ~(at.pc = "save" /\ past.over)
      BY <2>7 DEF Off, Torn, IInv, Types
    <3>3. \A f : HeaderOf(f)' = HeaderOf(f)
      BY <3>1, SameHeaders
    <3>4. Trusted' => Trusted /\ fw' = fw
      BY <3>1, <3>2, <3>3 DEF Trusted
    <3>5. ~Runs'
      BY <3>1 DEF Runs
    <3>6. QED
      BY <3>1, <3>2, <3>4, <3>5, QuietStep DEF Store!Next
  <2>8. CASE UNCHANGED vars
    <3>1. UNCHANGED <<use, fw, flash, ram, hdr, tally, at, past>>
      BY <2>8 DEF vars
    <3>2. Kept' = Kept /\ Running' = Running
      BY <3>1 DEF Kept, Running, FlashTraining, TrainingOf, OneTraining, InPlace, NeedTraining
    <3>3. QED
      BY <3>2
  <2>9. QED
    BY <2>1, <2>2, <2>3, <2>4, <2>5, <2>6, <2>7, <2>8 DEF Next, Step
<1>6. QED
  BY <1>1, <1>5, Invariant, PTL DEF Spec, SaveIsAtomic, Store!Spec
=============================================================================
