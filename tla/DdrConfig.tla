----------------------------- MODULE DdrConfig ------------------------------
(***************************************************************************)
(* memctl_init of board/leadcore/lc186x with CONFIG_SAVE_DDR_ON_FLASH: the *)
(* register values of the memory controllers and the results of training   *)
(* them are kept in a partition (comip_ddr_on_flash.c), so that a boot     *)
(* trains only when the partition does not vouch for them.  The partition  *)
(* is read and written by flash_block_read and flash_block_write of        *)
(* drivers/misc/comip_flash.c.                                             *)
(*                                                                         *)
(* A block holds a piece of a table: which piece of which table, of which  *)
(* firmware's, and filled in by which training.  Reads fail, with and without *)
(* a report; writes fail half way; the board is reset at any point, and    *)
(* its firmware is updated between two boots.                              *)
(***************************************************************************)
EXTENDS Integers, Sequences

CONSTANTS
  BlkSz,       \* flash_get_block_size()
  HdrLen,      \* sizeof(struct ddr_on_flash_t)
  InitLen,     \* memctl_init_datas_length
  DqsLen,      \* memctl_dqs_length
  Boards,      \* sets of memory controllers a board uses, {0}, {1} or {0, 1}
  MaxReadFaults,   \* bound: failing reads per behaviour
  MaxWriteFaults,  \* bound: failing writes per behaviour
  MaxBoots,    \* bound: boots per behaviour
  MaxFw        \* bound: firmware versions

ASSUME SizeAssumption ==
  /\ BlkSz \in Nat \ {0} /\ HdrLen \in 1..BlkSz
  /\ InitLen \in Nat \ {0} /\ DqsLen \in Nat \ {0}
ASSUME BoardAssumption == Boards \subseteq {{0}, {1}, {0, 1}}
ASSUME FaultAssumption == MaxReadFaults \in Nat /\ MaxWriteFaults \in Nat
ASSUME BoundAssumption == MaxBoots \in Nat /\ MaxFw \in Nat \ {0}

VARIABLES
  use,     \* the controllers of this board
  fw,      \* the firmware; its tables differ from those of every other
  flash,   \* [hdr, blk]: the header and the blocks behind it
  ram,     \* [init, dqs]: memctl_init_datas and memctl0_dqs, memctl1_dqs, piece by piece
  hdr,     \* gd->g_ddr_on_flash
  at,      \* the next step of memctl_init, need_training and the save under way
  tally,   \* [boots, reads, writes]
  past     \* history: [doubt, good, failed, over], see below

vars == <<use, fw, flash, ram, hdr, at, tally, past>>

ROUND(a, b) == ((a + b - 1) \div b) * b
Pieces(len) == ROUND(len, BlkSz) \div BlkSz
Whole(len) == len \div BlkSz

\* A piece of a table: memctl0_dqs, memctl1_dqs or memctl_init_datas (2), the firmware it
\* is from, and the training that filled it in, 0 for none.
Cell == [table : 0..2, piece : Nat, fw : 0..MaxFw, gen : 0..MaxBoots]
Junk == [table |-> 0, piece |-> 0, fw |-> 0, gen |-> 0]

NoHeader == [magic |-> FALSE, checksum |-> 0, total |-> 0, init |-> 0, init_len |-> 0,
             trn |-> [u \in {0, 1} |-> 0], trn_len |-> [u \in {0, 1} |-> 0]]

\* ddr_save_config_data: the header it writes for the firmware's checksum.  The second
\* area follows the first, which has offset 0 when controller 0 is not used.
Header ==
  LET init == ROUND(HdrLen, BlkSz)
      trn0 == IF 0 \in use THEN ROUND(init + InitLen, BlkSz) ELSE 0
      trn1 == IF 1 \in use THEN ROUND(trn0 + DqsLen, BlkSz) ELSE 0
      lens == [u \in {0, 1} |-> IF u \in use THEN DqsLen ELSE 0]
  IN [magic |-> TRUE, checksum |-> fw, total |-> HdrLen + InitLen + lens[0] + lens[1],
      init |-> init, init_len |-> InitLen, trn |-> [u \in {0, 1} |-> IF u = 0 THEN trn0 ELSE trn1],
      trn_len |-> lens]

\* Faulty variant: the total is not that of ddr_save.
NeedTrainingWrongTotal(h) ==
  \/ ~h.magic \/ h.checksum # fw
  \/ h.total # h.init_len + h.trn_len[0] + h.trn_len[1]

\* ddr_need_training, for the header it has read.
NeedTraining(h) ==
  \/ ~h.magic \/ h.checksum # fw
  \/ h.init % BlkSz # 0 \/ \E u \in {0, 1} : h.trn[u] % BlkSz # 0
  \/ h.total # h.init_len + h.trn_len[0] + h.trn_len[1] + HdrLen
  \/ h.init_len # InitLen \/ \E u \in use : h.trn_len[u] # DqsLen

Blocks == 1..(Pieces(HdrLen) + Pieces(InitLen) + 2 * Pieces(DqsLen))

-----------------------------------------------------------------------------
(***************************************************************************)
(* flash_block_read: a set of [buf, ret, junk, faults], the outcomes of    *)
(* reading into old.  The whole blocks are one request; when it fails it   *)
(* may have moved some of them, and broken off within the next.  The rest  *)
(* is read through a block on the stack, and that request's result is lost *)
(* because ret is still 0.                                                 *)
(***************************************************************************)
Load(old, off, n) == [i \in DOMAIN old |-> IF i <= n THEN flash.blk[off \div BlkSz + i - 1] ELSE old[i]]

Read(old, off, len) ==
  LET w == Whole(len)
      full == Load(old, off, Pieces(len))
  IN {[buf |-> full, ret |-> 0, faults |-> 0]}
     \cup (IF len % BlkSz = 0 THEN {}
           ELSE {[buf |-> [full EXCEPT ![w + 1] = Junk], ret |-> 0, faults |-> 1]})
     \cup {[buf |-> Load(old, off, n), ret |-> -1, faults |-> 1] : n \in 0..(w - 1)}
     \cup {[buf |-> [Load(old, off, n) EXCEPT ![n + 1] = Junk], ret |-> -1, faults |-> 1]
             : n \in 0..(w - 1)}

ReadInto(r) ==
  /\ tally.reads + r.faults <= MaxReadFaults
  /\ tally' = [tally EXCEPT !.reads = @ + r.faults]

HasJunk(buf) == \E i \in DOMAIN buf : buf[i] = Junk

-----------------------------------------------------------------------------
(***************************************************************************)
(* memctl_init.                                                            *)
(***************************************************************************)
\* A boot loads the tables of the firmware; the flash may have been given a newer one.
Fresh(t, len) ==
  [i \in 1..Pieces(len) |-> [table |-> t, piece |-> i, fw |-> fw', gen |-> 0]]
Boot ==
  /\ at.pc = "off" /\ tally.boots < MaxBoots
  /\ fw' \in {fw, fw + 1} /\ fw' <= MaxFw
  /\ ram' = [init |-> Fresh(2, InitLen), dqs |-> [u \in {0, 1} |-> Fresh(u, DqsLen)]]
  /\ hdr' = NoHeader
  /\ at' = [pc |-> "check", need |-> TRUE, done |-> 0]
  /\ tally' = [tally EXCEPT !.boots = @ + 1]
  /\ past' = [past EXCEPT !.failed = FALSE, !.over = FALSE]
  /\ UNCHANGED <<use, flash>>

\* ddr_need_training.  The header is less than a block: a failure to read it is not
\* reported, and leaves what the stack had.
CheckHeader ==
  /\ at.pc = "check"
  /\ \E bad \in BOOLEAN :
       /\ ReadInto([faults |-> IF bad THEN 1 ELSE 0])
       /\ hdr' = IF bad THEN NoHeader ELSE flash.hdr
       /\ past' = [past EXCEPT !.failed = bad]
  /\ at' = IF NeedTraining(hdr') THEN [at EXCEPT !.pc = "config"]
           ELSE [at EXCEPT !.pc = "restore_init", !.need = FALSE]
  /\ UNCHANGED <<use, fw, flash, ram>>

\* ddr_restore_config_data: an error ends it, and memctl_init trains.
\* Faulty variant: an error does not end it.
RestoredAnyway(r, next) == at' = [at EXCEPT !.pc = next]
Restored(r, next) ==
  at' = IF r.ret = 0 THEN [at EXCEPT !.pc = next] ELSE [at EXCEPT !.pc = "config", !.need = TRUE]
Doubts(r, what) ==
  past' = [past EXCEPT !.failed = @ \/ r.ret # 0,
                       !.doubt = IF HasJunk(r.buf) THEN @ \cup {what} ELSE @]

RestoreInit ==
  /\ at.pc = "restore_init"
  /\ \E r \in Read(ram.init, hdr.init, InitLen) :
       /\ ReadInto(r)
       /\ ram' = [ram EXCEPT !.init = r.buf]
       /\ Restored(r, "restore0")
       /\ Doubts(r, "init")
  /\ UNCHANGED <<use, fw, flash, hdr>>

\* The same for an area of training results; half of one is harmless, because training
\* fills in all of it.
RestorePc == <<"restore0", "restore1", "config">>
RestoreDqs(u) ==
  /\ at.pc = RestorePc[u + 1]
  /\ IF hdr.trn[u] = 0
     THEN at' = [at EXCEPT !.pc = RestorePc[u + 2]] /\ UNCHANGED <<ram, tally, past>>
     ELSE \E r \in Read(ram.dqs[u], hdr.trn[u], DqsLen) :
            /\ ReadInto(r)
            /\ ram' = [ram EXCEPT !.dqs[u] = r.buf]
            /\ Restored(r, RestorePc[u + 2])
            /\ IF r.ret = 0 THEN Doubts(r, "dqs") ELSE past' = [past EXCEPT !.failed = TRUE]
  /\ UNCHANGED <<use, fw, flash, hdr>>

\* __memctl_init and memctl_init_complete for the controllers in use, then training or
\* memctl_update_training_date.  dram_init goes on when memctl_init fails.
Config ==
  /\ at.pc = "config"
  /\ at' \in {[at EXCEPT !.pc = IF at.need THEN "train" ELSE "up"], [at EXCEPT !.pc = "no_memory"]}
  /\ UNCHANGED <<use, fw, flash, ram, hdr, tally, past>>

\* ddr_training, and the header and the list of writes of ddr_save_config_data.  The DLL
\* lock values go into memctl_init_datas; the rest of a piece stays what it is.
TrainedInit ==
  [i \in DOMAIN ram.init |->
     IF ram.init[i] = Junk THEN Junk ELSE [ram.init[i] EXCEPT !.gen = tally.boots]]
TrainedDqs(u) ==
  IF u \notin use THEN ram.dqs[u]
  ELSE [i \in DOMAIN ram.dqs[u] |-> [table |-> u, piece |-> i, fw |-> fw, gen |-> tally.boots]]
Train ==
  /\ at.pc = "train"
  /\ ram' = [init |-> TrainedInit, dqs |-> [u \in {0, 1} |-> TrainedDqs(u)]]
  /\ hdr' = Header
  /\ at' = [at EXCEPT !.pc = "save", !.done = 0]
  /\ past' = [past EXCEPT !.over = ~NeedTraining(flash.hdr), !.good = 0]
  /\ UNCHANGED <<use, fw, flash, tally>>

\* The blocks flash_block_write writes, in order: the register values, the results of each
\* controller, the header.  A last partial block is written as a whole.
Area(buf, off) == [i \in 1..Len(buf) |-> [to |-> off \div BlkSz + i - 1, cell |-> buf[i]]]
\* Faulty variant: the header first.
SaveListHeaderFirst ==
  <<[to |-> 0, cell |-> Junk]>>
  \o Area(ram.init, hdr.init)
  \o (IF hdr.trn[0] # 0 THEN Area(ram.dqs[0], hdr.trn[0]) ELSE <<>>)
  \o (IF hdr.trn[1] # 0 THEN Area(ram.dqs[1], hdr.trn[1]) ELSE <<>>)
SaveList ==
  Area(ram.init, hdr.init)
  \o (IF hdr.trn[0] # 0 THEN Area(ram.dqs[0], hdr.trn[0]) ELSE <<>>)
  \o (IF hdr.trn[1] # 0 THEN Area(ram.dqs[1], hdr.trn[1]) ELSE <<>>)
  \o <<[to |-> 0, cell |-> Junk]>>

Torn(p) == IF p.over THEN [p EXCEPT !.doubt = @ \cup {"torn"}] ELSE p

Save ==
  /\ at.pc = "save"
  /\ LET w == SaveList[at.done + 1]
         last == at.done + 1 = Len(SaveList)
     IN /\ flash' = IF w.to = 0 THEN [flash EXCEPT !.hdr = hdr] ELSE [flash EXCEPT !.blk[w.to] = w.cell]
        /\ at' = [at EXCEPT !.done = @ + 1, !.pc = IF last THEN "up" ELSE "save"]
        /\ past' = IF last THEN [past EXCEPT !.good = fw] ELSE past
  /\ UNCHANGED <<use, fw, ram, hdr, tally>>

\* A write error ends ddr_save_config_data; memctl_init does not look at its result.
SaveFails ==
  /\ at.pc = "save" /\ tally.writes < MaxWriteFaults
  /\ tally' = [tally EXCEPT !.writes = @ + 1]
  /\ at' = [at EXCEPT !.pc = "up"]
  /\ past' = Torn(past)
  /\ UNCHANGED <<use, fw, flash, ram, hdr>>

\* The board is turned off or reset.
Off ==
  /\ at.pc # "off"
  /\ at' = [pc |-> "off", need |-> FALSE, done |-> 0]
  /\ past' = IF at.pc = "save" THEN Torn(past) ELSE past
  /\ UNCHANGED <<use, fw, flash, ram, hdr, tally>>

Init ==
  /\ use \in Boards
  /\ fw = 1
  /\ flash = [hdr |-> NoHeader, blk |-> [b \in Blocks |-> Junk]]
  /\ ram = [init |-> [i \in 1..Pieces(InitLen) |-> Junk],
            dqs |-> [u \in {0, 1} |-> [i \in 1..Pieces(DqsLen) |-> Junk]]]
  /\ hdr = NoHeader
  /\ at = [pc |-> "off", need |-> FALSE, done |-> 0]
  /\ tally = [boots |-> 0, reads |-> 0, writes |-> 0]
  /\ past = [doubt |-> {}, good |-> 0, failed |-> FALSE, over |-> FALSE]

Step == CheckHeader \/ RestoreInit \/ (\E u \in {0, 1} : RestoreDqs(u)) \/ Config \/ Train \/ Save
Next == Boot \/ Step \/ SaveFails \/ Off

Spec == Init /\ [][Next]_vars

-----------------------------------------------------------------------------
(***************************************************************************)
(* Properties.  past.doubt says which of three things happened:            *)
(*   "init": reading the register values went wrong.  Without a report the *)
(*           memory runs on what the stack had; with one, memctl_init      *)
(*           trains, but on the half-read values, and saves them;          *)
(*   "dqs":  training results were not read and this was not reported;     *)
(*   "torn": a save was cut short over a header that still vouched for the *)
(*           area, which happens after a reading failure only.             *)
(* past.good is the firmware whose save was completed last, past.failed    *)
(* that a read of this boot failed, past.over that this save overwrites    *)
(* what a valid header vouches for.                                        *)
(***************************************************************************)
Pc == {"off", "check", "restore_init", "restore0", "restore1", "config", "train", "save",
       "up", "no_memory"}

\* Every variable keeps its type, and a save stays within its list.
TypeOK ==
  /\ use \in Boards /\ fw \in 1..MaxFw
  /\ flash.blk \in [Blocks -> Cell]
  /\ ram \in [init : [1..Pieces(InitLen) -> Cell], dqs : [{0, 1} -> [1..Pieces(DqsLen) -> Cell]]]
  /\ {hdr, flash.hdr} \subseteq
       [magic : BOOLEAN, checksum : 0..MaxFw, total : Nat, init : Nat, init_len : Nat,
        trn : [{0, 1} -> Nat], trn_len : [{0, 1} -> Nat]]
  /\ at \in [pc : Pc, need : BOOLEAN, done : Nat]
  /\ at.pc = "save" => at.done < Len(SaveList)
  /\ tally \in [boots : 0..MaxBoots, reads : 0..MaxReadFaults, writes : 0..MaxWriteFaults]
  /\ past \in [doubt : SUBSET {"init", "dqs", "torn"}, good : 0..MaxFw,
               failed : BOOLEAN, over : BOOLEAN]

\* The training that a table and its results come from, if every piece is in its place
\* and of this firmware, or Mixed.
Mixed == -1
InPlace(buf, t, g) ==
  \A i \in DOMAIN buf : buf[i] = [table |-> t, piece |-> i, fw |-> fw, gen |-> g]
OneTraining(init, dqs, g) ==
  g > 0 /\ InPlace(init, 2, g) /\ \A u \in use : InPlace(dqs[u], u, g)
TrainingOf(init, dqs) ==
  LET g == init[1].gen IN IF OneTraining(init, dqs, g) THEN g ELSE Mixed

\* Memory that is up runs on this firmware's register values and on the results of one
\* training, after any sequence of resets, failing writes, failing reads and updates,
\* unless one of the three things above has happened.
RunsOnOneTraining ==
  at.pc = "up" /\ past.doubt = {} => TrainingOf(ram.init, ram.dqs) # Mixed

Safety == TypeOK /\ RunsOnOneTraining

\* A boot trains only when it has to: not when the last save of this firmware completed
\* and every read of this boot succeeded.
TrainsOnlyWhenNeeded == at.pc = "train" /\ ~past.failed => past.good # fw

\* The partition as a store that is replaced as a whole: ddr_save_config_data writes the
\* header last, so no cut short save is vouched for.
FlashTraining ==
  TrainingOf([i \in 1..Pieces(InitLen) |-> flash.blk[flash.hdr.init \div BlkSz + i - 1]],
             [u \in {0, 1} |-> [i \in 1..Pieces(DqsLen) |->
                IF u \in use THEN flash.blk[flash.hdr.trn[u] \div BlkSz + i - 1] ELSE Junk]])
Kept ==
  IF past.doubt # {} \/ NeedTraining(flash.hdr) \/ (at.pc = "save" /\ past.over) THEN 0
  ELSE FlashTraining
Running ==
  IF past.doubt # {} \/ at.pc \notin {"save", "up"} THEN 0 ELSE TrainingOf(ram.init, ram.dqs)

Store == INSTANCE StoredTraining WITH
  Trainings <- 1..MaxBoots, kept <- Kept, running <- Running

\* memctl_init implements StoredTraining: what is restored is what was saved, as a whole.
SaveIsAtomic == Store!Spec

=============================================================================
