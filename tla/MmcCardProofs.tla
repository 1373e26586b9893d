---------------------------- MODULE MmcCardProofs ----------------------------
(***************************************************************************)
(* Theorems about MmcCard: a card that mmc_init calls ready is the card    *)
(* that the driver takes it for, clocked as it can bear, whatever command  *)
(* failed on the way.                                                      *)
(*                                                                         *)
(* They hold for cards that are busy no longer than mmc_send_status polls  *)
(* them, since its callers ignore that it gave up.                         *)
(***************************************************************************)
EXTENDS MmcCard, TLAPS

\* A busy card answers before mmc_send_status gives up, which its callers do not notice.
Patient == MaxBusy <= StatusTries + 1

-----------------------------------------------------------------------------
(***************************************************************************)
(* The phases of mmc_init.                                                 *)
(***************************************************************************)
Waiting(back) == at.pc = "status" /\ at.back = back
FindingPcs == {"go_idle", "if_cond", "sd_app", "sd_op", "go_idle_again", "op_first",
               "op_poll", "cid", "rca", "csd"}
FreqPcs == {"ext_csd", "freq_ext_csd", "freq_switch", "freq_done", "freq_check"}
SdPcs == {"sd_scr_app", "sd_scr", "sd_check", "sd_switch", "sd_width_app", "sd_width"}
LoopPcs == {"width", "width_done", "width_test"}

Finding == at.pc \in FindingPcs
CsdRead == at.pc = "csd_done" \/ Waiting("csd_done")
SettingFreq == at.pc \in FreqPcs \/ Waiting("freq_done")
SettingSd == at.pc \in SdPcs
InLoop == at.pc \in LoopPcs \/ Waiting("width_done") \/ (at.pc = "width_set" /\ ~IS_SD)
Selected == SettingFreq \/ SettingSd \/ InLoop \/ at.pc \in {"width_set", "clock"}
Bringing == Finding \/ CsdRead \/ at.pc = "select" \/ Selected

-----------------------------------------------------------------------------
(***************************************************************************)
(* The inductive invariant.                                                *)
(***************************************************************************)
PhaseInv ==
  /\ mmc.has_init => at.pc \in {"init_returned", "use", "board_init", "done", "off"}
  /\ at.pc \in {"use", "board_init", "done"} => mmc.has_init
  /\ mmc.has_init <=> mmc.lba = 1
  /\ ~mmc.has_init => mmc.part_num = 0
  /\ at.pc = "status" => at.back # "none"

\* A card that is not selected is as CMD0 has left it; what the driver takes for an SD card
\* is one.
CardInv ==
  /\ card.state # "tran" => card.part = 0 /\ card.width = 1
  /\ card.state \in {"stby", "tran"} => (card.rca = 1 <=> IsSd(card.kind))
  /\ IS_SD => IsSd(card.kind)
  /\ mmc.rca = 1 => IS_SD
  /\ mmc.version = "MMC_VERSION_4" => card.kind = "emmc"

\* What answered CMD1 is not taken for an SD card, and its CSD tells an eMMC.
VersionInv ==
  /\ (at.pc \in {"cid", "rca", "csd"} \/ CsdRead) /\ ~IsSd(card.kind) =>
       mmc.version = "MMC_VERSION_UNKNOWN"
  /\ at.pc = "select" /\ card.kind = "emmc" => mmc.version = "MMC_VERSION_4"

\* From CMD_SEND_CSD on the card is the one addressed.
SelectInv ==
  /\ (CsdRead /\ ~at.err) \/ at.pc = "select" => card.state = "stby" /\ card.rca = mmc.rca
  /\ Selected => card.state = "tran" /\ card.rca = mmc.rca /\ card.part = 0
  /\ SettingFreq => card.kind = "emmc" /\ ~IS_SD
  /\ SettingSd => IS_SD
  /\ InLoop => ~IS_SD
  /\ ReadyIsSelected

\* Unless the card came up after the last poll, it is addressed as it expects.
AddressInv ==
  at.pc \in {"cid", "rca", "csd"} \/ CsdRead \/ at.pc = "select" \/ Selected \/ mmc.has_init =>
    at.late \/ mmc.high_capacity = card.hc

\* The divider is that of 400 kHz until the end, and the parent clock that of the vendor.
ClockInv ==
  /\ gd.usedma => gd.vendor = card.vendor
  /\ at.pc \in {"rca", "csd"} \/ CsdRead \/ at.pc = "select" \/ Selected \/ mmc.has_init =>
       gd.vendor = card.vendor
  /\ Bringing => /\ mmc.clock = F_MIN /\ mmc.bus_width = reg.CTYPE
                 /\ reg.CLKDIV = 130 /\ div = 130 /\ reg.parent = Parent
  /\ CardClock <= 52000

\* A card is busy only while it is polled, or after a poll has failed.
BusyInv ==
  /\ ~early
  /\ \/ Finding \/ CsdRead \/ SettingSd
     \/ at.pc \in {"select", "ext_csd", "freq_ext_csd", "freq_switch"}
     => card.busy = 0
  /\ at.pc = "status" => card.busy <= at.left + 1 /\ ~at.dirty
  /\ Bringing /\ at.pc # "status" /\ card.busy > 0 => at.dirty

(***************************************************************************)
(* The widths.  As long as few commands have failed, a width that works    *)
(* has been given up for a fault only, and a card that is busy has the     *)
(* width of the controller.                                                *)
(***************************************************************************)
Few == tally.faults < (IF Wires = 1 THEN 1 ELSE 2)
Fault == tally.faults >= 1
GivenUp(w) ==
  /\ w = 4 /\ Wires = 8 => Fault
  /\ w = 1 /\ Wires >= 4 => Fault
SameWidth(w) == card.width = w /\ reg.CTYPE = w

LoopInv ==
  /\ InLoop => at.width \in {1, 4, 8}
  /\ InLoop /\ card.kind # "emmc" =>
       SameWidth(1) /\ at.pc \notin {"width_set", "width_test"} /\ (at.pc # "width" => at.err)
  /\ (InLoop \/ at.pc \in {"freq_ext_csd", "freq_switch", "freq_done", "freq_check"}
        \/ Waiting("freq_done"))
       /\ card.kind = "emmc" /\ at.ext_csd = "junk" => Fault
  /\ at.pc = "width" /\ at.width = 8 => SameWidth(1) /\ card.busy = 0
  /\ at.pc = "width" /\ card.kind = "emmc" /\ at.width # 8 /\ Few =>
       /\ GivenUp(at.width)
       /\ card.busy > 0 => Fault /\ SameWidth(IF at.width = 1 THEN 4 ELSE 8)
  /\ (at.pc = "width_done" \/ Waiting("width_done")) /\ ~at.err => card.width = at.width
  /\ (at.pc = "width_done" \/ Waiting("width_done")) /\ card.kind = "emmc" /\ Few =>
       IF at.err THEN /\ Fault /\ (at.width = 1 => Wires >= 4 /\ SameWidth(4))
                      /\ at.pc = "width_done" => card.busy = 0
       ELSE /\ GivenUp(at.width)
            /\ at.pc = "width_done" /\ card.busy > 0 => Fault
  /\ at.pc \in {"width_set", "width_test"} /\ ~IS_SD =>
       /\ card.width = at.width
       /\ Few => GivenUp(at.width) /\ (card.busy > 0 => Fault)
  /\ at.pc = "width_test" => SameWidth(at.width) /\ at.width # 1

WidthInv ==
  /\ Finding \/ CsdRead \/ at.pc = "select" => reg.CTYPE = 1
  /\ SettingFreq \/ SettingSd => SameWidth(1)
  /\ SettingFreq => at.width = 8
  /\ at.pc \in {"sd_width_app", "sd_width"} \/ (at.pc = "width_set" /\ IS_SD) => at.width = 4
  /\ at.pc = "width_set" /\ IS_SD => card.width = 4
  /\ (at.pc = "clock" \/ mmc.has_init) /\ Few /\ ~(Wires = 1 /\ IsSd(card.kind)) => BusWorks

IInv ==
  /\ TypeOK /\ PhaseInv /\ CardInv /\ VersionInv /\ SelectInv /\ AddressInv /\ ClockInv /\ BusyInv
  /\ LoopInv /\ WidthInv

-----------------------------------------------------------------------------
(***************************************************************************)
(* Commands.                                                               *)
(***************************************************************************)
\* One poll of a busy card.
Elapsed == [card EXCEPT !.busy = IF @ > 0 THEN @ - 1 ELSE 0]

\* What a command leaves, whatever happens to it: the card has done it or not, it costs a
\* fault if it was one that should have worked, and an answer means that it was done.
LEMMA SendIs ==
  ASSUME TypeOK, NEW cmd \in DOMAIN Knows, NEW err \in BOOLEAN, NEW hung,
         Send(cmd, err, hung)
  PROVE  /\ tally' \in [faults : 0..MaxFaults, boots : 1..MaxBoots]
         /\ tally'.faults \in {tally.faults, tally.faults + 1}
         /\ early' = (early \/ (card.busy > 0 /\ cmd # "CMD_SEND_STATUS" /\ ~at.dirty))
         /\ (Answers(cmd) /\ card' \in After(cmd)) \/ (err /\ card' = Elapsed)
         /\ ~err => Answers(cmd) /\ (cmd \in DataCommands => BusWorks)
         /\ err /\ Answers(cmd) /\ (cmd \in DataCommands => BusWorks) =>
              tally'.faults = tally.faults + 1
         /\ hung => err
<1>1. PICK fault \in {"none", "unheard", "unanswered", "data"} :
        /\ fault # "none" => tally.faults < MaxFaults
        /\ fault = "data" => cmd \in DataCommands /\ Answers(cmd)
        /\ IF Answers(cmd) /\ fault # "unheard" THEN card' \in After(cmd)
           ELSE card' = Elapsed
        /\ tally' = [tally EXCEPT !.faults = @ + IF fault = "none" THEN 0 ELSE 1]
        /\ early' = (early \/ (card.busy > 0 /\ cmd # "CMD_SEND_STATUS" /\ ~at.dirty))
        /\ err = (\/ fault \in {"unheard", "unanswered"} \/ ~Answers(cmd)
                  \/ fault = "data" \/ (cmd \in DataCommands /\ ~BusWorks))
        /\ hung \in {FALSE, /\ Answers(cmd)
                            /\ fault = "data" \/ (cmd \in DataCommands /\ ~BusWorks)
                            /\ fault \notin {"unheard", "unanswered"}
                            /\ ~gd.usedma}
  BY Zenon DEF Send, Elapsed
<1>2. /\ tally' \in [faults : 0..MaxFaults, boots : 1..MaxBoots]
      /\ tally'.faults \in {tally.faults, tally.faults + 1}
      /\ fault # "none" => tally'.faults = tally.faults + 1
  BY <1>1, BoundAssumption DEF TypeOK
<1>3. (Answers(cmd) /\ card' \in After(cmd)) \/ (err /\ card' = Elapsed)
  BY <1>1
<1>4. ~err => Answers(cmd) /\ (cmd \in DataCommands => BusWorks)
  BY <1>1
<1>5. err /\ Answers(cmd) /\ (cmd \in DataCommands => BusWorks) => fault # "none"
  BY <1>1
<1>6. hung => err
  BY <1>1
<1>7. QED
  BY <1>1, <1>2, <1>3, <1>4, <1>5, <1>6

\* The states of a card.
CardState ==
  [kind : Kind, vendor : {"EMMC_SAMSUNG", "other"}, hc : BOOLEAN,
   state : {"idle", "ready", "ident", "stby", "tran"}, rca : {0, 1}, width : {1, 4, 8},
   hs : BOOLEAN, part : {0, 1}, warm : 0..MaxWarm, busy : 0..MaxBusy, app : BOOLEAN]

\* The card is the same one, with the same partition open.
SameCard ==
  /\ card' \in CardState
  /\ card'.kind = card.kind /\ card'.vendor = card.vendor /\ card'.hc = card.hc
  /\ card'.part = card.part

\* It has only come closer to the end of what it does.
Still ==
  /\ SameCard
  /\ card'.state = card.state /\ card'.rca = card.rca /\ card'.width = card.width
  /\ card'.busy = IF card.busy > 0 THEN card.busy - 1 ELSE 0

\* Commands that change nothing that matters here.
PlainCommands ==
  {"CMD_SEND_IF_COND", "CMD_APP_CMD", "CMD_SEND_CSD", "CMD_SEND_STATUS", "CMD_SEND_EXT_CSD",
   "CMD_APP_SEND_SCR", "CMD_SWITCH_FUNC"}

\* A card that misses a command goes on with what it does.
LEMMA ElapsedIs == ASSUME TypeOK, card' = Elapsed PROVE Still
<1>1. card \in CardState
  BY DEF TypeOK, CardState
<1>2. (IF card.busy > 0 THEN card.busy - 1 ELSE 0) \in 0..MaxBusy
  BY <1>1, TryAssumption DEF CardState
<1>3. QED
  BY <1>1, <1>2 DEF Elapsed, Still, SameCard, CardState

\* So does one that answers a plain command.
LEMMA PlainIs ==
  ASSUME TypeOK, NEW cmd \in DOMAIN Knows, card' \in After(cmd), Answers(cmd),
         cmd \in PlainCommands \/ (cmd = "CMD_SEND_OP_COND" /\ at.pc # "op_poll")
  PROVE  Still
<1> DEFINE c == [card EXCEPT !.app = (cmd = "CMD_APP_CMD")]
<1>1. card \in CardState
  BY DEF TypeOK, CardState
<1>2. (IF card.busy > 0 THEN card.busy - 1 ELSE 0) \in 0..MaxBusy
  BY <1>1, TryAssumption DEF CardState
<1>3. /\ c \in CardState /\ c.busy = card.busy
      /\ c.state = card.state /\ c.rca = card.rca /\ c.width = card.width
      /\ c.kind = card.kind /\ c.vendor = card.vendor /\ c.hc = card.hc /\ c.part = card.part
  <2>1. (cmd = "CMD_APP_CMD") \in BOOLEAN
    OBVIOUS
  <2>2. QED
    BY <1>1, <2>1 DEF CardState
<1>4. CASE cmd = "CMD_SWITCH_FUNC"
  <2>1. card' = [c EXCEPT !.hs = @ \/ at.pc = "sd_switch"]
    BY <1>4 DEF After
  <2>2. card.busy = 0
    BY <1>1, <1>4 DEF Answers, CardState
  <2>3. card' \in CardState
    <3>1. (c.hs \/ at.pc = "sd_switch") \in BOOLEAN
      OBVIOUS
    <3>2. QED
      BY ZenonT(60), <1>3, <2>1, <3>1 DEF CardState
  <2>4. /\ card'.busy = card.busy
        /\ card'.state = card.state /\ card'.rca = card.rca /\ card'.width = card.width
        /\ card'.kind = card.kind /\ card'.vendor = card.vendor /\ card'.hc = card.hc
        /\ card'.part = card.part
    BY <1>3, <2>1 DEF CardState
  <2>5. QED
    BY <2>2, <2>3, <2>4 DEF Still, SameCard
<1>5. CASE cmd # "CMD_SWITCH_FUNC"
  <2>1. card' = [c EXCEPT !.busy = IF card.busy > 0 THEN card.busy - 1 ELSE 0]
    <3>1. card' = [c EXCEPT !.busy = IF @ > 0 THEN @ - 1 ELSE 0]
      BY <1>5 DEF After, PlainCommands
    <3>2. QED
      BY <1>3, <3>1
  <2>2. card' \in CardState
    <3> HIDE DEF c
    <3>1. QED
      BY <1>2, <1>3, <2>1 DEF CardState
  <2>3. QED
    BY <1>3, <2>1, <2>2 DEF Still, SameCard, CardState
<1>6. QED
  BY <1>4, <1>5

\* The commands of identification: one poll until the card is up, its CID, its address,
\* its selection.
LEMMA IdentifyIs ==
  ASSUME TypeOK,
         NEW cmd \in {"CMD_APP_SEND_OP_COND", "CMD_SEND_OP_COND", "CMD_ALL_SEND_CID",
                      "CMD_SEND_RELATIVE_ADDR", "CMD_SELECT_CARD"},
         cmd = "CMD_SEND_OP_COND" => at.pc = "op_poll",
         card' \in After(cmd), Answers(cmd)
  PROVE  /\ SameCard /\ card'.width = card.width /\ card.busy = 0 /\ card'.busy = 0
         /\ cmd \in {"CMD_APP_SEND_OP_COND", "CMD_SEND_OP_COND"} =>
              /\ card.state = "idle" /\ card'.rca = card.rca
              /\ card'.state = IF card.warm = 0 THEN "ready" ELSE "idle"
         /\ cmd = "CMD_ALL_SEND_CID" =>
              card.state = "ready" /\ card'.state = "ident" /\ card'.rca = card.rca
         /\ cmd = "CMD_SEND_RELATIVE_ADDR" =>
              /\ card.state = "ident" /\ card'.state = "stby"
              /\ card'.rca = IF IsSd(card.kind) THEN 1 ELSE mmc.rca
         /\ cmd = "CMD_SELECT_CARD" =>
              card.state = "stby" /\ card'.state = "tran" /\ card'.rca = card.rca
<1> DEFINE c == [card EXCEPT !.app = FALSE]
<1>1. card \in CardState /\ mmc.rca \in {0, 1}
  BY DEF TypeOK, CardState
<1>2. c \in CardState /\ c.busy = card.busy /\ c.warm = card.warm
      /\ c.state = card.state /\ c.rca = card.rca /\ c.width = card.width
      /\ c.kind = card.kind /\ c.vendor = card.vendor /\ c.hc = card.hc /\ c.part = card.part
  BY <1>1 DEF CardState
<1>3. card.busy = 0
  BY <1>1 DEF Answers, CardState
<1>4. CASE cmd \in {"CMD_APP_SEND_OP_COND", "CMD_SEND_OP_COND"}
  <2>1. card' = PollWarm(c)
    BY <1>4 DEF After
  <2>2. card.state = "idle"
    BY <1>4 DEF Answers, Knows
  <2>3. CASE c.warm = 0
    BY <1>2, <1>3, <1>4, <2>1, <2>2, <2>3 DEF PollWarm, SameCard, CardState
  <2>4. CASE c.warm # 0
    <3>1. c.warm - 1 \in 0..MaxWarm
      BY <1>2, <2>4, TryAssumption DEF CardState
    <3>2. QED
      BY <1>2, <1>3, <1>4, <2>1, <2>2, <2>4, <3>1 DEF PollWarm, SameCard, CardState
  <2>5. QED
    BY <2>3, <2>4
<1>5. CASE cmd = "CMD_ALL_SEND_CID"
  <2>1. card' = [c EXCEPT !.state = "ident"] /\ card.state = "ready"
    BY <1>5 DEF After, Answers, Knows
  <2>2. QED
    BY <1>2, <1>3, <1>5, <2>1 DEF SameCard, CardState
<1>6. CASE cmd = "CMD_SEND_RELATIVE_ADDR"
  <2>1. /\ card' = [c EXCEPT !.state = "stby", !.rca = IF IsSd(c.kind) THEN 1 ELSE mmc.rca]
        /\ card.state = "ident"
    BY <1>6 DEF After, Answers, Knows
  <2>2. (IF IsSd(c.kind) THEN 1 ELSE mmc.rca) \in {0, 1}
    BY <1>1
  <2>3. QED
    BY ZenonT(60), <1>2, <1>3, <1>6, <2>1, <2>2 DEF SameCard, CardState
<1>7. CASE cmd = "CMD_SELECT_CARD"
  <2>1. card' = [c EXCEPT !.state = "tran"] /\ card.state = "stby"
    BY <1>7 DEF After, Answers, Knows
  <2>2. QED
    BY <1>2, <1>3, <1>7, <2>1 DEF SameCard, CardState
<1>8. QED
  BY <1>4, <1>5, <1>6, <1>7

\* The commands that set the width, and CMD_SWITCH for the speed.
LEMMA SwitchIs ==
  ASSUME TypeOK, NEW cmd \in {"CMD_SWITCH", "CMD_APP_SET_BUS_WIDTH"},
         cmd = "CMD_SWITCH" /\ at.pc = "width" => at.width \in {1, 4, 8},
         card' \in After(cmd), Answers(cmd)
  PROVE  /\ SameCard /\ card'.state = card.state /\ card'.rca = card.rca /\ card.busy = 0
         /\ cmd = "CMD_SWITCH" =>
              /\ card.kind = "emmc"
              /\ card'.width = IF at.pc = "width" THEN at.width ELSE card.width
         /\ cmd = "CMD_APP_SET_BUS_WIDTH" => card'.width = 4 /\ card'.busy = 0
<1> DEFINE c == [card EXCEPT !.app = FALSE]
<1>1. card \in CardState
  BY DEF TypeOK, CardState
<1>2. c \in CardState /\ c.busy = card.busy
      /\ c.state = card.state /\ c.rca = card.rca /\ c.width = card.width
      /\ c.kind = card.kind /\ c.vendor = card.vendor /\ c.hc = card.hc /\ c.part = card.part
  BY <1>1 DEF CardState
<1>3. card.busy = 0
  BY <1>1 DEF Answers, CardState
<1>4. CASE cmd = "CMD_SWITCH"
  <2>1. PICK b \in 0..MaxBusy :
          card' = [c EXCEPT !.busy = b,
                            !.hs = @ \/ at.pc = "freq_switch",
                            !.width = IF at.pc = "width" THEN at.width ELSE @]
    BY ZenonT(60), <1>4 DEF After
  <2>2. (c.hs \/ at.pc = "freq_switch") \in BOOLEAN
    OBVIOUS
  <2>3. (IF at.pc = "width" THEN at.width ELSE c.width) \in {1, 4, 8}
    BY <1>2, <1>4 DEF CardState
  <2>4. card.kind = "emmc"
    BY <1>4 DEF Answers, Knows
  <2>5. QED
    BY ZenonT(60), <1>2, <1>3, <1>4, <2>1, <2>2, <2>3, <2>4 DEF SameCard, CardState
<1>5. CASE cmd = "CMD_APP_SET_BUS_WIDTH"
  <2>1. card' = [c EXCEPT !.width = 4]
    BY <1>5 DEF After
  <2>2. QED
    BY ZenonT(60), <1>2, <1>3, <1>5, <2>1 DEF SameCard, CardState
<1>6. QED
  BY <1>4, <1>5

\* What is known of a command that was sent.
Sent(cmd, err) ==
  /\ tally' \in [faults : 0..MaxFaults, boots : 1..MaxBoots]
  /\ tally'.faults \in {tally.faults, tally.faults + 1}
  /\ early' = (early \/ (card.busy > 0 /\ cmd # "CMD_SEND_STATUS" /\ ~at.dirty))
  /\ err /\ Answers(cmd) /\ (cmd \in DataCommands => BusWorks) =>
       tally'.faults = tally.faults + 1

\* What a plain command leaves, answered or not.
LEMMA PlainSent ==
  ASSUME TypeOK, NEW cmd \in PlainCommands \cup {"CMD_SEND_OP_COND"},
         cmd = "CMD_SEND_OP_COND" => at.pc # "op_poll",
         NEW err \in BOOLEAN, NEW hung, Send(cmd, err, hung)
  PROVE  /\ Sent(cmd, err) /\ Still
         /\ ~err => Answers(cmd) /\ (cmd \in DataCommands => BusWorks)
         /\ hung => err
<1>1. cmd \in DOMAIN Knows
  BY DEF PlainCommands, Knows
<1>2. QED
  BY <1>1, SendIs, PlainIs, ElapsedIs DEF Sent

\* What a command of the identification leaves.
LEMMA IdentifySent ==
  ASSUME TypeOK,
         NEW cmd \in {"CMD_APP_SEND_OP_COND", "CMD_SEND_OP_COND", "CMD_ALL_SEND_CID",
                      "CMD_SEND_RELATIVE_ADDR", "CMD_SELECT_CARD"},
         cmd = "CMD_SEND_OP_COND" => at.pc = "op_poll",
         NEW err \in BOOLEAN, NEW hung, Send(cmd, err, hung)
  PROVE  /\ Sent(cmd, err) /\ SameCard /\ card'.width = card.width
         /\ card'.busy = IF card.busy > 0 THEN card.busy - 1 ELSE 0
         /\ ~err => Answers(cmd)
         /\ hung => err
         /\ \/ Still /\ err
            \/ /\ cmd \in {"CMD_APP_SEND_OP_COND", "CMD_SEND_OP_COND"}
               /\ card.state = "idle" /\ card'.rca = card.rca
               /\ card'.state = IF card.warm = 0 THEN "ready" ELSE "idle"
            \/ /\ cmd = "CMD_ALL_SEND_CID"
               /\ card.state = "ready" /\ card'.state = "ident" /\ card'.rca = card.rca
            \/ /\ cmd = "CMD_SEND_RELATIVE_ADDR"
               /\ card.state = "ident" /\ card'.state = "stby"
               /\ card'.rca = IF IsSd(card.kind) THEN 1 ELSE mmc.rca
            \/ /\ cmd = "CMD_SELECT_CARD"
               /\ card.state = "stby" /\ card'.state = "tran" /\ card'.rca = card.rca
<1>1. cmd \in DOMAIN Knows
  BY DEF Knows
<1>2. /\ Sent(cmd, err)
      /\ ~err => Answers(cmd)
      /\ hung => err
      /\ (Answers(cmd) /\ card' \in After(cmd)) \/ (err /\ card' = Elapsed)
  BY <1>1, SendIs DEF Sent
<1>3. CASE err /\ card' = Elapsed
  BY <1>2, <1>3, ElapsedIs DEF Still
<1>4. CASE Answers(cmd) /\ card' \in After(cmd)
  BY <1>2, <1>4, IdentifyIs
<1>5. QED
  BY <1>2, <1>3, <1>4

\* What a command that sets the width, the speed or the partition leaves.
LEMMA SwitchSent ==
  ASSUME TypeOK, NEW cmd \in {"CMD_SWITCH", "CMD_APP_SET_BUS_WIDTH"},
         cmd = "CMD_SWITCH" /\ at.pc = "width" => at.width \in {1, 4, 8},
         NEW err \in BOOLEAN, NEW hung, Send(cmd, err, hung)
  PROVE  /\ Sent(cmd, err) /\ SameCard
         /\ card'.state = card.state /\ card'.rca = card.rca
         /\ \/ Still /\ err
            \/ /\ card.busy = 0
               /\ cmd = "CMD_SWITCH" =>
                    /\ card.kind = "emmc"
                    /\ card'.width = IF at.pc = "width" THEN at.width ELSE card.width
               /\ cmd = "CMD_APP_SET_BUS_WIDTH" => card'.width = 4 /\ card'.busy = 0
<1>1. cmd \in DOMAIN Knows
  BY DEF Knows
<1>2. /\ Sent(cmd, err)
      /\ (Answers(cmd) /\ card' \in After(cmd)) \/ (err /\ card' = Elapsed)
  BY <1>1, SendIs DEF Sent
<1>3. CASE err /\ card' = Elapsed
  BY <1>2, <1>3, ElapsedIs DEF Still
<1>4. CASE Answers(cmd) /\ card' \in After(cmd)
  BY <1>2, <1>4, SwitchIs
<1>5. QED
  BY <1>2, <1>3, <1>4

\* CMD0 leaves the card as it is after power-up, or as it was.
LEMMA GoIdleSent ==
  ASSUME TypeOK, NEW err \in BOOLEAN, SendGoIdle(err)
  PROVE  /\ tally' \in [faults : 0..MaxFaults, boots : 1..MaxBoots]
         /\ early' = (early \/ (card.busy > 0 /\ ~at.dirty))
         /\ card' \in CardState
         /\ err => card' = card
         /\ \/ card' = card
            \/ /\ card'.kind = card.kind /\ card'.vendor = card.vendor /\ card'.hc = card.hc
               /\ card'.state = "idle" /\ card'.part = 0 /\ card'.width = 1 /\ card'.busy = 0
<1>1. card \in CardState /\ tally \in [faults : 0..MaxFaults, boots : 1..MaxBoots]
  BY DEF TypeOK, CardState
<1>2. early' = (early \/ (card.busy > 0 /\ ~at.dirty))
  BY DEF SendGoIdle
<1>3. CASE card' \in Reset(card) /\ ~err /\ tally' = tally
  <2>1. PICK w \in 0..MaxWarm :
          card' = [card EXCEPT !.state = "idle", !.rca = 0, !.width = 1, !.hs = FALSE,
                               !.part = 0, !.warm = w, !.busy = 0, !.app = FALSE]
    BY <1>3 DEF Reset
  <2>2. 0 \in 0..MaxBusy
    BY TryAssumption
  <2>3. QED
    BY <1>1, <1>2, <1>3, <2>1, <2>2 DEF CardState
<1>4. CASE /\ tally.faults < MaxFaults
           /\ tally' = [tally EXCEPT !.faults = @ + 1]
           /\ card' = card
  BY <1>1, <1>2, <1>4, BoundAssumption
<1>5. QED
  BY <1>3, <1>4 DEF SendGoIdle

-----------------------------------------------------------------------------
(***************************************************************************)
(* Where a step goes.                                                      *)
(***************************************************************************)
Locals ==
  [pc : Pc, left : Nat, back : {"none", "csd_done", "freq_done", "width_done"},
   err : BOOLEAN, width : {0, 1, 4, 8}, ext_csd : {"card", "junk"}, dirty : BOOLEAN,
   late : BOOLEAN]

\* The states of struct mmc.
Device ==
  [has_init : BOOLEAN, version : Version, rca : {0, 1}, bus_width : {0, 1, 4, 8},
   clock : {0, F_MIN, F_MAX}, high_capacity : BOOLEAN, bl_len : {0, 512}, hs : BOOLEAN,
   part_num : {0, 1}, part_config : {"NOAVAILABLE", "card", "junk"}, lba : {0, 1}]

\* The registers of the controller that matter here.
Registers == [CTYPE : {1, 4, 8}, CLKDIV : {0, 1, 2, 130}, parent : {52000, 104000}]

\* All locals but pc and left are kept.
Moves(pc) ==
  /\ at' \in Locals
  /\ at'.pc = pc /\ at'.back = at.back /\ at'.err = at.err /\ at'.width = at.width
  /\ at'.ext_csd = at.ext_csd /\ at'.dirty = at.dirty /\ at'.late = at.late

\* A step on to another command keeps the other locals.
LEMMA MovesIs ==
  ASSUME TypeOK, NEW pc \in Pc, NEW n \in Nat,
         at' = Goto(pc) \/ at' = [at EXCEPT !.pc = pc, !.left = n]
  PROVE  Moves(pc)
<1>1. at \in Locals
  BY DEF TypeOK, Locals
<1>2. CASE at' = Goto(pc)
  BY <1>1, <1>2 DEF Goto, Locals, Moves
<1>3. CASE at' = [at EXCEPT !.pc = pc, !.left = n]
  BY <1>1, <1>3 DEF Locals, Moves
<1>4. QED
  BY <1>2, <1>3

\* So does another poll.
LEMMA RetryIs ==
  ASSUME TypeOK, at.left > 0, at' = [at EXCEPT !.left = @ - 1]
  PROVE  Moves(at.pc) /\ at'.left = at.left - 1
<1>1. at \in Locals
  BY DEF TypeOK, Locals
<1>2. at' = [at EXCEPT !.left = at.left - 1] /\ at.left - 1 \in Nat
  BY <1>1 DEF Locals
<1>3. QED
  BY <1>1, <1>2 DEF Locals, Moves

\* The next of the widths, or the end of the loop.
LEMMA TryNextIs ==
  ASSUME TypeOK, at.width \in {1, 4, 8}, at' = TryNext
  PROVE  /\ at' \in Locals
         /\ at'.ext_csd = at.ext_csd /\ at'.dirty = at.dirty /\ at'.late = at.late
         /\ at.width = 8 => at'.pc = "width" /\ at'.width = 4
         /\ at.width = 4 => at'.pc = "width" /\ at'.width = 1
         /\ at.width = 1 => at'.pc = "clock"
<1>1. at \in Locals
  BY DEF TypeOK, Locals
<1>2. ASSUME NEW w \in {1, 4}, at' = [at EXCEPT !.pc = "width", !.width = w]
      PROVE  /\ at' \in Locals /\ at'.pc = "width" /\ at'.width = w
             /\ at'.ext_csd = at.ext_csd /\ at'.dirty = at.dirty /\ at'.late = at.late
  BY <1>1, <1>2 DEF Locals, Pc
<1>3. CASE at.width \in {4, 8}
  <2>1. PICK w \in {1, 4} :
          at' = [at EXCEPT !.pc = "width", !.width = w] /\ w = IF at.width = 8 THEN 4 ELSE 1
    <3>1. CASE at.width = 8
      BY <3>1 DEF TryNext, NextWidth
    <3>2. CASE at.width = 4
      BY <3>2 DEF TryNext, NextWidth
    <3>3. QED
      BY <1>3, <3>1, <3>2
  <2>2. /\ at' \in Locals /\ at'.pc = "width" /\ at'.width = w
        /\ at'.ext_csd = at.ext_csd /\ at'.dirty = at.dirty /\ at'.late = at.late
    BY <1>2, <2>1
  <2>3. QED
    BY <1>3, <2>1, <2>2
<1>4. CASE at.width = 1
  <2>1. at' = Goto("clock")
    BY <1>4 DEF TryNext, NextWidth
  <2>2. QED
    BY <1>1, <1>4, <2>1 DEF Goto, Locals, Pc
<1>5. QED
  BY <1>3, <1>4

\* mmc_init has returned, hangs, or restarts the board.
Left == at' \in Locals /\ at'.pc \in {"init_returned", "hung", "reboot"}

\* What a return, a hang or a reboot leaves.
LEMMA LeftIs ==
  ASSUME TypeOK, at' \in {Hung, Returned, NewLocals("reboot")}
  PROVE  Left
<1>1. at \in Locals
  BY DEF TypeOK, Locals
<1>2. CASE at' = Hung \/ at' = NewLocals("reboot")
  <2>1. PICK pc \in {"hung", "reboot"} : at' = NewLocals(pc)
    BY <1>2 DEF Hung
  <2>2. at' = [pc |-> pc, left |-> 0, back |-> "none", err |-> FALSE, width |-> 0,
               ext_csd |-> "junk", dirty |-> FALSE, late |-> FALSE]
    BY <2>1 DEF NewLocals
  <2>3. QED
    BY <2>2 DEF Left, Locals, Pc
<1>3. CASE at' = Returned
  BY <1>1, <1>3 DEF Returned, Goto, Left, Locals, Pc
<1>4. QED
  BY <1>2, <1>3

\* Then nothing is claimed but what holds of the card and the clock at all times.
LEMMA LeftKeeps ==
  ASSUME IInv, Left, gd' = gd, div' = div,
         reg' \in Registers, reg'.CLKDIV = reg.CLKDIV, reg'.parent = reg.parent,
         mmc' \in Device, ~mmc'.has_init, mmc'.lba = 0, mmc'.part_num = 0,
         SameCard, CardInv', early' = FALSE, tally' \in [faults : 0..MaxFaults, boots : 1..MaxBoots]
  PROVE  IInv'
<1>1. TypeOK'
  <2>1. early' \in BOOLEAN
    OBVIOUS
  <2>2. QED
    BY <2>1 DEF IInv, TypeOK, Left, Locals, Registers, Device, SameCard, CardState
<1>2. PhaseInv'
  BY <1>1 DEF TypeOK, PhaseInv, Left
<1>3. VersionInv' /\ SelectInv' /\ AddressInv' /\ LoopInv' /\ WidthInv'
  BY
     DEF Left, VersionInv, SelectInv, ReadyIsSelected, AddressInv, LoopInv, WidthInv, Bringing,
         Finding, FindingPcs, CsdRead, Waiting, Selected, SettingFreq, FreqPcs, SettingSd,
         SdPcs, InLoop, LoopPcs
<1>4. ClockInv'
  BY DEF IInv, Left, SameCard, ClockInv, CardClock, Bringing, Finding, FindingPcs, CsdRead,
         Waiting, Selected, SettingFreq, FreqPcs, SettingSd, SdPcs, InLoop, LoopPcs
<1>5. BusyInv'
  BY DEF Left, BusyInv, Bringing, Finding, FindingPcs, CsdRead, Waiting, Selected,
         SettingFreq, FreqPcs, SettingSd, SdPcs, InLoop, LoopPcs
<1>6. QED
  BY <1>1, <1>2, <1>3, <1>4, <1>5 DEF IInv

\* While mmc_init runs, the device is not ready.
LEMMA BringingIs == ASSUME IInv, Bringing PROVE ~mmc.has_init /\ mmc.lba = 0 /\ mmc.part_num = 0
<1>1. ~mmc.has_init
  BY DEF IInv, PhaseInv, Bringing, Finding, FindingPcs, CsdRead, Waiting, Selected,
         SettingFreq, FreqPcs, SettingSd, SdPcs, InLoop, LoopPcs
<1>2. QED
  BY <1>1 DEF IInv, TypeOK, PhaseInv

\* No command of mmc_init meets a busy card before a CMD_SEND_STATUS has failed, and none
\* makes a card another one.
LEMMA CommandIs ==
  ASSUME IInv, Bringing, NEW cmd \in DOMAIN Knows, NEW err \in BOOLEAN, Sent(cmd, err),
         at.pc # "status" \/ cmd = "CMD_SEND_STATUS"
  PROVE  early' = FALSE
<1>1. early = FALSE
  BY DEF IInv, TypeOK, BusyInv
<1>2. ~(card.busy > 0 /\ cmd # "CMD_SEND_STATUS" /\ ~at.dirty)
  BY DEF IInv, BusyInv
<1>3. QED
  BY <1>1, <1>2 DEF Sent

\* A plain command keeps what is known of the card.
LEMMA StillKeeps ==
  ASSUME IInv, Still, mmc'.version = mmc.version, mmc'.rca = mmc.rca
  PROVE  CardInv'
BY DEF IInv, Still, SameCard, CardInv, IS_SD

-----------------------------------------------------------------------------
(***************************************************************************)
(* The commands of mmc_init and mmc_startup, first those that change       *)
(* nothing in the card that matters here.                                  *)
(***************************************************************************)
\* A command that fails, or hangs, ends mmc_init.
LEMMA CommandFails ==
  ASSUME IInv, Bringing, at.pc # "status",
         NEW cmd \in DOMAIN Knows, NEW err \in BOOLEAN, err, NEW hung, Send(cmd, err, hung),
         cmd = "CMD_SWITCH" /\ at.pc = "width" => at.width \in {1, 4, 8},
         at' \in {Hung, Returned}, UNCHANGED <<reg, div, mmc, gd>>
  PROVE  IInv'
<1>1. TypeOK
  BY DEF IInv
<1>2. Sent(cmd, err) /\ SameCard /\ CardInv'
  <2>1. CASE cmd \in PlainCommands \/ (cmd = "CMD_SEND_OP_COND" /\ at.pc # "op_poll")
    <3>1. Sent(cmd, err) /\ Still
      BY <1>1, <2>1, PlainSent DEF PlainCommands
    <3>2. QED
      BY <3>1, StillKeeps DEF Still
  <2>2. CASE \/ cmd \in {"CMD_APP_SEND_OP_COND", "CMD_ALL_SEND_CID", "CMD_SEND_RELATIVE_ADDR",
                         "CMD_SELECT_CARD"}
             \/ cmd = "CMD_SEND_OP_COND" /\ at.pc = "op_poll"
    <3>1. /\ Sent(cmd, err) /\ SameCard /\ card'.width = card.width
          /\ \/ Still
             \/ /\ cmd \in {"CMD_APP_SEND_OP_COND", "CMD_SEND_OP_COND"}
                /\ card.state = "idle" /\ card'.rca = card.rca
                /\ card'.state = IF card.warm = 0 THEN "ready" ELSE "idle"
             \/ /\ cmd = "CMD_ALL_SEND_CID"
                /\ card.state = "ready" /\ card'.state = "ident" /\ card'.rca = card.rca
             \/ /\ cmd = "CMD_SEND_RELATIVE_ADDR"
                /\ card.state = "ident" /\ card'.state = "stby"
                /\ card'.rca = IF IsSd(card.kind) THEN 1 ELSE mmc.rca
             \/ /\ cmd = "CMD_SELECT_CARD"
                /\ card.state = "stby" /\ card'.state = "tran" /\ card'.rca = card.rca
      BY <1>1, <2>2, IdentifySent
    <3>2. CASE Still
      BY <3>1, <3>2, StillKeeps
    <3>3. CASE ~Still
      <4>1. /\ card.state # "tran" /\ card.part = 0 /\ card.width = 1
            /\ card.state = "stby" => (card.rca = 1 <=> IsSd(card.kind))
            /\ mmc.rca = 1 => IsSd(card.kind)
        BY <3>1, <3>3 DEF IInv, CardInv
      <4>2. mmc.rca \in {0, 1}
        BY <1>1 DEF TypeOK
      <4>3. card'.state \in {"stby", "tran"} => (card'.rca = 1 <=> IsSd(card.kind))
        BY <3>1, <3>3, <4>1, <4>2
      <4>4. QED
        BY <1>1, <3>1, <3>3, <4>1, <4>3 DEF IInv, CardInv, IS_SD, SameCard
    <3>4. QED
      BY <3>1, <3>2, <3>3
  <2>3. CASE cmd \in {"CMD_SWITCH", "CMD_APP_SET_BUS_WIDTH"}
    <3>1. Sent(cmd, err) /\ SameCard /\ card'.state = card.state /\ card'.rca = card.rca
      BY <1>1, <2>3, SwitchSent
    <3>2. card.state = "tran" \/ card'.width = card.width
      <4>1. CASE Answers(cmd)
        BY <2>3, <4>1 DEF Answers, Knows
      <4>2. CASE ~Answers(cmd)
        BY <1>1, <2>3, <4>2, SendIs, ElapsedIs DEF Still
      <4>3. QED
        BY <4>1, <4>2
    <3>3. QED
      BY <3>1, <3>2 DEF IInv, CardInv, IS_SD, SameCard
  <2>4. QED
    BY <2>1, <2>2, <2>3 DEF Knows, PlainCommands
<1>3. early' = FALSE
  BY <1>2, CommandIs
<1>4. Left /\ ~mmc.has_init
  BY <1>1, LeftIs, BringingIs
<1>5. /\ mmc' \in Device /\ ~mmc'.has_init /\ mmc'.lba = 0 /\ mmc'.part_num = 0
      /\ reg' \in Registers
  BY <1>1, BringingIs DEF TypeOK, Device, Registers
<1>6. QED
  BY <1>2, <1>3, <1>4, <1>5, LeftKeeps DEF Sent

\* A step of the card and of the driver keeps the types.
LEMMA TypeKeeps ==
  ASSUME TypeOK, SameCard, at' \in Locals, mmc' \in Device, reg' = reg, div' = div, gd' = gd,
         tally' \in [faults : 0..MaxFaults, boots : 1..MaxBoots], early' = FALSE
  PROVE  TypeOK'
<1>1. early' \in BOOLEAN
  OBVIOUS
<1>2. QED
  BY <1>1 DEF TypeOK, SameCard, CardState, Locals, Device

\* The types of the structures, from the type invariant.
LEMMA TypedIs == ASSUME TypeOK PROVE mmc \in Device /\ at \in Locals /\ card \in CardState
BY DEF TypeOK, Device, Locals, CardState

\* The abbreviations of the phases are open from here on.
USE DEF Waiting, FindingPcs, FreqPcs, SdPcs, LoopPcs, Finding, CsdRead, SettingFreq,
        SettingSd, InLoop, Selected, Bringing, IS_SD, Few, Fault, GivenUp, SameWidth

\* The first CMD1 asks for nothing but the voltages: the card is as it was.
LEMMA OpFirstKeeps == IInv /\ OpFirst => IInv'
<1> SUFFICES ASSUME IInv, OpFirst PROVE IInv'
  OBVIOUS
<1>1. PICK err, hung \in BOOLEAN :
        /\ Send("CMD_SEND_OP_COND", err, hung)
        /\ at' = IF hung THEN Hung ELSE IF err THEN Returned
                 ELSE [at EXCEPT !.pc = "op_poll", !.left = OpTries]
  BY Zenon DEF OpFirst, Checked
<1>2. TypeOK /\ at.pc = "op_first" /\ reg' = reg /\ div' = div /\ mmc' = mmc /\ gd' = gd
  BY DEF IInv, OpFirst, Checked, Quiet
<1>3. /\ Sent("CMD_SEND_OP_COND", err) /\ Still
      /\ ~err => Answers("CMD_SEND_OP_COND")
      /\ hung => err
  BY <1>1, <1>2, PlainSent DEF PlainCommands, DataCommands
<1>4. CASE err
  BY <1>1, <1>2, <1>4, CommandFails DEF Knows
<1>5. CASE ~err
  <2>1. Moves("op_poll")
    BY <1>1, <1>2, <1>3, <1>5, MovesIs, TryAssumption DEF Pc
  <2>2. early' = FALSE /\ CardInv'
    BY <1>2, <1>3, CommandIs, StillKeeps DEF Knows
  <2>3. TypeOK'
    BY <1>2, <1>3, <2>1, <2>2, TypeKeeps, TypedIs DEF Sent, Still, Moves
  <2>4. QED
    BY <1>2, <1>3, <1>5, <2>1, <2>2, <2>3
       DEF IInv, TypeOK, PhaseInv, VersionInv, SelectInv, ReadyIsSelected, AddressInv, ClockInv,
           CardClock, Parent, BusyInv, LoopInv, WidthInv, BusWorks, Moves, Sent, Still, SameCard
<1>6. QED
  BY <1>4, <1>5

\* The EXT_CSD read by mmc_change_freq.
LEMMA FreqExtCsdKeeps == IInv /\ FreqExtCsd => IInv'
<1> SUFFICES ASSUME IInv, FreqExtCsd PROVE IInv'
  OBVIOUS
<1>1. PICK err, hung \in BOOLEAN :
        /\ Send("CMD_SEND_EXT_CSD", err, hung)
        /\ at' = IF hung THEN Hung ELSE IF err THEN Returned ELSE Goto("freq_switch")
  BY Zenon DEF FreqExtCsd, Checked
<1>2. TypeOK /\ at.pc = "freq_ext_csd" /\ reg' = reg /\ div' = div /\ mmc' = mmc /\ gd' = gd
  BY DEF IInv, FreqExtCsd, Checked, Quiet
<1>3. /\ Sent("CMD_SEND_EXT_CSD", err) /\ Still
      /\ ~err => Answers("CMD_SEND_EXT_CSD") /\ BusWorks
      /\ hung => err
  BY <1>1, <1>2, PlainSent DEF PlainCommands, DataCommands
<1>4. CASE err
  BY <1>1, <1>2, <1>4, CommandFails DEF Knows
<1>5. CASE ~err
  <2>1. Moves("freq_switch")
    BY <1>1, <1>2, <1>3, <1>5, MovesIs DEF Pc
  <2>2. early' = FALSE /\ CardInv'
    BY <1>2, <1>3, CommandIs, StillKeeps DEF Knows
  <2>3. TypeOK'
    BY <1>2, <1>3, <2>1, <2>2, TypeKeeps, TypedIs DEF Sent, Still, Moves
  <2>4. QED
    BY <1>2, <1>3, <1>5, <2>1, <2>2, <2>3
       DEF IInv, TypeOK, PhaseInv, VersionInv, SelectInv, ReadyIsSelected, AddressInv, ClockInv,
           CardClock, Parent, BusyInv, LoopInv, WidthInv, BusWorks, Moves, Sent, Still, SameCard
<1>6. QED
  BY <1>4, <1>5

\* CMD55 before the SCR of an SD card.
LEMMA SdScrAppKeeps == IInv /\ SdScrApp => IInv'
<1> SUFFICES ASSUME IInv, SdScrApp PROVE IInv'
  OBVIOUS
<1>1. PICK err, hung \in BOOLEAN :
        /\ Send("CMD_APP_CMD", err, hung)
        /\ at' = IF hung THEN Hung ELSE IF err THEN Returned
                 ELSE [at EXCEPT !.pc = "sd_scr", !.left = 3]
  BY Zenon DEF SdScrApp, Checked
<1>2. TypeOK /\ at.pc = "sd_scr_app" /\ reg' = reg /\ div' = div /\ mmc' = mmc /\ gd' = gd
  BY DEF IInv, SdScrApp, Checked, Quiet
<1>3. /\ Sent("CMD_APP_CMD", err) /\ Still
      /\ ~err => Answers("CMD_APP_CMD")
      /\ hung => err
  BY <1>1, <1>2, PlainSent DEF PlainCommands, DataCommands
<1>4. CASE err
  BY <1>1, <1>2, <1>4, CommandFails DEF Knows
<1>5. CASE ~err
  <2>1. Moves("sd_scr")
    BY <1>1, <1>2, <1>3, <1>5, MovesIs DEF Pc
  <2>2. early' = FALSE /\ CardInv'
    BY <1>2, <1>3, CommandIs, StillKeeps DEF Knows
  <2>3. TypeOK'
    BY <1>2, <1>3, <2>1, <2>2, TypeKeeps, TypedIs DEF Sent, Still, Moves
  <2>4. QED
    BY <1>2, <1>3, <1>5, <2>1, <2>2, <2>3
       DEF IInv, TypeOK, PhaseInv, VersionInv, SelectInv, ReadyIsSelected, AddressInv, ClockInv,
           CardClock, Parent, BusyInv, LoopInv, WidthInv, BusWorks, Moves, Sent, Still, SameCard
<1>6. QED
  BY <1>4, <1>5

\* CMD55 before ACMD6.
LEMMA SdWidthAppKeeps == IInv /\ SdWidthApp => IInv'
<1> SUFFICES ASSUME IInv, SdWidthApp PROVE IInv'
  OBVIOUS
<1>1. PICK err, hung \in BOOLEAN :
        /\ Send("CMD_APP_CMD", err, hung)
        /\ at' = IF hung THEN Hung ELSE IF err THEN Returned ELSE Goto("sd_width")
  BY Zenon DEF SdWidthApp, Checked
<1>2. TypeOK /\ at.pc = "sd_width_app" /\ reg' = reg /\ div' = div /\ mmc' = mmc /\ gd' = gd
  BY DEF IInv, SdWidthApp, Checked, Quiet
<1>3. /\ Sent("CMD_APP_CMD", err) /\ Still
      /\ ~err => Answers("CMD_APP_CMD")
      /\ hung => err
  BY <1>1, <1>2, PlainSent DEF PlainCommands, DataCommands
<1>4. CASE err
  BY <1>1, <1>2, <1>4, CommandFails DEF Knows
<1>5. CASE ~err
  <2>1. Moves("sd_width")
    BY <1>1, <1>2, <1>3, <1>5, MovesIs DEF Pc
  <2>2. early' = FALSE /\ CardInv'
    BY <1>2, <1>3, CommandIs, StillKeeps DEF Knows
  <2>3. TypeOK'
    BY <1>2, <1>3, <2>1, <2>2, TypeKeeps, TypedIs DEF Sent, Still, Moves
  <2>4. QED
    BY <1>2, <1>3, <1>5, <2>1, <2>2, <2>3
       DEF IInv, TypeOK, PhaseInv, VersionInv, SelectInv, ReadyIsSelected, AddressInv, ClockInv,
           CardClock, Parent, BusyInv, LoopInv, WidthInv, BusWorks, Moves, Sent, Still, SameCard
<1>6. QED
  BY <1>4, <1>5

\* The device is what it was, but for what the driver takes the card for.
SameButVersion ==
  /\ mmc'.has_init = mmc.has_init /\ mmc'.rca = mmc.rca /\ mmc'.bus_width = mmc.bus_width
  /\ mmc'.clock = mmc.clock /\ mmc'.high_capacity = mmc.high_capacity
  /\ mmc'.part_num = mmc.part_num /\ mmc'.lba = mmc.lba

\* mmc_send_status is entered.
Waits(err, back) ==
  /\ at' \in Locals
  /\ at'.pc = "status" /\ at'.left = StatusTries /\ at'.err = err /\ at'.back = back
  /\ at'.dirty = FALSE /\ at'.width = at.width /\ at'.ext_csd = at.ext_csd
  /\ at'.late = at.late

\* The polls of mmc_send_status begin, or a failed command skips them.
LEMMA WaitsIs ==
  ASSUME TypeOK, NEW err \in BOOLEAN, NEW back \in {"csd_done", "freq_done", "width_done"},
         at' = WaitReady(err, back)
  PROVE  Waits(err, back)
<1>1. at \in Locals
  BY DEF TypeOK, Locals
<1>2. QED
  BY ZenonT(60), <1>1, TryAssumption DEF Waits, WaitReady, Locals, Pc

\* CMD8 tells a card of version 2.
LEMMA SendIfCondKeeps == IInv /\ SendIfCond => IInv'
<1> SUFFICES ASSUME IInv, SendIfCond PROVE IInv'
  OBVIOUS
<1>1. PICK err \in BOOLEAN :
        /\ Send("CMD_SEND_IF_COND", err, FALSE)
        /\ mmc' = IF err THEN mmc ELSE [mmc EXCEPT !.version = "SD_VERSION_2"]
  BY DEF SendIfCond
<1>2. /\ TypeOK /\ at.pc = "if_cond" /\ reg' = reg /\ div' = div /\ gd' = gd
      /\ at' = [at EXCEPT !.pc = "sd_app", !.left = OpTries]
  BY DEF IInv, SendIfCond
<1>3. Sent("CMD_SEND_IF_COND", err) /\ Still /\ (~err => Answers("CMD_SEND_IF_COND"))
  BY <1>1, <1>2, PlainSent DEF PlainCommands, DataCommands
<1>4. /\ mmc' \in Device /\ SameButVersion
      /\ mmc'.version = IF err THEN mmc.version ELSE "SD_VERSION_2"
  BY <1>1, <1>2, TypedIs DEF Device, Version, SameButVersion
<1>5. Moves("sd_app") /\ early' = FALSE
  BY <1>2, <1>3, MovesIs, CommandIs, TryAssumption DEF Pc, Knows
<1>6. CardInv'
  <2>1. ~err => card.kind = "sd2"
    BY <1>3 DEF Answers, Knows
  <2>2. QED
    BY <1>2, <1>3, <1>4, <2>1 DEF IInv, CardInv, Still, SameCard, SameButVersion, IsSd
<1>7. TypeOK'
  BY <1>2, <1>3, <1>4, <1>5, TypeKeeps DEF Sent, Still, Moves
<1>8. QED
  BY <1>2, <1>3, <1>4, <1>5, <1>6, <1>7
     DEF IInv, TypeOK, PhaseInv, VersionInv, SelectInv, ReadyIsSelected, AddressInv, ClockInv,
         CardClock, Parent, BusyInv, LoopInv, WidthInv, BusWorks, Moves, Sent, Still, SameCard,
         SameButVersion

\* CMD55 before ACMD41: an eMMC does not answer it, and is tried with CMD1.
LEMMA SdAppCmdKeeps == IInv /\ SdAppCmd => IInv'
<1> SUFFICES ASSUME IInv, SdAppCmd PROVE IInv'
  OBVIOUS
<1>1. PICK err \in BOOLEAN :
        Send("CMD_APP_CMD", err, FALSE) /\ at' = Goto(IF err THEN "go_idle_again" ELSE "sd_op")
  BY DEF SdAppCmd
<1>2. TypeOK /\ at.pc = "sd_app" /\ reg' = reg /\ div' = div /\ mmc' = mmc /\ gd' = gd
  BY DEF IInv, SdAppCmd, Quiet
<1>3. Sent("CMD_APP_CMD", err) /\ Still
  BY <1>1, <1>2, PlainSent DEF PlainCommands
<1>4. PICK pc \in {"go_idle_again", "sd_op"} : at' = Goto(pc)
  BY <1>1
<1>5. Moves(pc)
  BY <1>2, <1>4, MovesIs DEF Pc
<1>6. early' = FALSE /\ CardInv'
  BY <1>2, <1>3, CommandIs, StillKeeps DEF Knows
<1>7. TypeOK'
  BY <1>2, <1>3, <1>5, <1>6, TypeKeeps, TypedIs DEF Sent, Still, Moves
<1>8. QED
  BY <1>2, <1>3, <1>5, <1>6, <1>7
     DEF IInv, TypeOK, PhaseInv, VersionInv, SelectInv, ReadyIsSelected, AddressInv, ClockInv,
         CardClock, Parent, BusyInv, LoopInv, WidthInv, BusWorks, Moves, Sent, Still, SameCard

\* CMD9, by which the card is in stand-by under the address that the driver has.
LEMMA SendCsdKeeps == IInv /\ SendCsd => IInv'
<1> SUFFICES ASSUME IInv, SendCsd PROVE IInv'
  OBVIOUS
<1>1. PICK err \in BOOLEAN :
        Send("CMD_SEND_CSD", err, FALSE) /\ at' = WaitReady(err, "csd_done")
  BY DEF SendCsd
<1>2. TypeOK /\ at.pc = "csd" /\ reg' = reg /\ div' = div /\ mmc' = mmc /\ gd' = gd
  BY DEF IInv, SendCsd, Quiet
<1>3. Sent("CMD_SEND_CSD", err) /\ Still /\ (~err => Answers("CMD_SEND_CSD"))
  BY <1>1, <1>2, PlainSent DEF PlainCommands, DataCommands
<1>4. Waits(err, "csd_done")
  BY <1>1, <1>2, WaitsIs
<1>5. early' = FALSE /\ CardInv'
  BY <1>2, <1>3, CommandIs, StillKeeps DEF Knows
<1>6. TypeOK'
  BY <1>2, <1>3, <1>4, <1>5, TypeKeeps, TypedIs DEF Sent, Still, Waits
<1>7. card'.busy = 0
  BY <1>2, <1>3 DEF IInv, BusyInv, Still
<1>8. ~err => card.state = "stby" /\ card.rca = mmc.rca
  BY <1>3 DEF Answers, Knows, Addressed
<1>9. at'.left \in Nat
  BY <1>4, TryAssumption DEF Waits
<1>10. QED
  BY <1>2, <1>3, <1>4, <1>5, <1>6, <1>7, <1>8, <1>9
     DEF IInv, TypeOK, PhaseInv, VersionInv, SelectInv, ReadyIsSelected, AddressInv, ClockInv,
         CardClock, Parent, BusyInv, LoopInv, WidthInv, BusWorks, Moves, Sent, Still, SameCard,
         Waits

\* A poll of mmc_send_status: after it the card is not busy, or the poll has failed.
LEMMA SendStatusKeeps == IInv /\ SendStatus => IInv'
<1> SUFFICES ASSUME IInv, SendStatus PROVE IInv'
  OBVIOUS
<1>1. PICK err \in BOOLEAN :
        /\ Send("CMD_SEND_STATUS", err, FALSE)
        /\ at' = IF ~err /\ card.busy > 0 /\ at.left > 0
                 THEN [at EXCEPT !.left = @ - 1]
                 ELSE [at EXCEPT !.pc = at.back, !.dirty = err]
  BY DEF SendStatus
<1>2. TypeOK /\ at.pc = "status" /\ reg' = reg /\ div' = div /\ mmc' = mmc /\ gd' = gd
  BY DEF IInv, SendStatus, Quiet
<1>3. /\ Sent("CMD_SEND_STATUS", err) /\ Still
      /\ err /\ Answers("CMD_SEND_STATUS") => tally'.faults = tally.faults + 1
  BY <1>1, <1>2, PlainSent DEF PlainCommands, DataCommands, Sent
<1>4. /\ at \in Locals /\ card \in CardState
      /\ at.back \in {"csd_done", "freq_done", "width_done"}
      /\ card.busy <= at.left + 1 /\ card.busy \in Nat /\ at.left \in Nat
  <2>1. at \in Locals /\ card \in CardState
    BY <1>2, TypedIs
  <2>2. card.busy \in Nat
    BY <2>1, TryAssumption DEF CardState
  <2>3. QED
    BY <1>2, <2>1, <2>2 DEF IInv, PhaseInv, BusyInv, Locals
<1>5. early' = FALSE /\ CardInv'
  BY <1>2, <1>3, <1>4, CommandIs, StillKeeps DEF Knows
<1>6. CASE ~err /\ card.busy > 0 /\ at.left > 0
  <2>1. at' = [at EXCEPT !.left = at.left - 1] /\ at.left - 1 \in Nat
    BY <1>1, <1>4, <1>6
  <2>2. Moves("status") /\ at'.left = at.left - 1
    BY <1>2, <1>4, <2>1 DEF Moves, Locals
  <2>3. TypeOK'
    BY <1>2, <1>3, <1>5, <2>2, TypeKeeps, TypedIs DEF Sent, Still, Moves
  <2>4. card'.busy <= at'.left + 1
    BY <1>3, <1>4, <1>6, <2>2 DEF Still
  <2>5. QED
    BY <1>2, <1>3, <1>5, <1>4, <2>2, <2>3, <2>4
       DEF IInv, TypeOK, PhaseInv, VersionInv, SelectInv, ReadyIsSelected, AddressInv, ClockInv,
           CardClock, Parent, BusyInv, LoopInv, WidthInv, BusWorks, Moves, Sent, Still, SameCard
<1>7. CASE ~(~err /\ card.busy > 0 /\ at.left > 0)
  <2>1. at' = [at EXCEPT !.pc = at.back, !.dirty = err]
    BY <1>1, <1>7
  <2>2. /\ at' \in Locals /\ at'.pc = at.back /\ at'.err = at.err /\ at'.width = at.width
        /\ at'.ext_csd = at.ext_csd /\ at'.dirty = err /\ at'.late = at.late
    BY ZenonT(60), <1>4, <2>1 DEF Locals, Pc
  <2>3. TypeOK'
    BY <1>2, <1>3, <1>5, <2>2, TypeKeeps, TypedIs DEF Sent, Still
  <2>4. ~err => card'.busy = 0
    BY <1>3, <1>4, <1>7 DEF Still
  <2>5. at.back = "width_done" =>
          ~err \/ tally'.faults = tally.faults + 1
    <3>1. at.back = "width_done" => Answers("CMD_SEND_STATUS")
      BY <1>2 DEF IInv, SelectInv, Answers, Knows, Addressed, AppCommands, Kind, TypeOK
    <3>2. QED
      BY <1>3, <3>1
  <2>6. QED
    BY <1>2, <1>3, <1>5, <1>4, <2>2, <2>3, <2>4, <2>5
       DEF IInv, TypeOK, PhaseInv, VersionInv, SelectInv, ReadyIsSelected, AddressInv, ClockInv,
           CardClock, Parent, BusyInv, LoopInv, WidthInv, BusWorks, Moves, Sent, Still, SameCard
<1>8. QED
  BY <1>6, <1>7

\* The flag for high speed, of either value.
LEMMA SpeedIs ==
  ASSUME mmc \in Device, NEW h, h \in BOOLEAN, mmc' = [mmc EXCEPT !.hs = h]
  PROVE  mmc' \in Device
BY DEF Device

\* High speed keeps the rest of struct mmc.
LEMMA FastIs ==
  ASSUME mmc \in Device, mmc' = [mmc EXCEPT !.hs = TRUE]
  PROVE  mmc' \in Device /\ SameButVersion /\ mmc'.version = mmc.version
<1>1. TRUE \in BOOLEAN
  OBVIOUS
<1>2. mmc' \in Device
  BY <1>1, SpeedIs
<1>3. QED
  BY <1>2 DEF Device, SameButVersion

\* The EXT_CSD read by mmc_startup: what is not of an eMMC goes on with one data line.
LEMMA SendExtCsdKeeps == IInv /\ SendExtCsd => IInv'
<1> SUFFICES ASSUME IInv, SendExtCsd PROVE IInv'
  OBVIOUS
<1>1. PICK err, hung \in BOOLEAN, buf \in {"card", "junk"} :
        /\ Send("CMD_SEND_EXT_CSD", err, hung)
        /\ buf = "junk" => err
        /\ at' = IF hung THEN Hung ELSE [at EXCEPT !.pc = "freq_ext_csd", !.ext_csd = buf]
        /\ mmc' = [mmc EXCEPT !.part_config = buf]
  BY DEF SendExtCsd
<1>2. TypeOK /\ at.pc = "ext_csd" /\ reg' = reg /\ div' = div /\ gd' = gd
  BY DEF IInv, SendExtCsd
<1>3. /\ Sent("CMD_SEND_EXT_CSD", err) /\ Still
      /\ err /\ Answers("CMD_SEND_EXT_CSD") /\ BusWorks => tally'.faults = tally.faults + 1
  BY <1>1, <1>2, PlainSent DEF PlainCommands, DataCommands, Sent
<1>4. mmc' \in Device /\ SameButVersion /\ mmc'.version = mmc.version
  BY <1>1, <1>2, TypedIs DEF Device, SameButVersion
<1>5. early' = FALSE /\ CardInv'
  BY <1>2, <1>3, <1>4, CommandIs, StillKeeps DEF Knows, SameButVersion
<1>6. CASE hung
  <2>1. Left /\ ~mmc.has_init /\ mmc.lba = 0 /\ mmc.part_num = 0 /\ reg \in Registers
    BY <1>1, <1>2, <1>6, LeftIs, BringingIs DEF TypeOK, Registers
  <2>2. QED
    BY <1>2, <1>3, <1>4, <1>5, <2>1, LeftKeeps DEF Sent, Still, SameButVersion
<1>7. CASE ~hung
  <2>1. /\ at' \in Locals /\ at'.pc = "freq_ext_csd" /\ at'.ext_csd = buf
        /\ at'.width = at.width /\ at'.dirty = at.dirty /\ at'.late = at.late
    BY <1>1, <1>2, <1>7, TypedIs DEF Locals, Pc
  <2>2. TypeOK'
    BY <1>2, <1>3, <1>4, <1>5, <2>1, TypeKeeps DEF Sent, Still
  <2>3. buf = "junk" => ~Answers("CMD_SEND_EXT_CSD") \/ ~BusWorks \/ Fault'
    BY <1>1, <1>2, <1>3 DEF TypeOK
  <2>4. buf = "junk" => card.busy > 0 \/ ~BusWorks \/ Fault'
    BY <1>2, <2>3 DEF IInv, SelectInv, Answers, Knows, Addressed, AppCommands
  <2>5. QED
    BY <1>2, <1>3, <1>4, <1>5, <2>1, <2>2, <2>4, WireAssumption
       DEF IInv, TypeOK, PhaseInv, VersionInv, SelectInv, ReadyIsSelected, AddressInv, ClockInv,
           CardClock, Parent, BusyInv, LoopInv, WidthInv, BusWorks, Moves, Sent, Still,
           SameCard, SameButVersion
<1>8. QED
  BY <1>6, <1>7

\* The EXT_CSD is read again after the switch to high speed.
LEMMA FreqCheckKeeps == IInv /\ FreqCheck => IInv'
<1> SUFFICES ASSUME IInv, FreqCheck PROVE IInv'
  OBVIOUS
<1>1. PICK err, hung \in BOOLEAN :
        /\ Send("CMD_SEND_EXT_CSD", err, hung)
        /\ at' = IF hung THEN Hung ELSE IF err THEN Returned ELSE Goto("width")
  BY Zenon DEF FreqCheck, Checked
<1>2. /\ TypeOK /\ at.pc = "freq_check" /\ reg' = reg /\ div' = div /\ gd' = gd
      /\ mmc' = IF at'.pc = "width" THEN [mmc EXCEPT !.hs = card.hs] ELSE mmc
  BY DEF IInv, FreqCheck, Checked
<1>3. /\ Sent("CMD_SEND_EXT_CSD", err) /\ Still
      /\ ~err => Answers("CMD_SEND_EXT_CSD") /\ BusWorks
      /\ hung => err
  BY <1>1, <1>2, PlainSent DEF PlainCommands, DataCommands
<1>4. CASE err
  <2>1. mmc' = mmc
    BY <1>1, <1>2, <1>4, LeftIs DEF Left
  <2>2. QED
    BY <1>1, <1>2, <1>4, <2>1, CommandFails DEF Knows
<1>5. CASE ~err
  <2>1. Moves("width")
    BY <1>1, <1>2, <1>3, <1>5, MovesIs DEF Pc
  <2>2. mmc' \in Device /\ SameButVersion /\ mmc'.version = mmc.version
    BY <1>2, TypedIs DEF Device, SameButVersion, CardState
  <2>3. early' = FALSE /\ CardInv'
    BY <1>2, <1>3, <2>2, CommandIs, StillKeeps DEF Knows, SameButVersion
  <2>4. TypeOK'
    BY <1>2, <1>3, <2>1, <2>2, <2>3, TypeKeeps DEF Sent, Still, Moves
  <2>5. card.busy = 0
    BY <1>2, <1>3, <1>5, TypedIs DEF Answers, CardState
  <2>6. QED
    BY <1>2, <1>3, <1>5, <2>1, <2>2, <2>3, <2>4, <2>5
       DEF IInv, TypeOK, PhaseInv, VersionInv, SelectInv, ReadyIsSelected, AddressInv, ClockInv,
           CardClock, Parent, BusyInv, LoopInv, WidthInv, BusWorks, Moves, Sent, Still,
           SameCard, SameButVersion
<1>6. QED
  BY <1>4, <1>5

\* The SCR of an SD card.
LEMMA SdScrKeeps == IInv /\ SdScr => IInv'
<1> SUFFICES ASSUME IInv, SdScr PROVE IInv'
  OBVIOUS
<1>1. PICK err, hung, four \in BOOLEAN :
        /\ Send("CMD_APP_SEND_SCR", err, hung)
        /\ at' = CASE hung -> Hung
                   [] ~hung /\ err /\ at.left > 0 -> [at EXCEPT !.left = @ - 1]
                   [] ~hung /\ err /\ at.left = 0 -> Returned
                   [] ~hung /\ ~err ->
                        [at EXCEPT !.pc = IF card.kind = "sd2" THEN "sd_check"
                                          ELSE IF four THEN "sd_width_app" ELSE "clock",
                                   !.width = IF four THEN 4 ELSE 1, !.left = 3]
        /\ mmc' = IF err \/ hung THEN mmc
                  ELSE [mmc EXCEPT !.version = IF card.kind = "sd2" THEN "SD_VERSION_2"
                                               ELSE "SD_VERSION_1_0"]
  BY DEF SdScr
<1>2. TypeOK /\ at.pc = "sd_scr" /\ reg' = reg /\ div' = div /\ gd' = gd
  BY DEF IInv, SdScr
<1>3. Sent("CMD_APP_SEND_SCR", err) /\ Still /\ (hung => err)
  BY <1>1, <1>2, PlainSent DEF PlainCommands, DataCommands
<1>4. at.left \in Nat
  BY <1>2 DEF TypeOK
<1>5. CASE err /\ ~(~hung /\ at.left > 0)
  <2>1. at' \in {Hung, Returned} /\ mmc' = mmc
    BY <1>1, <1>4, <1>5
  <2>2. QED
    BY <1>1, <1>2, <1>5, <2>1, CommandFails DEF Knows
<1>6. CASE err /\ ~hung /\ at.left > 0
  <2>1. at' = [at EXCEPT !.left = @ - 1]
    BY <1>1, <1>6
  <2>2. Moves("sd_scr") /\ mmc' = mmc
    BY <1>1, <1>2, <1>6, <2>1, RetryIs
  <2>3. early' = FALSE /\ CardInv'
    BY <1>2, <1>3, <2>2, CommandIs, StillKeeps DEF Knows
  <2>4. TypeOK'
    BY <1>2, <1>3, <2>2, <2>3, TypeKeeps, TypedIs DEF Sent, Still, Moves
  <2>5. QED
    BY <1>2, <1>3, <2>2, <2>3, <2>4
       DEF IInv, TypeOK, PhaseInv, VersionInv, SelectInv, ReadyIsSelected, AddressInv, ClockInv,
           CardClock, Parent, BusyInv, LoopInv, WidthInv, BusWorks, Moves, Sent, Still, SameCard
<1>7. CASE ~err /\ ~hung
  <2>1. PICK pc \in {"sd_check", "sd_width_app", "clock"} :
          /\ at' = [at EXCEPT !.pc = pc, !.width = IF four THEN 4 ELSE 1, !.left = 3]
          /\ pc = "sd_width_app" => four
    BY <1>1, <1>7
  <2>2. /\ at' \in Locals /\ at'.pc = pc /\ at'.width = IF four THEN 4 ELSE 1
        /\ at'.ext_csd = at.ext_csd /\ at'.dirty = at.dirty /\ at'.late = at.late
    BY ZenonT(60), <1>2, <2>1, TypedIs DEF Locals, Pc
  <2>3. mmc' \in Device /\ SameButVersion /\ mmc'.version \in {"SD_VERSION_2", "SD_VERSION_1_0"}
    BY <1>1, <1>2, <1>7, TypedIs DEF Device, Version, SameButVersion
  <2>4. early' = FALSE /\ CardInv'
    BY <1>2, <1>3, <2>3, CommandIs
       DEF IInv, CardInv, SelectInv, Still, SameCard, SameButVersion, Knows
  <2>5. TypeOK'
    BY <1>2, <1>3, <2>2, <2>3, <2>4, TypeKeeps DEF Sent, Still
  <2>6. QED
    BY <1>2, <1>3, <2>1, <2>2, <2>3, <2>4, <2>5, WireAssumption
       DEF IInv, TypeOK, PhaseInv, VersionInv, SelectInv, ReadyIsSelected, AddressInv, ClockInv,
           CardClock, Parent, BusyInv, LoopInv, WidthInv, BusWorks, Moves, Sent, Still,
           SameCard, SameButVersion
<1>8. QED
  BY <1>3, <1>5, <1>6, <1>7

\* CMD6 asks an SD card for its speeds.
LEMMA SdCheckKeeps == IInv /\ SdCheck => IInv'
<1> SUFFICES ASSUME IInv, SdCheck PROVE IInv'
  OBVIOUS
<1>1. PICK err, hung, busy, supported \in BOOLEAN :
        /\ Send("CMD_SWITCH_FUNC", err, hung)
        /\ at' = CASE hung -> Hung
                   [] ~hung /\ err -> Returned
                   [] ~hung /\ ~err /\ busy /\ at.left > 0 -> [at EXCEPT !.left = @ - 1]
                   [] OTHER -> Goto(IF supported THEN "sd_switch" ELSE AfterSdFreq)
  BY DEF SdCheck
<1>2. TypeOK /\ at.pc = "sd_check" /\ reg' = reg /\ div' = div /\ mmc' = mmc /\ gd' = gd
  BY DEF IInv, SdCheck, Quiet
<1>3. Sent("CMD_SWITCH_FUNC", err) /\ Still /\ (hung => err)
  BY <1>1, <1>2, PlainSent DEF PlainCommands, DataCommands
<1>4. early' = FALSE /\ CardInv'
  BY <1>2, <1>3, CommandIs, StillKeeps DEF Knows
<1>5. CASE err
  <2>1. at' \in {Hung, Returned}
    BY <1>1, <1>5
  <2>2. QED
    BY <1>1, <1>2, <1>5, <2>1, CommandFails DEF Knows
<1>6. CASE ~err
  <2>1. PICK pc \in {"sd_check", "sd_switch", "sd_width_app", "clock"} :
          Moves(pc) /\ (pc = "sd_width_app" => at.width = 4)
    <3>1. CASE busy /\ at.left > 0
      <4>1. at' = [at EXCEPT !.left = @ - 1]
        BY <1>1, <1>3, <1>6, <3>1
      <4>2. QED
        BY <1>2, <3>1, <4>1, RetryIs
    <3>2. CASE ~(busy /\ at.left > 0)
      <4>1. at' = Goto(IF supported THEN "sd_switch" ELSE AfterSdFreq)
        BY <1>1, <1>3, <1>6, <3>2
      <4>2. QED
        BY <1>2, <4>1, MovesIs DEF AfterSdFreq, Pc
    <3>3. QED
      BY <3>1, <3>2
  <2>2. TypeOK'
    BY <1>2, <1>3, <1>4, <2>1, TypeKeeps, TypedIs DEF Sent, Still, Moves
  <2>3. QED
    BY <1>2, <1>3, <1>4, <2>1, <2>2, WireAssumption
       DEF IInv, TypeOK, PhaseInv, VersionInv, SelectInv, ReadyIsSelected, AddressInv, ClockInv,
           CardClock, Parent, BusyInv, LoopInv, WidthInv, BusWorks, Moves, Sent, Still, SameCard
<1>7. QED
  BY <1>5, <1>6

\* CMD6 switches an SD card to high speed.
LEMMA SdSwitchKeeps == IInv /\ SdSwitch => IInv'
<1> SUFFICES ASSUME IInv, SdSwitch PROVE IInv'
  OBVIOUS
<1>1. PICK err, hung \in BOOLEAN :
        /\ Send("CMD_SWITCH_FUNC", err, hung)
        /\ at' = IF hung THEN Hung ELSE IF err THEN Returned ELSE Goto(AfterSdFreq)
  BY Zenon DEF SdSwitch, Checked
<1>2. /\ TypeOK /\ at.pc = "sd_switch" /\ reg' = reg /\ div' = div /\ gd' = gd
      /\ mmc' = IF at'.pc = AfterSdFreq THEN [mmc EXCEPT !.hs = TRUE] ELSE mmc
  BY DEF IInv, SdSwitch, Checked
<1>3. Sent("CMD_SWITCH_FUNC", err) /\ Still /\ (hung => err)
  BY <1>1, <1>2, PlainSent DEF PlainCommands, DataCommands
<1>4. CASE err
  <2>1. mmc' = mmc
    BY <1>1, <1>2, <1>4, LeftIs DEF Left, AfterSdFreq
  <2>2. QED
    BY <1>1, <1>2, <1>4, <2>1, CommandFails DEF Knows
<1>5. CASE ~err
  <2>1. PICK pc \in {"sd_width_app", "clock"} :
          at' = Goto(pc) /\ (pc = "sd_width_app" => at.width = 4)
    BY <1>1, <1>3, <1>5 DEF AfterSdFreq
  <2>2. Moves(pc)
    BY <1>2, <2>1, MovesIs DEF Pc
  <2>3. mmc' \in Device /\ SameButVersion /\ mmc'.version = mmc.version
    <3>1. CASE mmc' = mmc
      BY <1>2, <3>1, TypedIs DEF SameButVersion
    <3>2. CASE mmc' = [mmc EXCEPT !.hs = TRUE]
      BY <1>2, <3>2, TypedIs, FastIs
    <3>3. QED
      BY <1>2, <3>1, <3>2
  <2>4. early' = FALSE /\ CardInv'
    BY <1>2, <1>3, <2>3, CommandIs, StillKeeps DEF Knows, SameButVersion
  <2>5. TypeOK'
    BY <1>2, <1>3, <2>2, <2>3, <2>4, TypeKeeps DEF Sent, Still, Moves
  <2>6. QED
    BY <1>2, <1>3, <2>1, <2>2, <2>3, <2>4, <2>5, WireAssumption
       DEF IInv, TypeOK, PhaseInv, VersionInv, SelectInv, ReadyIsSelected, AddressInv, ClockInv,
           CardClock, Parent, BusyInv, LoopInv, WidthInv, BusWorks, Moves, Sent, Still,
           SameCard, SameButVersion
<1>6. QED
  BY <1>4, <1>5

\* The width is kept if the EXT_CSD read over it agrees.
LEMMA WidthTestKeeps == IInv /\ WidthTest => IInv'
<1> SUFFICES ASSUME IInv, WidthTest PROVE IInv'
  OBVIOUS
<1>1. PICK err, hung \in BOOLEAN :
        /\ Send("CMD_SEND_EXT_CSD", err, hung)
        /\ at' = IF hung THEN Hung
                 ELSE IF ~err /\ at.ext_csd = "card" THEN Goto("clock") ELSE TryNext
  BY DEF WidthTest
<1>2. TypeOK /\ at.pc = "width_test" /\ reg' = reg /\ div' = div /\ mmc' = mmc /\ gd' = gd
  BY DEF IInv, WidthTest, Quiet
<1>3. /\ Sent("CMD_SEND_EXT_CSD", err) /\ Still
      /\ ~err => Answers("CMD_SEND_EXT_CSD") /\ BusWorks
      /\ err /\ Answers("CMD_SEND_EXT_CSD") /\ BusWorks => tally'.faults = tally.faults + 1
      /\ hung => err
  BY <1>1, <1>2, PlainSent DEF PlainCommands, DataCommands, Sent
<1>4. early' = FALSE /\ CardInv'
  BY <1>2, <1>3, CommandIs, StillKeeps DEF Knows
<1>5. CASE hung
  BY <1>1, <1>2, <1>3, <1>5, CommandFails DEF Knows
<1>6. CASE ~hung /\ ~err /\ at.ext_csd = "card"
  <2>1. Moves("clock")
    BY <1>1, <1>2, <1>6, MovesIs DEF Pc
  <2>2. TypeOK'
    BY <1>2, <1>3, <1>4, <2>1, TypeKeeps, TypedIs DEF Sent, Still, Moves
  <2>3. QED
    BY <1>2, <1>3, <1>4, <1>6, <2>1, <2>2
       DEF IInv, TypeOK, PhaseInv, VersionInv, SelectInv, ReadyIsSelected, AddressInv, ClockInv,
           CardClock, Parent, BusyInv, LoopInv, WidthInv, BusWorks, Moves, Sent, Still, SameCard
<1>7. CASE ~hung /\ ~(~err /\ at.ext_csd = "card")
  <2>1. at.width \in {4, 8} /\ card.kind = "emmc"
    BY <1>2 DEF IInv, LoopInv
  <2>2. at' = TryNext
    BY <1>1, <1>7
  <2>3. /\ at' \in Locals /\ at'.pc = "width"
        /\ at'.width = IF at.width = 8 THEN 4 ELSE 1
        /\ at'.ext_csd = at.ext_csd /\ at'.dirty = at.dirty /\ at'.late = at.late
    BY <1>2, <2>1, <2>2, TryNextIs
  <2>4. TypeOK'
    BY <1>2, <1>3, <1>4, <2>3, TypeKeeps, TypedIs DEF Sent, Still
  <2>5. err => card.busy > 0 \/ ~BusWorks \/ Fault'
    BY <1>2, <1>3, <2>1 DEF IInv, SelectInv, Answers, Knows, Addressed, AppCommands, TypeOK
  <2>6. QED
    BY <1>2, <1>3, <1>4, <1>7, <2>1, <2>3, <2>4, <2>5, WireAssumption
       DEF IInv, TypeOK, PhaseInv, VersionInv, SelectInv, ReadyIsSelected, AddressInv, ClockInv,
           CardClock, Parent, BusyInv, LoopInv, WidthInv, BusWorks, Moves, Sent, Still, SameCard
<1>8. QED
  BY <1>5, <1>6, <1>7

\* What CMD0 leaves of the card.
GoIdleLeft ==
  /\ tally' \in [faults : 0..MaxFaults, boots : 1..MaxBoots]
  /\ card' \in CardState
  /\ \/ card' = card
     \/ /\ card'.kind = card.kind /\ card'.vendor = card.vendor /\ card'.hc = card.hc
        /\ card'.state = "idle" /\ card'.part = 0 /\ card'.width = 1 /\ card'.busy = 0

\* A step with CMD0 keeps the types.
LEMMA IdleKeeps ==
  ASSUME TypeOK, GoIdleLeft, at' \in Locals, mmc' \in Device, reg' = reg, div' = div, gd' = gd,
         early' = FALSE
  PROVE  TypeOK'
<1>1. early' \in BOOLEAN
  OBVIOUS
<1>2. QED
  BY <1>1 DEF TypeOK, GoIdleLeft, CardState, Locals, Device

\* CMD6 for high speed makes an eMMC busy: mmc_send_status polls it.
LEMMA FreqSwitchKeeps == IInv /\ Patient /\ FreqSwitch => IInv'
<1> SUFFICES ASSUME IInv, Patient, FreqSwitch PROVE IInv'
  OBVIOUS
<1>1. PICK err \in BOOLEAN :
        Send("CMD_SWITCH", err, FALSE) /\ at' = WaitReady(err, "freq_done")
  BY DEF FreqSwitch, Switch
<1>2. TypeOK /\ at.pc = "freq_switch" /\ reg' = reg /\ div' = div /\ mmc' = mmc /\ gd' = gd
  BY DEF IInv, FreqSwitch, Switch
<1>3. /\ Sent("CMD_SWITCH", err) /\ SameCard
      /\ card'.state = card.state /\ card'.rca = card.rca /\ card'.width = card.width
  BY <1>1, <1>2, SwitchSent DEF Still
<1>4. early' = FALSE /\ CardInv'
  BY <1>2, <1>3, CommandIs DEF IInv, CardInv, SameCard, Knows
<1>5. Waits(err, "freq_done")
  BY <1>1, <1>2, WaitsIs
<1>6. TypeOK'
  BY <1>2, <1>3, <1>4, <1>5, TypeKeeps, TypedIs DEF Sent, Waits
<1>7. card'.busy <= at'.left + 1 /\ at'.left \in Nat
  BY <1>3, <1>5, TryAssumption DEF Waits, SameCard, CardState, Patient
<1>8. QED
  BY <1>2, <1>3, <1>4, <1>5, <1>6, <1>7
     DEF IInv, TypeOK, PhaseInv, VersionInv, SelectInv, ReadyIsSelected, AddressInv, ClockInv,
         CardClock, Parent, BusyInv, LoopInv, WidthInv, BusWorks, Moves, Sent, Still, SameCard,
         Waits

\* CMD6 for a width changes the width of the card, not yet that of the controller.
LEMMA WidthSwitchKeeps == IInv /\ Patient /\ WidthSwitch => IInv'
<1> SUFFICES ASSUME IInv, Patient, WidthSwitch PROVE IInv'
  OBVIOUS
<1>1. PICK err \in BOOLEAN :
        Send("CMD_SWITCH", err, FALSE) /\ at' = WaitReady(err, "width_done")
  BY DEF WidthSwitch, Switch
<1>2. /\ TypeOK /\ at.pc = "width" /\ at.width \in {1, 4, 8}
      /\ reg' = reg /\ div' = div /\ mmc' = mmc /\ gd' = gd
  BY DEF IInv, WidthSwitch, Switch, LoopInv
<1>3. /\ Sent("CMD_SWITCH", err) /\ SameCard
      /\ card'.state = card.state /\ card'.rca = card.rca
      /\ \/ Still /\ err
         \/ card.busy = 0 /\ card.kind = "emmc" /\ card'.width = at.width
  BY <1>1, <1>2, SwitchSent
<1>4. card.kind = "emmc" /\ card.busy = 0 /\ err => tally'.faults = tally.faults + 1
  BY <1>2, <1>3 DEF IInv, TypeOK, SelectInv, Answers, Knows, Addressed, AppCommands,
       DataCommands, Sent
<1>5. early' = FALSE /\ CardInv'
  <2>1. card.state = "tran"
    BY <1>2 DEF IInv, SelectInv
  <2>2. QED
    BY <1>2, <1>3, <2>1, CommandIs DEF IInv, CardInv, SameCard, Knows
<1>6. Waits(err, "width_done")
  BY <1>1, <1>2, WaitsIs
<1>7. TypeOK'
  BY <1>2, <1>3, <1>5, <1>6, TypeKeeps, TypedIs DEF Sent, Waits
<1>8. card'.busy <= at'.left + 1 /\ at'.left \in Nat
  BY <1>3, <1>6, TryAssumption DEF Waits, SameCard, CardState, Patient
<1>9. LoopInv'
  <2>1. CASE card.kind # "emmc"
    BY <1>2, <1>3, <1>6, <2>1 DEF IInv, TypeOK, LoopInv, SelectInv, SameCard, Still, Waits
  <2>2. CASE card.kind = "emmc" /\ Still /\ err
    BY <1>2, <1>3, <1>4, <1>6, <2>2, WireAssumption
       DEF IInv, TypeOK, LoopInv, SelectInv, SameCard, Still, Sent, Waits
  <2>3. CASE card.kind = "emmc" /\ card.busy = 0 /\ card'.width = at.width
    BY <1>2, <1>3, <1>4, <1>6, <2>3, WireAssumption
       DEF IInv, TypeOK, LoopInv, SelectInv, SameCard, Sent, Waits
  <2>4. QED
    BY <1>3, <2>1, <2>2, <2>3
<1>10. QED
  BY <1>2, <1>3, <1>5, <1>6, <1>7, <1>8, <1>9
     DEF IInv, TypeOK, PhaseInv, VersionInv, SelectInv, ReadyIsSelected, AddressInv, ClockInv,
         CardClock, Parent, BusyInv, WidthInv, BusWorks, Moves, Sent, Still, SameCard, Waits

\* ACMD6 sets four data lines.
LEMMA SdWidthKeeps == IInv /\ SdWidth => IInv'
<1> SUFFICES ASSUME IInv, SdWidth PROVE IInv'
  OBVIOUS
<1>1. PICK err, hung \in BOOLEAN :
        /\ Send("CMD_APP_SET_BUS_WIDTH", err, hung)
        /\ at' = IF hung THEN Hung ELSE IF err THEN Returned ELSE Goto("width_set")
  BY Zenon DEF SdWidth, Checked
<1>2. TypeOK /\ at.pc = "sd_width" /\ reg' = reg /\ div' = div /\ mmc' = mmc /\ gd' = gd
  BY DEF IInv, SdWidth, Checked, Quiet
<1>3. /\ Sent("CMD_APP_SET_BUS_WIDTH", err) /\ SameCard
      /\ card'.state = card.state /\ card'.rca = card.rca
      /\ ~err => card'.width = 4 /\ card'.busy = 0
  BY <1>1, <1>2, SwitchSent
<1>4. hung => err
  BY <1>1, <1>2, SendIs DEF Knows
<1>5. CASE err
  BY <1>1, <1>2, <1>5, CommandFails DEF Knows
<1>6. CASE ~err
  <2>1. Moves("width_set")
    BY <1>1, <1>2, <1>4, <1>6, MovesIs DEF Pc
  <2>2. early' = FALSE /\ CardInv'
    BY <1>2, <1>3, CommandIs DEF IInv, CardInv, SelectInv, SameCard, Knows
  <2>3. TypeOK'
    BY <1>2, <1>3, <2>1, <2>2, TypeKeeps, TypedIs DEF Sent, Moves
  <2>4. QED
    BY <1>2, <1>3, <1>6, <2>1, <2>2, <2>3
       DEF IInv, TypeOK, PhaseInv, VersionInv, SelectInv, ReadyIsSelected, AddressInv, ClockInv,
           CardClock, Parent, BusyInv, LoopInv, WidthInv, BusWorks, Moves, Sent, Still, SameCard
<1>7. QED
  BY <1>5, <1>6

\* CMD0 forgets the address, the width and the partition of the card.
LEMMA GoIdleKeeps == IInv /\ GoIdle => IInv'
<1> SUFFICES ASSUME IInv, GoIdle PROVE IInv'
  OBVIOUS
<1>1. PICK err \in BOOLEAN :
        /\ SendGoIdle(err)
        /\ at' = IF err THEN Returned ELSE Goto("if_cond")
        /\ mmc' = IF err THEN mmc ELSE [mmc EXCEPT !.part_num = 0]
  BY DEF GoIdle
<1>2. TypeOK /\ at.pc = "go_idle" /\ reg' = reg /\ div' = div /\ gd' = gd
  BY DEF IInv, GoIdle
<1>3. card \in CardState /\ mmc \in Device /\ reg \in Registers /\ card.busy = 0
  BY <1>2, TypedIs DEF IInv, BusyInv, TypeOK, Registers
<1>4. early' = FALSE
  BY <1>1, <1>2, <1>3, GoIdleSent DEF IInv, BusyInv, TypeOK
<1>5. CASE err
  <2>1. /\ card' = card /\ mmc' = mmc /\ Left
        /\ tally' \in [faults : 0..MaxFaults, boots : 1..MaxBoots]
    BY <1>1, <1>2, <1>5, GoIdleSent, LeftIs
  <2>2. ~mmc.has_init /\ mmc.lba = 0 /\ mmc.part_num = 0
    BY <1>2, BringingIs
  <2>3. SameCard /\ CardInv'
    BY <1>3, <2>1 DEF IInv, CardInv, SameCard
  <2>4. QED
    BY <1>2, <1>3, <1>4, <2>1, <2>2, <2>3, LeftKeeps
<1>6. CASE ~err
  <2>1. Moves("if_cond")
    BY <1>1, <1>2, <1>6, MovesIs DEF Pc
  <2>2. mmc' \in Device /\ SameButVersion /\ mmc'.version = mmc.version
    <3>1. mmc' = [mmc EXCEPT !.part_num = 0] /\ mmc.part_num = 0
      BY <1>1, <1>2, <1>6, BringingIs
    <3>2. QED
      BY <1>3, <3>1 DEF Device, SameButVersion
  <2>3. GoIdleLeft
    BY <1>1, <1>2, GoIdleSent DEF GoIdleLeft
  <2>4. CardInv'
    BY <2>2, <2>3 DEF IInv, CardInv, GoIdleLeft, SameButVersion
  <2>5. TypeOK'
    BY <1>2, <1>4, <2>1, <2>2, <2>3, IdleKeeps DEF Moves
  <2>6. QED
    BY <1>2, <1>3, <1>4, <2>1, <2>2, <2>3, <2>4, <2>5
       DEF IInv, TypeOK, PhaseInv, VersionInv, SelectInv, ReadyIsSelected, AddressInv, ClockInv,
           CardClock, Parent, BusyInv, LoopInv, WidthInv, BusWorks, Moves, Sent, Still,
           SameCard, SameButVersion, GoIdleLeft
<1>7. QED
  BY <1>5, <1>6

\* The second CMD0, before CMD1.
LEMMA GoIdleAgainKeeps == IInv /\ GoIdleAgain => IInv'
<1> SUFFICES ASSUME IInv, GoIdleAgain PROVE IInv'
  OBVIOUS
<1>1. PICK err \in BOOLEAN : SendGoIdle(err)
  BY DEF GoIdleAgain
<1>2. TypeOK /\ at.pc = "go_idle_again" /\ reg' = reg /\ div' = div /\ mmc' = mmc /\ gd' = gd
  BY DEF IInv, GoIdleAgain, Quiet
<1>3. card.busy = 0 /\ mmc \in Device
  BY <1>2, TypedIs DEF IInv, BusyInv
<1>4. early' = FALSE /\ GoIdleLeft
  BY <1>1, <1>2, <1>3, GoIdleSent DEF IInv, BusyInv, TypeOK, GoIdleLeft
<1>5. Moves("op_first")
  BY <1>2, MovesIs DEF GoIdleAgain, Pc
<1>6. CardInv'
  BY <1>2, <1>4 DEF IInv, CardInv, GoIdleLeft
<1>7. TypeOK'
  BY <1>2, <1>3, <1>4, <1>5, IdleKeeps DEF Moves
<1>8. QED
  BY <1>2, <1>3, <1>4, <1>5, <1>6, <1>7
     DEF IInv, TypeOK, PhaseInv, VersionInv, SelectInv, ReadyIsSelected, AddressInv, ClockInv,
         CardClock, Parent, BusyInv, LoopInv, WidthInv, BusWorks, Moves, Sent, Still, SameCard,
         GoIdleLeft

\* The card was asked whether it is up.
Polled ==
  /\ SameCard /\ card'.rca = card.rca /\ card'.width = card.width
  /\ card'.busy = IF card.busy > 0 THEN card.busy - 1 ELSE 0
  /\ card'.state = card.state \/ (card.state = "idle" /\ card'.state \in {"idle", "ready"})

\* The device is what it was, but for what identification finds.
SameIdentity ==
  /\ mmc'.has_init = mmc.has_init /\ mmc'.bus_width = mmc.bus_width
  /\ mmc'.clock = mmc.clock /\ mmc'.part_num = mmc.part_num /\ mmc'.lba = mmc.lba

\* The fields of struct mmc that an answer about the card's kind sets.
LEMMA FoundIs ==
  ASSUME mmc \in Device, NEW v \in Version, NEW h, h \in BOOLEAN, NEW r \in {0, 1},
         mmc' = [mmc EXCEPT !.high_capacity = h, !.rca = r, !.version = v]
  PROVE  /\ mmc' \in Device /\ SameIdentity
         /\ mmc'.version = v /\ mmc'.rca = r /\ mmc'.high_capacity = h
<1> DEFINE a == [mmc EXCEPT !.high_capacity = h]
<1> DEFINE b == [a EXCEPT !.rca = r]
<1> DEFINE c == [b EXCEPT !.version = v]
<1>1. a \in Device
  BY DEF Device
<1>2. b \in Device
  <2> HIDE DEF a
  <2>1. QED
    BY <1>1 DEF Device
<1>3. c \in Device
  <2> HIDE DEF b
  <2>1. QED
    BY <1>2 DEF Device
<1>4. mmc' = c
  OBVIOUS
<1>5. mmc' \in Device
  BY <1>3, <1>4
<1>6. QED
  BY <1>5 DEF Device, SameIdentity

\* The record that the card came up late, of either value.
LEMMA LateBy ==
  ASSUME at \in Locals, NEW b, b \in BOOLEAN, at' = [at EXCEPT !.pc = "cid", !.late = b]
  PROVE  at' \in Locals
BY DEF Locals, Pc

\* It keeps the other locals.
LEMMA LateIs ==
  ASSUME at \in Locals, at' = [at EXCEPT !.pc = "cid", !.late = TRUE]
  PROVE  at' \in Locals /\ at'.pc = "cid" /\ at'.late /\ at'.dirty = at.dirty
<1>1. TRUE \in BOOLEAN
  OBVIOUS
<1>2. at' \in Locals
  BY <1>1, LateBy
<1>3. QED
  BY <1>2 DEF Locals

\* ACMD41: the card is an SD card, addressed as it says once it is up.
LEMMA SdOpCondKeeps == IInv /\ SdOpCond => IInv'
<1> SUFFICES ASSUME IInv, SdOpCond PROVE IInv'
  OBVIOUS
<1>1. PICK err \in BOOLEAN :
        /\ Send("CMD_APP_SEND_OP_COND", err, FALSE)
        /\ \/ err /\ at' = Goto("go_idle_again") /\ mmc' = mmc
           \/ /\ ~err /\ card.warm > 0 /\ at.left > 0
              /\ at' = [at EXCEPT !.pc = "sd_app", !.left = @ - 1] /\ mmc' = mmc
           \/ /\ ~err /\ at.left = 0
              /\ at' = [at EXCEPT !.pc = "cid", !.late = TRUE] /\ mmc' = mmc
           \/ /\ ~err /\ card.warm = 0 /\ at.left > 0
              /\ at' = Goto("cid")
              /\ mmc' = [mmc EXCEPT !.high_capacity = card.hc, !.rca = 0,
                           !.version = IF @ = "SD_VERSION_2" THEN @ ELSE "SD_VERSION_1_0"]
  BY DEF SdOpCond
<1>2. /\ TypeOK /\ at.pc = "sd_op" /\ reg' = reg /\ div' = div /\ gd' = gd
      /\ at \in Locals /\ mmc \in Device /\ card \in CardState
  BY TypedIs DEF IInv, SdOpCond
<1>3. /\ Sent("CMD_APP_SEND_OP_COND", err) /\ Polled
      /\ ~err => Answers("CMD_APP_SEND_OP_COND")
  BY <1>1, <1>2, IdentifySent DEF Polled, Still
<1>4. card.busy = 0 /\ early' = FALSE
  BY <1>2, <1>3, CommandIs DEF IInv, BusyInv, Knows
<1>5. ~err => IsSd(card.kind)
  BY <1>3 DEF Answers, Knows, IsSd
<1>6. /\ mmc' \in Device /\ SameIdentity
      /\ \/ mmc'.version = mmc.version /\ mmc'.rca = mmc.rca
         \/ mmc'.version \in {"SD_VERSION_2", "SD_VERSION_1_0"} /\ mmc'.rca = 0 /\ ~err
  <2>1. CASE mmc' = mmc
    BY <1>2, <2>1 DEF SameIdentity
  <2>2. CASE /\ mmc' = [mmc EXCEPT !.high_capacity = card.hc, !.rca = 0,
                          !.version = IF @ = "SD_VERSION_2" THEN @ ELSE "SD_VERSION_1_0"]
             /\ ~err
    <3>1. PICK v \in {"SD_VERSION_2", "SD_VERSION_1_0"} :
            mmc' = [mmc EXCEPT !.high_capacity = card.hc, !.rca = 0, !.version = v]
      BY <2>2
    <3>2. v \in Version /\ card.hc \in BOOLEAN
      BY <1>2 DEF Version, CardState
    <3>3. mmc' \in Device /\ SameIdentity /\ mmc'.version = v /\ mmc'.rca = 0
      BY <1>2, <3>1, <3>2, FoundIs
    <3>4. QED
      BY <2>2, <3>1, <3>3
  <2>3. QED
    BY <1>1, <2>1, <2>2
<1>7. CardInv'
  BY <1>2, <1>3, <1>5, <1>6 DEF IInv, CardInv, Polled, SameCard
<1>8. at' \in Locals /\ at'.pc \in {"go_idle_again", "sd_app", "cid"} /\ at'.dirty = at.dirty
  <2>1. CASE \E pc \in {"go_idle_again", "cid"} : at' = Goto(pc)
    BY <1>2, <2>1, MovesIs DEF Moves, Pc
  <2>2. CASE at' = [at EXCEPT !.pc = "sd_app", !.left = @ - 1] /\ at.left > 0
    <3>1. at' = [at EXCEPT !.pc = "sd_app", !.left = at.left - 1] /\ at.left - 1 \in Nat
      BY <1>2, <2>2 DEF Locals
    <3>2. QED
      BY <1>2, <3>1, MovesIs DEF Moves, Pc
  <2>3. CASE at' = [at EXCEPT !.pc = "cid", !.late = TRUE]
    BY <1>2, <2>3, LateIs
  <2>4. QED
    BY <1>1, <2>1, <2>2, <2>3
<1>9. at'.pc = "cid" => ~err /\ (at'.late \/ mmc'.high_capacity = card.hc)
  <2>1. CASE at' = [at EXCEPT !.pc = "cid", !.late = TRUE] /\ ~err
    BY <1>2, <2>1, LateIs
  <2>2. CASE mmc' = [mmc EXCEPT !.high_capacity = card.hc, !.rca = 0,
                       !.version = IF @ = "SD_VERSION_2" THEN @ ELSE "SD_VERSION_1_0"] /\ ~err
    BY <1>2, <2>2 DEF Device
  <2>3. CASE \/ at' = Goto("go_idle_again")
             \/ at' = [at EXCEPT !.pc = "sd_app", !.left = @ - 1]
    BY <1>2, <2>3 DEF Goto, Locals
  <2>4. QED
    BY <1>1, <2>1, <2>2, <2>3
<1>10. TypeOK'
  BY <1>2, <1>3, <1>4, <1>6, <1>8, TypeKeeps DEF Sent, Polled
<1>11. PhaseInv' /\ VersionInv' /\ SelectInv' /\ AddressInv'
  BY <1>2, <1>3, <1>4, <1>5, <1>6, <1>7, <1>8, <1>9
     DEF IInv, TypeOK, PhaseInv, VersionInv, SelectInv, ReadyIsSelected, AddressInv, Moves, Sent,
         Still, SameCard, Polled, SameIdentity
<1>12. ClockInv' /\ BusyInv'
  BY <1>2, <1>3, <1>4, <1>5, <1>6, <1>7, <1>8, <1>9
     DEF IInv, TypeOK, PhaseInv, ClockInv, CardClock, Parent, BusyInv, Moves, Sent, Still,
         SameCard, Polled, SameIdentity
<1>13. LoopInv' /\ WidthInv'
  BY <1>2, <1>3, <1>4, <1>5, <1>6, <1>7, <1>8, <1>9
     DEF IInv, TypeOK, PhaseInv, SelectInv, BusyInv, LoopInv, WidthInv, BusWorks, Moves, Sent,
         Still, SameCard, Polled, SameIdentity
<1>14. QED
  BY <1>6, <1>7, <1>8, <1>9, <1>10, <1>11, <1>12, <1>13 DEF IInv

\* mmc_send_op_cond has found a card.
LEMMA OpPollFound ==
  ASSUME IInv, OpPoll, at' = Goto("cid"),
         mmc' = [mmc EXCEPT !.high_capacity = card.hc, !.rca = 0,
                   !.version = "MMC_VERSION_UNKNOWN"]
  PROVE  IInv'
<1>1. /\ TypeOK /\ at.pc = "op_poll" /\ reg' = reg /\ div' = div /\ gd' = gd
      /\ at \in Locals /\ mmc \in Device /\ card \in CardState
  BY TypedIs DEF IInv, OpPoll
<1>2. PICK err \in BOOLEAN : Send("CMD_SEND_OP_COND", err, FALSE)
  BY DEF OpPoll
<1>3. Sent("CMD_SEND_OP_COND", err) /\ Polled
  BY <1>1, <1>2, IdentifySent DEF Polled, Still
<1>4. card.busy = 0 /\ early' = FALSE
  BY <1>1, <1>3, CommandIs DEF IInv, BusyInv, Knows
<1>5. /\ mmc' \in Device /\ SameIdentity /\ mmc'.version = "MMC_VERSION_UNKNOWN"
      /\ mmc'.rca = 0 /\ mmc'.high_capacity = card.hc
  <2>1. card.hc \in BOOLEAN /\ "MMC_VERSION_UNKNOWN" \in Version
    BY <1>1 DEF CardState, Version
  <2>2. QED
    BY <1>1, <2>1, FoundIs
<1>6. CardInv'
  BY <1>1, <1>3, <1>5 DEF IInv, CardInv, Polled, SameCard
<1>7. Moves("cid")
  BY <1>1, MovesIs DEF Pc
<1>8. TypeOK'
  BY <1>1, <1>3, <1>4, <1>5, <1>7, TypeKeeps DEF Sent, Polled, Moves
<1>9. QED
  BY <1>1, <1>3, <1>4, <1>5, <1>6, <1>7, <1>8
     DEF IInv, TypeOK, PhaseInv, VersionInv, SelectInv, ReadyIsSelected, AddressInv, ClockInv,
         CardClock, Parent, BusyInv, LoopInv, WidthInv, BusWorks, Moves, Sent, Still, SameCard,
         Polled, SameIdentity

\* A poll by CMD1: the card is an eMMC, addressed as it says once it is up.
LEMMA OpPollKeeps == IInv /\ OpPoll => IInv'
<1> SUFFICES ASSUME IInv, OpPoll PROVE IInv'
  OBVIOUS
<1>1. PICK err \in BOOLEAN :
        /\ Send("CMD_SEND_OP_COND", err, FALSE)
        /\ \/ (err \/ at.left = 0) /\ at' = Returned /\ mmc' = mmc
           \/ /\ ~err /\ card.warm > 0 /\ at.left > 0
              /\ at' = [at EXCEPT !.left = @ - 1] /\ mmc' = mmc
           \/ /\ ~err /\ card.warm = 0 /\ at.left > 0
              /\ at' = Goto("cid")
              /\ mmc' = [mmc EXCEPT !.high_capacity = card.hc, !.rca = 0,
                           !.version = "MMC_VERSION_UNKNOWN"]
  BY DEF OpPoll
<1>2. /\ TypeOK /\ at.pc = "op_poll" /\ reg' = reg /\ div' = div /\ gd' = gd
      /\ at \in Locals /\ mmc \in Device /\ card \in CardState /\ reg \in Registers
  BY TypedIs DEF IInv, OpPoll, TypeOK, Registers
<1>3. Sent("CMD_SEND_OP_COND", err) /\ Polled
  BY <1>1, <1>2, IdentifySent DEF Polled, Still
<1>4. card.busy = 0 /\ early' = FALSE
  BY <1>2, <1>3, CommandIs DEF IInv, BusyInv, Knows
<1>5. CASE at' = Returned /\ mmc' = mmc
  <2>1. CardInv'
    BY <1>2, <1>3, <1>5 DEF IInv, CardInv, Polled, SameCard
  <2>2. Left /\ ~mmc.has_init /\ mmc.lba = 0 /\ mmc.part_num = 0
    BY <1>2, <1>5, LeftIs, BringingIs
  <2>3. QED
    BY <1>2, <1>3, <1>4, <1>5, <2>1, <2>2, LeftKeeps DEF Sent, Polled
<1>6. CASE at' = [at EXCEPT !.left = @ - 1] /\ at.left > 0 /\ mmc' = mmc
  <2>1. CardInv'
    BY <1>2, <1>3, <1>6 DEF IInv, CardInv, Polled, SameCard
  <2>2. Moves("op_poll")
    BY <1>2, <1>6, RetryIs
  <2>3. TypeOK'
    BY <1>2, <1>3, <1>4, <1>6, <2>2, TypeKeeps DEF Sent, Polled, Moves
  <2>4. QED
    BY <1>2, <1>3, <1>4, <1>6, <2>1, <2>2, <2>3
       DEF IInv, TypeOK, PhaseInv, VersionInv, SelectInv, ReadyIsSelected, AddressInv, ClockInv,
           CardClock, Parent, BusyInv, LoopInv, WidthInv, BusWorks, Moves, Sent, Still,
           SameCard, Polled
<1>7. CASE mmc' = [mmc EXCEPT !.high_capacity = card.hc, !.rca = 0,
                     !.version = "MMC_VERSION_UNKNOWN"] /\ at' = Goto("cid")
  BY <1>7, OpPollFound
<1>8. QED
  BY <1>1, <1>5, <1>6, <1>7

\* CMD2.
LEMMA SendCidKeeps == IInv /\ SendCid => IInv'
<1> SUFFICES ASSUME IInv, SendCid PROVE IInv'
  OBVIOUS
<1>1. PICK err, hung \in BOOLEAN :
        /\ Send("CMD_ALL_SEND_CID", err, hung)
        /\ at' = IF hung THEN Hung ELSE IF err THEN Returned ELSE Goto("rca")
  BY Zenon DEF SendCid, Checked
<1>2. /\ TypeOK /\ at.pc = "cid" /\ reg' = reg /\ div' = div /\ mmc' = mmc
      /\ gd' = IF at'.pc = "rca" THEN [gd EXCEPT !.vendor = card.vendor] ELSE gd
      /\ at \in Locals /\ mmc \in Device /\ card \in CardState
  BY TypedIs DEF IInv, SendCid, Checked
<1>3. /\ Sent("CMD_ALL_SEND_CID", err) /\ SameCard /\ card'.width = card.width
      /\ card'.busy = (IF card.busy > 0 THEN card.busy - 1 ELSE 0) /\ (hung => err)
      /\ err \/ (card.state = "ready" /\ card'.state = "ident" /\ card'.rca = card.rca)
  BY <1>1, <1>2, IdentifySent
<1>4. CASE err
  <2>1. gd' = gd
    BY <1>1, <1>2, <1>4, LeftIs DEF Left
  <2>2. QED
    BY <1>1, <1>2, <1>4, <2>1, CommandFails DEF Knows
<1>5. CASE ~err
  <2>1. Moves("rca")
    BY <1>1, <1>2, <1>3, <1>5, MovesIs DEF Pc
  <2>2. /\ gd' \in [usedma : BOOLEAN, vendor : {"EMMC_SAMSUNG", "other"}]
        /\ gd'.usedma = gd.usedma /\ gd'.vendor = card.vendor
    BY <1>2, <2>1 DEF TypeOK, Moves, CardState
  <2>3. card.busy = 0 /\ early' = FALSE
    BY <1>2, <1>3, CommandIs DEF IInv, BusyInv, Knows
  <2>4. CardInv'
    BY <1>2, <1>3, <1>5 DEF IInv, CardInv, SameCard
  <2>5. TypeOK'
    <3>1. early' \in BOOLEAN
      BY <2>3
    <3>2. QED
      BY <1>2, <1>3, <2>1, <2>2, <3>1
         DEF TypeOK, Sent, SameCard, CardState, Locals, Moves
  <2>6. QED
    BY <1>2, <1>3, <1>5, <2>1, <2>2, <2>3, <2>4, <2>5
       DEF IInv, TypeOK, PhaseInv, VersionInv, SelectInv, ReadyIsSelected, AddressInv, ClockInv,
           CardClock, Parent, BusyInv, LoopInv, WidthInv, BusWorks, Moves, Sent, Still, SameCard
<1>6. QED
  BY <1>4, <1>5

\* CMD3: the driver gives an eMMC the address 0, and an SD card names its own.
LEMMA SendRelativeAddrKeeps == IInv /\ SendRelativeAddr => IInv'
<1> SUFFICES ASSUME IInv, SendRelativeAddr PROVE IInv'
  OBVIOUS
<1>1. PICK err, hung \in BOOLEAN :
        /\ Send("CMD_SEND_RELATIVE_ADDR", err, hung)
        /\ at' = IF hung THEN Hung ELSE IF err THEN Returned ELSE Goto("csd")
  BY Zenon DEF SendRelativeAddr, Checked
<1>2. /\ TypeOK /\ at.pc = "rca" /\ reg' = reg /\ div' = div /\ gd' = gd
      /\ mmc' = IF at'.pc = "csd" /\ IS_SD THEN [mmc EXCEPT !.rca = card'.rca] ELSE mmc
      /\ at \in Locals /\ mmc \in Device /\ card \in CardState
  BY TypedIs DEF IInv, SendRelativeAddr, Checked
<1>3. /\ Sent("CMD_SEND_RELATIVE_ADDR", err) /\ SameCard /\ card'.width = card.width
      /\ card'.busy = (IF card.busy > 0 THEN card.busy - 1 ELSE 0) /\ (hung => err)
      /\ err \/ /\ card.state = "ident" /\ card'.state = "stby"
                /\ card'.rca = IF IsSd(card.kind) THEN 1 ELSE mmc.rca
  BY <1>1, <1>2, IdentifySent DEF Still
<1>4. CASE err
  <2>1. mmc' = mmc
    BY <1>1, <1>2, <1>4, LeftIs DEF Left
  <2>2. QED
    BY <1>1, <1>2, <1>4, <2>1, CommandFails DEF Knows
<1>5. CASE ~err
  <2>1. Moves("csd")
    BY <1>1, <1>2, <1>3, <1>5, MovesIs DEF Pc
  <2>2. /\ mmc' \in Device /\ SameIdentity /\ mmc'.version = mmc.version
        /\ mmc'.high_capacity = mmc.high_capacity
        /\ mmc'.rca = IF IS_SD THEN card'.rca ELSE mmc.rca
    BY <1>2, <1>3, <2>1 DEF Device, SameIdentity, Moves, SameCard, CardState
  <2>3. card.busy = 0 /\ early' = FALSE
    BY <1>2, <1>3, CommandIs DEF IInv, BusyInv, Knows
  <2>4. CardInv'
    BY <1>2, <1>3, <1>5, <2>2 DEF IInv, CardInv, SameCard, Device
  <2>5. TypeOK'
    BY <1>2, <1>3, <2>1, <2>2, <2>3, TypeKeeps DEF Sent, Moves
  <2>6. QED
    BY <1>2, <1>3, <1>5, <2>1, <2>2, <2>3, <2>4, <2>5
       DEF IInv, TypeOK, PhaseInv, VersionInv, SelectInv, ReadyIsSelected, AddressInv, ClockInv,
           CardClock, Parent, BusyInv, LoopInv, WidthInv, BusWorks, Moves, Sent, Still,
           SameCard, SameIdentity
<1>6. QED
  BY <1>4, <1>5

\* CMD7 selects the card under that address.
LEMMA SelectCardKeeps == IInv /\ SelectCard => IInv'
<1> SUFFICES ASSUME IInv, SelectCard PROVE IInv'
  OBVIOUS
<1>1. PICK err, hung \in BOOLEAN :
        /\ Send("CMD_SELECT_CARD", err, hung)
        /\ at' = IF hung THEN Hung ELSE IF err THEN Returned
                 ELSE [at EXCEPT !.pc = AfterSelect, !.width = 8]
  BY Zenon DEF SelectCard, Checked
<1>2. TypeOK /\ at.pc = "select" /\ reg' = reg /\ div' = div /\ mmc' = mmc /\ gd' = gd
  BY DEF IInv, SelectCard, Checked, Quiet
<1>3. /\ Sent("CMD_SELECT_CARD", err) /\ SameCard /\ card'.width = card.width
      /\ card'.busy = (IF card.busy > 0 THEN card.busy - 1 ELSE 0) /\ (hung => err)
      /\ err \/ (card.state = "stby" /\ card'.state = "tran" /\ card'.rca = card.rca)
  BY <1>1, <1>2, IdentifySent DEF Still
<1>4. CASE err
  BY <1>1, <1>2, <1>4, CommandFails DEF Knows
<1>5. CASE ~err
  <2>1. PICK pc \in {"sd_scr_app", "ext_csd", "width"} :
          /\ at' = [at EXCEPT !.pc = pc, !.width = 8]
          /\ IS_SD <=> pc = "sd_scr_app"
          /\ mmc.version = "MMC_VERSION_4" <=> pc = "ext_csd"
    BY <1>1, <1>3, <1>5 DEF AfterSelect
  <2>2. /\ at' \in Locals /\ at'.pc = pc /\ at'.width = 8
        /\ at'.dirty = at.dirty /\ at'.late = at.late
    BY <1>2, <2>1, TypedIs DEF Locals, Pc
  <2>3. card.busy = 0 /\ early' = FALSE
    BY <1>2, <1>3, CommandIs DEF IInv, BusyInv, Knows
  <2>4. CardInv'
    BY <1>2, <1>3, <1>5 DEF IInv, CardInv, SameCard
  <2>5. TypeOK'
    BY <1>2, <1>3, <2>2, <2>3, TypeKeeps, TypedIs DEF Sent
  <2>6. QED
    BY <1>2, <1>3, <1>5, <2>1, <2>2, <2>3, <2>4, <2>5, WireAssumption
       DEF IInv, TypeOK, PhaseInv, VersionInv, SelectInv, ReadyIsSelected, AddressInv, ClockInv,
           CardClock, Parent, BusyInv, LoopInv, WidthInv, BusWorks, Moves, Sent, Still,
           SameCard, CardInv
<1>6. QED
  BY <1>4, <1>5

-----------------------------------------------------------------------------
(***************************************************************************)
(* The steps without a command.                                            *)
(***************************************************************************)
\* The card and the history are as they were.
SameBus == card' = card /\ tally' = tally /\ early' = early

\* A step without a command keeps the types.
LEMMA QuietTypeKeeps ==
  ASSUME TypeOK, SameBus, at' \in Locals, mmc' \in Device, reg' \in Registers,
         div' \in {NoDiv, 0, 1, 2, 130}, gd' = gd
  PROVE  TypeOK'
BY DEF TypeOK, SameBus, Locals, Device, Registers

\* The types of the structures, from the inductive invariant.
LEMMA QuietIs ==
  ASSUME IInv
  PROVE  /\ TypeOK /\ at \in Locals /\ mmc \in Device /\ reg \in Registers
         /\ card \in CardState /\ div \in {NoDiv, 0, 1, 2, 130} /\ early = FALSE
         /\ tally \in [faults : 0..MaxFaults, boots : 1..MaxBoots]
         /\ gd \in [usedma : BOOLEAN, vendor : {"EMMC_SAMSUNG", "other"}]
BY TypedIs DEF IInv, TypeOK, Registers, BusyInv

\* The CSD gives the version.
LEMMA CsdIs ==
  ASSUME mmc \in Device, NEW v \in Version, mmc' = [mmc EXCEPT !.version = v, !.bl_len = 512]
  PROVE  mmc' \in Device /\ SameButVersion /\ mmc'.version = v
<1>1. ASSUME NEW n \in {0, 512}, mmc' = [mmc EXCEPT !.version = v, !.bl_len = n]
      PROVE  mmc' \in Device
  <2> DEFINE a == [mmc EXCEPT !.version = v]
  <2> DEFINE b == [a EXCEPT !.bl_len = n]
  <2>1. a \in Device
    BY DEF Device
  <2>2. b \in Device
    <3> HIDE DEF a
    <3>1. QED
      BY <2>1 DEF Device
  <2>3. mmc' = b
    BY <1>1
  <2>4. QED
    BY <2>2, <2>3
<1>2. mmc' \in Device
  BY <1>1
<1>3. QED
  BY <1>2 DEF Device, SameButVersion

\* The registers set_ios leaves when it changes the divider.
Ios(w, d) == reg' = [reg EXCEPT !.CTYPE = w, !.CLKDIV = d]

\* It keeps the types and the parent clock.
LEMMA RegIs ==
  ASSUME reg \in Registers, NEW w \in {1, 4, 8}, NEW d \in {0, 1, 2, 130},
         Ios(w, d)
  PROVE  reg' \in Registers /\ reg'.CTYPE = w /\ reg'.CLKDIV = d /\ reg'.parent = reg.parent
<1> DEFINE a == [reg EXCEPT !.CTYPE = w]
<1> DEFINE b == [a EXCEPT !.CLKDIV = d]
<1>1. a \in Registers
  BY DEF Registers
<1>2. b \in Registers
  <2> HIDE DEF a
  <2>1. QED
    BY <1>1 DEF Registers
<1>3. reg' = b
  BY DEF Ios
<1>4. reg' \in Registers
  BY <1>2, <1>3
<1>5. QED
  BY <1>4 DEF Ios, Registers

\* The CSD tells an eMMC of version 4.
LEMMA ReadCsdKeeps == IInv /\ ReadCsd => IInv'
<1> SUFFICES ASSUME IInv, ReadCsd PROVE IInv'
  OBVIOUS
<1>1. /\ at.pc = "csd_done" /\ SameBus /\ reg' = reg /\ div' = div /\ gd' = gd
      /\ at' = IF at.err THEN Returned ELSE Goto("select")
      /\ mmc' = IF at.err THEN mmc ELSE [mmc EXCEPT !.version = CsdVersion, !.bl_len = 512]
  BY DEF ReadCsd, NoCard, SameBus
<1>2. CASE at.err
  <2>1. Left /\ ~mmc.has_init /\ mmc.lba = 0 /\ mmc.part_num = 0
    BY <1>1, <1>2, QuietIs, LeftIs, BringingIs
  <2>2. SameCard /\ CardInv' /\ mmc' = mmc
    BY <1>1, <1>2, QuietIs DEF IInv, CardInv, SameCard, SameBus
  <2>3. QED
    BY <1>1, <2>1, <2>2, QuietIs, LeftKeeps DEF SameBus
<1>3. CASE ~at.err
  <2>1. Moves("select")
    BY <1>1, <1>3, QuietIs, MovesIs DEF Pc
  <2>2. PICK v \in Version : v = CsdVersion
    BY QuietIs DEF CsdVersion, Version, Device
  <2>3. /\ mmc' \in Device /\ SameButVersion /\ mmc'.version = v
    <3>1. mmc' = [mmc EXCEPT !.version = v, !.bl_len = 512]
      BY <1>1, <1>3, <2>2
    <3>2. QED
      BY <3>1, QuietIs, CsdIs
  <2>4. IF mmc.version = "MMC_VERSION_UNKNOWN"
        THEN v = IF card.kind = "emmc" THEN "MMC_VERSION_4" ELSE "MMC_VERSION_3"
        ELSE v = mmc.version
    BY <2>2 DEF CsdVersion
  <2>5. CardInv'
    BY <1>1, <2>3, <2>4 DEF IInv, CardInv, SameBus, SameButVersion
  <2>6. TypeOK'
    BY <1>1, <2>1, <2>3, QuietIs, QuietTypeKeeps DEF Moves
  <2>7. VersionInv'
    BY <1>1, <2>1, <2>3, <2>4 DEF IInv, VersionInv, SameBus, Moves, IsSd
  <2>8. PhaseInv' /\ SelectInv' /\ AddressInv'
    BY <1>1, <1>3, <2>1, <2>3
       DEF IInv, PhaseInv, SelectInv, ReadyIsSelected, AddressInv, Moves, SameBus, SameButVersion
  <2>9. ClockInv' /\ BusyInv'
    BY <1>1, <1>3, <2>1, <2>3
       DEF IInv, PhaseInv, ClockInv, CardClock, Parent, BusyInv, Moves, SameBus, SameButVersion
  <2>10. LoopInv' /\ WidthInv'
    BY <1>1, <1>3, <2>1, <2>3
       DEF IInv, PhaseInv, SelectInv, LoopInv, WidthInv, Moves, SameBus, SameButVersion
  <2>11. QED
    BY <2>5, <2>6, <2>7, <2>8, <2>9, <2>10 DEF IInv
<1>4. QED
  BY <1>2, <1>3

\* After the switch to high speed has been awaited.
LEMMA FreqSwitchedKeeps == IInv /\ FreqSwitched => IInv'
<1> SUFFICES ASSUME IInv, FreqSwitched PROVE IInv'
  OBVIOUS
<1>1. /\ at.pc = "freq_done" /\ SameBus /\ reg' = reg /\ div' = div /\ mmc' = mmc /\ gd' = gd
      /\ at' = IF at.err THEN Returned ELSE Goto("freq_check")
  BY DEF FreqSwitched, NoCard, Quiet, SameBus
<1>2. CardInv' /\ SameCard
  <2>1. CardInv'
    BY <1>1 DEF IInv, CardInv, SameBus
  <2>2. SameCard
    BY <1>1, QuietIs DEF SameBus, SameCard
  <2>3. QED
    BY <2>1, <2>2
<1>3. CASE at.err
  <2>1. Left /\ ~mmc.has_init /\ mmc.lba = 0 /\ mmc.part_num = 0
    BY <1>1, <1>3, QuietIs, LeftIs, BringingIs
  <2>2. QED
    BY <1>1, <1>2, <2>1, QuietIs, LeftKeeps DEF SameBus
<1>4. CASE ~at.err
  <2>1. Moves("freq_check")
    BY <1>1, <1>4, QuietIs, MovesIs DEF Pc
  <2>2. TypeOK'
    BY <1>1, <2>1, QuietIs, QuietTypeKeeps DEF Moves
  <2>3. PhaseInv' /\ VersionInv' /\ SelectInv' /\ AddressInv'
    BY <1>1, <1>2, <2>1, <2>2
       DEF IInv, PhaseInv, VersionInv, SelectInv, ReadyIsSelected, AddressInv, Moves, SameBus
  <2>4. ClockInv' /\ BusyInv'
    BY <1>1, <1>2, <2>1, <2>2 DEF IInv, ClockInv, CardClock, Parent, BusyInv, Moves, SameBus
  <2>5. LoopInv' /\ WidthInv'
    BY <1>1, <1>2, <2>1, <2>2
       DEF IInv, TypeOK, SelectInv, BusyInv, LoopInv, WidthInv, BusWorks, Moves, SameBus
  <2>6. QED
    BY <1>2, <2>2, <2>3, <2>4, <2>5 DEF IInv
<1>5. QED
  BY <1>3, <1>4

\* After a width has been set and awaited: a failure tries the next.
LEMMA WidthSwitchedKeeps == IInv /\ WidthSwitched => IInv'
<1> SUFFICES ASSUME IInv, WidthSwitched PROVE IInv'
  OBVIOUS
<1>1. /\ at.pc = "width_done" /\ SameBus /\ reg' = reg /\ div' = div /\ mmc' = mmc /\ gd' = gd
      /\ at' = IF at.err THEN TryNext ELSE Goto("width_set")
      /\ at.width \in {1, 4, 8}
  BY DEF WidthSwitched, NoCard, Quiet, SameBus, IInv, LoopInv
<1>2. CardInv'
  BY <1>1 DEF IInv, CardInv, SameBus
<1>3. CASE at.err
  <2>1. /\ at' \in Locals
        /\ at'.ext_csd = at.ext_csd /\ at'.dirty = at.dirty /\ at'.late = at.late
        /\ at.width = 8 => at'.pc = "width" /\ at'.width = 4
        /\ at.width = 4 => at'.pc = "width" /\ at'.width = 1
        /\ at.width = 1 => at'.pc = "clock"
    BY <1>1, <1>3, QuietIs, TryNextIs
  <2>2. TypeOK'
    BY <1>1, <2>1, QuietIs, QuietTypeKeeps
  <2>3. PhaseInv' /\ VersionInv' /\ SelectInv' /\ AddressInv'
    BY <1>1, <1>2, <1>3, <2>1, <2>2, WireAssumption
       DEF IInv, PhaseInv, VersionInv, SelectInv, ReadyIsSelected, AddressInv, Moves, SameBus
  <2>4. ClockInv' /\ BusyInv'
    BY <1>1, <1>2, <1>3, <2>1, <2>2
       DEF IInv, ClockInv, CardClock, Parent, BusyInv, Moves, SameBus
  <2>5. LoopInv' /\ WidthInv'
    BY <1>1, <1>2, <1>3, <2>1, <2>2, WireAssumption
       DEF IInv, TypeOK, SelectInv, BusyInv, LoopInv, WidthInv, BusWorks, Moves, SameBus
  <2>6. QED
    BY <1>2, <2>2, <2>3, <2>4, <2>5 DEF IInv
<1>4. CASE ~at.err
  <2>1. Moves("width_set")
    BY <1>1, <1>4, QuietIs, MovesIs DEF Pc
  <2>2. TypeOK'
    BY <1>1, <2>1, QuietIs, QuietTypeKeeps DEF Moves
  <2>3. PhaseInv' /\ VersionInv' /\ SelectInv' /\ AddressInv'
    BY <1>1, <1>2, <1>4, <2>1, <2>2
       DEF IInv, PhaseInv, VersionInv, SelectInv, ReadyIsSelected, AddressInv, Moves, SameBus
  <2>4. ClockInv' /\ BusyInv'
    BY <1>1, <1>2, <1>4, <2>1, <2>2 DEF IInv, ClockInv, CardClock, Parent, BusyInv, Moves, SameBus
  <2>5. LoopInv' /\ WidthInv'
    BY <1>1, <1>2, <1>4, <2>1, <2>2
       DEF IInv, TypeOK, SelectInv, BusyInv, LoopInv, WidthInv, BusWorks, Moves, SameBus
  <2>6. QED
    BY <1>2, <2>2, <2>3, <2>4, <2>5 DEF IInv
<1>5. QED
  BY <1>3, <1>4

\* set_ios gives the controller the width of the card.
LEMMA WidthSetKeeps == IInv /\ WidthSet => IInv'
<1> SUFFICES ASSUME IInv, WidthSet PROVE IInv'
  OBVIOUS
<1>1. /\ at.pc = "width_set" /\ SameBus /\ gd' = gd
      /\ mmc' = [mmc EXCEPT !.bus_width = at.width]
      /\ at.width \in {1, 4, 8} /\ mmc.clock = 400 /\ div = 130 /\ reg.CLKDIV = 130
  BY DEF WidthSet, NoCard, SameBus, IInv, LoopInv, WidthInv, ClockInv, F_MIN
<1>2. DivOf(mmc.clock) = 130
  BY <1>1 DEF DivOf
<1>3. PICK pc \in {"clock", "width_test"} :
        at' = Goto(pc) /\ (pc = "clock" <=> IS_SD \/ at.width = 1)
  BY <1>1, <1>2 DEF WidthSet, SetIos
<1>4. /\ reg' = [reg EXCEPT !.CTYPE = at.width, !.CLKDIV = DivOf(mmc.clock)]
      /\ div' = DivOf(mmc.clock)
  BY <1>1, <1>2 DEF WidthSet, SetIos
<1>5. /\ reg' \in Registers /\ reg'.CTYPE = at.width /\ reg'.CLKDIV = 130
      /\ reg'.parent = reg.parent
  <2>1. PICK w \in {1, 4, 8} : w = at.width
    BY <1>1
  <2>2. PICK d \in {0, 1, 2, 130} : d = DivOf(mmc.clock) /\ d = 130
    BY <1>2
  <2>3. Ios(w, d)
    BY <1>4, <2>1, <2>2 DEF Ios
  <2>4. reg' \in Registers /\ reg'.CTYPE = w /\ reg'.CLKDIV = d /\ reg'.parent = reg.parent
    BY <2>3, QuietIs, RegIs
  <2>5. QED
    BY <2>1, <2>2, <2>4
<1>6. Moves(pc)
  BY ZenonT(60), <1>3, QuietIs, MovesIs DEF Pc
<1>7. /\ mmc' \in Device /\ mmc'.bus_width = at.width
      /\ mmc'.version = mmc.version /\ mmc'.has_init = mmc.has_init /\ mmc'.rca = mmc.rca
      /\ mmc'.clock = mmc.clock /\ mmc'.high_capacity = mmc.high_capacity
      /\ mmc'.part_num = mmc.part_num /\ mmc'.lba = mmc.lba
  BY <1>1, QuietIs DEF Device
<1>8. CardInv'
  BY <1>1, <1>7 DEF IInv, CardInv, SameBus
<1>9. TypeOK'
  BY <1>1, <1>2, <1>4, <1>5, <1>6, <1>7, QuietIs, QuietTypeKeeps DEF Moves
<1>10. PhaseInv' /\ VersionInv' /\ SelectInv' /\ AddressInv' /\ BusyInv'
  BY <1>1, <1>3, <1>6, <1>7
     DEF IInv, PhaseInv, VersionInv, SelectInv, ReadyIsSelected, AddressInv, BusyInv, Moves,
         SameBus
<1>11. ClockInv'
  BY <1>1, <1>2, <1>4, <1>5, <1>6, <1>7
     DEF IInv, ClockInv, CardClock, Parent, Moves, SameBus
<1>12. LoopInv'
  BY <1>1, <1>3, <1>5, <1>6, <1>7 DEF IInv, LoopInv, SelectInv, Moves, SameBus
<1>13. WidthInv'
  BY <1>1, <1>3, <1>5, <1>6, <1>7, WireAssumption
     DEF IInv, LoopInv, SelectInv, WidthInv, CardInv, PhaseInv, BusWorks, Moves, SameBus
<1>14. QED
  BY <1>8, <1>9, <1>10, <1>11, <1>12, <1>13 DEF IInv

\* memset, and the locals of a new call.
LEMMA FreshIs ==
  ASSUME NEW pc \in Pc, at' = NewLocals(pc)
  PROVE  at' \in Locals /\ at'.pc = pc /\ at'.dirty = FALSE
<1>1. at' = [pc |-> pc, left |-> 0, back |-> "none", err |-> FALSE, width |-> 0,
             ext_csd |-> "junk", dirty |-> FALSE, late |-> FALSE]
  BY DEF NewLocals
<1>2. QED
  BY <1>1 DEF Locals

\* struct mmc before comip_mmc_init.
LEMMA NoMmcIs ==
  ASSUME mmc' = NoMmc
  PROVE  /\ mmc' \in Device /\ mmc'.has_init = FALSE /\ mmc'.version = "none" /\ mmc'.rca = 0
         /\ mmc'.part_num = 0 /\ mmc'.lba = 0
BY DEF NoMmc, Device, Version

\* The use of DMA is decided, the vendor kept.
LEMMA DmaIs ==
  ASSUME NEW b, b \in BOOLEAN, gd \in [usedma : BOOLEAN, vendor : {"EMMC_SAMSUNG", "other"}],
         gd' = [gd EXCEPT !.usedma = b]
  PROVE  /\ gd' \in [usedma : BOOLEAN, vendor : {"EMMC_SAMSUNG", "other"}]
         /\ gd'.usedma = b /\ gd'.vendor = gd.vendor
OBVIOUS

\* The clock at the end of mmc_startup.
LEMMA SetClockIs == ASSUME NEW d \in Device PROVE [d EXCEPT !.clock = F_MAX] \in Device
<1>1. ASSUME NEW c \in {0, F_MIN, F_MAX} PROVE [d EXCEPT !.clock = c] \in Device
  BY DEF Device
<1>2. QED
  BY <1>1

\* The size of the device.
LEMMA SetLbaIs == ASSUME NEW d \in Device PROVE [d EXCEPT !.lba = 1] \in Device
<1>1. ASSUME NEW n \in {0, 1} PROVE [d EXCEPT !.lba = n] \in Device
  BY DEF Device
<1>2. QED
  BY <1>1

\* The flag has_init.
LEMMA SetReadyIs ==
  ASSUME NEW d \in Device, NEW b, b \in BOOLEAN PROVE [d EXCEPT !.has_init = b] \in Device
BY DEF Device

\* The width and the clock at the start of mmc_init.
LEMMA RateIs ==
  ASSUME mmc \in Device, NEW w \in {1, 4, 8}, NEW c \in {0, F_MIN, F_MAX},
         mmc' = [mmc EXCEPT !.bus_width = w, !.clock = c]
  PROVE  /\ mmc' \in Device /\ mmc'.has_init = mmc.has_init /\ mmc'.version = mmc.version
         /\ mmc'.rca = mmc.rca /\ mmc'.part_num = mmc.part_num /\ mmc'.lba = mmc.lba
         /\ mmc'.bus_width = w /\ mmc'.clock = c
<1> DEFINE a == [mmc EXCEPT !.bus_width = w]
<1> DEFINE b == [a EXCEPT !.clock = c]
<1>1. a \in Device
  BY DEF Device
<1>2. b \in Device
  <2> HIDE DEF a
  <2>1. QED
    BY <1>1 DEF Device
<1>3. mmc' = b
  OBVIOUS
<1>4. mmc' \in Device
  BY <1>2, <1>3
<1>5. QED
  BY <1>4 DEF Device

\* The device is ready.
LEMMA ReadyIs ==
  ASSUME mmc \in Device, mmc' = [mmc EXCEPT !.clock = F_MAX, !.lba = 1, !.has_init = TRUE]
  PROVE  /\ mmc' \in Device /\ mmc'.has_init /\ mmc'.lba = 1
         /\ mmc'.version = mmc.version /\ mmc'.rca = mmc.rca /\ mmc'.part_num = mmc.part_num
         /\ mmc'.high_capacity = mmc.high_capacity
<1> DEFINE a == [mmc EXCEPT !.clock = F_MAX]
<1> DEFINE b == [a EXCEPT !.lba = 1]
<1> DEFINE c == [b EXCEPT !.has_init = TRUE]
<1>1. a \in Device
  BY SetClockIs
<1>2. b \in Device
  <2> HIDE DEF a
  <2>1. QED
    BY <1>1, SetLbaIs
<1>3. c \in Device
  <2> HIDE DEF b
  <2>1. TRUE \in BOOLEAN
    OBVIOUS
  <2>2. QED
    BY <1>2, <2>1, SetReadyIs
<1>4. mmc' = c
  OBVIOUS
<1>5. mmc' \in Device
  BY <1>3, <1>4
<1>6. QED
  BY <1>5 DEF Device

\* flash_init begins, without DMA for the first call and with it for the second.
LEMMA FlashInitKeeps == IInv /\ FlashInit => IInv'
<1> SUFFICES ASSUME IInv, FlashInit PROVE IInv'
  OBVIOUS
<1>1. /\ at.pc \in {"dram_init", "board_init"} /\ SameBus /\ reg' = reg /\ div' = NoDiv
      /\ mmc' = NoMmc /\ at' = NewLocals("core")
      /\ gd' = [gd EXCEPT !.usedma = (at.pc = "board_init")]
  BY DEF FlashInit, NoCard, SameBus
<1>2. (at.pc = "board_init") \in BOOLEAN
  OBVIOUS
<1>3. /\ gd' \in [usedma : BOOLEAN, vendor : {"EMMC_SAMSUNG", "other"}]
      /\ gd'.usedma = (at.pc = "board_init") /\ gd'.vendor = gd.vendor
  BY <1>1, <1>2, QuietIs, DmaIs
<1>4. at' \in Locals /\ at'.pc = "core"
  BY <1>1, FreshIs DEF Pc
<1>5. /\ mmc' \in Device /\ mmc'.has_init = FALSE /\ mmc'.version = "none" /\ mmc'.rca = 0
      /\ mmc'.part_num = 0 /\ mmc'.lba = 0
  BY <1>1, NoMmcIs
<1>6. TypeOK'
  BY <1>1, <1>3, <1>4, <1>5, QuietIs DEF TypeOK, SameBus, Locals, Device
<1>7. CardInv'
  BY <1>1, <1>5 DEF IInv, CardInv, SameBus
<1>8. gd'.usedma => gd'.vendor = card.vendor
  BY <1>1, <1>3 DEF IInv, PhaseInv, ClockInv
<1>9. QED
  BY <1>1, <1>4, <1>5, <1>6, <1>7, <1>8
     DEF IInv, TypeOK, PhaseInv, VersionInv, SelectInv, ReadyIsSelected, AddressInv, ClockInv,
         CardClock, BusyInv, LoopInv, WidthInv, BusWorks, Moves, Sent, Still, SameCard, SameBus

\* mmc_init begins with one data line, 400 kHz and the partition 0.
LEMMA CoreInitKeeps == IInv /\ CoreInit => IInv'
<1> SUFFICES ASSUME IInv, CoreInit PROVE IInv'
  OBVIOUS
<1>1. /\ at.pc = "core" /\ SameBus /\ gd' = gd
      /\ mmc' = [mmc EXCEPT !.bus_width = 1, !.clock = Clamp(1)]
  BY DEF CoreInit, NoCard, SameBus
<1>2. Clamp(1) = F_MIN /\ F_MIN = 400 /\ DivOf(Clamp(1)) = 130
  BY DEF Clamp, F_MIN, F_MAX, DivOf
<1>3. /\ mmc' \in Device /\ mmc'.has_init = mmc.has_init /\ mmc'.version = mmc.version
      /\ mmc'.rca = mmc.rca /\ mmc'.part_num = mmc.part_num /\ mmc'.lba = mmc.lba
      /\ mmc'.bus_width = 1 /\ mmc'.clock = F_MIN
  BY <1>1, <1>2, QuietIs, RateIs
<1>4. ~mmc.has_init /\ mmc.lba = 0 /\ mmc.part_num = 0
  BY <1>1, QuietIs DEF IInv, PhaseInv, Device
<1>5. CardInv' /\ SameCard
  BY <1>1, <1>3, QuietIs DEF IInv, CardInv, SameBus, SameCard
<1>6. CASE card.busy > 0
  <2>1. Left /\ reg' = reg /\ div' = div
    BY <1>1, <1>6, QuietIs, LeftIs DEF CoreInit
  <2>2. QED
    BY <1>1, <1>3, <1>4, <1>5, <2>1, QuietIs, LeftKeeps DEF SameBus
<1>7. CASE ~(card.busy > 0)
  <2>1. reg' = [CTYPE |-> 1, CLKDIV |-> 130, parent |-> Parent] /\ div' = 130
    BY <1>2, <1>7 DEF CoreInit
  <2>2. Parent \in {52000, 104000}
    BY DEF Parent
  <2>3. /\ reg' \in Registers /\ reg'.CTYPE = 1 /\ reg'.CLKDIV = 130 /\ reg'.parent = Parent
    BY <2>1, <2>2 DEF Registers
  <2>4. Moves("go_idle")
    BY <1>7, QuietIs, MovesIs DEF CoreInit, Pc
  <2>5. TypeOK'
    BY <1>1, <1>3, <2>1, <2>3, <2>4, QuietIs, QuietTypeKeeps DEF Moves
  <2>6. card.busy = 0
    BY <1>7, QuietIs, TryAssumption DEF CardState
  <2>7. CardClock' <= 52000
    BY <2>2, <2>3 DEF CardClock
  <2>8. ClockInv'
    BY <1>1, <1>3, <2>1, <2>3, <2>4, <2>7 DEF IInv, ClockInv, SameBus, Moves, Parent
  <2>9. QED
    BY <1>1, <1>3, <1>4, <1>5, <2>3, <2>4, <2>5, <2>6, <2>8
       DEF IInv, PhaseInv, VersionInv, SelectInv, ReadyIsSelected, AddressInv, BusyInv,
           LoopInv, WidthInv, Moves, SameBus
<1>8. QED
  BY <1>6, <1>7

\* The last set_ios raises the clock, and mmc_init has the card.
LEMMA FinishKeeps == IInv /\ Finish => IInv'
<1> SUFFICES ASSUME IInv, Finish PROVE IInv'
  OBVIOUS
<1> DEFINE rate == Clamp(IF mmc.hs THEN 52000 ELSE 20000)
<1>1. /\ at.pc = "clock" /\ SameBus /\ gd' = gd
      /\ SetIos(mmc.bus_width, rate, Returned)
      /\ mmc' = IF at'.pc = "reboot" THEN mmc
                ELSE [mmc EXCEPT !.clock = rate, !.lba = 1, !.has_init = TRUE]
  BY DEF Finish, NoCard, SameBus
<1>2. rate = F_MAX /\ F_MAX # 0 /\ F_MAX # 400
  BY DEF Clamp, F_MIN, F_MAX
<1>3. DivOf(rate) = IF gd.vendor = "EMMC_SAMSUNG" THEN IF gd.usedma THEN 0 ELSE 2 ELSE 1
  <2> HIDE DEF rate
  <2>1. QED
    BY <1>2 DEF DivOf
<1>4. /\ mmc.bus_width = reg.CTYPE /\ div = 130 /\ reg.parent = Parent
      /\ ~mmc.has_init /\ mmc.part_num = 0 /\ mmc.lba = 0 /\ DivOf(rate) # div
  BY <1>1, <1>3, BringingIs DEF IInv, ClockInv
<1>5. CardInv /\ SameCard
  BY <1>1, QuietIs DEF IInv, SameBus, SameCard
<1> HIDE DEF rate
<1>6. CASE card.busy > 0
  <2>1. reg' = [reg EXCEPT !.CTYPE = mmc.bus_width] /\ at' = NewLocals("reboot") /\ div' = div
    BY <1>1, <1>4, <1>6 DEF SetIos
  <2>2. Left /\ at'.pc = "reboot"
    BY <2>1, QuietIs, LeftIs, FreshIs DEF Pc
  <2>3. reg' \in Registers /\ reg'.CLKDIV = reg.CLKDIV /\ reg'.parent = reg.parent
    BY <1>4, <2>1, QuietIs DEF Registers
  <2>4. mmc' = mmc
    BY <1>1, <2>2
  <2>5. CardInv'
    BY <1>1, <1>5, <2>4 DEF CardInv, SameBus
  <2>6. QED
    BY <1>1, <1>4, <1>5, <2>1, <2>2, <2>3, <2>4, <2>5, QuietIs, LeftKeeps DEF SameBus
<1>7. CASE ~(card.busy > 0)
  <2>1. /\ reg' = [reg EXCEPT !.CTYPE = mmc.bus_width, !.CLKDIV = DivOf(rate)]
        /\ div' = DivOf(rate) /\ at' = Returned
    BY <1>1, <1>7 DEF SetIos
  <2>2. DivOf(rate) \in {0, 1, 2, 130} /\ mmc.bus_width \in {1, 4, 8}
    BY <1>3, <1>4, QuietIs DEF Registers
  <2>3. /\ reg' \in Registers /\ reg'.CTYPE = mmc.bus_width /\ reg'.CLKDIV = DivOf(rate)
        /\ reg'.parent = reg.parent
    <3>1. reg' = [reg EXCEPT !.CTYPE = mmc.bus_width, !.CLKDIV = DivOf(rate)] /\ reg \in Registers
      BY <2>1, QuietIs
    <3>2. PICK w \in {1, 4, 8} : w = mmc.bus_width
      BY <2>2
    <3>3. PICK d \in {0, 1, 2, 130} : d = DivOf(rate)
      BY <2>2
    <3>4. Ios(w, d)
      BY <3>1, <3>2, <3>3 DEF Ios
    <3>5. reg' \in Registers /\ reg'.CTYPE = w /\ reg'.CLKDIV = d /\ reg'.parent = reg.parent
      BY <3>1, <3>4, RegIs
    <3>6. QED
      BY <3>2, <3>3, <3>5
  <2>4. Moves("init_returned")
    BY <2>1, QuietIs, MovesIs DEF Returned, Pc
  <2>5. /\ mmc' \in Device /\ mmc'.has_init /\ mmc'.lba = 1
        /\ mmc'.version = mmc.version /\ mmc'.rca = mmc.rca /\ mmc'.part_num = mmc.part_num
        /\ mmc'.high_capacity = mmc.high_capacity
    BY <1>1, <1>2, <2>4, QuietIs, ReadyIs DEF Moves
  <2>6. TypeOK'
    BY <1>1, <2>1, <2>2, <2>3, <2>4, <2>5, QuietIs, QuietTypeKeeps DEF Moves
  <2>7. CardClock' <= 52000
    <3>1. reg.parent = IF gd.usedma /\ gd.vendor = "EMMC_SAMSUNG" THEN 52000 ELSE 104000
      BY <1>4 DEF Parent
    <3>2. QED
      BY <1>3, <2>3, <3>1 DEF CardClock
  <2>8. CardInv'
    BY <1>1, <1>5, <2>5 DEF CardInv, SameBus
  <2>9. PhaseInv' /\ VersionInv' /\ SelectInv' /\ AddressInv' /\ BusyInv' /\ LoopInv'
    BY <1>1, <1>4, <2>4, <2>5
       DEF IInv, PhaseInv, VersionInv, SelectInv, ReadyIsSelected, AddressInv, BusyInv,
           LoopInv, Moves, SameBus
  <2>10. ClockInv'
    BY <1>1, <2>4, <2>5, <2>7 DEF IInv, ClockInv, Moves, SameBus
  <2>11. WidthInv'
    BY <1>1, <1>4, <2>3, <2>4, <2>5 DEF IInv, WidthInv, BusWorks, Moves, SameBus
  <2>12. QED
    BY <2>6, <2>8, <2>9, <2>10, <2>11 DEF IInv
<1>8. QED
  BY <1>6, <1>7

\* flash_init takes what mmc_init returned.
LEMMA FlashCheckedKeeps == IInv /\ FlashChecked => IInv'
<1> SUFFICES ASSUME IInv, FlashChecked PROVE IInv'
  OBVIOUS
<1>1. /\ at.pc = "init_returned" /\ SameBus /\ reg' = reg /\ div' = div /\ mmc' = mmc /\ gd' = gd
  BY DEF FlashChecked, NoCard, Quiet, SameBus
<1>2. PICK pc \in {"off", "done", "use"} : at' = Goto(pc) /\ (pc # "off" => mmc.lba # 0)
  BY DEF FlashChecked, Goto
<1>3. Moves(pc)
  <2>1. pc \in Pc /\ at' = Goto(pc) /\ 0 \in Nat
    BY <1>2 DEF Pc
  <2>2. QED
    BY <2>1, QuietIs, MovesIs
<1>4. pc # "off" => mmc.has_init
  BY <1>2, QuietIs DEF IInv, PhaseInv, Device
<1>5. CardInv'
  BY <1>1 DEF IInv, CardInv, SameBus
<1>6. TypeOK'
  BY <1>1, <1>3, QuietIs, QuietTypeKeeps DEF Moves
<1>7. QED
  BY <1>1, <1>2, <1>3, <1>4, <1>5, <1>6
     DEF IInv, TypeOK, PhaseInv, VersionInv, SelectInv, ReadyIsSelected, AddressInv, ClockInv,
         CardClock, Parent, BusyInv, LoopInv, WidthInv, BusWorks, Moves, Sent, Still, SameCard,
         SameBus

\* The flash is used, and the second flash_init may follow.
LEMMA UseFlashKeeps == IInv /\ UseFlash => IInv'
<1> SUFFICES ASSUME IInv, UseFlash PROVE IInv'
  OBVIOUS
<1>1. PICK p \in {0, 1} :
        card' = [card EXCEPT !.part = p] /\ mmc' = [mmc EXCEPT !.part_num = p]
  BY DEF UseFlash
<1>2. /\ at.pc = "use" /\ at' = Goto("board_init") /\ reg' = reg /\ div' = div /\ gd' = gd
      /\ tally' = tally /\ early' = early
  BY DEF UseFlash
<1>3. /\ card' \in CardState /\ card'.part = p
      /\ card'.kind = card.kind /\ card'.vendor = card.vendor /\ card'.hc = card.hc
      /\ card'.state = card.state /\ card'.rca = card.rca /\ card'.width = card.width
  BY <1>1, QuietIs DEF CardState
<1>4. /\ mmc' \in Device /\ mmc'.part_num = p
      /\ mmc'.has_init = mmc.has_init /\ mmc'.version = mmc.version /\ mmc'.rca = mmc.rca
      /\ mmc'.high_capacity = mmc.high_capacity /\ mmc'.lba = mmc.lba
  BY <1>1, QuietIs DEF Device
<1>5. Moves("board_init")
  BY <1>2, QuietIs, MovesIs DEF Pc
<1>6. TypeOK'
  BY <1>2, <1>3, <1>4, <1>5, QuietIs
     DEF TypeOK, CardState, Device, Locals, Moves
<1>7. mmc.has_init /\ card.state = "tran"
  BY <1>2 DEF IInv, PhaseInv, SelectInv, ReadyIsSelected
<1>8. CardInv'
  BY <1>2, <1>3, <1>4, <1>7 DEF IInv, CardInv
<1>9. PhaseInv' /\ VersionInv' /\ SelectInv' /\ AddressInv'
  BY <1>2, <1>3, <1>4, <1>5, <1>7
     DEF IInv, PhaseInv, VersionInv, SelectInv, ReadyIsSelected, AddressInv, Moves
<1>10. ClockInv' /\ BusyInv'
  BY <1>2, <1>3, <1>4, <1>5, <1>7 DEF IInv, ClockInv, CardClock, Parent, BusyInv, Moves
<1>11. LoopInv' /\ WidthInv'
  BY <1>2, <1>3, <1>4, <1>5, <1>7 DEF IInv, LoopInv, WidthInv, BusWorks, Moves
<1>12. QED
  BY <1>6, <1>8, <1>9, <1>10, <1>11 DEF IInv

\* The board starts again, and the card keeps its state.
LEMMA BootKeeps == IInv /\ Boot => IInv'
<1> SUFFICES ASSUME IInv, Boot PROVE IInv'
  OBVIOUS
<1>1. /\ tally.boots < MaxBoots /\ tally' = [tally EXCEPT !.boots = @ + 1]
      /\ card' \in {card, [card EXCEPT !.busy = 0]}
      /\ gd' = [usedma |-> FALSE, vendor |-> "other"]
      /\ mmc' = NoMmc /\ div' = NoDiv /\ at' = NewLocals("dram_init")
      /\ reg' = reg /\ early' = early
  BY DEF Boot
<1>2. /\ card' \in CardState /\ card'.kind = card.kind /\ card'.part = card.part
      /\ card'.state = card.state /\ card'.rca = card.rca /\ card'.width = card.width
  <2>1. CASE card' = card
    BY <2>1, QuietIs
  <2>2. CASE card' = [card EXCEPT !.busy = 0]
    <3>1. 0 \in 0..MaxBusy
      BY TryAssumption
    <3>2. QED
      BY <2>2, <3>1, QuietIs DEF CardState
  <2>3. QED
    BY <1>1, <2>1, <2>2
<1>3. tally' \in [faults : 0..MaxFaults, boots : 1..MaxBoots]
  BY <1>1, QuietIs, BoundAssumption
<1>4. at' \in Locals /\ at'.pc = "dram_init"
  BY <1>1, FreshIs DEF Pc
<1>5. /\ mmc' \in Device /\ mmc'.has_init = FALSE /\ mmc'.version = "none" /\ mmc'.rca = 0
      /\ mmc'.part_num = 0 /\ mmc'.lba = 0
  BY <1>1, NoMmcIs
<1>6. TypeOK'
  <2>1. gd' \in [usedma : BOOLEAN, vendor : {"EMMC_SAMSUNG", "other"}]
    BY <1>1
  <2>2. QED
    BY <1>1, <1>2, <1>3, <1>4, <1>5, <2>1, QuietIs
       DEF TypeOK, CardState, Device, Locals, Registers
<1>7. CardInv'
  BY <1>1, <1>2, <1>5 DEF IInv, CardInv
<1>8. gd'.usedma = FALSE
  BY <1>1
<1>9. QED
  BY <1>1, <1>4, <1>5, <1>6, <1>7, <1>8
     DEF IInv, PhaseInv, VersionInv, SelectInv, ReadyIsSelected, AddressInv, ClockInv,
         CardClock, BusyInv, LoopInv, WidthInv

-----------------------------------------------------------------------------
(***************************************************************************)
(* The theorems.                                                           *)
(***************************************************************************)
\* A card after power-up is one.
LEMMA PoweredUpIs ==
  ASSUME PoweredUp
  PROVE  card \in CardState /\ card.state = "idle" /\ card.part = 0 /\ card.width = 1
<1>1. PICK k \in Kinds, v \in Vendors, hc \in BOOLEAN, w \in 0..MaxWarm :
        card = [kind |-> k, vendor |-> v, hc |-> hc, state |-> "idle", rca |-> 0, width |-> 1,
                hs |-> FALSE, part |-> 0, warm |-> w, busy |-> 0, app |-> FALSE]
  BY DEF PoweredUp
<1>2. k \in Kind /\ v \in {"EMMC_SAMSUNG", "other"} /\ 0 \in 0..MaxBusy
  BY KindAssumption, TryAssumption
<1>3. QED
  BY <1>1, <1>2 DEF CardState

\* The inductive invariant holds when the power comes on.
LEMMA InitHolds == Init => IInv
<1> SUFFICES ASSUME Init PROVE IInv
  OBVIOUS
<1>1. PoweredUp
  BY DEF Init
<1>2. /\ reg = [CTYPE |-> 1, CLKDIV |-> 130, parent |-> 104000] /\ div = NoDiv
      /\ mmc = NoMmc /\ gd = [usedma |-> FALSE, vendor |-> "other"]
      /\ at = NewLocals("dram_init") /\ tally = [faults |-> 0, boots |-> 1] /\ early = FALSE
  BY DEF Init
<1>3. card \in CardState /\ card.state = "idle" /\ card.part = 0 /\ card.width = 1
  BY <1>1, PoweredUpIs
<1>4. at \in Locals /\ at.pc = "dram_init"
  <2>1. at = [pc |-> "dram_init", left |-> 0, back |-> "none", err |-> FALSE, width |-> 0,
              ext_csd |-> "junk", dirty |-> FALSE, late |-> FALSE]
    BY <1>2 DEF NewLocals
  <2>2. QED
    BY <2>1 DEF Locals, Pc
<1>5. /\ mmc \in Device /\ mmc.has_init = FALSE /\ mmc.version = "none" /\ mmc.rca = 0
      /\ mmc.part_num = 0 /\ mmc.lba = 0
  BY <1>2 DEF NoMmc, Device, Version
<1>6. TypeOK
  <2>1. tally \in [faults : 0..MaxFaults, boots : 1..MaxBoots]
    BY <1>2, BoundAssumption
  <2>2. gd \in [usedma : BOOLEAN, vendor : {"EMMC_SAMSUNG", "other"}]
    BY <1>2
  <2>3. reg \in Registers
    BY <1>2 DEF Registers
  <2>4. early \in BOOLEAN
    <3>1. early = FALSE
      BY DEF Init
    <3>2. QED
      BY <3>1
  <2>5. QED
    BY <1>2, <1>3, <1>4, <1>5, <2>1, <2>2, <2>3, <2>4
       DEF TypeOK, CardState, Device, Locals, Registers
<1>7. gd.usedma = FALSE /\ CardClock <= 52000
  BY <1>2 DEF CardClock
<1>8. QED
  BY <1>2, <1>3, <1>4, <1>5, <1>6, <1>7
     DEF IInv, PhaseInv, CardInv, VersionInv, SelectInv, ReadyIsSelected, AddressInv, ClockInv,
         BusyInv, LoopInv, WidthInv

\* No step breaks it.
LEMMA StepKeeps == ASSUME Patient, IInv, [Next]_vars PROVE IInv'
<1>1. CASE MmcInit
  BY <1>1, CoreInitKeeps, GoIdleKeeps, SendIfCondKeeps, SdAppCmdKeeps, SdOpCondKeeps,
     GoIdleAgainKeeps, OpFirstKeeps, OpPollKeeps DEF MmcInit
<1>2. CASE MmcStartup
  BY <1>2, SendCidKeeps, SendRelativeAddrKeeps, SendCsdKeeps, ReadCsdKeeps, SendStatusKeeps,
     SelectCardKeeps, SendExtCsdKeeps, FreqExtCsdKeeps, FreqSwitchKeeps, FreqSwitchedKeeps,
     FreqCheckKeeps, SdScrAppKeeps, SdScrKeeps, SdCheckKeeps, SdSwitchKeeps, SdWidthAppKeeps,
     SdWidthKeeps, WidthSwitchKeeps, WidthSwitchedKeeps, WidthSetKeeps, WidthTestKeeps,
     FinishKeeps DEF MmcStartup
<1>3. CASE FlashInit \/ FlashChecked \/ UseFlash \/ Boot
  BY <1>3, FlashInitKeeps, FlashCheckedKeeps, UseFlashKeeps, BootKeeps
<1>4. CASE UNCHANGED vars
  BY <1>4 DEF vars, IInv, TypeOK, PhaseInv, CardInv, VersionInv, SelectInv, ReadyIsSelected,
     AddressInv, ClockInv, CardClock, Parent, BusyInv, LoopInv, WidthInv, BusWorks
<1>5. QED
  BY <1>1, <1>2, <1>3, <1>4 DEF Next, Step

\* The inductive invariant holds in every state of a boot.
THEOREM Invariant == ASSUME Patient PROVE Spec => []IInv
<1>1. Init => IInv
  BY InitHolds
<1>2. IInv /\ [Next]_vars => IInv'
  BY StepKeeps
<1>3. QED
  BY <1>1, <1>2, PTL DEF Spec

\* When mmc_init has set has_init, the card is selected under the address that the driver
\* uses, with the partition open that the driver thinks is open, over data lines that both
\* use and that work, and addressed as it expects; flash_init returns with no other card.
THEOREM CardIsReady == ASSUME Patient PROVE Spec => []Safety
<1>1. IInv => Safety
  BY DEF IInv, Safety, PhaseInv, SelectInv, AddressInv, WidthInv, FlashIsReady, WidthsAgree,
     AddressingAgrees
<1>2. QED
  BY <1>1, Invariant, PTL

\* The clock of the card is 400 kHz or less while it is identified, and 52 MHz or less ever.
THEOREM ClockFits == ASSUME Patient PROVE Spec => []ClockFitsCard
<1>1. ASSUME IInv PROVE ClockFitsCard
  <2>1. CASE at.pc \in Identifying
    <3>1. reg.CLKDIV = 130 /\ reg.parent \in {52000, 104000}
      BY <1>1, <2>1 DEF IInv, ClockInv, Identifying, TypeOK
    <3>2. CardClock <= 400
      BY <3>1 DEF CardClock
    <3>3. QED
      BY <2>1, <3>2 DEF ClockFitsCard
  <2>2. CASE at.pc \notin Identifying
    BY <1>1, <2>2 DEF IInv, ClockInv, ClockFitsCard
  <2>3. QED
    BY <2>1, <2>2
<1>2. QED
  BY <1>1, Invariant, PTL

\* No command but CMD_SEND_STATUS meets a card that is busy with CMD_SWITCH, unless a
\* CMD_SEND_STATUS has failed.
THEOREM BusyIsAwaited == ASSUME Patient PROVE Spec => []WaitsWhileBusy
<1>1. IInv => WaitsWhileBusy
  BY DEF IInv, BusyInv, WaitsWhileBusy
<1>2. QED
  BY <1>1, Invariant, PTL

=============================================================================
