------------------------------ MODULE MmcCard -------------------------------
(***************************************************************************)
(* Bringing a card up: mmc_initialize, mmc_init and mmc_startup of         *)
(* drivers/mmc/mmc.c over the host controller of drivers/mmc/comip_mmc.c,  *)
(* called by flash_init (drivers/misc/comip_flash.c) twice in one boot of  *)
(* the lc1860: from dram_init with the controller in PIO mode, because     *)
(* there is no memory yet, and from board_init with its DMA.               *)
(*                                                                         *)
(* A command is one step.  The card may miss it, its answer may be lost or *)
(* damaged, and the data behind the answer may be damaged or not come; all *)
(* of it costs one of MaxFaults.  The card is external and modelled by the *)
(* states in which it answers a command.                                   *)
(***************************************************************************)
EXTENDS Integers

CONSTANTS
  Kinds,        \* cards that may be on the bus
  Vendors,      \* what gd->emmc_mid can say: "EMMC_SAMSUNG", "other"
  Wires,        \* data lines that work on the board
  MaxWarm,      \* polls until a card has powered up
  OpTries,      \* polls of sd_send_op_cond and mmc_send_op_cond
  MaxBusy,      \* polls a card is busy after CMD_SWITCH
  StatusTries,  \* timeout of mmc_send_status
  MaxFaults,    \* bound: faults per behaviour
  MaxBoots      \* bound: boots per behaviour

Kind == {"emmc", "mmc3", "sd1", "sd2"}

ASSUME KindAssumption == Kinds \subseteq Kind /\ Vendors \subseteq {"EMMC_SAMSUNG", "other"}
ASSUME WireAssumption == Wires \in {1, 4, 8}
ASSUME TryAssumption ==
  OpTries \in Nat /\ StatusTries \in Nat /\ MaxWarm \in Nat /\ MaxBusy \in Nat
ASSUME BoundAssumption == MaxFaults \in Nat /\ MaxBoots \in Nat \ {0}

VARIABLES
  card,    \* the card
  reg,     \* controller registers: CTYPE (a width), CLKDIV, and the parent clock in kHz
  div,     \* comip_host->div, the divider last programmed
  mmc,     \* struct mmc
  gd,      \* [usedma, vendor]: gd->g_mmc_usedma and what gd->emmc_mid stands for
  at,      \* the next command, and the locals of the functions under way
  tally,   \* [faults, boots]
  early    \* history: a command other than CMD_SEND_STATUS met a busy card, although
           \* no CMD_SEND_STATUS had failed

vars == <<card, reg, div, mmc, gd, at, tally, early>>

IsSd(k) == k \in {"sd1", "sd2"}
Version == {"none", "SD_VERSION_2", "SD_VERSION_1_0", "MMC_VERSION_UNKNOWN",
            "MMC_VERSION_3", "MMC_VERSION_4"}
IS_SD == mmc.version \in {"SD_VERSION_2", "SD_VERSION_1_0"}

\* memset of the device area; the part the later functions set.
NoMmc ==
  [has_init |-> FALSE, version |-> "none", rca |-> 0, bus_width |-> 0, clock |-> 0,
   high_capacity |-> FALSE, bl_len |-> 0, hs |-> FALSE, part_num |-> 0,
   part_config |-> "NOAVAILABLE", lba |-> 0]
NoDiv == -1
NewLocals(pc) ==
  [pc |-> pc, left |-> 0, back |-> "none", err |-> FALSE, width |-> 0,
   ext_csd |-> "junk", dirty |-> FALSE, late |-> FALSE]

-----------------------------------------------------------------------------
(***************************************************************************)
(* The card.                                                               *)
(***************************************************************************)
\* The kinds of card that know a command and the states they answer it in.
Knows == [
  CMD_SEND_IF_COND       |-> <<{"sd2"}, {"idle"}>>,
  CMD_APP_CMD            |-> <<{"sd1", "sd2"}, {"idle", "tran"}>>,
  CMD_APP_SEND_OP_COND   |-> <<{"sd1", "sd2"}, {"idle"}>>,
  CMD_SEND_OP_COND       |-> <<{"emmc", "mmc3"}, {"idle"}>>,
  CMD_ALL_SEND_CID       |-> <<Kind, {"ready"}>>,
  CMD_SEND_RELATIVE_ADDR |-> <<Kind, {"ident"}>>,
  CMD_SEND_CSD           |-> <<Kind, {"stby"}>>,
  CMD_SELECT_CARD        |-> <<Kind, {"stby"}>>,
  CMD_SEND_STATUS        |-> <<Kind, {"stby", "tran"}>>,
  CMD_SEND_EXT_CSD       |-> <<{"emmc"}, {"tran"}>>,
  CMD_SWITCH             |-> <<{"emmc"}, {"tran"}>>,
  CMD_APP_SEND_SCR       |-> <<{"sd1", "sd2"}, {"tran"}>>,
  CMD_SWITCH_FUNC        |-> <<{"sd2"}, {"tran"}>>,
  CMD_APP_SET_BUS_WIDTH  |-> <<{"sd1", "sd2"}, {"tran"}>>]
Addressed == {"CMD_APP_CMD", "CMD_SEND_CSD", "CMD_SELECT_CARD", "CMD_SEND_STATUS"}
AppCommands == {"CMD_APP_SEND_OP_COND", "CMD_APP_SEND_SCR", "CMD_APP_SET_BUS_WIDTH"}
DataCommands == {"CMD_SEND_EXT_CSD", "CMD_APP_SEND_SCR", "CMD_SWITCH_FUNC"}

Answers(cmd) ==
  /\ card.kind \in Knows[cmd][1] /\ card.state \in Knows[cmd][2]
  /\ cmd \in Addressed => card.rca = mmc.rca
  /\ cmd \in AppCommands => card.app
  /\ card.busy > 0 => cmd = "CMD_SEND_STATUS"

\* CMD0 from any state: one data line, default speed, user area.
Reset(c) == {[c EXCEPT !.state = "idle", !.rca = 0, !.width = 1, !.hs = FALSE, !.part = 0,
                       !.warm = w, !.busy = 0, !.app = FALSE] : w \in 0..MaxWarm}
PollWarm(c) == IF c.warm = 0 THEN [c EXCEPT !.state = "ready"] ELSE [c EXCEPT !.warm = @ - 1]

\* The states an answered command leaves the card in.  It clears the mark of CMD_APP_CMD.
After(cmd) ==
  LET c == [card EXCEPT !.app = (cmd = "CMD_APP_CMD")] IN
  CASE cmd = "CMD_APP_SEND_OP_COND" -> {PollWarm(c)}
    [] cmd = "CMD_SEND_OP_COND" /\ at.pc = "op_poll" -> {PollWarm(c)}
    [] cmd = "CMD_ALL_SEND_CID" -> {[c EXCEPT !.state = "ident"]}
    [] cmd = "CMD_SEND_RELATIVE_ADDR" ->
         {[c EXCEPT !.state = "stby", !.rca = IF IsSd(c.kind) THEN 1 ELSE mmc.rca]}
    [] cmd = "CMD_SELECT_CARD" -> {[c EXCEPT !.state = "tran"]}
    [] cmd = "CMD_SWITCH" ->
         {[c EXCEPT !.busy = b,
                    !.hs = @ \/ at.pc = "freq_switch",
                    !.width = IF at.pc = "width" THEN at.width ELSE @] : b \in 0..MaxBusy}
    [] cmd = "CMD_SWITCH_FUNC" -> {[c EXCEPT !.hs = @ \/ at.pc = "sd_switch"]}
    [] cmd = "CMD_APP_SET_BUS_WIDTH" -> {[c EXCEPT !.width = 4]}
    [] OTHER -> {[c EXCEPT !.busy = IF @ > 0 THEN @ - 1 ELSE 0]}

-----------------------------------------------------------------------------
(***************************************************************************)
(* The host controller.                                                    *)
(***************************************************************************)
\* Data crosses the bus when both ends use the same lines and the lines work.
BusWorks == reg.CTYPE = card.width /\ card.width <= Wires
CardClock == IF reg.CLKDIV = 0 THEN reg.parent ELSE reg.parent \div (2 * reg.CLKDIV)

\* comip_mmc_send_cmd: err is what it returns.  All failures of an answer give TIMEOUT.
\* Data that does not come is a timeout of comip_mmc_transfer_dma; comip_mmc_transfer
\* waits for the FIFO for ever.
Send(cmd, err, hung) ==
  \E fault \in {"none", "unheard", "unanswered", "data"} :
    /\ fault # "none" => tally.faults < MaxFaults
    /\ fault = "data" => cmd \in DataCommands /\ Answers(cmd)
    /\ IF Answers(cmd) /\ fault # "unheard" THEN card' \in After(cmd)
       ELSE card' = [card EXCEPT !.busy = IF @ > 0 THEN @ - 1 ELSE 0]
    /\ tally' = [tally EXCEPT !.faults = @ + IF fault = "none" THEN 0 ELSE 1]
    /\ early' = (early \/ (card.busy > 0 /\ cmd # "CMD_SEND_STATUS" /\ ~at.dirty))
    /\ LET bad == fault = "data" \/ (cmd \in DataCommands /\ ~BusWorks) IN
       /\ err = (fault \in {"unheard", "unanswered"} \/ ~Answers(cmd) \/ bad)
       /\ hung \in {FALSE, Answers(cmd) /\ bad /\ fault \notin {"unheard", "unanswered"}
                           /\ ~gd.usedma}

\* comip_mmc_set_clock: the divider of a rate.
DivOf(rate) ==
  CASE rate = 0 -> 0
    [] rate = 400 -> 130
    [] OTHER -> IF gd.vendor = "EMMC_SAMSUNG" THEN IF gd.usedma THEN 0 ELSE 2 ELSE 1

\* comip_mmc_set_ios, with the early return of comip_mmc_set_clock when the divider is
\* the one last programmed.  A card that stays busy makes it call pmic_reboot.
SetIos(width, rate, next) ==
  IF div # DivOf(rate) /\ card.busy > 0
  THEN /\ reg' = [reg EXCEPT !.CTYPE = width]
       /\ at' = NewLocals("reboot") /\ UNCHANGED div
  ELSE /\ reg' = [reg EXCEPT !.CTYPE = width, !.CLKDIV = DivOf(rate)]
       /\ div' = DivOf(rate)
       /\ at' = next

F_MIN == 400
F_MAX == 13000
Clamp(rate) == IF rate > F_MAX THEN F_MAX ELSE IF rate < F_MIN THEN F_MIN ELSE rate

-----------------------------------------------------------------------------
(***************************************************************************)
(* Two shapes most steps have: a command whose failure ends mmc_init, and  *)
(* a command whose result is not looked at.                                *)
(***************************************************************************)
Hung == NewLocals("hung")
Goto(pc) == [at EXCEPT !.pc = pc]
\* mmc_init returned, with has_init as it is: flash_init looks at the device next.
Returned == Goto("init_returned")

Checked(pc, cmd, next) ==
  /\ at.pc = pc
  /\ \E err, hung \in BOOLEAN :
       /\ Send(cmd, err, hung)
       /\ at' = IF hung THEN Hung ELSE IF err THEN Returned ELSE next

\* mmc_send_status, entered from a switch or from CMD_SEND_CSD; the caller keeps err.
WaitReady(err, back) ==
  [at EXCEPT !.pc = "status", !.left = StatusTries, !.err = err, !.back = back,
             !.dirty = FALSE]

\* mmc_switch: the result is that of CMD_SWITCH, whatever mmc_send_status says.
Switch(pc, back) ==
  /\ at.pc = pc
  /\ \E err \in BOOLEAN : Send("CMD_SWITCH", err, FALSE) /\ at' = WaitReady(err, back)
  /\ UNCHANGED <<reg, div, mmc, gd>>

-----------------------------------------------------------------------------
(***************************************************************************)
(* flash_init and the first half of mmc_init.                              *)
(***************************************************************************)
NoCard == UNCHANGED <<card, tally, early>>
Quiet == UNCHANGED <<reg, div, mmc, gd>>

\* Faulty variant: the controller uses DMA from the first call on.
FlashInitAlwaysDma ==
  /\ at.pc \in {"dram_init", "board_init"}
  /\ gd' = [gd EXCEPT !.usedma = TRUE]
  /\ mmc' = NoMmc /\ div' = NoDiv
  /\ at' = NewLocals("core")
  /\ NoCard /\ UNCHANGED reg

\* dram_init and board_init: mmc_set_dma, then mmc_initialize with a fresh device area.
FlashInit ==
  /\ at.pc \in {"dram_init", "board_init"}
  /\ gd' = [gd EXCEPT !.usedma = (at.pc = "board_init")]
  /\ mmc' = NoMmc /\ div' = NoDiv
  /\ at' = NewLocals("core")
  /\ NoCard /\ UNCHANGED reg

\* The clock behind the divider that comip_mmc_core_init chooses, in kHz.
Parent == IF gd.usedma /\ gd.vendor = "EMMC_SAMSUNG" THEN 52000 ELSE 104000

\* comip_mmc_core_init, then mmc_set_bus_width(1) and mmc_set_clock(1).
CoreInit ==
  /\ at.pc = "core"
  /\ mmc' = [mmc EXCEPT !.bus_width = 1, !.clock = Clamp(1)]
  /\ IF card.busy > 0
     THEN at' = NewLocals("reboot") /\ UNCHANGED <<reg, div>>
     ELSE /\ reg' = [CTYPE |-> 1, CLKDIV |-> DivOf(Clamp(1)), parent |-> Parent]
          /\ div' = DivOf(Clamp(1))
          /\ at' = Goto("go_idle")
  /\ NoCard /\ UNCHANGED gd

\* mmc_go_idle: nothing answers CMD0, so a card that missed it goes unnoticed; err is a
\* failure of the controller.
SendGoIdle(err) ==
  /\ early' = (early \/ (card.busy > 0 /\ ~at.dirty))
  /\ \/ card' \in Reset(card) /\ ~err /\ UNCHANGED tally
     \/ /\ tally.faults < MaxFaults
        /\ tally' = [tally EXCEPT !.faults = @ + 1]
        /\ UNCHANGED card

GoIdle ==
  /\ at.pc = "go_idle"
  /\ \E err \in BOOLEAN :
       /\ SendGoIdle(err)
       /\ at' = IF err THEN Returned ELSE Goto("if_cond")
       /\ mmc' = IF err THEN mmc ELSE [mmc EXCEPT !.part_num = 0]
  /\ UNCHANGED <<reg, div, gd>>

\* mmc_send_if_cond; mmc_init does not look at the result.
SendIfCond ==
  /\ at.pc = "if_cond"
  /\ \E err \in BOOLEAN :
       /\ Send("CMD_SEND_IF_COND", err, FALSE)
       /\ mmc' = IF err THEN mmc ELSE [mmc EXCEPT !.version = "SD_VERSION_2"]
  /\ at' = [at EXCEPT !.pc = "sd_app", !.left = OpTries]
  /\ UNCHANGED <<reg, div, gd>>

\* sd_send_op_cond.  A command that fails gives TIMEOUT, on which mmc_init tries
\* mmc_send_op_cond; a card that needs too long gives UNUSABLE_ERR, on which mmc_init
\* goes on with mmc_startup.
SdAppCmd ==
  /\ at.pc = "sd_app"
  /\ \E err \in BOOLEAN :
       Send("CMD_APP_CMD", err, FALSE) /\ at' = Goto(IF err THEN "go_idle_again" ELSE "sd_op")
  /\ Quiet

SdOpCond ==
  /\ at.pc = "sd_op"
  /\ \E err \in BOOLEAN :
       /\ Send("CMD_APP_SEND_OP_COND", err, FALSE)
       /\ \/ /\ err /\ at' = Goto("go_idle_again") /\ UNCHANGED mmc
          \/ /\ ~err /\ card.warm > 0 /\ at.left > 0
             /\ at' = [at EXCEPT !.pc = "sd_app", !.left = @ - 1] /\ UNCHANGED mmc
          \/ /\ ~err /\ at.left = 0
             /\ at' = [at EXCEPT !.pc = "cid", !.late = TRUE] /\ UNCHANGED mmc
          \/ /\ ~err /\ card.warm = 0 /\ at.left > 0
             /\ at' = Goto("cid")
             /\ mmc' = [mmc EXCEPT !.high_capacity = card.hc, !.rca = 0,
                          !.version = IF @ = "SD_VERSION_2" THEN @ ELSE "SD_VERSION_1_0"]
  /\ UNCHANGED <<reg, div, gd>>

\* mmc_send_op_cond: CMD0 once more, its result ignored, then CMD1 until the card is up.
GoIdleAgain ==
  /\ at.pc = "go_idle_again"
  /\ \E err \in BOOLEAN : SendGoIdle(err)
  /\ at' = Goto("op_first")
  /\ Quiet

OpFirst ==
  /\ Checked("op_first", "CMD_SEND_OP_COND", [at EXCEPT !.pc = "op_poll", !.left = OpTries])
  /\ Quiet

OpPoll ==
  /\ at.pc = "op_poll"
  /\ \E err \in BOOLEAN :
       /\ Send("CMD_SEND_OP_COND", err, FALSE)
       /\ \/ (err \/ at.left = 0) /\ at' = Returned /\ UNCHANGED mmc
          \/ /\ ~err /\ card.warm > 0 /\ at.left > 0
             /\ at' = [at EXCEPT !.left = @ - 1] /\ UNCHANGED mmc
          \/ /\ ~err /\ card.warm = 0 /\ at.left > 0
             /\ at' = Goto("cid")
             /\ mmc' = [mmc EXCEPT !.high_capacity = card.hc, !.rca = 0,
                          !.version = "MMC_VERSION_UNKNOWN"]
  /\ UNCHANGED <<reg, div, gd>>

-----------------------------------------------------------------------------
(***************************************************************************)
(* mmc_startup.                                                            *)
(***************************************************************************)
SendCid ==
  /\ Checked("cid", "CMD_ALL_SEND_CID", Goto("rca"))
  /\ gd' = IF at'.pc = "rca" THEN [gd EXCEPT !.vendor = card.vendor] ELSE gd
  /\ UNCHANGED <<reg, div, mmc>>

\* An MMC takes the address it is given, an SD card chooses one.
SendRelativeAddr ==
  /\ Checked("rca", "CMD_SEND_RELATIVE_ADDR", Goto("csd"))
  /\ mmc' = IF at'.pc = "csd" /\ IS_SD THEN [mmc EXCEPT !.rca = card'.rca] ELSE mmc
  /\ UNCHANGED <<reg, div, gd>>

SendCsd ==
  /\ at.pc = "csd"
  /\ \E err \in BOOLEAN : Send("CMD_SEND_CSD", err, FALSE) /\ at' = WaitReady(err, "csd_done")
  /\ Quiet

CsdVersion ==
  IF mmc.version # "MMC_VERSION_UNKNOWN" THEN mmc.version
  ELSE IF card.kind = "emmc" THEN "MMC_VERSION_4" ELSE "MMC_VERSION_3"

ReadCsd ==
  /\ at.pc = "csd_done"
  /\ at' = IF at.err THEN Returned ELSE Goto("select")
  /\ mmc' = IF at.err THEN mmc ELSE [mmc EXCEPT !.version = CsdVersion, !.bl_len = 512]
  /\ NoCard /\ UNCHANGED <<reg, div, gd>>

\* Faulty variant: one try fewer.
SendStatusOneLess ==
  /\ at.pc = "status"
  /\ \E err \in BOOLEAN :
       /\ Send("CMD_SEND_STATUS", err, FALSE)
       /\ at' = IF ~err /\ card.busy > 0 /\ at.left > 1
                THEN [at EXCEPT !.left = @ - 1]
                ELSE [at EXCEPT !.pc = at.back, !.dirty = err]
  /\ Quiet

\* mmc_send_status: StatusTries + 1 polls.  Its callers ignore what it returns.
SendStatus ==
  /\ at.pc = "status"
  /\ \E err \in BOOLEAN :
       /\ Send("CMD_SEND_STATUS", err, FALSE)
       /\ at' = IF ~err /\ card.busy > 0 /\ at.left > 0
                THEN [at EXCEPT !.left = @ - 1]
                ELSE [at EXCEPT !.pc = at.back, !.dirty = err]
  /\ Quiet

AfterSelect ==
  CASE IS_SD -> "sd_scr_app"
    [] mmc.version = "MMC_VERSION_4" -> "ext_csd"
    [] OTHER -> "width"
\* Faulty variant: an answer that does not come is not noticed.
SelectCardUnchecked ==
  /\ at.pc = "select"
  /\ \E err \in BOOLEAN : Send("CMD_SELECT_CARD", err, FALSE)
  /\ at' = [at EXCEPT !.pc = AfterSelect, !.width = 8]
  /\ Quiet

SelectCard ==
  /\ Checked("select", "CMD_SELECT_CARD", [at EXCEPT !.pc = AfterSelect, !.width = 8])
  /\ Quiet

\* The result of reading ext_csd only guards the capacity: the partition byte is taken
\* from the buffer, which holds what the stack had when the read failed.
SendExtCsd ==
  /\ at.pc = "ext_csd"
  /\ \E err, hung \in BOOLEAN : \E buf \in {"card", "junk"} :
       /\ Send("CMD_SEND_EXT_CSD", err, hung)
       /\ buf = "junk" => err
       /\ at' = IF hung THEN Hung ELSE [at EXCEPT !.pc = "freq_ext_csd", !.ext_csd = buf]
       /\ mmc' = [mmc EXCEPT !.part_config = buf]
  /\ UNCHANGED <<reg, div, gd>>

\* mmc_change_freq.
FreqExtCsd == Checked("freq_ext_csd", "CMD_SEND_EXT_CSD", Goto("freq_switch")) /\ Quiet
FreqSwitch == Switch("freq_switch", "freq_done")
FreqSwitched ==
  /\ at.pc = "freq_done"
  /\ at' = IF at.err THEN Returned ELSE Goto("freq_check")
  /\ NoCard /\ Quiet
FreqCheck ==
  /\ Checked("freq_check", "CMD_SEND_EXT_CSD", Goto("width"))
  /\ mmc' = IF at'.pc = "width" THEN [mmc EXCEPT !.hs = card.hs] ELSE mmc
  /\ UNCHANGED <<reg, div, gd>>

\* sd_change_freq: the register that says what the card can do, read up to four times
\* with one CMD_APP_CMD; the high-speed function asked for up to four times.
SdScrApp ==
  Checked("sd_scr_app", "CMD_APP_CMD", [at EXCEPT !.pc = "sd_scr", !.left = 3]) /\ Quiet
\* Faulty variant: the tries are not counted.
SdScrForEver ==
  /\ at.pc = "sd_scr"
  /\ \E err, hung \in BOOLEAN :
       /\ Send("CMD_APP_SEND_SCR", err, hung)
       /\ at' = IF hung THEN Hung ELSE IF err THEN at ELSE Goto("clock")
  /\ Quiet

SdScr ==
  /\ at.pc = "sd_scr"
  /\ \E err, hung, four \in BOOLEAN :
       /\ Send("CMD_APP_SEND_SCR", err, hung)
       /\ at' = CASE hung -> Hung
                  [] ~hung /\ err /\ at.left > 0 -> [at EXCEPT !.left = @ - 1]
                  [] ~hung /\ err /\ at.left = 0 -> Returned
                  [] ~hung /\ ~err ->
                       [at EXCEPT !.pc = IF card.kind = "sd2" THEN "sd_check"
                                         ELSE IF four THEN "sd_width_app" ELSE "clock",
                                  !.width = IF four THEN 4 ELSE 1, !.left = 3]
       /\ mmc' = IF err \/ hung THEN mmc
                 ELSE [mmc EXCEPT !.version = IF card.kind = "sd2" THEN "SD_VERSION_2"
                                              ELSE "SD_VERSION_1_0"]
  /\ UNCHANGED <<reg, div, gd>>

AfterSdFreq == IF at.width = 4 THEN "sd_width_app" ELSE "clock"
SdCheck ==
  /\ at.pc = "sd_check"
  /\ \E err, hung, busy, supported \in BOOLEAN :
       /\ Send("CMD_SWITCH_FUNC", err, hung)
       /\ at' = CASE hung -> Hung
                  [] ~hung /\ err -> Returned
                  [] ~hung /\ ~err /\ busy /\ at.left > 0 -> [at EXCEPT !.left = @ - 1]
                  [] OTHER -> Goto(IF supported THEN "sd_switch" ELSE AfterSdFreq)
  /\ Quiet
SdSwitch ==
  /\ Checked("sd_switch", "CMD_SWITCH_FUNC", Goto(AfterSdFreq))
  /\ mmc' = IF at'.pc = AfterSdFreq THEN [mmc EXCEPT !.hs = TRUE] ELSE mmc
  /\ UNCHANGED <<reg, div, gd>>
SdWidthApp == Checked("sd_width_app", "CMD_APP_CMD", Goto("sd_width")) /\ Quiet
SdWidth == Checked("sd_width", "CMD_APP_SET_BUS_WIDTH", Goto("width_set")) /\ Quiet

\* The loop over EXT_CSD_BUS_WIDTH_8, _4 and _1.  A width is tried by CMD_SWITCH, kept
\* without a check when it is one line, and otherwise when ext_csd reads the same.
NextWidth == CASE at.width = 8 -> 4 [] at.width = 4 -> 1 [] OTHER -> 0
TryNext == IF NextWidth = 0 THEN Goto("clock") ELSE [at EXCEPT !.pc = "width", !.width = NextWidth]

WidthSwitch == Switch("width", "width_done")
WidthSwitched ==
  /\ at.pc = "width_done"
  /\ at' = IF at.err THEN TryNext ELSE Goto("width_set")
  /\ NoCard /\ Quiet
WidthSet ==
  /\ at.pc = "width_set"
  /\ mmc' = [mmc EXCEPT !.bus_width = at.width]
  /\ SetIos(at.width, mmc.clock, Goto(IF IS_SD \/ at.width = 1 THEN "clock" ELSE "width_test"))
  /\ NoCard /\ UNCHANGED gd

WidthTest ==
  /\ at.pc = "width_test"
  /\ \E err, hung \in BOOLEAN :
       /\ Send("CMD_SEND_EXT_CSD", err, hung)
       /\ at' = IF hung THEN Hung
                ELSE IF ~err /\ at.ext_csd = "card" THEN Goto("clock") ELSE TryNext
  /\ Quiet

\* mmc_set_clock with the rate of the card, and the block device.  block_dev.lba is set
\* here and nowhere before.
Finish ==
  /\ at.pc = "clock"
  /\ LET rate == Clamp(IF mmc.hs THEN 52000 ELSE 20000) IN
     /\ SetIos(mmc.bus_width, rate, Returned)
     /\ mmc' = IF at'.pc = "reboot" THEN mmc
               ELSE [mmc EXCEPT !.clock = rate, !.lba = 1, !.has_init = TRUE]
  /\ NoCard /\ UNCHANGED gd

-----------------------------------------------------------------------------
(***************************************************************************)
(* The boot around it.                                                     *)
(***************************************************************************)
\* flash_init ignores what mmc_init returned and looks at the device.
FlashChecked ==
  /\ at.pc = "init_returned"
  /\ at' = [at EXCEPT !.pc = IF mmc.bl_len = 0 \/ mmc.lba = 0 THEN "off"
                             ELSE IF gd.usedma THEN "done" ELSE "use"]
  /\ NoCard /\ Quiet

\* Between the two calls partitions are read; MmcPart has the details.
UseFlash ==
  /\ at.pc = "use"
  /\ \E p \in {0, 1} :
       card' = [card EXCEPT !.part = p] /\ mmc' = [mmc EXCEPT !.part_num = p]
  /\ at' = Goto("board_init")
  /\ UNCHANGED <<reg, div, gd, tally, early>>

\* pmic_reboot, the watchdog or the user: the card keeps its state, gd is cleared.  A busy
\* card may have had the time it needs.
Boot ==
  /\ tally.boots < MaxBoots
  /\ tally' = [tally EXCEPT !.boots = @ + 1]
  /\ card' \in {card, [card EXCEPT !.busy = 0]}
  /\ gd' = [usedma |-> FALSE, vendor |-> "other"]
  /\ mmc' = NoMmc /\ div' = NoDiv
  /\ at' = NewLocals("dram_init")
  /\ UNCHANGED <<reg, early>>

\* A card after power-up.
PoweredUp ==
  \E k \in Kinds, v \in Vendors, hc \in BOOLEAN, w \in 0..MaxWarm :
    /\ hc => k \in {"emmc", "sd2"}
    /\ card = [kind |-> k, vendor |-> v, hc |-> hc, state |-> "idle", rca |-> 0, width |-> 1,
               hs |-> FALSE, part |-> 0, warm |-> w, busy |-> 0, app |-> FALSE]

Init ==
  /\ PoweredUp
  /\ reg = [CTYPE |-> 1, CLKDIV |-> 130, parent |-> 104000]
  /\ div = NoDiv
  /\ mmc = NoMmc
  /\ gd = [usedma |-> FALSE, vendor |-> "other"]
  /\ at = NewLocals("dram_init")
  /\ tally = [faults |-> 0, boots |-> 1]
  /\ early = FALSE

MmcInit ==
  \/ CoreInit \/ GoIdle \/ SendIfCond \/ SdAppCmd \/ SdOpCond
  \/ GoIdleAgain \/ OpFirst \/ OpPoll
MmcStartup ==
  \/ SendCid \/ SendRelativeAddr \/ SendCsd \/ ReadCsd \/ SendStatus \/ SelectCard
  \/ SendExtCsd \/ FreqExtCsd \/ FreqSwitch \/ FreqSwitched \/ FreqCheck
  \/ SdScrApp \/ SdScr \/ SdCheck \/ SdSwitch \/ SdWidthApp \/ SdWidth
  \/ WidthSwitch \/ WidthSwitched \/ WidthSet \/ WidthTest \/ Finish
Step == FlashInit \/ MmcInit \/ MmcStartup \/ FlashChecked \/ UseFlash
Next == Step \/ Boot

Spec == Init /\ [][Next]_vars

\* The loader is one thread that nothing holds up but the reset.
FairSpec == Spec /\ WF_vars(Step)

-----------------------------------------------------------------------------
(***************************************************************************)
(* Properties.                                                             *)
(***************************************************************************)
Pc == {"dram_init", "board_init", "core", "go_idle", "if_cond", "sd_app", "sd_op",
       "go_idle_again", "op_first", "op_poll", "cid", "rca", "csd", "csd_done", "status",
       "select", "ext_csd", "freq_ext_csd", "freq_switch", "freq_done", "freq_check",
       "sd_scr_app", "sd_scr", "sd_check", "sd_switch", "sd_width_app", "sd_width",
       "width", "width_done", "width_set", "width_test", "clock", "init_returned",
       "use", "done", "off", "hung", "reboot"}

\* Every variable keeps its type through mmc_init, flash_init and a reset.
TypeOK ==
  /\ card \in [kind : Kind, vendor : {"EMMC_SAMSUNG", "other"}, hc : BOOLEAN,
               state : {"idle", "ready", "ident", "stby", "tran"}, rca : {0, 1},
               width : {1, 4, 8}, hs : BOOLEAN, part : {0, 1}, warm : 0..MaxWarm,
               busy : 0..MaxBusy, app : BOOLEAN]
  /\ reg \in [CTYPE : {1, 4, 8}, CLKDIV : {0, 1, 2, 130}, parent : {52000, 104000}]
  /\ div \in {NoDiv, 0, 1, 2, 130}
  /\ mmc \in [has_init : BOOLEAN, version : Version, rca : {0, 1}, bus_width : {0, 1, 4, 8},
              clock : {0, F_MIN, F_MAX}, high_capacity : BOOLEAN, bl_len : {0, 512},
              hs : BOOLEAN, part_num : {0, 1}, part_config : {"NOAVAILABLE", "card", "junk"},
              lba : {0, 1}]
  /\ gd \in [usedma : BOOLEAN, vendor : {"EMMC_SAMSUNG", "other"}]
  /\ at \in [pc : Pc, left : Nat, back : {"none", "csd_done", "freq_done", "width_done"},
             err : BOOLEAN, width : {0, 1, 4, 8}, ext_csd : {"card", "junk"},
             dirty : BOOLEAN, late : BOOLEAN]
  /\ tally \in [faults : 0..MaxFaults, boots : 1..MaxBoots]
  /\ early \in BOOLEAN

\* When mmc_init has set has_init, the card is selected under the address the driver
\* uses, and the partition it has open is mmc->part_num.  CMD0 has no answer, so a card
\* that missed it and still has a boot partition open, from before a reset or from the
\* first flash_init, must not get through the rest of mmc_init.
ReadyIsSelected ==
  mmc.has_init => card.state = "tran" /\ card.rca = mmc.rca /\ card.part = mmc.part_num

\* When mmc_init has set has_init, controller and card use the same data lines, and lines
\* that work, unless two commands failed, or one where a single line works: then the loop
\* of mmc_startup may end without a check, because its last CMD_SWITCH fails.  The width of
\* an SD card is never checked.
WidthsAgree ==
  mmc.has_init /\ tally.faults < (IF Wires = 1 THEN 1 ELSE 2) /\ ~(Wires = 1 /\ IsSd(card.kind))
    => BusWorks

\* An identified card is addressed by byte or by block as it expects, whichever of
\* sd_send_op_cond and mmc_send_op_cond found it, unless it was up only at the last poll:
\* then sd_send_op_cond returns before it sets high_capacity and mmc_init goes on.
AddressingAgrees == mmc.has_init /\ ~at.late => mmc.high_capacity = card.hc

\* Identification runs at 400 kHz, and no card is clocked above 52 MHz.  A Samsung eMMC
\* is run with divider 0 under DMA, which needs the slower parent clock, which
\* comip_mmc_core_init chooses by gd->emmc_mid: mmc_startup of the first flash_init has
\* to have stored it.
Identifying == {"go_idle", "if_cond", "sd_app", "sd_op", "go_idle_again", "op_first",
                "op_poll", "cid", "rca"}
ClockFitsCard == CardClock <= IF at.pc \in Identifying THEN 400 ELSE 52000

\* flash_init returns only with a card that mmc_init has brought up, although it ignores
\* what mmc_init returns.
FlashIsReady == at.pc \in {"use", "board_init", "done"} => mmc.has_init

\* Unless a CMD_SEND_STATUS failed, no other command meets a card that is still busy with
\* a CMD_SWITCH, although the callers of mmc_send_status ignore what it returns.
WaitsWhileBusy == ~early

\* Under DMA a call of flash_init ends: the card is up or the board turns off, restarts,
\* or is reset, whatever fails.
DmaInitEnds ==
  (at.pc = "core" /\ gd.usedma) ~> (at.pc \in {"done", "off", "reboot", "dram_init"})

\* What the later commands of the boot rely on: the driver has the card it thinks it has.
Safety ==
  /\ TypeOK /\ ReadyIsSelected /\ FlashIsReady
  /\ WidthsAgree /\ AddressingAgrees

=============================================================================
