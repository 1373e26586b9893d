------------------------------- MODULE BootFlow -------------------------------
(***************************************************************************)
(* From power-on to a running kernel, and back.  board_init_f and          *)
(* board_init_r of arch/arm/lib/board.c call the functions of              *)
(* board/leadcore/lc186x/lc1860.c: dram_init brings up the power           *)
(* management chip (drivers/pmic/comip_lc1160.c) and the memory,           *)
(* board_init picks the images of drivers/misc/comip_recovery.c's and the  *)
(* keys' choice and loads them, and board_init_r goes to fastboot or       *)
(* starts the kernel with the command line of drivers/misc/comip_setup.c.  *)
(*                                                                         *)
(* One thread; the world around it moves at any time: keys, charger and    *)
(* battery are whatever they are when they are read, and the running       *)
(* system leaves requests for the next boot.  Three things outlive a       *)
(* reset: the reason for it in a register of the power management chip,    *)
(* the requests for a recovery in two flash partitions, and whatever is in *)
(* memory.                                                                 *)
(***************************************************************************)
EXTENDS Naturals, FiniteSets

CONSTANTS
  Builds,      \* CONFIG_ENABLE_SECURE_VERIFY_FOR_BOOT set or not
  Retries,     \* retries of lc1160_battery_voltage_check: 1000
  Flashed,     \* bound: the images that fastboot writes
  Reasons,     \* bound: the reboot reasons that the running system uses
  Starts,      \* bound: the sets of causes that switch the device on
  MaxFaults,   \* bound: reads of flash, of the chip and of the voltage that fail
  MaxBoots     \* bound: boots

\* REBOOT_NONE to REBOOT_UNKNOWN.
AllReasons == {"none", "normal", "power_key", "rtc_alarm", "recovery", "fota",
               "critical", "factory", "unknown"}

\* The bits of STARTUP_STATUS, any number of which may be set, and the one bit of
\* SHDN_STATUS that counts if none of them is.
Causes == {"alarm1", "alarm2", "hf_pwr", "rstinb", "adpin", "keyon", "rstinb_shdn"}

ASSUME BootAssumption ==
  /\ Builds \subseteq BOOLEAN
  /\ Reasons \subseteq AllReasons /\ Starts \subseteq SUBSET Causes
  /\ Flashed \subseteq {"kernel", "ramdisk"}
  /\ {Retries, MaxFaults, MaxBoots} \subseteq Nat

VARIABLES
  pc,       \* where the boot is; "off" and "kernel" are outside it
  verify,   \* the build
  chip,     \* the power management chip: reboot reason, causes of the last start
  flash,    \* recovery requests, and which images are signed
  mem,      \* the images in memory at the kernel's and the ramdisk's address
  gd,       \* what the boot has found out and decided
  cnt       \* counters for the bounds

vars == <<pc, verify, chip, flash, mem, gd, cnt>>

(***************************************************************************)
(* Values.  Battery levels: "flat" is below CONFIG_CHARGER_POWER_OFF_LEVEL,*)
(* "low" below CONFIG_NO_CHARGER_POWER_OFF_LEVEL.                          *)
(***************************************************************************)
Levels == {"flat", "low", "good"}
Keys == {"none", "fastboot", "recovery", "amt3"}
Kernels == {"kernel", "kernel_recovery"}
Ramdisks == {"ramdisk", "ramdisk_amt1", "ramdisk_amt3", "ramdisk_recovery"}
Junk == [name |-> "junk", signed |-> FALSE]

\* gd is cleared by board_init_f; PU_REASON_HARDWARE_RESET is 0.
FreshGd == [pu |-> "hw_reset", reboot |-> "none", mode |-> "normal", fastboot |-> FALSE,
            kernel |-> "kernel", ramdisk |-> "ramdisk", volt |-> "good", tries |-> 0,
            cmdline |-> "none", off |-> "none", failed |-> {}]

At(where) == pc = where
GoesTo(where) == pc' = where

\* A failure costs one of MaxFaults and is remembered for this boot.
Fails(what) ==
  /\ cnt.faults < MaxFaults
  /\ cnt' = [cnt EXCEPT !.faults = @ + 1]
  /\ gd' = [gd EXCEPT !.failed = @ \cup {what}]

PowerOff(why) ==
  /\ GoesTo("off")
  /\ gd' = [FreshGd EXCEPT !.off = why]

-----------------------------------------------------------------------------
(***************************************************************************)
(* lc1160_init.                                                            *)
(***************************************************************************)

\* power_on_type by the start causes, the first of them that is set, then by the
\* reboot reason.  REBOOT_FACTORY has no entry.
ByCause(c) ==
  IF c \cap {"alarm1", "alarm2"} # {} THEN "rtc_alarm"
  ELSE IF "hf_pwr" \in c THEN "low_pwr_reset"
  ELSE IF "rstinb" \in c \/ c = {"rstinb_shdn"} THEN "hw_reset"
  ELSE IF "adpin" \in c THEN "charger"
  ELSE "key"

\* Faulty variant: a reboot by the running system counts as the start before it.
ByReasonNot(c, r) ==
  IF r \in {"recovery", "fota", "rtc_alarm"} THEN r ELSE ByCause(c)

ByReason(c, r) ==
  CASE r = "power_key" -> "key"
    [] r \in {"none", "factory"} -> ByCause(c)
    [] OTHER -> r

\* PMIC_RTC_ALARM_REBOOT is the first alarm: its coming without a reason for a
\* reboot switches the device off; the second one starts it.
OnlyAlarm == chip.reason = "none" /\ "alarm1" \in chip.cause

PmicInit ==
  /\ At("pmic")
  /\ \/ OnlyAlarm /\ PowerOff("alarm")
     \/ /\ ~OnlyAlarm
        /\ GoesTo("voltage")
        /\ gd' = [gd EXCEPT !.pu = ByReason(chip.cause, chip.reason),
                            !.reboot = chip.reason]
  /\ UNCHANGED <<verify, chip, flash, mem, cnt>>

\* A register that cannot be read: pmic_init returns before it has looked at the
\* battery, and dram_init goes on.
PmicInitFails ==
  /\ At("pmic") /\ Fails("chip")
  /\ GoesTo("memory")
  /\ UNCHANGED <<verify, chip, flash, mem>>

(***************************************************************************)
(* lc1160_battery_voltage_check: the voltage, then the charger, and again  *)
(* while the charger is in and the battery flat.  A failed reading is -1,  *)
(* less than any level.                                                    *)
(***************************************************************************)
Voltage ==
  /\ At("voltage")
  /\ \E level \in Levels : gd' = [gd EXCEPT !.volt = level]
  /\ GoesTo("charger")
  /\ UNCHANGED <<verify, chip, flash, mem, cnt>>

\* while (!ret && retries--)
TriesLeft(tries) == tries < Retries

\* Faulty variant: the count stands still.
NextTryUncounted == gd
NextTry == [gd EXCEPT !.tries = @ + 1]

WaitForCharge ==
  /\ At("charger") /\ gd.volt = "flat" /\ TriesLeft(gd.tries)
  /\ gd' = NextTry
  /\ GoesTo("voltage")
  /\ UNCHANGED <<verify, chip, flash, mem, cnt>>

\* The reading and the count are local to it.
LetThrough ==
  /\ At("charger")
  /\ \E charger \in BOOLEAN :
       IF charger THEN gd.volt # "flat" \/ ~TriesLeft(gd.tries) ELSE gd.volt = "good"
  /\ gd' = [gd EXCEPT !.volt = "good", !.tries = 0]
  /\ GoesTo("memory")
  /\ UNCHANGED <<verify, chip, flash, mem, cnt>>

TooLow ==
  /\ At("charger") /\ gd.volt # "good"
  /\ PowerOff("battery")
  /\ UNCHANGED <<verify, chip, flash, mem, cnt>>

-----------------------------------------------------------------------------
(***************************************************************************)
(* Three times on the way, at the end of dram_init and around boot_image,  *)
(* pmic_power_on_key_check; if the chip does not answer it is passed.      *)
(***************************************************************************)
NextOf == [key1 |-> "key2", key2 |-> "misc", key3 |-> "branch"]
KeyChecks == {"key1", "key2", "key3"}

MustHoldKey == gd.pu = "key" /\ gd.reboot # "power_key"

KeyCheck ==
  /\ pc \in KeyChecks
  /\ \/ MustHoldKey /\ PowerOff("key")   \* neither the key nor the charger
     \/ GoesTo(NextOf[pc]) /\ UNCHANGED gd
  /\ UNCHANGED <<verify, chip, flash, mem, cnt>>

\* Clocks, flash and memory, the results of which are printed.
DramInit ==
  /\ At("memory")
  /\ GoesTo("key1")
  /\ UNCHANGED <<verify, chip, flash, mem, gd, cnt>>

-----------------------------------------------------------------------------
(***************************************************************************)
(* boot_image.                                                             *)
(***************************************************************************)
\* Faulty variant: the kernel is not changed.
RecoveryRamdiskOnly(g) ==
  [g EXCEPT !.mode = "recovery", !.ramdisk = "ramdisk_recovery"]
Recovery(g) ==
  [g EXCEPT !.mode = "recovery", !.ramdisk = "ramdisk_recovery", !.kernel = "kernel_recovery"]

\* The reason for the reboot decides before either partition is read.
\* check_recovery_misc and check_recovery_fota read to the ramdisk's address,
\* which they clear first; what cannot be read is no request.
\* Faulty variant: the second partition is read only after a reboot.
RequestedMiscOnly == flash.misc
Requested == flash.misc \/ flash.fota

CheckRecovery ==
  /\ At("misc")
  /\ \/ /\ gd.pu \in {"recovery", "fota"}
        /\ gd' = Recovery(gd) /\ GoesTo("load_kernel")
        /\ UNCHANGED <<mem, cnt>>
     \/ /\ gd.pu \notin {"recovery", "fota"} /\ Requested
        /\ gd' = Recovery(gd) /\ GoesTo("load_kernel")
        /\ mem' = [mem EXCEPT !.ramdisk = Junk]
        /\ UNCHANGED cnt
     \/ /\ gd.pu \notin {"recovery", "fota"} /\ ~Requested
        /\ GoesTo("keypad")
        /\ mem' = [mem EXCEPT !.ramdisk = Junk]
        /\ UNCHANGED <<gd, cnt>>
  /\ UNCHANGED <<verify, chip, flash>>

\* The partition with the request cannot be read.
CheckRecoveryFails ==
  /\ At("misc") /\ gd.pu \notin {"recovery", "fota"} /\ Fails("request")
  /\ GoesTo("keypad")
  /\ mem' = [mem EXCEPT !.ramdisk = Junk]
  /\ UNCHANGED <<verify, chip, flash>>

ChargingStart(key) == gd.pu = "charger" /\ key # "fastboot"

KeypadCheck ==
  /\ At("keypad")
  /\ \E key \in Keys :
       gd' = CASE ChargingStart(key) -> [gd EXCEPT !.ramdisk = "ramdisk_amt1"]
               [] ~ChargingStart(key) /\ key = "recovery" -> Recovery(gd)
               [] ~ChargingStart(key) /\ key = "amt3" ->
                    [gd EXCEPT !.mode = "amt3", !.ramdisk = "ramdisk_amt3"]
               [] ~ChargingStart(key) /\ key = "fastboot" -> [gd EXCEPT !.fastboot = TRUE]
               [] OTHER -> gd
  /\ GoesTo("load_kernel")
  /\ UNCHANGED <<verify, chip, flash, mem, cnt>>

\* flash_partition_read to the image's address, result ignored.  A read that
\* fails leaves what is there, or part of it.
Image(name) == [name |-> name, signed |-> name \in flash.signed]

LoadKernel ==
  /\ At("load_kernel")
  /\ \/ mem' = [mem EXCEPT !.kernel = Image(gd.kernel)] /\ UNCHANGED <<gd, cnt>>
     \/ /\ \E left \in {mem.kernel, Junk} : mem' = [mem EXCEPT !.kernel = left]
        /\ Fails("kernel")
  /\ GoesTo("load_ramdisk")
  /\ UNCHANGED <<verify, chip, flash>>

LoadRamdisk ==
  /\ At("load_ramdisk")
  /\ \/ mem' = [mem EXCEPT !.ramdisk = Image(gd.ramdisk)] /\ UNCHANGED <<gd, cnt>>
     \/ /\ \E left \in {mem.ramdisk, Junk} : mem' = [mem EXCEPT !.ramdisk = left]
        /\ Fails("ramdisk")
  /\ GoesTo("key3")
  /\ UNCHANGED <<verify, chip, flash>>

-----------------------------------------------------------------------------
(***************************************************************************)
(* The end of board_init_r: fastboot, secure_verify, do_bootm_linux.       *)
(***************************************************************************)
Branch ==
  /\ At("branch")
  /\ GoesTo(IF gd.fastboot THEN "fastboot" ELSE IF verify THEN "verify" ELSE "params")
  /\ UNCHANGED <<verify, chip, flash, mem, gd, cnt>>

Verified == mem.kernel.signed /\ mem.ramdisk.signed

secure_verify ==
  /\ At("verify")
  /\ \/ Verified /\ GoesTo("params") /\ UNCHANGED gd
     \/ ~Verified /\ PowerOff("verify")
  /\ UNCHANGED <<verify, chip, flash, mem, cnt>>

\* comip_set_cmdline_params, then theKernel(...).
do_bootm_linux ==
  /\ At("params")
  /\ gd' = [gd EXCEPT !.cmdline = IF gd.mode = "recovery" THEN "recovery"
                                  ELSE IF gd.pu = "charger" THEN "charge_only"
                                  ELSE "normal"]
  /\ GoesTo("kernel")
  /\ UNCHANGED <<verify, chip, flash, mem, cnt>>

-----------------------------------------------------------------------------
(***************************************************************************)
(* Around the boot.                                                        *)
(***************************************************************************)

\* A boot begins: board_init_f clears gd.
Boots(reason, cause) ==
  /\ cnt.boots < MaxBoots
  /\ cnt' = [cnt EXCEPT !.boots = @ + 1]
  /\ gd' = FreshGd
  /\ GoesTo("pmic")
  /\ chip' = [reason |-> reason, cause |-> cause]

\* Memory fades while the power is off.
PowerOn ==
  /\ At("off")
  /\ \E c \in Starts : Boots(chip.reason, c)
  /\ mem' = [kernel |-> Junk, ramdisk |-> Junk]
  /\ UNCHANGED <<verify, flash>>

\* fastboot: writes an image, signed or not; reboots for the reason REBOOT_NORMAL.
FastbootFlash ==
  /\ At("fastboot")
  /\ \E name \in Flashed :
       flash' = [flash EXCEPT !.signed = IF name \in @ THEN @ \ {name} ELSE @ \cup {name}]
  /\ UNCHANGED <<pc, verify, chip, mem, gd, cnt>>

FastbootReboot ==
  /\ At("fastboot")
  /\ Boots("normal", chip.cause)
  /\ UNCHANGED <<verify, flash, mem>>

\* The running system: it asks for a recovery, or has done one.
AskForRecovery ==
  /\ At("kernel")
  /\ flash' \in {[flash EXCEPT !.misc = TRUE], [flash EXCEPT !.fota = TRUE]}
  /\ UNCHANGED <<pc, verify, chip, mem, gd, cnt>>

RecoveryDone ==
  /\ At("kernel") /\ gd.mode = "recovery"
  /\ flash' = [flash EXCEPT !.misc = FALSE, !.fota = FALSE]
  /\ chip' = [chip EXCEPT !.reason = "none"]
  /\ UNCHANGED <<pc, verify, mem, gd, cnt>>

\* What a reset leaves of the causes: those of the start before it, or its own.
AfterReset == {chip.cause, {}, {"rstinb"}, {"rstinb_shdn"}, {"hf_pwr"}}

\* It reboots for a reason or crashes with the last one still in the register.
\* What it leaves in memory is not an image, or still one.
Reboot ==
  /\ At("kernel")
  /\ \E r \in Reasons \cup {chip.reason}, c \in AfterReset : Boots(r, c)
  /\ mem' \in {mem, [kernel |-> Junk, ramdisk |-> Junk]}
  /\ UNCHANGED <<verify, flash>>

\* It powers the device off.
ShutDown ==
  /\ At("kernel")
  /\ chip' = [chip EXCEPT !.reason = "none"]
  /\ PowerOff("system")
  /\ UNCHANGED <<verify, flash, mem, cnt>>

During == pc \notin {"off", "kernel", "fastboot"}

-----------------------------------------------------------------------------
Init ==
  /\ pc = "off"
  /\ verify \in Builds
  /\ chip = [reason |-> "none", cause |-> {}]
  /\ flash = [misc |-> FALSE, fota |-> FALSE, signed |-> Kernels \cup Ramdisks]
  /\ mem = [kernel |-> Junk, ramdisk |-> Junk]
  /\ gd = FreshGd
  /\ cnt = [faults |-> 0, boots |-> 0]

Boot == \/ PmicInit \/ Voltage \/ WaitForCharge \/ LetThrough \/ TooLow \/ DramInit
        \/ KeyCheck \/ CheckRecovery \/ KeypadCheck \/ LoadKernel \/ LoadRamdisk
        \/ Branch \/ secure_verify \/ do_bootm_linux

Around == \/ PowerOn \/ FastbootFlash \/ FastbootReboot \/ AskForRecovery \/ RecoveryDone
          \/ Reboot \/ ShutDown

Next == \/ Boot \/ PmicInitFails \/ CheckRecoveryFails
        \/ Around

Spec == Init /\ [][Next]_vars

\* The processor goes on.
FairSpec == Spec /\ WF_vars(Boot)

-----------------------------------------------------------------------------
TypeOK ==
  /\ pc \in KeyChecks \cup
            {"off", "pmic", "voltage", "charger", "memory", "misc", "keypad", "load_kernel",
             "load_ramdisk", "branch", "verify", "params", "kernel", "fastboot"}
  /\ verify \in Builds
  /\ chip \in [reason : AllReasons, cause : SUBSET Causes]
  /\ flash \in [misc : BOOLEAN, fota : BOOLEAN, signed : SUBSET (Kernels \cup Ramdisks)]
  /\ mem.kernel.name \in Kernels \cup {"junk"} /\ mem.ramdisk.name \in Ramdisks \cup {"junk"}
  /\ gd.mode \in {"normal", "amt3", "recovery"}
  /\ gd.pu \in {"hw_reset", "low_pwr_reset", "charger", "key"}
                \cup (AllReasons \ {"none", "power_key", "factory"})
  /\ gd.kernel \in Kernels /\ gd.ramdisk \in Ramdisks
  /\ gd.tries \in 0..Retries
  /\ cnt.faults \in 0..MaxFaults /\ cnt.boots \in 0..MaxBoots

\* A recovery that was asked for, by the reason for the reboot or in flash, is not
\* forgotten: as long as it is not done, no other system starts, however often the
\* device is switched off, reset, or sent to fastboot in between, unless the chip or
\* the request could not be read.
Asked == flash.misc \/ flash.fota \/ chip.reason \in {"recovery", "fota"}

RecoveryIsReached ==
  [][ do_bootm_linux /\ Asked /\ gd.failed \cap {"chip", "request"} = {}
        => gd.mode = "recovery" ]_vars

\* The command line says charge only exactly when the ramdisk is the one for
\* charging: boot_image and comip_set_cmdline_params decide it separately.
ChargingAgrees ==
  At("kernel") => (gd.cmdline = "charge_only" <=> gd.ramdisk = "ramdisk_amt1")

\* Kernel, ramdisk and command line of what starts are all for a recovery or all
\* not, and the images are those of flash, unless a read failed; with the
\* verification built in both are signed, whatever fastboot has written and a failed
\* read or an earlier boot has left in memory.
ImagesAgree ==
  At("params") =>
    /\ gd.failed \cap {"kernel", "ramdisk"} = {} =>
         mem = [kernel |-> Image(gd.kernel), ramdisk |-> Image(gd.ramdisk)]
    /\ (gd.kernel = "kernel_recovery") = (gd.mode = "recovery")
    /\ (gd.ramdisk = "ramdisk_recovery") = (gd.mode = "recovery")
    /\ verify => mem.kernel.signed /\ mem.ramdisk.signed

Safety == TypeOK /\ ChargingAgrees /\ ImagesAgree

\* A reboot somebody asked for is not undone because nobody holds the power key.
\* REBOOT_FACTORY is: lc1160_init has no entry for it.
RebootGoesOn ==
  At("off") /\ gd.off = "key" => chip.reason \in {"none", "factory"}

\* A boot ends: with a system, in fastboot or off.
BootEnds == [](At("pmic") => <>~During)
=============================================================================
