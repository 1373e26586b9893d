---------------------------- MODULE BootFlowProofs ----------------------------
(***************************************************************************)
(* Theorems about BootFlow: a recovery that was asked for is reached, what *)
(* starts is of one piece, and a reboot is not undone by the power key;    *)
(* and about Fastboot, where a boot ends that is asked for it: a command   *)
(* is answered once, a flash stays inside its partition and has done what  *)
(* its OKAY says, and so has an erase.                                     *)
(***************************************************************************)
EXTENDS BootFlow, Fastboot, TLAPS

-----------------------------------------------------------------------------
(***************************************************************************)
(* The inductive invariant.  The boot remembers in gd what it has read and *)
(* decides from it later: each part says, for the places of the boot from  *)
(* one decision to the next, what gd has to do with the chip, with flash   *)
(* and with memory.                                                        *)
(***************************************************************************)
Places == KeyChecks \cup
          {"off", "pmic", "voltage", "charger", "memory", "misc", "keypad", "load_kernel",
           "load_ramdisk", "branch", "verify", "params", "kernel", "fastboot"}

\* Where the boot has its images' names, and where it has the images.
Chosen == {"load_kernel", "load_ramdisk", "key3", "branch", "verify", "params"}
Loaded == {"key3", "branch", "verify", "params"}

Modes == {"normal", "amt3", "recovery"}
PowerUps == {"hw_reset", "low_pwr_reset", "charger", "key"}
            \cup (AllReasons \ {"none", "power_key", "factory"})
Offs == {"none", "alarm", "battery", "key", "verify", "system"}
Gd == [pu : PowerUps, reboot : AllReasons, mode : Modes, fastboot : BOOLEAN,
       kernel : Kernels, ramdisk : Ramdisks, volt : Levels, tries : 0..Retries,
       cmdline : {"none", "recovery", "charge_only", "normal"}, off : Offs,
       failed : SUBSET {"chip", "request", "kernel", "ramdisk"}]
Memory == [kernel : [name : Kernels \cup {"junk"}, signed : BOOLEAN],
           ramdisk : [name : Ramdisks \cup {"junk"}, signed : BOOLEAN]]
Chip == [reason : AllReasons, cause : SUBSET Causes]
Flash == [misc : BOOLEAN, fota : BOOLEAN, signed : SUBSET (Kernels \cup Ramdisks)]
Counts == [faults : 0..MaxFaults, boots : 0..MaxBoots]

Types ==
  /\ pc \in Places /\ verify \in Builds
  /\ chip \in Chip /\ flash \in Flash /\ mem \in Memory
  /\ gd \in Gd
  /\ cnt \in Counts

\* The reason and the cause that gd holds are those of the chip, unless the chip
\* could not be read.
StartRead ==
  pc \notin {"off", "pmic", "kernel"} =>
    IF "chip" \in gd.failed
      THEN gd.pu = "hw_reset" /\ gd.reboot = "none"
      ELSE gd.pu = ByReason(chip.cause, chip.reason) /\ gd.reboot = chip.reason

\* Nothing is decided before the requests and the keys are read.
NothingChosen ==
  /\ pc = "pmic" => gd = FreshGd
  /\ pc \in {"key1", "key2", "pmic", "voltage", "charger", "memory", "misc", "keypad"} =>
       /\ gd.mode = "normal" /\ gd.kernel = "kernel" /\ gd.ramdisk = "ramdisk"
       /\ gd.fastboot = FALSE
       /\ gd.failed \cap {"kernel", "ramdisk"} = {}

\* Kernel and ramdisk follow the mode.
NamesAgree ==
  /\ (gd.kernel = "kernel_recovery") = (gd.mode = "recovery")
  /\ (gd.ramdisk = "ramdisk_recovery") = (gd.mode = "recovery")

\* Past the requests, a recovery that was asked for is chosen.
RecoveryChosen ==
  pc \in Chosen \cup {"keypad"} /\ Asked /\ gd.failed \cap {"chip", "request"} = {} =>
    gd.mode = "recovery"

\* Past the keys, the ramdisk for charging is chosen when the command line will say so.
ChargingChosen ==
  /\ pc \in Chosen =>
       (gd.ramdisk = "ramdisk_amt1" <=>
          gd.pu = "charger" /\ gd.mode # "recovery" /\ ~gd.fastboot)
  /\ pc \in {"verify", "params"} => ~gd.fastboot

\* What is in memory is what was chosen.
ImagesLoaded ==
  /\ pc \in Loaded \cup {"load_ramdisk"} /\ "kernel" \notin gd.failed =>
       mem.kernel = Image(gd.kernel)
  /\ pc \in Loaded /\ "ramdisk" \notin gd.failed => mem.ramdisk = Image(gd.ramdisk)
  /\ pc = "params" /\ verify => Verified

IInv == /\ Types /\ StartRead /\ NothingChosen /\ NamesAgree /\ RecoveryChosen
        /\ ChargingChosen /\ ImagesLoaded /\ ChargingAgrees /\ RebootGoesOn

-----------------------------------------------------------------------------
(***************************************************************************)
(* What the operators make of gd.                                          *)
(***************************************************************************)

\* The bounds are numbers.
LEMMA Bounds == Retries \in Nat /\ MaxFaults \in Nat /\ MaxBoots \in Nat
BY BootAssumption

\* A boot begins, and ends, with a cleared gd.
LEMMA FreshIsGd ==
  /\ FreshGd \in Gd
  /\ \A why \in Offs : [FreshGd EXCEPT !.off = why] \in Gd
<1>1. FreshGd \in Gd
  BY Bounds DEF FreshGd, Gd, Offs, PowerUps, AllReasons, Modes, Kernels, Ramdisks, Levels
<1>2. ASSUME NEW why \in Offs PROVE [FreshGd EXCEPT !.off = why] \in Gd
  BY <1>1 DEF Gd
<1>3. QED
  BY <1>1, <1>2

\* lc1160_init turns every cause and every reason into one of its power_on_types.
LEMMA ByReasonTyped ==
  ASSUME NEW c \in SUBSET Causes, NEW r \in AllReasons PROVE ByReason(c, r) \in PowerUps
BY DEF ByReason, ByCause, AllReasons, PowerUps

\* The changes the boot makes to gd.
LEMMA GdTyped ==
  ASSUME NEW g \in Gd
  PROVE  /\ Recovery(g) \in Gd
         /\ \A what \in {"chip", "request", "kernel", "ramdisk"} :
              [g EXCEPT !.failed = @ \cup {what}] \in Gd
         /\ \A pu \in PowerUps, r \in AllReasons : [g EXCEPT !.pu = pu, !.reboot = r] \in Gd
         /\ \A level \in Levels : [g EXCEPT !.volt = level] \in Gd
         /\ [g EXCEPT !.volt = "good", !.tries = 0] \in Gd
         /\ TriesLeft(g.tries) => [g EXCEPT !.tries = @ + 1] \in Gd
         /\ [g EXCEPT !.ramdisk = "ramdisk_amt1"] \in Gd
         /\ [g EXCEPT !.mode = "amt3", !.ramdisk = "ramdisk_amt3"] \in Gd
         /\ [g EXCEPT !.fastboot = TRUE] \in Gd
<1> USE Bounds DEF Gd
<1>1. Recovery(g) \in Gd
  BY DEF Recovery, Modes, Kernels, Ramdisks
<1>2. \A what \in {"chip", "request", "kernel", "ramdisk"} :
        [g EXCEPT !.failed = @ \cup {what}] \in Gd
  OBVIOUS
<1>3. \A pu \in PowerUps, r \in AllReasons : [g EXCEPT !.pu = pu, !.reboot = r] \in Gd
  OBVIOUS
<1>4. \A level \in Levels : [g EXCEPT !.volt = level] \in Gd
  OBVIOUS
<1>5. [g EXCEPT !.volt = "good", !.tries = 0] \in Gd
  <2>1. 0 \in 0..Retries /\ "good" \in Levels
    BY DEF Levels
  <2>2. QED
    BY <2>1
<1>6. TriesLeft(g.tries) => [g EXCEPT !.tries = @ + 1] \in Gd
  BY DEF TriesLeft
<1>7. [g EXCEPT !.ramdisk = "ramdisk_amt1"] \in Gd
  BY DEF Ramdisks
<1>8. [g EXCEPT !.mode = "amt3", !.ramdisk = "ramdisk_amt3"] \in Gd
  BY DEF Ramdisks, Modes
<1>9. [g EXCEPT !.fastboot = TRUE] \in Gd
  OBVIOUS
<1>10. QED
  BY <1>1, <1>2, <1>3, <1>4, <1>5, <1>6, <1>7, <1>8, <1>9

-----------------------------------------------------------------------------
(***************************************************************************)
(* Types.                                                                  *)
(***************************************************************************)
\* Every action leaves the variables in their types, one variable at a time.
LEMMA GdKept == ASSUME Types, [Next]_vars PROVE gd' \in Gd
<1> USE DEF Types
<1>1. CASE PmicInit
  <2>1. chip.cause \in SUBSET Causes /\ chip.reason \in AllReasons
    BY DEF Chip
  <2>2. CASE PowerOff("alarm")
    BY <2>2, FreshIsGd DEF PowerOff, Offs
  <2>3. CASE gd' = [gd EXCEPT !.pu = ByReason(chip.cause, chip.reason), !.reboot = chip.reason]
    BY <2>1, <2>3, ByReasonTyped, GdTyped
  <2>4. QED
    BY <1>1, <2>2, <2>3 DEF PmicInit
<1>2. CASE PmicInitFails \/ CheckRecoveryFails
  BY <1>2, GdTyped DEF PmicInitFails, CheckRecoveryFails, Fails
<1>3. CASE Voltage \/ WaitForCharge \/ LetThrough
  BY <1>3, GdTyped DEF Voltage, WaitForCharge, LetThrough, NextTry
<1>4. CASE TooLow \/ KeyCheck \/ secure_verify \/ ShutDown
  BY <1>4, FreshIsGd DEF TooLow, KeyCheck, secure_verify, ShutDown, PowerOff, Offs
<1>5. CASE CheckRecovery
  BY <1>5, GdTyped DEF CheckRecovery
<1>6. CASE KeypadCheck
  BY <1>6, GdTyped DEF KeypadCheck
<1>7. CASE LoadKernel \/ LoadRamdisk
  BY <1>7, GdTyped DEF LoadKernel, LoadRamdisk, Fails
<1>8. CASE do_bootm_linux
  BY <1>8 DEF do_bootm_linux, Gd
<1>9. CASE PowerOn \/ FastbootReboot \/ Reboot
  BY <1>9, FreshIsGd DEF PowerOn, FastbootReboot, Reboot, Boots
<1>10. CASE DramInit \/ Branch \/ FastbootFlash \/ AskForRecovery \/ RecoveryDone
  BY <1>10 DEF DramInit, Branch, FastbootFlash, AskForRecovery, RecoveryDone
<1>11. CASE UNCHANGED vars
  BY <1>11 DEF vars
<1>12. QED
  BY <1>1, <1>2, <1>3, <1>4, <1>5, <1>6, <1>7, <1>8, <1>9, <1>10, <1>11
     DEF Next, Boot, Around

\* Memory: junk, what is there, or an image of flash.
LEMMA MemoryKept == ASSUME Types, [Next]_vars PROVE mem' \in Memory
<1> USE DEF Types
<1>1. /\ [kernel |-> Junk, ramdisk |-> Junk] \in Memory
      /\ [mem EXCEPT !.ramdisk = Junk] \in Memory /\ [mem EXCEPT !.kernel = Junk] \in Memory
      /\ [mem EXCEPT !.kernel = mem.kernel] \in Memory
      /\ [mem EXCEPT !.ramdisk = mem.ramdisk] \in Memory
  BY DEF Memory, Junk
<1>2. CASE CheckRecovery \/ CheckRecoveryFails
  BY <1>1, <1>2 DEF CheckRecovery, CheckRecoveryFails
<1>3. CASE LoadKernel
  <2>1. Image(gd.kernel) \in [name : Kernels \cup {"junk"}, signed : BOOLEAN]
    <3>1. (gd.kernel \in flash.signed) \in BOOLEAN
      OBVIOUS
    <3>2. gd.kernel \in Kernels
      BY DEF Gd
    <3>3. QED
      BY <3>1, <3>2 DEF Image
  <2>2. [mem EXCEPT !.kernel = Image(gd.kernel)] \in Memory
    BY <2>1 DEF Memory
  <2>3. QED
    BY <1>1, <1>3, <2>2 DEF LoadKernel
<1>4. CASE LoadRamdisk
  <2>1. Image(gd.ramdisk) \in [name : Ramdisks \cup {"junk"}, signed : BOOLEAN]
    <3>1. (gd.ramdisk \in flash.signed) \in BOOLEAN
      OBVIOUS
    <3>2. gd.ramdisk \in Ramdisks
      BY DEF Gd
    <3>3. QED
      BY <3>1, <3>2 DEF Image
  <2>2. [mem EXCEPT !.ramdisk = Image(gd.ramdisk)] \in Memory
    BY <2>1 DEF Memory
  <2>3. QED
    BY <1>1, <1>4, <2>2 DEF LoadRamdisk
<1>5. CASE PowerOn \/ Reboot
  BY <1>1, <1>5 DEF PowerOn, Reboot
<1>6. CASE UNCHANGED mem
  BY <1>6
<1>7. QED
  BY <1>2, <1>3, <1>4, <1>5, <1>6
     DEF Next, Boot, Around, PmicInit, PmicInitFails, Voltage, WaitForCharge, LetThrough, TooLow,
         DramInit, KeyCheck, KeypadCheck, Branch, secure_verify, do_bootm_linux, FastbootFlash,
         FastbootReboot, AskForRecovery, RecoveryDone, ShutDown, vars

\* Flash: fastboot and the running system change it.
LEMMA FlashKept == ASSUME Types, [Next]_vars PROVE flash' \in Flash
<1> USE DEF Types
<1>1. CASE FastbootFlash
  BY <1>1, BootAssumption DEF FastbootFlash, Flash, Kernels, Ramdisks
<1>2. CASE AskForRecovery
  BY <1>2 DEF AskForRecovery, Flash
<1>3. CASE RecoveryDone
  BY <1>3 DEF RecoveryDone, Flash
<1>4. CASE UNCHANGED flash
  BY <1>4
<1>5. QED
  BY <1>1, <1>2, <1>3, <1>4
     DEF Next, Boot, Around, PmicInit, PmicInitFails, Voltage, WaitForCharge, LetThrough, TooLow,
         DramInit, KeyCheck, CheckRecovery, CheckRecoveryFails, KeypadCheck, LoadKernel,
         LoadRamdisk, Branch, secure_verify, do_bootm_linux, PowerOn, FastbootReboot, Reboot,
         ShutDown, vars

\* The bounds are kept.
LEMMA CountsKept == ASSUME Types, [Next]_vars PROVE cnt' \in Counts
<1> USE DEF Types
<1>1. /\ cnt.faults < MaxFaults => [cnt EXCEPT !.faults = @ + 1] \in Counts
      /\ cnt.boots < MaxBoots => [cnt EXCEPT !.boots = @ + 1] \in Counts
  BY BootAssumption DEF Counts
<1>2. CASE PmicInitFails \/ CheckRecoveryFails \/ LoadKernel \/ LoadRamdisk
  BY <1>1, <1>2 DEF PmicInitFails, CheckRecoveryFails, LoadKernel, LoadRamdisk, Fails
<1>3. CASE PowerOn \/ FastbootReboot \/ Reboot
  BY <1>1, <1>3 DEF PowerOn, FastbootReboot, Reboot, Boots
<1>4. CASE UNCHANGED cnt
  BY <1>4
<1>5. QED
  BY <1>2, <1>3, <1>4
     DEF Next, Boot, Around, PmicInit, Voltage, WaitForCharge, LetThrough, TooLow, DramInit,
         KeyCheck, CheckRecovery, KeypadCheck, Branch, secure_verify, do_bootm_linux,
         FastbootFlash, AskForRecovery, RecoveryDone, ShutDown, vars

\* The chip: the reboots that are asked for, and the causes of a start.
LEMMA ChipKept == ASSUME Types, [Next]_vars PROVE chip' \in Chip
<1> USE DEF Types
<1>1. CASE PowerOn
  BY <1>1, BootAssumption DEF PowerOn, Boots, Chip
<1>2. CASE FastbootReboot
  BY <1>2 DEF FastbootReboot, Boots, Chip, AllReasons
<1>3. CASE Reboot
  BY <1>3, BootAssumption DEF Reboot, Boots, Chip, Causes, AfterReset
<1>4. CASE RecoveryDone \/ ShutDown
  BY <1>4 DEF RecoveryDone, ShutDown, Chip, AllReasons
<1>5. CASE UNCHANGED chip
  BY <1>5
<1>6. QED
  BY <1>1, <1>2, <1>3, <1>4, <1>5
     DEF Next, Boot, Around, PmicInit, PmicInitFails, Voltage, WaitForCharge, LetThrough, TooLow,
         DramInit, KeyCheck, CheckRecovery, CheckRecoveryFails, KeypadCheck, LoadKernel,
         LoadRamdisk, Branch, secure_verify, do_bootm_linux, FastbootFlash, AskForRecovery, vars

\* The boot goes from place to place; the build stays.
LEMMA PlaceKept == ASSUME Types, [Next]_vars PROVE pc' \in Places /\ verify' \in Builds
<1>1. CASE UNCHANGED vars
  BY <1>1 DEF Types, vars
<1>2. CASE Around
  BY <1>2 DEF Around, PowerOn, FastbootFlash, FastbootReboot, AskForRecovery, RecoveryDone, Reboot,
              ShutDown, Boots, PowerOff, GoesTo, Places, Types
<1>3. CASE Boot \/ PmicInitFails \/ CheckRecoveryFails
  BY <1>3 DEF Boot, PmicInit, PmicInitFails, Voltage, WaitForCharge, LetThrough, TooLow, DramInit,
              KeyCheck, CheckRecovery, CheckRecoveryFails, KeypadCheck, LoadKernel, LoadRamdisk,
              Branch, secure_verify, do_bootm_linux, GoesTo, PowerOff, NextOf, KeyChecks, Places,
              Types
<1>4. QED
  BY <1>1, <1>2, <1>3 DEF Next

-----------------------------------------------------------------------------
(***************************************************************************)
(* The decisions.  Most actions disturb one part of the invariant or none; *)
(* those that read the chip, the requests and the images have a step for   *)
(* each part.                                                              *)
(***************************************************************************)
LEMMA RestKept == ASSUME IInv, [Next]_vars, Types' PROVE IInv'
<1> USE DEF IInv, StartRead, NothingChosen, NamesAgree, RecoveryChosen, ChargingChosen,
            ImagesLoaded, ChargingAgrees, RebootGoesOn, Chosen, Loaded, Asked, At, GoesTo
<1>1. CASE PmicInit
  <2>1. (StartRead)'
    <3>1. CASE PowerOff("alarm")
      BY <3>1 DEF PowerOff
    <3>2. CASE gd' = [gd EXCEPT !.pu = ByReason(chip.cause, chip.reason), !.reboot = chip.reason]
      <4>1. gd.failed = {} /\ UNCHANGED chip
        BY <1>1 DEF PmicInit, FreshGd
      <4>2. gd'.failed = {} /\ gd'.reboot = chip.reason
            /\ gd'.pu = ByReason(chip.cause, chip.reason)
        BY <3>2, <4>1 DEF Types, Gd
      <4>3. QED
        BY <4>1, <4>2
    <3>3. QED
      BY <1>1, <3>1, <3>2 DEF PmicInit
  <2>2. (NothingChosen)'
    BY <1>1, ZenonT(30) DEF PmicInit, Types, Gd, PowerOff, FreshGd, Image, Offs
  <2>3. (NamesAgree)'
    BY <1>1, ZenonT(30) DEF PmicInit, Types, Gd, PowerOff, FreshGd, Image, Offs
  <2>4. (RecoveryChosen)'
    BY <1>1 DEF PmicInit, Types, Gd, PowerOff, FreshGd, Image, Offs
  <2>5. (ChargingChosen)'
    BY <1>1 DEF PmicInit, Types, Gd, PowerOff, FreshGd, Image, Offs
  <2>6. (ImagesLoaded)'
    BY <1>1 DEF PmicInit, Types, Gd, PowerOff, FreshGd, Image, Offs
  <2>7. (ChargingAgrees /\ RebootGoesOn)'
    BY <1>1 DEF PmicInit, Types, Gd, PowerOff, FreshGd, Image, Offs
  <2>8. QED
    BY <2>1, <2>2, <2>3, <2>4, <2>5, <2>6, <2>7
<1>2. CASE PmicInitFails
  BY <1>2 DEF PmicInitFails, Types, Gd, Image, Verified, Fails, FreshGd
<1>3. CASE Voltage
  BY <1>3 DEF Voltage, Types, Gd, Image, Verified
<1>4. CASE WaitForCharge
  BY <1>4 DEF WaitForCharge, Types, Gd, Image, Verified, NextTry
<1>5. CASE LetThrough
  BY <1>5 DEF LetThrough, Types, Gd, Image, Verified
<1>6. CASE TooLow
  BY <1>6 DEF TooLow, Types, Gd, Image, Verified, PowerOff, FreshGd
<1>7. CASE DramInit
  BY <1>7 DEF DramInit, Types, Gd, Image, Verified
<1>8. CASE KeyCheck
  BY <1>8
     DEF KeyCheck, Types, Gd, Image, Verified, KeyChecks, NextOf, PowerOff, FreshGd, MustHoldKey,
         ByReason, AllReasons, Chip
<1>9. CASE CheckRecovery
  <2>1. (StartRead)'
    <3>1. gd'.pu = gd.pu /\ gd'.reboot = gd.reboot /\ gd'.failed = gd.failed
      BY <1>9 DEF CheckRecovery, Types, Gd, Recovery
    <3>2. QED
      BY <1>9, <3>1 DEF CheckRecovery
  <2>2. (NothingChosen)'
    BY <1>9 DEF CheckRecovery, Types, Gd, Recovery, ByReason, Requested, Image
  <2>3. (NamesAgree)'
    BY <1>9 DEF CheckRecovery, Types, Gd, Recovery, ByReason, Requested, Image
  <2>4. (RecoveryChosen)'
    BY <1>9 DEF CheckRecovery, Types, Gd, Recovery, ByReason, Requested, Image
  <2>5. (ChargingChosen)'
    BY <1>9 DEF CheckRecovery, Types, Gd, Recovery, ByReason, Requested, Image
  <2>6. (ImagesLoaded)'
    BY <1>9 DEF CheckRecovery, Types, Gd, Recovery, ByReason, Requested, Image
  <2>7. (ChargingAgrees /\ RebootGoesOn)'
    BY <1>9 DEF CheckRecovery, Types, Gd, Recovery, ByReason, Requested, Image
  <2>8. QED
    BY <2>1, <2>2, <2>3, <2>4, <2>5, <2>6, <2>7
<1>10. CASE CheckRecoveryFails
  BY <1>10 DEF CheckRecoveryFails, Types, Gd, Image, Verified, Fails
<1>11. CASE KeypadCheck
  BY <1>11 DEF KeypadCheck, Types, Gd, Image, Verified, ChargingStart, Recovery
<1>12. CASE LoadKernel
  <2>1. (StartRead)'
    BY <1>12 DEF LoadKernel, Types, Gd, Image, Fails, Memory
  <2>2. (NothingChosen)'
    BY <1>12 DEF LoadKernel, Types, Gd, Image, Fails, Memory
  <2>3. (NamesAgree)'
    BY <1>12 DEF LoadKernel, Types, Gd, Image, Fails, Memory
  <2>4. (RecoveryChosen)'
    BY <1>12 DEF LoadKernel, Types, Gd, Image, Fails, Memory
  <2>5. (ChargingChosen)'
    BY <1>12 DEF LoadKernel, Types, Gd, Image, Fails, Memory
  <2>6. (ImagesLoaded)'
    BY <1>12 DEF LoadKernel, Types, Gd, Image, Fails, Memory
  <2>7. (ChargingAgrees /\ RebootGoesOn)'
    BY <1>12 DEF LoadKernel, Types, Gd, Image, Fails, Memory
  <2>8. QED
    BY <2>1, <2>2, <2>3, <2>4, <2>5, <2>6, <2>7
<1>13. CASE LoadRamdisk
  <2>1. (StartRead)'
    BY <1>13 DEF LoadRamdisk, Types, Gd, Image, Fails, Memory
  <2>2. (NothingChosen)'
    BY <1>13 DEF LoadRamdisk, Types, Gd, Image, Fails, Memory
  <2>3. (NamesAgree)'
    BY <1>13 DEF LoadRamdisk, Types, Gd, Image, Fails, Memory
  <2>4. (RecoveryChosen)'
    BY <1>13 DEF LoadRamdisk, Types, Gd, Image, Fails, Memory
  <2>5. (ChargingChosen)'
    BY <1>13 DEF LoadRamdisk, Types, Gd, Image, Fails, Memory
  <2>6. (ImagesLoaded)'
    BY <1>13 DEF LoadRamdisk, Types, Gd, Image, Fails, Memory
  <2>7. (ChargingAgrees /\ RebootGoesOn)'
    BY <1>13 DEF LoadRamdisk, Types, Gd, Image, Fails, Memory
  <2>8. QED
    BY <2>1, <2>2, <2>3, <2>4, <2>5, <2>6, <2>7
<1>14. CASE Branch
  BY <1>14 DEF Branch, Types, Gd, Image, Verified
<1>15. CASE secure_verify
  BY <1>15 DEF secure_verify, Types, Gd, Image, Verified, Verified, Image, PowerOff, FreshGd
<1>16. CASE do_bootm_linux
  BY <1>16 DEF do_bootm_linux, Types, Gd, Image, Verified
<1>17. CASE PowerOn
  BY <1>17 DEF PowerOn, Types, Gd, Image, Verified, Boots, FreshGd
<1>18. CASE FastbootFlash
  BY <1>18 DEF FastbootFlash, Types, Gd, Image, Verified, Image
<1>19. CASE FastbootReboot
  BY <1>19 DEF FastbootReboot, Types, Gd, Image, Verified, Boots, FreshGd
<1>20. CASE AskForRecovery
  BY <1>20 DEF AskForRecovery, Types, Gd, Image, Verified, Image
<1>21. CASE RecoveryDone
  BY <1>21 DEF RecoveryDone, Types, Gd, Image, Verified, Image
<1>22. CASE Reboot
  BY <1>22 DEF Reboot, Types, Gd, Image, Verified, Boots, FreshGd
<1>23. CASE ShutDown
  BY <1>23 DEF ShutDown, Types, Gd, Image, Verified, PowerOff, FreshGd
<1>24. CASE UNCHANGED vars
  BY <1>24 DEF vars, Image, Verified
<1>25. QED
  BY <1>1, <1>2, <1>3, <1>4, <1>5, <1>6, <1>7, <1>8, <1>9, <1>10, <1>11, <1>12, <1>13, <1>14,
     <1>15, <1>16, <1>17, <1>18, <1>19, <1>20, <1>21, <1>22, <1>23, <1>24
     DEF Next, Boot, Around

-----------------------------------------------------------------------------
(***************************************************************************)
(* Theorems.                                                               *)
(***************************************************************************)

\* Every boot, from the first on, satisfies the invariant.
THEOREM Invariant == Spec => []IInv
<1>1. Init => IInv
  <2>1. ASSUME Init PROVE Types
    <3>1. gd \in Gd
      BY <2>1, FreshIsGd DEF Init
    <3>2. cnt \in Counts
      BY <2>1, Bounds DEF Init, Counts
    <3>3. pc \in Places /\ verify \in Builds /\ chip \in Chip
      BY <2>1 DEF Init, Places, Chip, AllReasons, Causes
    <3>4. flash \in Flash /\ mem \in Memory
      BY <2>1 DEF Init, Flash, Memory, Junk
    <3>5. QED
      BY <3>1, <3>2, <3>3, <3>4 DEF Types
  <2>2. ASSUME Init PROVE NamesAgree /\ RebootGoesOn
    BY <2>2 DEF Init, NamesAgree, RebootGoesOn, FreshGd
  <2>3. ASSUME Init
        PROVE  StartRead /\ NothingChosen /\ RecoveryChosen /\ ChargingChosen /\ ImagesLoaded
               /\ ChargingAgrees
    BY <2>3 DEF Init, StartRead, NothingChosen, RecoveryChosen, ChargingChosen, ImagesLoaded,
                ChargingAgrees, KeyChecks, Chosen, Loaded, At
  <2>4. QED
    BY <2>1, <2>2, <2>3 DEF IInv
<1>2. IInv /\ [Next]_vars => IInv'
  <2>1. ASSUME IInv, [Next]_vars PROVE Types'
    BY <2>1, GdKept, MemoryKept, FlashKept, CountsKept, ChipKept, PlaceKept DEF IInv, Types
  <2>2. QED
    BY <2>1, RestKept
<1>3. QED
  BY <1>1, <1>2, PTL DEF Spec

\* The variables have their types; a system starts with "charge only" on its command
\* line exactly when it has the ramdisk for charging; and what starts is of one piece,
\* the images of flash that the mode asks for, both of them signed when the
\* verification is built in.
THEOREM OfOnePiece == Spec => []Safety
<1>1. IInv => TypeOK
  BY DEF IInv, Types, TypeOK, Places, Chip, Flash, Memory, Gd, PowerUps, Modes, Counts
<1>2. IInv => ImagesAgree
  <2>1. ASSUME IInv, pc = "params"
        PROVE  /\ gd.failed \cap {"kernel", "ramdisk"} = {} =>
                    mem = [kernel |-> Image(gd.kernel), ramdisk |-> Image(gd.ramdisk)]
               /\ verify => mem.kernel.signed /\ mem.ramdisk.signed
    <3>1. mem = [kernel |-> mem.kernel, ramdisk |-> mem.ramdisk]
      BY <2>1 DEF IInv, Types, Memory
    <3>2. QED
      BY <2>1, <3>1 DEF IInv, ImagesLoaded, Loaded, Verified
  <2>2. QED
    BY <2>1 DEF ImagesAgree, At, IInv, NamesAgree
<1>3. IInv => Safety
  BY <1>1, <1>2 DEF IInv, Safety
<1>4. QED
  BY <1>3, Invariant, PTL

\* A reboot that the running system has asked for, for any reason but REBOOT_FACTORY, is
\* not ended by one of the three checks of the power key.
THEOREM RebootStands == Spec => []RebootGoesOn
<1>1. IInv => RebootGoesOn
  BY DEF IInv
<1>2. QED
  BY <1>1, Invariant, PTL

\* The kernel that starts while a recovery is asked for, in flash or by the reason for
\* the reboot, is the recovery's, unless in this boot the chip or the request could not
\* be read.
THEOREM AskedIsReached == Spec => RecoveryIsReached
<1>1. IInv /\ [Next]_vars =>
        [do_bootm_linux /\ Asked /\ gd.failed \cap {"chip", "request"} = {}
           => gd.mode = "recovery"]_vars
  BY DEF IInv, RecoveryChosen, Chosen, do_bootm_linux, At
<1>2. QED
  BY <1>1, Invariant, PTL DEF Spec, RecoveryIsReached

-----------------------------------------------------------------------------
(***************************************************************************)
(* Fastboot, where a boot ends that is asked for it: the inductive         *)
(* invariant.                                                              *)
(***************************************************************************)

\* A download waits for its data, or a flash command is under way, or neither;
\* what has been answered so far follows.
FbPhase ==
  /\ expected # 0 => /\ ~job.on /\ replies = <<"DATA">> /\ Fits(expected)
                     /\ loaded = 0 /\ size = 0
  /\ job.on => expected = 0 /\ state = "STATE_COMMAND" /\ replies = <<>>

\* The data of every RAW chunk in the buffer lies in the buffer, whichever
\* downloads, whole or broken off, have left what is there.
FbBuffer ==
  /\ \A i \in 0..(BufLen - 1) : buf[i].k = "raw" => i + buf[i].n <= BufLen - 2
  /\ buf[BufLen - 1].k = "blank"

\* The image last downloaded is still in the buffer.
FbLoaded ==
  loaded # 0 => LET I == Images[loaded] IN
    /\ size = I.size
    /\ \A i \in 0..(Len(I.cells) - 1) : i < BufLen - 1 /\ buf[i] = I.cells[i + 1]

\* write_unsparse stays in the buffer and in the partition.
FbJob ==
  job.on =>
    /\ job.sparse = (buf[0].k = "sparse")
    /\ job.at = job.start + job.out
    /\ ~job.sparse => job.out = 0
    /\ job.sparse => job.src \in 0..(BufLen - 1) /\ job.out <= job.length
    /\ ~job.sparse => size <= job.length * BlkSize

\* write_unsparse is at the chunk it should be at, and the RAW chunks before it are
\* on the device.
FbWalk ==
  job.on /\ job.sparse /\ loaded # 0 =>
    (Images[loaded].sparse =>
       LET chunks == Images[loaded].chunks
           done == Len(chunks) - job.todo
       IN  /\ done >= 0
           /\ job.todo > 0 => job.src = chunks[done + 1].off /\ job.out = chunks[done + 1].blk
           /\ \A c \in 1..done :
                /\ chunks[c].blk + chunks[c].n <= job.out
                /\ \A j \in 0..(RawLen(chunks[c]) - 1) :
                     /\ job.start + chunks[c].blk + j \in Addr
                     /\ disk[job.start + chunks[c].blk + j] = Data(loaded, chunks[c].blk + j))

FbIInv == FastbootTypeOK /\ FbPhase /\ FbBuffer /\ FbLoaded /\ FbJob /\ FbWalk

-----------------------------------------------------------------------------
(***************************************************************************)
(* Lemmas about the arithmetic, the images and the answers.                *)
(***************************************************************************)
LEMMA FbDiv ==
  ASSUME NEW a \in Nat, NEW b \in Nat \ {0}
  PROVE  a \div b \in Nat /\ (a \div b) * b <= a /\ a < (a \div b) * b + b
  BY Z3

LEMMA FbConstants ==
  /\ BlkSize \in Nat \ {0} /\ Lba \in Nat /\ DownloadMax \in Nat /\ MaxCmds \in Nat
  /\ Len(Images) \in Nat
  /\ \A im \in 1..Len(Images) : Images[im] \in HostImage /\ ImageHolds(im, Images[im])
  BY BlkAssumption, BoundAssumption, ImageAssumption
  DEF BlkAssumption, BoundAssumption, ImageAssumption

\* Sizes in blocks: rounded up, and as flash_partition_erase_write counts them.
LEMMA FbCells ==
  ASSUME NEW a \in Nat, NEW b \in Nat, a <= b
  PROVE  /\ Cells(a) \in Nat /\ Cells(a) <= Cells(b)
         /\ RawBlocks(a) \in Nat \ {0} /\ Cells(a) <= RawBlocks(a)
         /\ RawBlocks(a) <= Cells(b) + 1
<1> DEFINE B == BlkSize
<1>1. B \in Nat \ {0}
  BY FbConstants
<1> DEFINE ca == (a + B - 1) \div B
           cb == (b + B - 1) \div B
           da == a \div B
<1>2. /\ ca \in Nat /\ ca * B <= a + B - 1 /\ a + B - 1 < ca * B + B
      /\ cb \in Nat /\ cb * B <= b + B - 1 /\ b + B - 1 < cb * B + B
      /\ da \in Nat /\ da * B <= a /\ a < da * B + B
  <2>1. a + B - 1 \in Nat /\ b + B - 1 \in Nat
    BY <1>1
  <2>2. QED
    BY <1>1, <2>1, FbDiv
<1> HIDE DEF ca, cb, da, B
<1>3. \A x, y \in Nat : x * B < (y + 1) * B => x <= y
  BY <1>1, Z3
<1>4. ca <= cb
  BY <1>1, <1>2, <1>3
<1>5. ca <= da + 1
  BY <1>1, <1>2, <1>3
<1>6. da <= cb
  BY <1>1, <1>2, <1>3
<1>7. QED
  BY <1>1, <1>2, <1>4, <1>5, <1>6 DEF ca, cb, da, B, Cells, RawBlocks

\* Two lengths in units compare as the lengths in blocks do.
LEMMA FbTimes ==
  ASSUME NEW n \in Nat, NEW len \in Nat
  PROVE  /\ n < len * BlkSize => RawBlocks(n) <= len
         /\ len * BlkSize \in Nat /\ len <= len * BlkSize
<1> DEFINE d == n \div BlkSize
<1>1. BlkSize \in Nat \ {0}
  BY FbConstants
<1>2. d \in Nat /\ d * BlkSize <= n
  BY <1>1, FbDiv
<1> HIDE DEF d
<1>3. \A x, y \in Nat : x * BlkSize < y * BlkSize => x < y
  BY <1>1, Z3
<1>4. len * BlkSize \in Nat /\ len <= len * BlkSize
  BY <1>1, Z3
<1>5. d * BlkSize \in Nat
  BY <1>1, <1>2, Z3
<1>6. n < len * BlkSize => d < len
  BY <1>2, <1>3, <1>4, <1>5
<1>7. QED
  BY <1>2, <1>4, <1>6 DEF d, RawBlocks

\* The count of an erase; below 4 GiB it is the length in bytes, and no less than the
\* length in blocks.
LEMMA FbCount ==
  ASSUME NEW p, p.length \in Nat
  PROVE  /\ EraseCount(p) \in Nat
         /\ p.length * BlkSize < U32 => p.length <= EraseCount(p)
<1> DEFINE len == p.length
           bytes == len * BlkSize
<1>1. /\ len \in Nat /\ bytes \in Nat /\ len <= bytes /\ U32 \in Nat \ {0}
  BY FbTimes, BlkAssumption DEF BlkAssumption
<1>2. EraseCount(p) = bytes % U32
  BY DEF EraseCount
<1> HIDE DEF len, bytes
<1>3. bytes % U32 \in Nat /\ (bytes < U32 => bytes % U32 = bytes)
  BY <1>1
<1>4. QED
  BY <1>1, <1>2, <1>3 DEF len, bytes

\* What the assumptions say of a partition that was found, and of an image.
LEMMA FbPart ==
  ASSUME NEW name, NEW p \in Found(name)
  PROVE  /\ p.start \in Nat /\ p.length \in Nat /\ p.start * BlkSize < U32
         /\ StartBlock(p) = p.start
<1> DEFINE P == [name : STRING, start : Nat, length : Nat]
<1>1. \A i \in 1..Len(Parts) : Parts[i] \in P
  <2>1. Parts \in Seq(P)
    BY PartAssumption, Zenon DEF PartAssumption
  <2> HIDE DEF P
  <2>2. QED
    BY <2>1
<1>2. PICK i \in 1..Len(Parts) : p = Parts[i]
  BY Zenon DEF Found
<1>3. p.start \in Nat /\ p.length \in Nat
  BY <1>1, <1>2
<1>4. p.start * BlkSize < U32
  BY <1>2, PartAssumption, Zenon DEF PartAssumption
<1> DEFINE first == p.start
<1>5. first \in Nat /\ first * BlkSize < U32
  BY <1>3, <1>4
<1> HIDE DEF first
<1>6. StartBlock(p) = first
  <2> DEFINE bytes == first * BlkSize
             q == bytes \div BlkSize
  <2>1. /\ BlkSize \in Nat \ {0} /\ U32 \in Nat \ {0}
        /\ bytes \in Nat /\ bytes < U32
    BY <1>5, FbTimes, BlkAssumption DEF BlkAssumption
  <2>2. q \in Nat /\ q * BlkSize <= bytes /\ bytes < q * BlkSize + BlkSize
    <3> HIDE DEF bytes
    <3>1. QED
      BY <2>1, FbDiv
  <2>3. bytes % U32 = bytes
    <3> HIDE DEF bytes
    <3>1. QED
      BY <2>1
  <2>4. q = first
    <3> HIDE DEF q
    <3>1. \A x, y \in Nat : x * BlkSize < (y + 1) * BlkSize => x <= y
      BY <2>1, Z3
    <3>2. first * BlkSize < (q + 1) * BlkSize /\ q * BlkSize < (first + 1) * BlkSize
      BY <1>5, <2>1, <2>2, Z3
    <3>3. q <= first /\ first <= q
      BY <1>5, <2>2, <3>1, <3>2
    <3>4. QED
      BY <1>5, <2>2, <3>3
  <2>5. StartBlock(p) = ((first * BlkSize) % U32) \div BlkSize
    BY DEF StartBlock, first
  <2>6. QED
    BY <2>3, <2>4, <2>5
<1>7. QED
  BY <1>3, <1>4, <1>6 DEF first

LEMMA FbImage ==
  ASSUME NEW im \in 1..Len(Images)
  PROVE  /\ Images[im].size \in Nat /\ Images[im].sparse \in BOOLEAN
         /\ Images[im].cells \in Seq(CellOf)
         /\ Images[im].chunks \in Seq([kind : Kinds, n : Nat, off : Nat, blk : Nat])
         /\ Len(Images[im].cells) = Cells(Images[im].size)
<1>1. Images[im] \in HostImage /\ ImageHolds(im, Images[im])
  BY FbConstants
<1>2. QED
  BY <1>1 DEF HostImage, ImageHolds

LEMMA FbBufLen ==
  BufLen \in Nat \ {0}
<1>1. DownloadMax \in Nat /\ DownloadMax <= DownloadMax
  BY FbConstants
<1>2. Cells(DownloadMax) \in Nat
  BY <1>1, FbCells
<1>3. QED
  BY <1>2 DEF BufLen

\* A download that fits leaves the last cell of the buffer free.
LEMMA FbFits ==
  ASSUME NEW im \in 1..Len(Images), Fits(im)
  PROVE  /\ Images[im].size \in 0..DownloadMax
         /\ Len(Images[im].cells) \in Nat /\ Len(Images[im].cells) <= BufLen - 1
         /\ \A n \in 0..Images[im].size : Cells(n) \in 0..Len(Images[im].cells)
<1>1. Images[im].size \in Nat /\ DownloadMax \in Nat /\ Images[im].size <= DownloadMax
      /\ DownloadMax <= DownloadMax
  BY FbImage, FbConstants DEF Fits
<1>2. Cells(Images[im].size) <= Cells(DownloadMax)
  BY <1>1, FbCells
<1>3. Cells(DownloadMax) \in Nat
  BY <1>1, FbCells
<1>4. Len(Images[im].cells) = Cells(Images[im].size)
  BY FbImage
<1>5. ASSUME NEW n \in 0..Images[im].size
      PROVE  Cells(n) \in Nat /\ Cells(n) <= Cells(Images[im].size)
  <2>1. n \in Nat /\ n <= Images[im].size
    BY <1>1
  <2>2. QED
    BY <1>1, <2>1, FbCells
<1>6. Cells(Images[im].size) \in Nat
  BY <1>1, <1>5
<1>7. QED
  BY <1>1, <1>2, <1>3, <1>4, <1>5, <1>6 DEF BufLen

\* A handler that answers gives the command's one verdict.
LEMMA FbAnswers ==
  ASSUME NEW ret, Answers(ret)
  PROVE  /\ state' = "STATE_COMPLETE"
         /\ replies' = <<IF ret = 0 THEN "OKAY" ELSE "FAIL">>
<1>1. Append(<<>>, "OKAY") = <<"OKAY">> /\ Append(<<>>, "FAIL") = <<"FAIL">>
  OBVIOUS
<1>2. QED
  BY <1>1 DEF Answers, EndTurn, fastboot_ack, InCommand

-----------------------------------------------------------------------------
(***************************************************************************)
(* The invariant holds at first, and every step keeps it.                  *)
(***************************************************************************)
LEMMA FbInit == ASSUME fastboot_init PROVE FbIInv
<1>1. BufLen \in Nat \ {0} /\ DownloadMax \in Nat /\ MaxCmds \in Nat /\ Len(Images) \in Nat
  BY FbBufLen, FbConstants
<1>2. FastbootTypeOK
  <2>1. buf \in [0..(BufLen - 1) -> CellOf]
    BY DEF fastboot_init, Blank, Cell, CellOf
  <2>2. job \in Job
    BY DEF fastboot_init, NoJob, Job
  <2>3. DOMAIN disk = Addr
    BY DEF fastboot_init
  <2>4. replies \in Seq({"DATA", "OKAY", "FAIL"})
    BY DEF fastboot_init
  <2>5. QED
    BY <1>1, <2>1, <2>2, <2>3, <2>4 DEF fastboot_init, FastbootTypeOK, States
<1>3. FbBuffer
  BY <1>1 DEF fastboot_init, Blank, Cell, FbBuffer
<1>4. ~job.on /\ loaded = 0 /\ expected = 0
  BY DEF fastboot_init, NoJob
<1>5. QED
  BY <1>2, <1>3, <1>4 DEF FbIInv, FbPhase, FbLoaded, FbJob, FbWalk

\* A command that leaves the buffer alone and is done in one turn.
LEMMA FbTurn ==
  ASSUME FbIInv, Reads, UNCHANGED <<expected, size, buf, job, loaded>>,
         DOMAIN disk' = Addr, state' \in States,
         replies' \in Seq({"DATA", "OKAY", "FAIL"})
  PROVE  FbIInv'
<1>1. FastbootTypeOK'
  BY FbConstants DEF FbIInv, FastbootTypeOK, Reads
<1>2. FbPhase' /\ FbBuffer' /\ FbLoaded' /\ FbJob' /\ FbWalk'
  BY DEF FbIInv, FbPhase, FbBuffer, FbLoaded, FbJob, FbWalk, Reads
<1>3. QED
  BY <1>1, <1>2 DEF FbIInv

\* The end of a flash command.
LEMMA FbEnd ==
  ASSUME FbIInv, NEW ret, Ends(ret), job.on,
         UNCHANGED <<expected, size, buf, cmds, loaded>>, DOMAIN disk' = Addr
  PROVE  FbIInv' /\ replies' = <<IF ret = 0 THEN "OKAY" ELSE "FAIL">>
<1>1. job' = NoJob /\ state' = "STATE_COMPLETE"
      /\ replies' = <<IF ret = 0 THEN "OKAY" ELSE "FAIL">>
  BY FbAnswers DEF Ends
<1>2. FastbootTypeOK'
  <2>1. job' \in Job
    BY <1>1 DEF NoJob, Job
  <2>2. replies' \in Seq({"DATA", "OKAY", "FAIL"})
    BY <1>1
  <2>3. QED
    BY <1>1, <2>1, <2>2 DEF FbIInv, FastbootTypeOK, States
<1>3. ~job'.on /\ expected' = 0
  BY <1>1 DEF NoJob, FbIInv, FbPhase
<1>4. FbPhase' /\ FbBuffer' /\ FbLoaded' /\ FbJob' /\ FbWalk'
  BY <1>3 DEF FbIInv, FbPhase, FbBuffer, FbLoaded, FbJob, FbWalk
<1>5. QED
  BY <1>1, <1>2, <1>4 DEF FbIInv

LEMMA FbReboot ==
  ASSUME FbIInv, cmd_reboot
  PROVE  FbIInv' /\ replies' = <<"OKAY">>
<1>1. BufLen \in Nat \ {0} /\ DownloadMax \in Nat /\ MaxCmds \in Nat /\ Len(Images) \in Nat
  BY FbBufLen, FbConstants
<1>2. replies' = <<"OKAY">>
  <2>1. Append(<<>>, "OKAY") = <<"OKAY">>
    OBVIOUS
  <2>2. QED
    BY <2>1 DEF cmd_reboot, fastboot_ack, InCommand
<1>3. FastbootTypeOK'
  <2>1. buf' \in [0..(BufLen - 1) -> CellOf]
    BY DEF cmd_reboot, Blank, Cell, CellOf
  <2>2. replies' \in Seq({"DATA", "OKAY", "FAIL"})
    BY <1>2
  <2>3. /\ state' = "STATE_OFFLINE" /\ expected' = 0 /\ size' = 0 /\ loaded' = 0
        /\ UNCHANGED <<disk, job>> /\ cmds' = cmds + 1 /\ cmds < MaxCmds
    BY DEF cmd_reboot, Reads
  <2>4. QED
    BY <1>1, <2>1, <2>2, <2>3 DEF FbIInv, FastbootTypeOK, States
<1>4. FbBuffer'
  BY <1>1 DEF cmd_reboot, Blank, Cell, FbBuffer
<1>5. ~job'.on /\ loaded' = 0 /\ expected' = 0
  BY DEF cmd_reboot, Reads
<1>6. QED
  BY <1>2, <1>3, <1>4, <1>5 DEF FbIInv, FbPhase, FbLoaded, FbJob, FbWalk

LEMMA FbDownload ==
  ASSUME FbIInv, NEW im \in 1..Len(Images), cmd_download(im)
  PROVE  FbIInv' /\ Len(replies') = 1
<1>1. /\ ~job.on /\ expected = 0 /\ loaded' = 0 /\ size' = 0 /\ cmds' = cmds + 1 /\ cmds < MaxCmds
      /\ UNCHANGED <<buf, disk, job>>
  BY DEF cmd_download, Reads
<1>2. DownloadMax \in Nat /\ MaxCmds \in Nat /\ Len(Images) \in Nat
  BY FbBufLen, FbConstants
<1>3. CASE Fits(im)
  <2>1. expected' = im /\ state' = "STATE_COMMAND" /\ replies' = <<"DATA">>
    BY <1>3 DEF cmd_download
  <2>2. FastbootTypeOK'
    <3>1. replies' \in Seq({"DATA", "OKAY", "FAIL"})
      BY <2>1
    <3>2. QED
      BY <1>1, <1>2, <2>1, <3>1 DEF FbIInv, FastbootTypeOK, States
  <2>3. Fits(im)'
    BY <1>3 DEF Fits
  <2>4. FbPhase' /\ FbBuffer' /\ FbLoaded' /\ FbJob' /\ FbWalk'
    BY <1>1, <1>3, <2>1, <2>3 DEF FbIInv, FbPhase, FbBuffer, FbLoaded, FbJob, FbWalk, Fits
  <2>5. QED
    BY <2>1, <2>2, <2>4 DEF FbIInv
<1>4. CASE ~Fits(im)
  <2>1. expected' = 0 /\ state' = "STATE_COMPLETE" /\ replies' = <<"FAIL">>
    BY <1>1, <1>4, FbAnswers DEF cmd_download
  <2>2. FastbootTypeOK'
    <3>1. replies' \in Seq({"DATA", "OKAY", "FAIL"})
      BY <2>1
    <3>2. QED
      BY <1>1, <1>2, <2>1, <3>1 DEF FbIInv, FastbootTypeOK, States
  <2>3. FbPhase' /\ FbBuffer' /\ FbLoaded' /\ FbJob' /\ FbWalk'
    BY <1>1, <2>1 DEF FbIInv, FbPhase, FbBuffer, FbLoaded, FbJob, FbWalk
  <2>4. QED
    BY <2>1, <2>2, <2>3 DEF FbIInv
<1>5. QED
  BY <1>3, <1>4

\* A write stores a prefix of its blocks, all of them when it says so, and leaves the
\* rest of the device alone.
LEMMA FbWrite ==
  ASSUME NEW b \in Nat, NEW blks \in Nat, NEW src \in Nat, NEW ret \in {0, blks},
         block_write(b, blks, src, ret), Lba \in Nat
  PROVE  /\ DOMAIN disk' = Addr
         /\ \A x \in Addr : disk'[x] # disk[x] => b <= x /\ x < b + blks
         /\ ret = blks /\ blks > 0 => b + blks <= Lba
         /\ ret = blks => \A j \in 0..(blks - 1) :
              b + j \in Addr /\ disk'[b + j] = buf[src + j]
<1>1. PICK k \in 0..blks :
        /\ disk' = [x \in Addr |-> IF b <= x /\ x < b + k THEN buf[src + (x - b)]
                                      ELSE disk[x]]
        /\ ret = blks => k = blks /\ (blks > 0 => b + blks <= Lba)
  BY DEF block_write
<1>2. DOMAIN disk' = Addr
  BY <1>1
<1>3. ASSUME NEW x \in Addr, disk'[x] # disk[x] PROVE b <= x /\ x < b + blks
  BY <1>1, <1>3 DEF Addr
<1>4. ASSUME ret = blks, NEW j \in 0..(blks - 1)
      PROVE  b + j \in Addr /\ disk'[b + j] = buf[src + j]
  <2>1. k = blks /\ b + j \in Addr
    BY <1>1, <1>4 DEF Addr
  <2>2. b <= b + j /\ b + j < b + k /\ (b + j) - b = j
    BY <2>1
  <2>3. QED
    BY <1>1, <2>1, <2>2
<1>5. QED
  BY <1>1, <1>2, <1>3, <1>4

LEMMA FbDownloadData ==
  ASSUME FbIInv, expected # 0, NEW n \in 0..Images[expected].size,
         DownloadData(n)
  PROVE  FbIInv' /\ Len(replies') \in {1, 2} /\ replies'[1] = "DATA"
<1> DEFINE I == Images[expected]
<1>1. /\ expected \in 1..Len(Images) /\ loaded = 0 /\ size = 0 /\ replies = <<"DATA">>
      /\ ~job.on /\ Fits(expected) /\ cmds \in 0..MaxCmds /\ job \in Job
      /\ buf \in [0..(BufLen - 1) -> CellOf] /\ DOMAIN disk = Addr
  BY FbConstants DEF FbIInv, FbPhase, FastbootTypeOK
<1>2. /\ BufLen \in Nat \ {0} /\ I.size \in 0..DownloadMax /\ DownloadMax \in Nat
      /\ Len(I.cells) \in Nat /\ Len(I.cells) <= BufLen - 1
      /\ Cells(n) \in 0..Len(I.cells) /\ Len(I.cells) = Cells(I.size)
  BY <1>1, FbBufLen, FbFits, FbConstants, FbImage
<1>3. /\ \A i \in 0..(Len(I.cells) - 1) : I.cells[i + 1] \in CellOf
      /\ \A i \in 0..(Len(I.cells) - 1) :
           I.cells[i + 1].k = "raw" => i + 1 + I.cells[i + 1].n <= Len(I.cells)
  <2>1. I.cells \in Seq(CellOf)
    BY <1>1, FbImage
  <2>2. ImageHolds(expected, I)
    BY <1>1, FbConstants
  <2>3. \A j \in 1..Len(I.cells) : I.cells[j].k = "raw" => j + I.cells[j].n <= Len(I.cells)
    BY <2>2 DEF ImageHolds
  <2>4. Len(I.cells) \in Nat /\ \A j \in 1..Len(I.cells) : I.cells[j] \in CellOf
    BY <2>1
  <2>5. \A i \in 0..(Len(I.cells) - 1) : i + 1 \in 1..Len(I.cells)
    BY <2>4
  <2>6. QED
    BY <2>3, <2>4, <2>5, Zenon
<1> HIDE DEF I
<1>4. /\ buf' = [i \in 0..(BufLen - 1) |-> IF i < Cells(n) THEN I.cells[i + 1] ELSE buf[i]]
      /\ expected' = 0 /\ UNCHANGED <<disk, job, cmds>>
  BY DEF DownloadData, I
<1>5. \/ n = I.size /\ size' = n /\ loaded' = expected
         /\ state' = "STATE_COMPLETE" /\ replies' = Append(<<"DATA">>, "OKAY")
      \/ size' = 0 /\ loaded' = 0 /\ state' = "STATE_OFFLINE" /\ replies' = <<"DATA">>
  BY <1>1 DEF DownloadData, EndTurn, fastboot_ack, InCommand, I
<1>6. buf' \in [0..(BufLen - 1) -> CellOf]
  <2>1. ASSUME NEW i \in 0..(BufLen - 1)
        PROVE  (IF i < Cells(n) THEN I.cells[i + 1] ELSE buf[i]) \in CellOf
    <3>1. CASE i < Cells(n)
      BY <1>2, <1>3, <3>1
    <3>2. CASE ~(i < Cells(n))
      BY <1>1, <3>2
    <3>3. QED
      BY <3>1, <3>2
  <2>2. QED
    BY <1>4, <2>1
<1>7. FastbootTypeOK'
  <2>1. replies' \in Seq({"DATA", "OKAY", "FAIL"})
    <3>1. <<"DATA">> \in Seq({"DATA", "OKAY", "FAIL"})
      OBVIOUS
    <3>2. Append(<<"DATA">>, "OKAY") \in Seq({"DATA", "OKAY", "FAIL"})
      BY <3>1
    <3>3. QED
      BY <1>5, <3>1, <3>2
  <2>2. size' \in 0..DownloadMax /\ loaded' \in 0..Len(Images) /\ state' \in States
    BY <1>1, <1>2, <1>5, FbConstants DEF States
  <2>3. QED
    BY <1>1, <1>4, <1>6, <2>1, <2>2, FbConstants DEF FastbootTypeOK
<1>8. FbBuffer'
  <2>1. ASSUME NEW i \in 0..(BufLen - 1), buf'[i].k = "raw"
        PROVE  i + buf'[i].n <= BufLen - 2
    <3>1. CASE i < Cells(n)
      <4>1. i \in 0..(Len(I.cells) - 1) /\ buf'[i] = I.cells[i + 1]
        <5>1. buf'[i] = I.cells[i + 1]
          BY <1>4, <3>1
        <5>2. i \in 0..(Len(I.cells) - 1)
          BY <1>2, <3>1
        <5>3. QED
          BY <5>1, <5>2
      <4>2. I.cells[i + 1].n \in Nat
        BY <1>3, <4>1 DEF CellOf
      <4>3. i + 1 + I.cells[i + 1].n <= Len(I.cells)
        BY <1>3, <2>1, <4>1
      <4> DEFINE data == I.cells[i + 1].n  len == Len(I.cells)
      <4>4. i \in Nat /\ data \in Nat /\ len \in Nat /\ BufLen \in Nat
            /\ i + 1 + data <= len /\ len <= BufLen - 1 /\ buf'[i].n = data
        BY <1>2, <4>1, <4>2, <4>3
      <4> HIDE DEF data, len
      <4>5. QED
        BY <4>4
    <3>2. CASE ~(i < Cells(n))
      BY <1>4, <2>1, <3>2 DEF FbIInv, FbBuffer
    <3>3. QED
      BY <3>1, <3>2
  <2>2. buf'[BufLen - 1] = buf[BufLen - 1]
    BY <1>2, <1>4
  <2>3. QED
    BY <2>1, <2>2 DEF FbIInv, FbBuffer
<1>9. FbLoaded'
  <2>1. ASSUME loaded' # 0
        PROVE  /\ loaded' = expected /\ size' = I.size
               /\ \A i \in 0..(Len(I.cells) - 1) : i < BufLen - 1 /\ buf'[i] = I.cells[i + 1]
    BY <1>2, <1>4, <1>5, <2>1
  <2>2. QED
    BY <2>1 DEF FbLoaded, I
<1>10. FbPhase' /\ FbJob' /\ FbWalk'
  BY <1>1, <1>4 DEF FbPhase, FbJob, FbWalk
<1>11. Len(replies') \in {1, 2} /\ replies'[1] = "DATA"
  <2>1. Len(Append(<<"DATA">>, "OKAY")) = 2 /\ Append(<<"DATA">>, "OKAY")[1] = "DATA"
    OBVIOUS
  <2>2. QED
    BY <1>5, <2>1
<1>12. QED
  BY <1>7, <1>8, <1>9, <1>10, <1>11 DEF FbIInv

\* The image that was downloaded, seen from the buffer.
LEMMA FbHeader ==
  ASSUME FbIInv, loaded # 0
  PROVE  /\ loaded \in 1..Len(Images)
         /\ Images[loaded].sparse =>
              buf[0] = Cell("sparse", loaded, 0, Len(Images[loaded].chunks))
         /\ ~Images[loaded].sparse => \A i \in 0..(Cells(size) - 1) :
              buf[i] = Data(loaded, i)
<1> DEFINE I == Images[loaded]
<1>1. loaded \in 1..Len(Images)
  BY FbConstants DEF FbIInv, FastbootTypeOK
<1>2. /\ size = I.size /\ Len(I.cells) = Cells(I.size) /\ Len(I.cells) \in Nat
      /\ \A i \in 0..(Len(I.cells) - 1) : buf[i] = I.cells[i + 1]
  BY <1>1, FbImage DEF FbIInv, FbLoaded
<1>3. /\ I.sparse => Len(I.cells) > 0 /\ I.cells[1] = Cell("sparse", loaded, 0, Len(I.chunks))
      /\ ~I.sparse => \A j \in 1..Len(I.cells) : I.cells[j] = Data(loaded, j - 1)
  BY <1>1, FbConstants DEF ImageHolds
<1> HIDE DEF I
<1>4. I.sparse => buf[0] = I.cells[1]
  BY <1>2, <1>3
<1>5. ASSUME ~I.sparse, NEW i \in 0..(Cells(size) - 1) PROVE buf[i] = Data(loaded, i)
  <2>1. i \in 0..(Len(I.cells) - 1) /\ i + 1 \in 1..Len(I.cells) /\ (i + 1) - 1 = i
    BY <1>2
  <2>2. QED
    BY <1>2, <1>3, <1>5, <2>1
<1>6. QED
  BY <1>1, <1>3, <1>4, <1>5 DEF I

LEMMA FbFlash ==
  ASSUME FbIInv, NEW p, p.start \in Nat, p.length \in Nat, StartBlock(p) = p.start,
         cmd_flash(p)
  PROVE  FbIInv' /\ replies' \in {<<>>, <<"FAIL">>}
<1>1. /\ Reads /\ UNCHANGED <<expected, size, buf, disk, loaded>>
      /\ expected = 0 /\ cmds' = cmds + 1 /\ cmds < MaxCmds
  BY DEF cmd_flash, Reads
<1>2. CASE TooLarge(p) \/ OutputTooLarge(p)
  <2>1. state' = "STATE_COMPLETE" /\ replies' = <<"FAIL">> /\ UNCHANGED job
    BY <1>2, FbAnswers DEF cmd_flash
  <2>2. DOMAIN disk' = Addr /\ state' \in States
        /\ replies' \in Seq({"DATA", "OKAY", "FAIL"})
    BY <1>1, <2>1 DEF FbIInv, FastbootTypeOK, States
  <2>3. QED
    BY <1>1, <2>1, <2>2, FbTurn
<1>3. CASE ~(TooLarge(p) \/ OutputTooLarge(p))
  <2>1. /\ job' = [on |-> TRUE, sparse |-> buf[0].k = "sparse",
                   start |-> p.start, length |-> p.length,
                   todo |-> buf[0].n, src |-> 1, at |-> p.start, out |-> 0]
        /\ state' = "STATE_COMMAND" /\ replies' = <<>>
    BY <1>3 DEF cmd_flash
  <2>2. BufLen \in Nat \ {0} /\ size \in Nat /\ buf[0].n \in Nat
    <3>1. BufLen \in Nat \ {0} /\ buf \in [0..(BufLen - 1) -> CellOf]
      BY FbBufLen DEF FbIInv, FastbootTypeOK
    <3>2. buf[0] \in CellOf
      BY <3>1
    <3>3. size \in Nat
      BY FbConstants DEF FbIInv, FastbootTypeOK
    <3>4. QED
      BY <3>1, <3>2, <3>3 DEF CellOf
  <2>3. FastbootTypeOK'
    <3>1. job' \in Job
      BY <2>1, <2>2 DEF Job
    <3>2. replies' \in Seq({"DATA", "OKAY", "FAIL"})
      BY <2>1
    <3>3. QED
      BY <1>1, <2>1, <3>1, <3>2, FbConstants DEF FbIInv, FastbootTypeOK, States
  <2>4. FbPhase' /\ FbBuffer' /\ FbLoaded'
    BY <1>1, <2>1 DEF FbIInv, FbPhase, FbBuffer, FbLoaded
  <2>5. FbJob'
    <3>1. buf[0].k = "sparse" => BufLen > 1
      BY <2>2 DEF FbIInv, FbBuffer
    <3>2. p.length * BlkSize \in Nat
      BY FbTimes, <2>2
    <3>3. size <= p.length * BlkSize
      BY <1>3, <2>2, <3>2 DEF TooLarge
    <3>4. /\ job'.sparse = (buf[0].k = "sparse") /\ job'.start = p.start /\ job'.out = 0
          /\ job'.at = p.start /\ job'.src = 1 /\ job'.length = p.length
      BY <2>1, Zenon
    <3>5. job'.sparse => 1 \in 0..(BufLen - 1)
      <4>1. buf[0].k = "sparse" => 1 \in 0..(BufLen - 1)
        BY <2>2, <3>1
      <4>2. QED
        BY <3>4, <4>1, Zenon
    <3>6. job'.at = job'.start + job'.out /\ job'.out <= job'.length /\ job'.out = 0
      BY <3>4
    <3>7. QED
      BY <1>1, <3>3, <3>4, <3>5, <3>6 DEF FbJob
  <2>6. FbWalk'
    <3>1. ASSUME loaded # 0, Images[loaded].sparse
          PROVE  LET chunks == Images[loaded].chunks IN
                 /\ buf[0].n = Len(chunks) /\ Len(chunks) \in Nat
                 /\ Len(chunks) > 0 => chunks[1].off = 1 /\ chunks[1].blk = 0
      <4>1. loaded \in 1..Len(Images) /\ buf[0].n = Len(Images[loaded].chunks)
        BY <3>1, FbHeader DEF Cell
      <4>2. ImageHolds(loaded, Images[loaded]) /\ Len(Images[loaded].chunks) \in Nat
        BY <4>1, FbConstants, FbImage
      <4>3. Len(Images[loaded].chunks) > 0 =>
              Images[loaded].chunks[1].off = 1 /\ Images[loaded].chunks[1].blk = 0
        BY <3>1, <4>2 DEF ImageHolds
      <4>4. QED
        BY <4>1, <4>2, <4>3
    <3>2. job'.todo = buf[0].n /\ job'.src = 1 /\ job'.out = 0
      BY <2>1
    <3>3. SUFFICES ASSUME loaded # 0, Images[loaded].sparse
          PROVE  LET chunks == Images[loaded].chunks
                     done == Len(chunks) - job'.todo
                 IN  /\ done = 0
                     /\ job'.todo > 0 => /\ job'.src = chunks[done + 1].off
                                         /\ job'.out = chunks[done + 1].blk
      BY <1>1 DEF FbWalk
    <3>4. QED
      BY <3>1, <3>2, <3>3
  <2>7. QED
    BY <2>1, <2>3, <2>4, <2>5, <2>6 DEF FbIInv
<1>4. QED
  BY <1>2, <1>3

LEMMA FbErase ==
  ASSUME FbIInv, NEW p, cmd_erase(p)
  PROVE  FbIInv' /\ replies' \in {<<"OKAY">>, <<"FAIL">>}
<1>1. PICK ret : block_erase(StartBlock(p), EraseCount(p), ret)
                 /\ Answers(IF ret > 0 THEN 0 ELSE 1)
  BY DEF cmd_erase, flash_partition_erase
<1>2. state' = "STATE_COMPLETE" /\ replies' \in {<<"OKAY">>, <<"FAIL">>}
  BY <1>1, FbAnswers
<1>3. DOMAIN disk' = Addr
  <2> DEFINE Erased(x) ==
        IF StartBlock(p) <= x /\ x < StartBlock(p) + ret THEN Blank ELSE disk[x]
  <2>1. disk' = [x \in Addr |-> Erased(x)]
    BY <1>1, Zenon DEF block_erase
  <2> HIDE DEF Erased
  <2>2. QED
    BY <2>1
<1>4. replies' \in Seq({"DATA", "OKAY", "FAIL"}) /\ state' \in States
  <2>1. <<"OKAY">> \in Seq({"DATA", "OKAY", "FAIL"}) /\ <<"FAIL">> \in Seq({"DATA", "OKAY", "FAIL"})
    OBVIOUS
  <2>2. QED
    BY <1>2, <2>1, Zenon DEF States
<1>5. Reads /\ UNCHANGED <<expected, size, buf, job, loaded>>
  BY DEF cmd_erase
<1>6. QED
  BY <1>2, <1>3, <1>4, <1>5, FbTurn

LEMMA FbRaw ==
  ASSUME FbIInv, WriteRaw
  PROVE  /\ FbIInv' /\ job.on /\ ~job.sparse /\ replies' \in {<<"OKAY">>, <<"FAIL">>}
         /\ \A x \in Addr : disk'[x] # disk[x] =>
              job.start <= x /\ x < job.start + RawBlocks(size)
         /\ replies' = <<"OKAY">> => \A j \in 0..(RawBlocks(size) - 1) :
              disk'[job.start + j] = buf[j]
<1> DEFINE blks == RawBlocks(size)
<1>1. PICK ret \in {0, blks} :
        block_write(job.start, blks, 0, ret) /\ Ends(IF ret > 0 THEN 0 ELSE 1)
  <2>1. job.at = job.start + job.out /\ job.out = 0 /\ job.start \in Nat
    BY DEF WriteRaw, FbIInv, FbJob, FastbootTypeOK, Job
  <2>2. job.at = job.start
    BY <2>1
  <2>3. QED
    BY <2>2 DEF WriteRaw
<1>2. size \in Nat /\ job.start \in Nat /\ Lba \in Nat /\ job.on /\ ~job.sparse
  BY FbConstants DEF WriteRaw, FbIInv, FastbootTypeOK, Job
<1>3. blks \in Nat \ {0}
  <2>1. size <= size
    BY <1>2
  <2>2. QED
    BY <1>2, <2>1, FbCells
<1> HIDE DEF blks
<1>4. /\ DOMAIN disk' = Addr
      /\ \A x \in Addr : disk'[x] # disk[x] => job.start <= x /\ x < job.start + blks
      /\ ret = blks => \A j \in 0..(blks - 1) : disk'[job.start + j] = buf[0 + j]
  <2> DEFINE b == job.start  src == 0
  <2>1. /\ b \in Nat /\ src \in Nat /\ blks \in Nat /\ ret \in {0, blks} /\ Lba \in Nat
        /\ block_write(b, blks, src, ret)
    BY <1>1, <1>2, <1>3
  <2> HIDE DEF b, src
  <2>2. DOMAIN disk' = Addr
    BY <2>1, FbWrite
  <2>3. \A x \in Addr : disk'[x] # disk[x] => b <= x /\ x < b + blks
    BY <2>1, FbWrite
  <2>4. ASSUME ret = blks, NEW j \in 0..(blks - 1) PROVE disk'[b + j] = buf[src + j]
    BY <2>1, <2>4, FbWrite
  <2>5. QED
    BY <2>2, <2>3, <2>4 DEF b, src
<1>5. FbIInv' /\ replies' = <<IF (IF ret > 0 THEN 0 ELSE 1) = 0 THEN "OKAY" ELSE "FAIL">>
  <2>1. UNCHANGED <<expected, size, buf, cmds, loaded>>
    BY DEF WriteRaw
  <2>2. QED
    BY <1>1, <1>2, <1>4, <2>1, FbEnd
<1>6. \/ ret = blks /\ replies' = <<"OKAY">>
      \/ replies' = <<"FAIL">>
  BY <1>1, <1>3, <1>5
<1>7. <<"FAIL">> # <<"OKAY">>
  OBVIOUS
<1>8. ASSUME ret = blks, NEW j \in 0..(blks - 1) PROVE disk'[job.start + j] = buf[j]
  <2>1. 0 + j = j
    BY <1>3
  <2>2. QED
    BY <1>4, <1>8, <2>1
<1>9. QED
  BY <1>2, <1>4, <1>5, <1>6, <1>7, <1>8 DEF blks

LEMMA FbDone ==
  ASSUME FbIInv, ChunksDone
  PROVE  FbIInv' /\ replies' = <<"OKAY">> /\ UNCHANGED disk /\ job.on /\ job.sparse /\ job.todo = 0
<1>1. /\ Ends(0) /\ job.on /\ UNCHANGED <<expected, size, buf, disk, cmds, loaded>>
      /\ job.sparse /\ job.todo = 0
  BY DEF ChunksDone
<1>2. DOMAIN disk' = Addr
  BY <1>1 DEF FbIInv, FastbootTypeOK
<1>3. QED
  BY <1>1, <1>2, FbEnd

\* A chunk that is passed: the walk goes on, with the chunk on the device if it is RAW.
LEMMA FbPassed ==
  ASSUME FbIInv, job.on, job.sparse, job.todo > 0, ~BadChunk(buf[job.src]),
         job' = Passed(buf[job.src]),
         UNCHANGED <<expected, size, buf, cmds, loaded, state, replies>>,
         DOMAIN disk' = Addr,
         \A x \in Addr : disk'[x] # disk[x] => job.at <= x,
         buf[job.src].k = "raw" => \A j \in 0..(buf[job.src].n - 1) :
           job.at + j \in Addr /\ disk'[job.at + j] = buf[job.src + 1 + j]
  PROVE  FbIInv'
<1> DEFINE c == buf[job.src]
           len == IF c.k = "raw" THEN c.n ELSE 0
<1>1. /\ BufLen \in Nat \ {0} /\ buf \in [0..(BufLen - 1) -> CellOf]
      /\ job \in Job /\ job.src \in 0..(BufLen - 1) /\ expected = 0
  BY FbBufLen DEF FbIInv, FastbootTypeOK, FbJob, FbPhase
<1>2. c \in CellOf /\ c.n \in Nat
  BY <1>1 DEF CellOf
<1>5. /\ job.start \in Nat /\ job.length \in Nat /\ job.todo \in Nat /\ job.src \in Nat
      /\ job.at \in Nat /\ job.out \in Nat /\ job.at = job.start + job.out
  BY <1>1 DEF Job, FbIInv, FbJob
<1>3. c.k \in {"raw", "dont_care"} /\ job.out + c.n <= job.length
  <2>1. ~(job.out + c.n > job.length) /\ c.k \in {"raw", "dont_care"}
    BY Zenon DEF BadChunk
  <2> HIDE DEF c
  <2>2. QED
    BY <1>2, <1>5, <2>1
<1>4. /\ job.src + 1 + len \in 0..(BufLen - 1)
      /\ c.k = "raw" => job.src + c.n <= BufLen - 2
  <2>1. c.k = "raw" => job.src + c.n <= BufLen - 2
    BY <1>1 DEF FbIInv, FbBuffer
  <2>2. job.src # BufLen - 1
    BY <1>3 DEF FbIInv, FbBuffer
  <2>3. QED
    BY <1>1, <1>2, <2>1, <2>2
<1>6. /\ job'.on = job.on /\ job'.sparse = job.sparse /\ job'.start = job.start
      /\ job'.length = job.length /\ job'.todo = job.todo - 1 /\ job'.out = job.out + c.n
      /\ job'.at = job.at + c.n /\ job'.src = job.src + 1 + len /\ job' \in Job
  <2>1. job' = [job EXCEPT !.todo = job.todo - 1, !.out = job.out + c.n,
                           !.at = job.at + c.n, !.src = job.src + 1 + len]
    BY Zenon DEF Passed
  <2>2. job.todo - 1 \in Nat /\ job.out + c.n \in Nat /\ job.at + c.n \in Nat
        /\ job.src + 1 + len \in Nat
    BY <1>2, <1>5
  <2> HIDE DEF c, len
  <2>3. QED
    BY <1>1, <2>1, <2>2 DEF Job
<1>7. FastbootTypeOK' /\ FbPhase' /\ FbBuffer' /\ FbLoaded'
  <2>1. FastbootTypeOK'
    BY <1>6 DEF FbIInv, FastbootTypeOK
  <2>2. FbPhase'
    BY <1>1, <1>6 DEF FbIInv, FbPhase
  <2>3. FbBuffer' /\ FbLoaded'
    BY DEF FbIInv, FbBuffer, FbLoaded
  <2>4. QED
    BY <2>1, <2>2, <2>3
<1>8. FbJob'
  <2>1. job'.at = job'.start + job'.out /\ job'.src \in 0..(BufLen - 1)
        /\ job'.out <= job'.length
    <3> HIDE DEF c, len
    <3>1. job'.at = job'.start + job'.out
      BY <1>2, <1>5, <1>6
    <3>2. job'.src \in 0..(BufLen - 1)
      BY <1>4, <1>6
    <3>3. job'.out <= job'.length
      BY <1>3, <1>6
    <3>4. QED
      BY <3>1, <3>2, <3>3
  <2>2. job'.sparse /\ job'.sparse = (buf'[0].k = "sparse")
    <3>1. job.sparse = (buf[0].k = "sparse")
      BY Zenon DEF FbIInv, FbJob
    <3>2. QED
      BY <1>6, <3>1, Zenon
  <2>3. QED
    BY <2>1, <2>2 DEF FbJob
<1>9. FbWalk'
  <2> SUFFICES ASSUME loaded # 0, Images[loaded].sparse
               PROVE  FbWalk'
    BY DEF FbWalk
  <2> DEFINE chunks == Images[loaded].chunks
             cells == Images[loaded].cells
             done == Len(chunks) - job.todo
             ch == chunks[done + 1]
  <2>1. /\ loaded \in 1..Len(Images) /\ Len(chunks) \in Nat /\ Len(cells) \in Nat
        /\ \A d \in 1..Len(chunks) :
             chunks[d].n \in Nat /\ chunks[d].off \in Nat /\ chunks[d].blk \in Nat
    <3> DEFINE T == [kind : Kinds, n : Nat, off : Nat, blk : Nat]
    <3>1. loaded \in 1..Len(Images)
      BY FbHeader
    <3>2. chunks \in Seq(T) /\ cells \in Seq(CellOf)
      BY <3>1, FbImage
    <3> HIDE DEF chunks, cells, T
    <3>3. \A d \in 1..Len(chunks) : chunks[d] \in T
      BY <3>2
    <3>4. Len(chunks) \in Nat /\ Len(cells) \in Nat
      BY <3>2
    <3>5. QED
      BY <3>1, <3>3, <3>4 DEF T
  <2>2. /\ done >= 0
        /\ job.src = chunks[done + 1].off /\ job.out = chunks[done + 1].blk
        /\ \A d \in 1..done :
             /\ chunks[d].blk + chunks[d].n <= job.out
             /\ \A j \in 0..(RawLen(chunks[d]) - 1) :
                  /\ job.start + chunks[d].blk + j \in Addr
                  /\ disk[job.start + chunks[d].blk + j] = Data(loaded, chunks[d].blk + j)
    BY Zenon DEF FbIInv, FbWalk
  <2> HIDE DEF chunks, cells, done
  <2>21. done \in Nat /\ done + 1 \in 1..Len(chunks) /\ job.src = ch.off /\ job.out = ch.blk
    <3>1. job.src = ch.off /\ job.out = ch.blk
      BY <2>2, Zenon
    <3>2. done >= 0 /\ Len(chunks) \in Nat /\ job.todo \in Nat /\ job.todo > 0
      BY <1>5, <2>1, <2>2, Zenon
    <3>3. done \in Nat /\ done + 1 \in 1..Len(chunks)
      BY <3>2 DEF done
    <3>4. QED
      BY <3>1, <3>3, Zenon
  <2>20. ImageHolds(loaded, Images[loaded])
    BY <2>1, FbConstants
  <2>3. /\ ch.off + 1 + RawLen(ch) <= Len(cells)
        /\ cells[ch.off + 1] = Cell(ch.kind, loaded, done + 1, ch.n)
        /\ \A j \in 1..RawLen(ch) : cells[ch.off + 1 + j] = Data(loaded, ch.blk + j - 1)
    BY <2>21, <2>20, Zenon DEF ImageHolds, chunks, cells
  <2>4. done + 2 <= Len(chunks) => Follows(chunks[done + 2], ch)
    <3>1. \A d \in 1..Len(chunks) : d # 1 => Follows(chunks[d], chunks[d - 1])
      BY <2>20, Zenon DEF ImageHolds, chunks
    <3>2. done + 2 <= Len(chunks) =>
            done + 2 \in 1..Len(chunks) /\ done + 2 # 1 /\ (done + 2) - 1 = done + 1
      BY <2>1, <2>21
    <3>3. QED
      BY <3>1, <3>2
  <2>5. \A i \in 0..(Len(cells) - 1) : buf[i] = cells[i + 1]
    BY DEF FbIInv, FbLoaded, cells
  <2>6. ch.n \in Nat /\ ch.off \in Nat /\ ch.blk \in Nat /\ RawLen(ch) \in Nat
    BY <2>1, <2>21 DEF RawLen
  <2> HIDE DEF ch
  <2>7. c = Cell(ch.kind, loaded, done + 1, ch.n)
    <3>1. ch.off \in 0..(Len(cells) - 1)
      BY <2>1, <2>3, <2>6
    <3>2. QED
      BY <2>21, <2>3, <2>5, <3>1
  <2>8. c.k = ch.kind /\ c.n = ch.n /\ len = RawLen(ch)
    BY <2>7 DEF Cell, RawLen
  <2> HIDE DEF c, len
  <2>9. /\ Len(chunks) - job'.todo = done + 1
        /\ job'.out = ch.blk + ch.n /\ job'.src = ch.off + 1 + RawLen(ch)
        /\ job.at = job.start + ch.blk
    <3>1. Len(chunks) - (job.todo - 1) = done + 1
      BY <1>5, <2>1 DEF done
    <3>2. job'.out = ch.blk + ch.n /\ job'.src = ch.off + 1 + RawLen(ch)
          /\ job'.todo = job.todo - 1
      BY <1>6, <2>21, <2>8, Zenon
    <3>3. job.at = job.start + ch.blk
      BY <1>5, <2>21, Zenon
    <3>4. QED
      BY <3>1, <3>2, <3>3, Zenon
  <2>10. job'.todo > 0 => job'.src = chunks[done + 2].off /\ job'.out = chunks[done + 2].blk
    <3>1. ASSUME job'.todo > 0
          PROVE  done + 2 <= Len(chunks)
      <4>1. Len(chunks) \in Nat /\ done \in Nat /\ job'.todo = Len(chunks) - (done + 1)
        <5>1. Len(chunks) \in Nat /\ done \in Nat /\ job.todo \in Nat /\ job'.todo = job.todo - 1
          BY <1>5, <1>6, <2>1, <2>21, Zenon
        <5> DEFINE todo == job.todo  todoNext == job'.todo  max == Len(chunks)
        <5>2. /\ done = max - todo /\ max \in Nat /\ todo \in Nat /\ done \in Nat
              /\ todoNext = todo - 1
          BY <5>1 DEF done
        <5> HIDE DEF todo, todoNext, max
        <5>3. todoNext = max - (done + 1)
          BY <5>2
        <5>4. QED
          BY <5>1, <5>3 DEF todoNext, max
      <4> DEFINE todo == job'.todo  max == Len(chunks)
      <4>2. todo > 0 /\ todo = max - (done + 1) /\ max \in Nat /\ done \in Nat
        BY <3>1, <4>1
      <4> HIDE DEF todo, max
      <4>3. done + 2 <= max
        BY <4>2
      <4>4. QED
        BY <4>3 DEF max
    <3>2. Follows(chunks[done + 2], ch) =>
            job'.src = chunks[done + 2].off /\ job'.out = chunks[done + 2].blk
      BY <2>9, Zenon DEF Follows
    <3>3. QED
      BY <2>4, <3>1, <3>2, Zenon
  <2>11. ASSUME NEW j \in 0..(RawLen(ch) - 1)
         PROVE  /\ job.start + ch.blk + j \in Addr
                /\ disk'[job.start + ch.blk + j] = Data(loaded, ch.blk + j)
    <3>1. c.k = "raw" /\ c.n = RawLen(ch)
      BY <2>8 DEF RawLen
    <3>2. job.at + j \in Addr /\ disk'[job.at + j] = buf[job.src + 1 + j]
      BY <3>1 DEF c
    <3>3. job.src + 1 + j \in 0..(Len(cells) - 1) /\ j + 1 \in 1..RawLen(ch)
          /\ (job.src + 1 + j) + 1 = ch.off + 1 + (j + 1) /\ ch.blk + (j + 1) - 1 = ch.blk + j
      <4>1. ch.off + 1 + RawLen(ch) <= Len(cells) /\ job.src = ch.off
        BY <2>21, <2>3
      <4>2. Len(cells) \in Nat
        BY <2>1
      <4> HIDE DEF cells
      <4>3. j \in Nat /\ j + 1 <= RawLen(ch)
        BY <2>6
      <4> DEFINE raw == RawLen(ch)
                 off == ch.off
                 blk == ch.blk
      <4>4. /\ raw \in Nat /\ off \in Nat /\ blk \in Nat /\ off + 1 + raw <= Len(cells)
            /\ j + 1 <= raw /\ job.src = off
        BY <2>6, <4>1, <4>3, Zenon
      <4> HIDE DEF raw, off, blk
      <4>5. off + 1 + j \in 0..(Len(cells) - 1) /\ j + 1 \in 1..raw
            /\ (off + 1 + j) + 1 = off + 1 + (j + 1) /\ blk + (j + 1) - 1 = blk + j
        BY <4>2, <4>3, <4>4
      <4>6. QED
        BY <4>4, <4>5, Zenon DEF raw, off, blk
    <3>4. buf[job.src + 1 + j] = Data(loaded, ch.blk + j)
      BY <2>3, <2>5, <3>3
    <3>5. job.at + j = job.start + ch.blk + j
      BY <2>9
    <3>6. QED
      BY <3>2, <3>4, <3>5
  <2>12. ASSUME NEW d \in 1..done
         PROVE  /\ chunks[d].blk + chunks[d].n <= job'.out
                /\ \A j \in 0..(RawLen(chunks[d]) - 1) :
                     /\ job.start + chunks[d].blk + j \in Addr
                     /\ disk'[job.start + chunks[d].blk + j] = Data(loaded, chunks[d].blk + j)
    <3>1. /\ chunks[d].blk \in Nat /\ chunks[d].n \in Nat
          /\ chunks[d].blk + chunks[d].n <= job.out
          /\ RawLen(chunks[d]) \in Nat /\ RawLen(chunks[d]) <= chunks[d].n
      BY <2>1, <2>2, <2>21 DEF RawLen
    <3>2. ASSUME NEW j \in 0..(RawLen(chunks[d]) - 1)
          PROVE  /\ job.start + chunks[d].blk + j \in Addr
                 /\ disk'[job.start + chunks[d].blk + j] = Data(loaded, chunks[d].blk + j)
      <4>1. /\ job.start + chunks[d].blk + j \in Addr
            /\ disk[job.start + chunks[d].blk + j] = Data(loaded, chunks[d].blk + j)
        BY <2>2
      <4>2. ~(job.at <= job.start + chunks[d].blk + j)
        <5> DEFINE blk == chunks[d].blk
                   n == chunks[d].n
                   raw == RawLen(chunks[d])
        <5>1. blk \in Nat /\ n \in Nat /\ raw \in Nat /\ raw <= n /\ blk + n <= job.out
              /\ j \in 0..(raw - 1)
          BY <3>1
        <5> HIDE DEF blk, n, raw
        <5>2. ~(job.at <= job.start + blk + j)
          BY <1>5, <5>1
        <5>3. QED
          BY <5>2 DEF blk
      <4>3. QED
        BY <4>1, <4>2
    <3>3. QED
      BY <1>2, <1>5, <1>6, <3>1, <3>2
  <2>13. ASSUME NEW d \in 1..(done + 1)
         PROVE  /\ chunks[d].blk + chunks[d].n <= job'.out
                /\ \A j \in 0..(RawLen(chunks[d]) - 1) :
                     /\ job.start + chunks[d].blk + j \in Addr
                     /\ disk'[job.start + chunks[d].blk + j] = Data(loaded, chunks[d].blk + j)
    <3>1. CASE d \in 1..done
      BY <2>12, <3>1
    <3>2. CASE d = done + 1
      BY <2>6, <2>9, <2>11, <3>2 DEF ch
    <3>3. QED
      BY <2>21, <3>1, <3>2
  <2>14. done + 1 >= 0 /\ (done + 1) + 1 = done + 2
    BY <2>21
  <2>15. job'.start = job.start /\ loaded' = loaded
    BY <1>6
  <2>16. QED
    <3>1. /\ Len(chunks) - job'.todo >= 0
          /\ job'.todo > 0 => /\ job'.src = chunks[(Len(chunks) - job'.todo) + 1].off
                              /\ job'.out = chunks[(Len(chunks) - job'.todo) + 1].blk
      BY <2>9, <2>10, <2>14, Zenon
    <3>2. \A d \in 1..(Len(chunks) - job'.todo) :
            /\ chunks[d].blk + chunks[d].n <= job'.out
            /\ \A j \in 0..(RawLen(chunks[d]) - 1) :
                 /\ job'.start + chunks[d].blk + j \in Addr
                 /\ disk'[job'.start + chunks[d].blk + j] = Data(loaded, chunks[d].blk + j)
      BY <2>9, <2>13, <2>15
    <3> DEFINE Walked(im) ==
          LET chks == Images[im].chunks
              dn == Len(chks) - job'.todo
          IN  /\ dn >= 0
              /\ job'.todo > 0 => job'.src = chks[dn + 1].off /\ job'.out = chks[dn + 1].blk
              /\ \A d \in 1..dn :
                   /\ chks[d].blk + chks[d].n <= job'.out
                   /\ \A j \in 0..(RawLen(chks[d]) - 1) :
                        /\ job'.start + chks[d].blk + j \in Addr
                        /\ disk'[job'.start + chks[d].blk + j] = Data(im, chks[d].blk + j)
    <3>3. Walked(loaded)
      BY <3>1, <3>2, Zenon DEF chunks
    <3>4. Walked(loaded')
      <4> HIDE DEF Walked
      <4>1. QED
        BY <2>15, <3>3
    <3>5. QED
      BY <3>4, Zenon DEF FbWalk
<1>10. QED
  BY <1>7, <1>8, <1>9 DEF FbIInv

LEMMA FbChunk ==
  ASSUME FbIInv, WriteChunk
  PROVE  /\ FbIInv' /\ job.on /\ job.sparse /\ replies' \in {<<>>, <<"FAIL">>}
         /\ \A x \in Addr : disk'[x] # disk[x] =>
              job.start <= x /\ x < job.start + job.length
<1> DEFINE c == buf[job.src]
<1>1. /\ job.on /\ job.sparse /\ job.todo > 0 /\ UNCHANGED <<expected, size, buf, cmds, loaded>>
      /\ \/ BadChunk(c) /\ Ends(1) /\ UNCHANGED disk
         \/ /\ ~BadChunk(c) /\ c.k = "dont_care"
            /\ job' = Passed(c) /\ UNCHANGED <<disk, state, replies>>
         \/ /\ ~BadChunk(c) /\ c.k = "raw"
            /\ \E ret \in {0, c.n} :
                 /\ block_write(job.at, c.n, job.src + 1, ret)
                 /\ IF ret = c.n THEN job' = Passed(c) /\ UNCHANGED <<state, replies>>
                    ELSE Ends(1)
  BY Zenon DEF WriteChunk
<1>2. /\ DOMAIN disk = Addr /\ replies = <<>> /\ Lba \in Nat
      /\ job.start \in Nat /\ job.length \in Nat /\ job.at \in Nat /\ job.out \in Nat
      /\ job.src \in Nat /\ job.at = job.start + job.out
  BY <1>1, FbConstants DEF FbIInv, FastbootTypeOK, Job, FbPhase, FbJob
<1>3. c.n \in Nat
  <2>1. /\ buf \in [0..(BufLen - 1) -> CellOf] /\ job.src \in 0..(BufLen - 1)
    BY <1>1 DEF FbIInv, FastbootTypeOK, FbJob
  <2>2. c \in CellOf
    BY <2>1
  <2>3. QED
    BY <2>2 DEF CellOf
<1>4. CASE BadChunk(c) /\ Ends(1) /\ UNCHANGED disk
  BY <1>1, <1>2, <1>4, FbEnd
<1>5. CASE /\ ~BadChunk(c) /\ c.k = "dont_care"
           /\ job' = Passed(c) /\ UNCHANGED <<disk, state, replies>>
  <2>1. c.k # "raw" /\ DOMAIN disk' = Addr /\ \A x \in Addr : disk'[x] = disk[x]
    BY <1>2, <1>5
  <2>2. FbIInv'
    BY <1>1, <1>5, <2>1, FbPassed
  <2>3. QED
    BY <1>1, <1>2, <1>5, <2>1, <2>2
<1>6. CASE /\ ~BadChunk(c) /\ c.k = "raw"
           /\ \E ret \in {0, c.n} :
                /\ block_write(job.at, c.n, job.src + 1, ret)
                /\ IF ret = c.n THEN job' = Passed(c) /\ UNCHANGED <<state, replies>>
                   ELSE Ends(1)
  <2>1. PICK ret \in {0, c.n} :
          /\ block_write(job.at, c.n, job.src + 1, ret)
          /\ IF ret = c.n THEN job' = Passed(c) /\ UNCHANGED <<state, replies>>
             ELSE Ends(1)
    BY <1>6
  <2>2. job.src + 1 \in Nat
    BY <1>2
  <2> HIDE DEF c
  <2>3. /\ DOMAIN disk' = Addr
        /\ \A x \in Addr : disk'[x] # disk[x] => job.at <= x /\ x < job.at + c.n
        /\ ret = c.n => \A j \in 0..(c.n - 1) :
             job.at + j \in Addr /\ disk'[job.at + j] = buf[job.src + 1 + j]
    <3> DEFINE b == job.at  m == c.n  src == job.src + 1
    <3>1. b \in Nat /\ m \in Nat /\ src \in Nat /\ ret \in {0, m} /\ Lba \in Nat
      BY <1>2, <1>3, <2>2
    <3>2. block_write(b, m, src, ret)
      BY <2>1
    <3> HIDE DEF b, m, src
    <3>3. DOMAIN disk' = Addr
      BY <3>1, <3>2, FbWrite
    <3>4. \A x \in Addr : disk'[x] # disk[x] => b <= x /\ x < b + m
      BY <3>1, <3>2, FbWrite
    <3>5. ASSUME ret = m, NEW j \in 0..(m - 1)
          PROVE  b + j \in Addr /\ disk'[b + j] = buf[src + j]
      BY <3>1, <3>2, <3>5, FbWrite
    <3>6. QED
      BY <3>3, <3>4, <3>5 DEF b, m, src
  <2>4. job.out + c.n <= job.length
    <3>1. ~(job.out + c.n > job.length)
      BY <1>6, Zenon DEF BadChunk
    <3>2. QED
      BY <1>2, <1>3, <3>1
  <2>5. ASSUME NEW x \in Addr, disk'[x] # disk[x]
        PROVE  job.start <= x /\ x < job.start + job.length
    <3>1. job.at <= x /\ x < job.at + c.n /\ x \in Nat
      BY <1>2, <2>3, <2>5 DEF Addr
    <3>2. QED
      BY <1>2, <1>3, <2>4, <3>1
  <2>6. CASE ret = c.n
    <3>1. job' = Passed(c) /\ UNCHANGED <<state, replies>>
      BY <2>1, <2>6
    <3>2. FbIInv'
      BY <1>1, <1>6, <2>3, <2>6, <3>1, FbPassed DEF c
    <3>3. QED
      BY <1>1, <1>2, <2>5, <3>1, <3>2
  <2>7. CASE ret # c.n
    <3>1. Ends(1)
      BY <2>1, <2>7
    <3>2. FbIInv' /\ replies' = <<"FAIL">>
      BY <1>1, <2>3, <3>1, FbEnd
    <3>3. QED
      BY <1>1, <2>5, <3>2
  <2>8. QED
    BY <2>6, <2>7
<1>7. QED
  BY <1>1, <1>4, <1>5, <1>6, Zenon

\* A command that has no handler, or whose handler does nothing but answer.
LEMMA FbSimple ==
  ASSUME FbIInv,
         \/ cmd_simple \/ UnknownCommand
         \/ \E name \in Names : NotFound(name)
  PROVE  FbIInv' /\ Len(replies') <= 1 /\ Len(replies') \in Nat /\ ~job.on /\ UNCHANGED disk
<1>1. /\ Reads /\ ~job.on /\ UNCHANGED <<expected, size, buf, disk, job, loaded>>
  BY DEF cmd_simple, UnknownCommand, NotFound, Reads
<1>2. /\ state' \in States
      /\ replies' = <<>> \/ replies' = <<"OKAY">> \/ replies' = <<"FAIL">>
  <2>1. CASE cmd_simple
    <3>1. Answers(0)
      BY <2>1 DEF cmd_simple
    <3>2. QED
      BY <3>1, FbAnswers DEF States
  <2>2. CASE UnknownCommand
    <3>1. /\ Append(<<>>, "FAIL") = <<"FAIL">>
          /\ state \in {"STATE_OFFLINE", "STATE_COMMAND", "STATE_COMPLETE", "STATE_ERROR"}
      BY DEF FbIInv, FastbootTypeOK, States
    <3>2. QED
      BY <2>2, <3>1 DEF UnknownCommand, EndTurn, fastboot_ack, States
  <2>3. CASE \E name \in Names : NotFound(name)
    <3>1. Answers(1)
      BY <2>3 DEF NotFound
    <3>2. QED
      BY <3>1, FbAnswers DEF States
  <2>4. QED
    BY <2>1, <2>2, <2>3
<1>3. replies' \in Seq({"DATA", "OKAY", "FAIL"}) /\ Len(replies') <= 1 /\ Len(replies') \in Nat
  <2>1. CASE replies' = <<>>
    BY <2>1
  <2>2. CASE replies' = <<"OKAY">>
    BY <2>2
  <2>3. CASE replies' = <<"FAIL">>
    BY <2>3
  <2>4. QED
    BY <1>2, <2>1, <2>2, <2>3
<1>4. DOMAIN disk' = Addr
  BY <1>1 DEF FbIInv, FastbootTypeOK
<1>5. QED
  BY <1>1, <1>2, <1>3, <1>4, FbTurn

\* Every step is one of these.
LEMMA FbSteps ==
  ASSUME fastboot_command_loop
  PROVE  \/ cmd_simple \/ UnknownCommand \/ \E name \in Names : NotFound(name)
         \/ cmd_reboot
         \/ \E im \in 1..Len(Images) : cmd_download(im)
         \/ expected # 0 /\ \E n \in 0..Images[expected].size : DownloadData(n)
         \/ \E name \in Names : \E p \in Found(name) : cmd_flash(p) \/ cmd_erase(p)
         \/ WriteRaw \/ WriteChunk \/ ChunksDone
  BY Zenon DEF fastboot_command_loop

\* Every step keeps the invariant.
LEMMA FbStep ==
  ASSUME FbIInv, fastboot_command_loop
  PROVE  FbIInv'
<1>1. CASE cmd_simple \/ UnknownCommand \/ \E name \in Names : NotFound(name)
  BY <1>1, FbSimple
<1>2. CASE cmd_reboot
  BY <1>2, FbReboot
<1>3. CASE \E im \in 1..Len(Images) : cmd_download(im)
  BY <1>3, FbDownload
<1>4. CASE expected # 0 /\ \E n \in 0..Images[expected].size : DownloadData(n)
  BY <1>4, FbDownloadData
<1>5. CASE \E name \in Names : \E p \in Found(name) : cmd_flash(p) \/ cmd_erase(p)
  BY <1>5, FbPart, FbFlash, FbErase
<1>6. CASE WriteRaw
  BY <1>6, FbRaw
<1>7. CASE WriteChunk
  BY <1>7, FbChunk
<1>8. CASE ChunksDone
  BY <1>8, FbDone
<1>9. QED
  BY <1>1, <1>2, <1>3, <1>4, <1>5, <1>6, <1>7, <1>8, FbSteps

LEMMA FbStutter ==
  ASSUME FbIInv, UNCHANGED FastbootVars
  PROVE  FbIInv'
<1>1. UNCHANGED <<state, expected, size, buf, disk, job, replies, cmds, loaded>>
  BY DEF FastbootVars
<1>2. QED
  BY <1>1 DEF FbIInv, FastbootTypeOK, FbPhase, FbBuffer, FbLoaded, FbJob, FbWalk, Fits

THEOREM FbInvariant == FastbootSpec => []FbIInv
<1>1. fastboot_init => FbIInv
  BY FbInit
<1>2. FbIInv /\ [fastboot_command_loop]_FastbootVars => FbIInv'
  BY FbStep, FbStutter
<1>3. QED
  BY <1>1, <1>2, PTL DEF FastbootSpec

-----------------------------------------------------------------------------
(***************************************************************************)
(* Theorems about fastboot.                                                *)
(***************************************************************************)

\* Every variable of the gadget stays in its range, whatever is downloaded in
\* whatever order: download_size below download_max, the walk through a sparse
\* image within the buffer.
THEOREM FastbootTyped == FastbootSpec => []FastbootTypeOK
<1>1. FbIInv => FastbootTypeOK
  BY DEF FbIInv
<1>2. QED
  BY <1>1, FbInvariant, PTL

\* OneVerdict is kept by every step from a state that satisfies the invariant.
LEMMA FbVerdictKept ==
  ASSUME FbIInv, fastboot_command_loop, OneVerdict
  PROVE  OneVerdict'
<1>1. /\ Len(replies') \in {0, 1} => OneVerdict'
      /\ Len(replies') \in {1, 2} /\ replies'[1] = "DATA" => OneVerdict'
  BY DEF OneVerdict
<1>2. Len(<<>>) = 0 /\ Len(<<"OKAY">>) = 1 /\ Len(<<"FAIL">>) = 1
  OBVIOUS
<1>3. CASE cmd_simple \/ UnknownCommand \/ \E name \in Names : NotFound(name)
  <2>1. Len(replies') <= 1 /\ Len(replies') \in Nat
    BY <1>3, FbSimple
  <2>2. Len(replies') \in {0, 1}
    BY <2>1
  <2>3. QED
    BY <1>1, <2>2
<1>4. CASE cmd_reboot
  <2>1. Len(replies') \in {0, 1}
    BY <1>2, <1>4, FbReboot
  <2>2. QED
    BY <1>1, <2>1
<1>5. CASE \E im \in 1..Len(Images) : cmd_download(im)
  <2>1. Len(replies') \in {0, 1}
    BY <1>5, FbDownload
  <2>2. QED
    BY <1>1, <2>1
<1>6. CASE expected # 0 /\ \E n \in 0..Images[expected].size : DownloadData(n)
  <2>1. Len(replies') \in {1, 2} /\ replies'[1] = "DATA"
    BY <1>6, FbDownloadData
  <2>2. QED
    BY <1>1, <2>1
<1>7. CASE \E name \in Names : \E p \in Found(name) : cmd_flash(p) \/ cmd_erase(p)
  <2>1. replies' \in {<<>>, <<"OKAY">>, <<"FAIL">>}
    BY <1>7, FbPart, FbFlash, FbErase
  <2>2. Len(replies') \in {0, 1}
    BY <1>2, <2>1, Zenon
  <2>3. QED
    BY <1>1, <2>2
<1>8. CASE WriteRaw \/ WriteChunk \/ ChunksDone
  <2>1. replies' \in {<<>>, <<"OKAY">>, <<"FAIL">>}
    BY <1>8, FbRaw, FbChunk, FbDone
  <2>2. Len(replies') \in {0, 1}
    BY <1>2, <2>1, Zenon
  <2>3. QED
    BY <1>1, <2>2
<1>9. QED
  BY <1>3, <1>4, <1>5, <1>6, <1>7, <1>8, FbSteps

\* A command gets at most one of OKAY and FAIL.
THEOREM FastbootAnswersOnce == FastbootSpec => []OneVerdict
<1>1. fastboot_init => OneVerdict
  BY DEF fastboot_init, OneVerdict
<1>2. FbIInv /\ OneVerdict /\ [fastboot_command_loop]_FastbootVars => OneVerdict'
  <2>1. ASSUME OneVerdict, UNCHANGED FastbootVars PROVE OneVerdict'
    BY <2>1 DEF OneVerdict, FastbootVars
  <2>2. QED
    BY <2>1, FbVerdictKept
<1>3. QED
  BY <1>1, <1>2, FbInvariant, PTL DEF FastbootSpec

\* While a flash command is under way only its writes happen.
LEMMA FbWritesOnly ==
  ASSUME FbIInv, fastboot_command_loop, job.on
  PROVE  WriteRaw \/ WriteChunk \/ ChunksDone
<1>1. expected = 0
  BY DEF FbIInv, FbPhase
<1>2. ~Reads
  BY DEF Reads
<1>3. QED
  BY <1>1, <1>2, Zenon DEF fastboot_command_loop, cmd_simple, cmd_reboot, UnknownCommand,
     cmd_download, NotFound, cmd_flash, cmd_erase

\* A flash command changes no block outside its partition: for a sparse image
\* write_unsparse counts its output against the length of the partition, for a raw one
\* as long as it does not fill the partition to its last block, since one block more
\* than the whole ones is written.
THEOREM FastbootFlashesInside == FastbootSpec => FlashStaysInside
<1> DEFINE Inside == \A b \in Addr : disk'[b] # disk[b] =>
                       job.start <= b /\ b < job.start + job.length
           A == job.on /\ (job.sparse \/ size < job.length * BlkSize) => Inside
<1>1. FbIInv /\ [fastboot_command_loop]_FastbootVars => [A]_FastbootVars
  <2>1. SUFFICES ASSUME FbIInv, fastboot_command_loop, job.on,
                        job.sparse \/ size < job.length * BlkSize
                 PROVE  Inside
    OBVIOUS
  <2>2. CASE WriteRaw
    <3>1. /\ size \in Nat /\ job.length \in Nat /\ job.start \in Nat /\ Lba \in Nat
      <4>1. job \in Job /\ size \in 0..DownloadMax
        BY <2>1 DEF FbIInv, FastbootTypeOK
      <4>2. QED
        BY <4>1, FbConstants DEF Job
    <3>2. /\ ~job.sparse
          /\ \A x \in Addr : disk'[x] # disk[x] =>
               job.start <= x /\ x < job.start + RawBlocks(size)
      BY <2>1, <2>2, FbRaw
    <3>3. RawBlocks(size) <= job.length
      BY <2>1, <3>1, <3>2, FbTimes
    <3>4. RawBlocks(size) \in Nat
      <4>1. size <= size
        BY <3>1
      <4>2. QED
        BY <3>1, <4>1, FbCells
    <3>5. ASSUME NEW b \in Addr, disk'[b] # disk[b]
          PROVE  job.start <= b /\ b < job.start + job.length
      <4>1. b \in Int /\ job.start <= b /\ b < job.start + RawBlocks(size)
        BY <3>2, <3>5 DEF Addr
      <4>2. QED
        BY <3>1, <3>3, <3>4, <4>1
    <3>6. QED
      BY <3>5
  <2>3. CASE WriteChunk
    BY <2>1, <2>3, FbChunk
  <2>4. CASE ChunksDone
    BY <2>1, <2>4, FbDone
  <2>5. QED
    BY <2>1, <2>2, <2>3, <2>4, FbWritesOnly
<1>2. QED
  BY <1>1, FbInvariant, PTL DEF FastbootSpec, FlashStaysInside

\* A raw image that is written is on the device as far as it goes.
LEMMA FbRawFlashed ==
  ASSUME FbIInv, WriteRaw, replies' = <<"OKAY">>, loaded # 0,
         NEW i \in Nat, Says(loaded, i)
  PROVE  disk'[job.start + i] = Data(loaded, i)
<1>1. /\ job.on /\ ~job.sparse
      /\ \A j \in 0..(RawBlocks(size) - 1) : disk'[job.start + j] = buf[j]
  BY FbRaw
<1>2. buf[0].k # "sparse"
  <2>1. job.sparse = (buf[0].k = "sparse")
    BY <1>1, Zenon DEF FbIInv, FbJob
  <2>2. QED
    BY <1>1, <2>1, Zenon
<1>3. ~Images[loaded].sparse
  BY <1>2, FbHeader DEF Cell
<1>4. size = Images[loaded].size /\ size \in Nat
  BY FbConstants DEF FbIInv, FbLoaded, FastbootTypeOK
<1>5. i < Cells(size)
  BY <1>3, <1>4 DEF Says
<1>6. Cells(size) \in Nat /\ RawBlocks(size) \in Nat /\ Cells(size) <= RawBlocks(size)
  <2>1. size <= size
    BY <1>4
  <2>2. QED
    BY <1>4, <2>1, FbCells
<1>7. i \in 0..(Cells(size) - 1) /\ i \in 0..(RawBlocks(size) - 1)
  BY <1>5, <1>6
<1>8. QED
  BY <1>1, <1>3, <1>7, FbHeader

\* A sparse image whose chunks are all done is on the device, but for its holes.
LEMMA FbSparseFlashed ==
  ASSUME FbIInv, ChunksDone, loaded # 0, NEW i \in Nat, Says(loaded, i)
  PROVE  disk'[job.start + i] = Data(loaded, i)
<1>1. job.on /\ job.sparse /\ job.todo = 0 /\ UNCHANGED disk
  BY FbDone
<1>2. buf[0].k = "sparse"
  <2>1. job.sparse = (buf[0].k = "sparse")
    BY <1>1, Zenon DEF FbIInv, FbJob
  <2>2. QED
    BY <1>1, <2>1, Zenon
<1>3. loaded \in 1..Len(Images) /\ size = Images[loaded].size /\ size \in Nat
  BY FbHeader, FbConstants DEF FbIInv, FbLoaded, FastbootTypeOK
<1>4. CASE ~Images[loaded].sparse
  <2>1. Cells(size) \in Nat
    <3>1. size <= size
      BY <1>3
    <3>2. QED
      BY <1>3, <3>1, FbCells
  <2>2. i < Cells(size)
    BY <1>3, <1>4 DEF Says
  <2>3. 0 \in 0..(Cells(size) - 1)
    BY <2>1, <2>2
  <2>4. buf[0] = Data(loaded, 0)
    BY <1>4, <2>3, FbHeader
  <2>5. QED
    BY <1>2, <2>4 DEF Data, Cell
<1>5. CASE Images[loaded].sparse
  <2> DEFINE chunks == Images[loaded].chunks
             done == Len(chunks) - job.todo
             T == [kind : Kinds, n : Nat, off : Nat, blk : Nat]
  <2>1. \A c \in 1..done : \A j \in 0..(RawLen(chunks[c]) - 1) :
          disk[job.start + chunks[c].blk + j] = Data(loaded, chunks[c].blk + j)
    BY <1>1, <1>5, Zenon DEF FbIInv, FbWalk
  <2>2. PICK c \in 1..Len(chunks) :
          chunks[c].kind = "raw" /\ chunks[c].blk <= i /\ i < chunks[c].blk + chunks[c].n
    BY <1>5, Zenon DEF Says
  <2>3. chunks \in Seq(T)
    BY <1>3, FbImage
  <2> HIDE DEF chunks, T
  <2>4. chunks[c] \in T /\ Len(chunks) \in Nat
    BY <2>3
  <2>5. chunks[c].blk \in Nat /\ chunks[c].n \in Nat
    BY <2>4 DEF T
  <2>6. c \in 1..done
    BY <1>1, <2>4
  <2> HIDE DEF done
  <2> DEFINE j == i - chunks[c].blk
  <2>7. j \in 0..(RawLen(chunks[c]) - 1) /\ chunks[c].blk + j = i
    BY <2>2, <2>5 DEF RawLen
  <2>8. job.start \in Nat
    BY DEF FbIInv, FastbootTypeOK, Job
  <2>9. job.start + chunks[c].blk + j = job.start + i
    BY <2>5, <2>8
  <2> HIDE DEF j
  <2>10. disk[job.start + i] = Data(loaded, i)
    BY <2>1, <2>6, <2>7, <2>9
  <2>11. QED
    BY <1>1, <2>10
<1>6. QED
  BY <1>3, <1>4, <1>5, FbImage

\* A flash command that is answered with OKAY after a download has put the whole image
\* into the partition, each block where the image says.
THEOREM FastbootOkayIsFlashed == FastbootSpec => OkayMeansFlashed
<1> DEFINE OnFlash == \A i \in 0..(job.length - 1) :
                        Says(loaded, i) => disk'[job.start + i] = Data(loaded, i)
           A == job.on /\ replies' = <<"OKAY">> /\ loaded # 0 => OnFlash
<1>1. FbIInv /\ [fastboot_command_loop]_FastbootVars => [A]_FastbootVars
  <2>1. SUFFICES ASSUME FbIInv, fastboot_command_loop, job.on, replies' = <<"OKAY">>, loaded # 0
                 PROVE  OnFlash
    OBVIOUS
  <2>2. \A i \in 0..(job.length - 1) : i \in Nat
    OBVIOUS
  <2>3. CASE WriteRaw
    BY <2>1, <2>2, <2>3, FbRawFlashed
  <2>4. CASE WriteChunk
    <3>1. replies' = <<>> \/ replies' = <<"FAIL">>
      BY <2>1, <2>4, FbChunk
    <3>2. <<"OKAY">> # <<>> /\ <<"OKAY">> # <<"FAIL">>
      OBVIOUS
    <3>3. QED
      BY <2>1, <3>1, <3>2, Zenon
  <2>5. CASE ChunksDone
    BY <2>1, <2>2, <2>5, FbSparseFlashed
  <2>6. QED
    BY <2>1, <2>3, <2>4, <2>5, FbWritesOnly
<1>2. QED
  BY <1>1, FbInvariant, PTL DEF FastbootSpec, OkayMeansFlashed

\* Every partition that the host can name lies on the device.
FbPartsOnDevice ==
  \A name \in Names : \A p \in Found(name) : p.start + p.length <= Lba

\* An erase that is answered with OKAY has erased the whole partition, on a device that
\* does not fail erases and that holds the partition, unless the count that is passed, a
\* product of 32 bits, is less than the partition's blocks; it can be that only for a
\* partition of 4 GiB or more (FbCount).
THEOREM FastbootEraseCovers ==
  ASSUME FbPartsOnDevice PROVE FastbootSpec => EraseCovers
<1> DEFINE Erased(p) == \A i \in 0..(p.length - 1) : disk'[p.start + i] = Blank
           A == \A name \in Names : \A p \in Found(name) :
                  /\ cmd_erase(p) /\ replies' = <<"OKAY">>
                  /\ "erase" \notin Faults /\ p.length <= EraseCount(p)
                  => Erased(p)
<1>1. ASSUME NEW name \in Names, NEW p \in Found(name), cmd_erase(p),
             replies' = <<"OKAY">>, "erase" \notin Faults, p.length <= EraseCount(p)
      PROVE  Erased(p)
  <2> DEFINE blks == EraseCount(p)
  <2>1. PICK ret \in 0..blks : block_erase(p.start, blks, ret)
                              /\ Answers(IF ret > 0 THEN 0 ELSE 1)
    <3>1. StartBlock(p) = p.start
      BY FbPart
    <3>2. QED
      BY <1>1, <3>1 DEF cmd_erase, flash_partition_erase
  <2>2. /\ p.start \in Nat /\ p.length \in Nat /\ Lba \in Nat /\ p.start + p.length <= Lba
    BY FbPart, FbConstants DEF FbPartsOnDevice
  <2>3. blks \in Nat /\ p.length <= blks
    BY <1>1, <2>2, FbCount
  <2> HIDE DEF blks
  <2>4. /\ ret = blks \/ p.start + ret >= Lba
        /\ disk' = [x \in Addr |-> IF p.start <= x /\ x < p.start + ret THEN Blank
                                      ELSE disk[x]]
    BY <1>1, <2>1, Zenon DEF block_erase
  <2>5. ret \in Nat /\ p.length <= ret
    BY <2>1, <2>2, <2>3, <2>4
  <2>6. ASSUME NEW i \in 0..(p.length - 1) PROVE disk'[p.start + i] = Blank
    <3>1. p.start + i \in Addr /\ p.start <= p.start + i /\ p.start + i < p.start + ret
      BY <2>2, <2>5 DEF Addr
    <3>2. QED
      BY <2>4, <3>1
  <2>7. QED
    BY <2>6
<1>2. [fastboot_command_loop]_FastbootVars => [A]_FastbootVars
  BY <1>1, Zenon
<1>3. QED
  BY <1>2, PTL DEF FastbootSpec, EraseCovers
=============================================================================
