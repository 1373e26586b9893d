# TLA+ models of the Leadcore U-Boot

The repository is a cut-down U-Boot for the Leadcore LC181x and LC186x phone
chips. It has no command line. It brings the board up and then does one of
three things: it runs the *target loader*, which lets a PC tool write the
phone's flash over USB; it runs *fastboot*, which does the same with the
Android protocol; or it starts the kernel. The project models all three and
what they stand on: bringing up the card, the MMC block layer, the USB device
controller driver, the DDR training that is kept on flash, and the sequence of
decisions that leads to one of them.

## Inventory

| component | state | operations | talks to | what makes it correct |
|---|---|---|---|---|
| target loader (`targetloader.c`) | link flag, expected command and size (`exp_info`), settings (`ld_set`), countdown (`rest_bytes`), staging buffer and packet count | one case per command of the host | `usb_udl_recv/send` (or the UART), `flashex_*` | an image that is answered with success is on the flash, at its address and nowhere else; the staging buffer holds; an upload returns what was asked for |
| extended flash interface (`comip_flashex.c`) | none of its own; the card's partition | `flashex_erase/write/read` | `block_dev` of the MMC core, `mmc_switch_part` | rounding to blocks, the right partition |
| MMC block layer (`mmc.c`) | `part_num`, `part_config`, sizes; the card's PARTITION_CONFIG and contents | `mmc_bwrite`, `mmc_bread`, `mmc_berase`, switches | host controller driver, card | one flat array of blocks for its callers |
| MMC card identification (`mmc.c`) | `struct mmc`; the card's state, address, width, speed | `mmc_init`, `mmc_startup` and what they call | host controller driver, card | a card called ready is selected, and both sides agree on width, address and clock |
| host controller (`comip_mmc.c`) | registers, divider | one command, data by DMA or PIO, width, clock | card | a command ends, errors are reported, the clock fits the card |
| USB device controller (`comip_udc_otg.c`) | endpoint queues, interrupt masks, DMA descriptors, state of endpoint 0 | `comip_ep_queue`, interrupt handler, setup packets | gadget functions by callbacks, controller | every completion reaches its request, once; every request of the host is answered by its own answer |
| loader gadget (`f_udl.c`) | two receive requests, one send request, two flags | `usb_udl_init/recv/send`, `udl_setup` | controller driver; spins on the flags its callbacks set | packets in order, none lost, buffers not overwritten in use |
| fastboot gadget (`f_abi.c`) | as `f_udl.c`, one buffer | `usb_abi_init/recv/send`, `abi_setup` | as above | as above |
| fastboot (`fastboot.c`) | `fastboot_state`, download buffer and size | command loop, one handler per command | `usb_abi_*`, `flash_partition_*` | each command answered once; OKAY means done |
| sparse images (`sparse_file.c`) | none | `write_unsparse` | `block_write` | each chunk at its place, inside the partition |
| partition functions (`comip_flash.c`) | a constant partition table | find, read, write, erase, `flash_init` | `block_dev` | nothing outside the partition |
| DDR configuration (`comip_ddr_on_flash.c`, `comip_memctl_lc1860.c`) | header and tables on flash, tables in memory | check, restore, train, save | partition functions, training | memory runs on one complete training of this firmware |
| DDR training (`dqs_training.c`) | records of a sweep | sweep, window search, programming | self test of the controller | the delay chosen works |
| boot sequence (`board.c`, `lc1860.c`, `comip_recovery.c`, `comip_setup.c`, `comip_lc1160.c`) | start reason, boot mode, images in memory; the reboot reason in the PMIC and requests on flash | choose what to run | everything | the documented choice; kernel, ramdisk and command line fit together |
| secure verification | none | hash, RSA | memory | refuses a wrong image |
| partition tables, NAND, chargers, display, small drivers, library | registers | register sequences | hardware | |

Behaviours that are hard:

* **The expectation of the loader.** Every turn of its loop depends on what
  the turn before left in `exp_info`, `rest_bytes`, `cur_addr` and the staging
  buffer, and these are shared by download, erase and upload.
* **Thread and interrupt handler** share queues, flags and the register
  `USB_DAINTMSK` without a lock; the controller and the host run on under the
  handler.
* **A host that changes its mind**: a bus reset or a new SETUP packet at any
  step of a control transfer, with requests and buffers shared by all of them.
* **A cached partition number.** The card has one partition open; the driver
  keeps a copy of which, and not every switch goes through the copy.
* **A card that remembers.** `mmc_init` starts from nothing, the card from
  wherever the last boot left it, and CMD0, which levels them, has no answer.
* **Failure in the middle**: of a multi-command transfer, of a switch, of a
  sparse image, of a save of three tables; and a reset between any two steps.
* **Decisions taken twice**: keys, charger and battery are read again and
  again, and kernel, ramdisk and command line are chosen in different places.
* **Units**: bytes, words, sectors, blocks and packets, in u16, u32 and u64.

`PROJECT.json` lists these as hazards, each with its line and the properties
that would catch it.

## Modules

| module | models | state and actions |
|---|---|---|
| `FlashOps` | `flashex_write/read/erase` as operators on a flat device | none; a call is the set of its outcomes, failure after any prefix included |
| `TargetLoader` | `loader_scheduler` | the locals of the function; one action per command, that is one turn of the loop: receive, `pre_handle`, case, flush, answer |
| `FlatDisk` | what `block_write` and `block_read` promise | abstract: a flat array and one request at a time |
| `MmcPart` | the block layer of `mmc.c` and the switches of `flashex_erase` | the card's partition byte, the driver's copy, contents of three partitions; one action per command sent to the card |
| `MmcCard` | `mmc_initialize`, `mmc_init`, `mmc_startup` on `comip_mmc.c`, called by `flash_init` twice a boot | the card's own state beside `struct mmc`, controller registers and `gd`; one action per command, with its answer, its loss or its damage |
| `UsbUdl` | `f_udl.c` on `comip_udc_otg.c` | thread, handler, controller and host, each step of `comip_ep_queue` on its own |
| `UdcEp0` | endpoint 0: `comip_handle_ep0`, `comip_udc_do_request`, reset, enumeration, `udl_setup`, `abi_setup` | driver, controller and host; a run of the handler is one action, everything the controller and the host do between two of them is another |
| `Fastboot` | `fastboot.c`, `flash_partition_*`, `sparse_file.c` | state, download buffer, device, the flash under way; one action per command, of a flash one per write, that is per chunk of a sparse image |
| `StoredTraining` | what keeping the training on flash promises | abstract: the training kept and the training running |
| `DdrConfig` | `memctl_init` with `comip_ddr_on_flash.c` and `flash_block_read/write` | flash and memory block by block; one action per call, a block written at a time |
| `DqsTraining` | the searches of `dqs_training.c` | the shared indices of the loops; one action per delay looked at |
| `BootFlow` | `board_init_f` to the kernel, with the PMIC, recovery and command line | where the boot is, what it found out, and what outlives it; one action per decision |
| `TargetLoaderProofs`, `MmcPartProofs`, `MmcCardProofs`, `UsbUdlProofs`, `UdcEp0Proofs`, `DdrConfigProofs`, `DqsTrainingProofs`, `BootFlowProofs` | | theorems about the module of that name, in `BootFlowProofs` about `Fastboot` too, and their proofs |
| `MC...` | instances for TLC | |

Definitions keep the names of the functions they translate (`Fastboot` begins
with `fastboot_init` and repeats `fastboot_command_loop`, where other modules
have `Init` and `Next`); `map` in `PROJECT.json` gives the lines.

**How they fit.** `TargetLoader` and `Fastboot` see the device as a flat array.
`MmcPart` is what is under that array, and `FlatDisk` the contract between
them: the run `mmc_flat` checks that `MmcPart` implements it as long as no
switch fails, `flashex_erase` does not change the partition in between, and no
request straddles the end of the boot partition. Where one of these does not
hold the contract breaks (see *Disagreements*). `MmcPart` begins with a card
that `mmc_init` has called ready: selected, its open partition the one of
`part_num`, and that is `ReadyIsSelected` of `MmcCard`. `TargetLoader` takes
from its transport that packets come in order and stay in their buffer until
the next call; `UsbUdl` checks that. `UsbUdl` in turn takes enumeration,
configuration and control transfers as events; `UdcEp0` is what is behind
them, and its `ConfiguredIsReady` is the state `UsbUdl` starts in.
`DdrConfig` implements `StoredTraining` and takes a training as one step;
`DqsTraining` is inside that step. `BootFlow` calls all of the above and sees
of each only whether it worked.

**What is abstracted.** A byte, a block or a packet is a number or a record
that says where it comes from, so that a misplaced one is seen. `FlashOps` and
`TargetLoader` count in *units*, a fraction of a block, with `BlkSize`,
`WordSize`, `U32` and `U64` as constants, so that rounding and wrapping are
kept with small numbers. `Fastboot` counts blocks, and units for the sizes that
the code compares in bytes; a header of a sparse image takes a cell of its own.
In `DdrConfig` a block of a table carries the firmware and the training it
comes from. In `MmcCard` of CSD and EXT_CSD the bytes remain that a later step
depends on. In `DqsTraining` the self test is any pattern of passes and
failures. Checksums of packets, logging and error numbers are left out. The
erase of an eMMC is modelled as exact; a card may round it to its erase groups,
of which the code only warns.

**The world around.** In `TargetLoader` what the code trusts the host with is
in the operators named `Host...`: the second command of a pair only after the
first (`HostContinues`), so that a `CMD_DATA` which nothing announced is left
out, although the code would stage it; no packet longer than what is left,
whole blocks in raw packets, a zip packet longer than its header
(`HostPacket`); and the data of a zip packet inside that packet (`HostChunk`),
since the code copies `zip_data_len` bytes without comparing that number with
the packet or with the staging buffer (`targetloader.c:876`). What is shown of
the staging buffer holds under these and is not claimed without them.
`CMD_SUCCESS`, the acknowledgement of an upload packet, may come at any time.
`exp_info.cmd_id` and `ld_set` are uninitialised in the code; `Init` leaves
them open between a value that matters and one that does not. The card of
`MmcCard` answers a command in the states in which the standard says it does.
The host of `UdcEp0` follows the stages of a control transfer but may give up
at any of them. In `BootFlow` keys, charger and battery have any value whenever
they are read, and the PMIC reports any of the sets of start causes in
`Starts`.

## Runs

| run | bounds | result |
|---|---|---|
| `loader_commands` | every command in every order the expectation lets through, over the serial line, two downloads with a short last packet, erases and uploads; 32 bits reach 4 units, the device is longer, so that erases set the upper half of `rest_bytes` | staging and countdown stay right, an upload sends what was asked for and the upper half that was left, nothing touches what is not the image's |
| `loader_zip` | two packet sizes, zip chunks of all kinds in every order and of every length that lies in its packet; any write or erase may fail after a prefix | nothing is staged past the buffer; the stream is placed; success without a lost write means on flash |
| `mmc_flat` | 5 + 2 blocks, 2 per command, 3 calls, any transfer may fail, reset anywhere | refines `FlatDisk` |
| `mmc_erase` | erases of boot, whole device, user area and beyond the end between other calls; transfers and CMD_SWITCH may fail, the latter with or without effect | unless a switch was given up or bypassed, the copy is right and boot images are bootable; an erase covers its range; calls end |
| `mmc_card` | four kinds of card, two vendors, four wires; two bring-ups per boot, two boots, three faults | a ready card is selected, on the same width and addressed alike; the clock fits; no command meets a busy card; under DMA the bring-up ends |
| `usb_order` | 4 packets, 2 answers, 2 resets, 2 control transfers at any point | order, once, stable buffers; packets arrive and sends return unless the session is broken |
| `usb_lost` | control transfer at any point | **violated**: completion cleared, loader hangs |
| `usb_ep0` | 4 control transfers of seven kinds, 2 resets, one given up at any stage | as long as no reset and no new transfer comes upon a request under way: each answer is the one asked for; one use of the shared buffer at a time; configured means ready; transfers end; addresses agree if moreover no transfer was given up |
| `fastboot_flash` | 3 partitions on 20 blocks, ten of which are 4 GiB, the last partition longer than that, one name twice in the table; two raw images and two sparse ones, one of each that is refused; 5 commands, any write may fail | one verdict; OKAY means flashed; an image smaller than its partition stays inside; an erase covers its partition unless its length wraps below the number of its blocks |
| `ddr_config` | one and two controllers, tables of two blocks, 4 boots, an update, 2 failing reads, a failing write, reset anywhere | memory runs on one training of this firmware; trained only when needed; a save is atomic |
| `dqs_training` | every record of 11 data delays and of 12 gate delays | the loops agree with a definition of the window by quantifiers; what is programmed works |
| `boot_flow` | 3 boots, 2 failures, fastboot sessions, five sets of start causes, one of them of two, five reboot reasons, verification built in or not | images and command line agree; a recovery is not forgotten; a reboot for any reason but `REBOOT_FACTORY` is not undone; every boot ends |

The bounds are the smallest at which the cases meet: a device a few blocks
longer than an image, so that writes before and behind it show; images of one
block less and more than a buffer, so that both flushes happen; a second
download, so that what the first leaves behind matters; a transfer of two
commands and one that ends exactly with a command; two receive buffers and four
packets, so that each buffer is used twice; as many faults on the card as the
board has widths that work, so that the loop over widths runs dry; a card that
is up, or ready, exactly at the last poll; tables of one block and a half, so
that each has a whole and a partial block; a boot before an update, one after
it, and two more to meet what these left; records long enough for three
windows. `MaxImages`, `MaxOffset`, `MaxOps`, `MaxCmds`, `MaxPkts`, `MaxCtl`,
`MaxSetups`, `MaxGivesUp`, `MaxResets`, `MaxBoots`, `MaxFw` and the numbers of
faults only end the behaviours. Deadlock is checked for the loader, which can
always be sent something, for the block layer, which can always be reset, and
for the search. The other models end when the host has nothing more to send or
the last boot is over.

**Fairness.** `MmcPart`: weak fairness of the command under way, with the
outcome the card owes it (`Proceed`); nothing else runs on the processor, and a
command ends by a status or by the driver's timeout. Failures that need not
happen are possible but not relied on. `MmcCard`: weak fairness of the step the
driver is at, whatever its outcome; the one wait without a timeout, that for
the FIFO in PIO mode, is a state of its own without a way on, which is why
`DmaInitEnds` speaks of DMA. `UsbUdl`: weak fairness of the thread,
which is the only one, of the handler, since interrupts stay enabled, and of
the host taking an answer that is offered. `UdcEp0`: weak fairness of the
handler, and of the host and controller for what they have begun: finishing a
reset, sending the SETUP packet of a transfer, taking and giving data, noticing
a stall. `BootFlow`: weak fairness of the boot's next step. No fairness is
assumed of anything that a host, a user or the running system starts. The two
ways to lose a packet that the driver has (`Broken`: a completion that the
handler clears without a request, and a bus reset that stops a request which
stays queued) are exempt from `SessionGoesOn`; `usb_lost` shows the first one.

**Exceptions.** Several properties name the cases in which the code does not
keep them, each as narrow as the runs allow:

* `WidthsAgree`: the last CMD_SWITCH of the width loop fails and the loop ends
  without having checked a width (`mmc.c:1270`).  Two failed commands are
  enough, however many widths work, or one where a single line works; and the
  width of an SD card is never checked;
* `AddressingAgrees`: a card that is up only at the last poll is called
  unusable by `sd_send_op_cond` (`mmc.c:631`) before `high_capacity` is set,
  and `mmc_init` goes on with it;
* `WaitsWhileBusy`: a CMD_SEND_STATUS that fails ends the wait;
* `RunsOnOneTraining`: a read that failed, reported or not, during which the
  tables were half filled, and a save cut short over a valid header, which
  happens only after such a read;
* `LateGateIsReduced`: a gate window that ends within the first clock;
* `PartNumIsOpen` and `BootsWhatWasWritten`: from a switch that was given up, or
  from a `flashex_erase` that switched past the copy, until the next CMD0. In
  that time a write to the boot partition may go to the user area and is
  reported as a success (`mmc.c:385`);
* all properties of `UdcEp0` but the types: from a *cut* on, that is a bus
  reset or a new SETUP packet upon a request under way, after which an earlier
  answer can reach the host. `AddressesAgree` says nothing either once any
  transfer was given up;
* `EraseCovers`: a partition whose length in bytes, reduced to 32 bits, is less
  than its length in blocks: a userdata a little longer than a multiple of
  4 GiB;
* `RebootGoesOn`: `REBOOT_FACTORY`, which has no entry in the table of
  `lc1160_init`.

## Disagreements

The violated run is the finding of `PROJECT.json`. The following are kept in
the models as the code has them.

Loader and flash:

* a flush inside a download ignores what `flashex_write` returns, or only logs
  it (`targetloader.c:1018`, `1051`), and the download is answered with success;
* the length of a fill chunk is checked after the loop has counted it down to 0
  (`targetloader.c:1038`), so a fill of an odd length is accepted and shifts
  what follows; a fill whose length in bytes is 0 modulo 2^32 (`1029`) never
  ends;
* the size of an upload is stored through a u32 pointer into the u64
  `rest_bytes` (`targetloader.c:951`), whose upper half the erase commands can
  set (`746`, `758`): the first upload after an erase of 4 GiB or more, or after
  such an upload that was given up, goes on until that much more has been
  sent. `UploadIsExact` states the size with the half that was kept;
* `CMD_SUCCESS` is taken outside an upload too, and sends on from `cur_addr` as
  long as something is left in `rest_bytes`, by an erase for example;
* `zip_data_len` is compared with neither the packet nor the buffer
  (`targetloader.c:876`); the models assume that it fits (`HostChunk`);
* after `CMD_EFUSE_WRITE_DATA` the loader goes on receiving packets of the
  efuse data's size (`targetloader.c:721`);
* the erase of the whole device leaves the last blocks of the user area, as
  many as the boot partition has (`comip_flashex.c:198`), and its switches do
  not go through `mmc->part_num` (`comip_flashex.c:204`): until the next CMD0,
  which resets both (`mmc.c:1422`), a boot image may go to the user area;
* a request that straddles the end of the boot partition goes to the user area
  as a whole (`mmc.c:385`), which no caller sends.

Fastboot:

* the answer to an unknown command is dropped, because the state is not
  `STATE_COMMAND` (`fastboot.c:370`), and one block of whatever is in the
  buffer is flashed when nothing was downloaded (`fastboot.c:277`);
* a raw image is written with its quotient plus one blocks
  (`comip_flash.c:574`), so one that fills its partition, which the check at
  `comip_flash.c:560` lets through, overwrites the first block behind it;
* `flash_partition_erase` passes a length in bytes as a number of blocks
  (`comip_flash.c:620`): it erases its partition and what lies behind it, and
  takes any erased block for success;
* start and length of a partition are multiplied in 32 bits before they are
  stored in u64 (`comip_flash.c:550`, `615`). All partitions start below 4 GiB,
  but the length of a userdata of 4 GiB or more loses its upper bits, so
  that its erase can cover a part of it and be answered with OKAY.

Bringing up the card:

* `mmc_send_status` returns 0 when the card never became ready, and TIMEOUT
  when it did at the last poll (`mmc.c:147`); its callers ignore both;
* a lost ACMD51 is repeated without its CMD55;
* `part_config` is taken from the buffer of EXT_CSD whether or not it was read
  (`mmc.c:1222`);
* the controller's largest clock is 52 MHz whatever `f_max` says; the widths
  tried do not depend on `host_caps`;
* in PIO mode the FIFO is waited for without a timeout.

DDR:

* on a board that uses only controller 1 the second area is computed from the
  first area's offset of 0 and overlaps the register values; the run leaves
  such a board out;
* a failed read of the partial last block is never reported
  (`comip_flash.c:388`), and register values that were half read are trained on
  and saved;
* the reduction of a late gate by "3/4clk" (`dqs_training.c:836`) underflows
  for a window in the first clock; a gate search without a window uses what is
  on the stack;
* a window that touches the end of the sweep wins over a longer one
  (`dqs_training.c:1141`).

USB:

* after a bus reset or a SETUP packet that comes upon a queued request,
  `comip_udc_reinit` and `comip_handle_ep0` leave the queue as it is
  (`comip_udc_otg.c:316`), the request is queued a second time, against the
  rule of `gadget.h:243` that a request is not touched before it completed, and
  the control endpoint may not answer again;
* reception on the bulk endpoints does not resume after a bus reset, because
  `comip_ep_queue` starts a DMA only on an empty queue.

Boot:

* the results of reading kernel and ramdisk are ignored (`lc1860.c:216`);
  without verification a boot goes on with what is in memory;
* `REBOOT_FACTORY` has no entry in the table of `lc1160_init`, so the key check
  undoes such a reboot;
* when the PMIC cannot be read, `pmic_init` returns before the battery check
  and before the reboot reason is looked at, and the boot goes on;
* when the retries of the battery check are used up the device boots with a
  flat battery; when one voltage reading fails and no charger is plugged in it
  turns off;
* `PMIC_RTC_ALARM_REBOOT` is defined as `PMIC_RTC_ALARM_NORMAL`
  (`comip_pmic.h:6`), and `shutdown_type` is read (`comip_setup.c:95`) but
  never set.

## Proofs

Eight modules prove theorems about the module whose name they carry,
`BootFlowProofs` about `Fastboot` as well, for every value of the constants
that satisfies the assumptions next to the constants. Each has an inductive
invariant, `IInv`, a conjunction of named parts, and the theorem `Invariant`
(`LoaderInvariant` for the loader, `FbInvariant` for fastboot) says `Spec =>
[]IInv`; the loader has three more on top of it. TLC has checked each of them
on the instances of the runs before it was proved. The safety properties follow
from it, action properties and refinements from it and one look at each action.

| module | theorems | properties | beside the named assumptions |
|---|---|---|---|
| `TargetLoaderProofs` | `TypeCorrect`, `BufferSafe`, `BufferDrained`, `CountdownCorrect` | `TypeOK`, `NoBufferOverflow`, `NothingLeftStaged`, `CountdownAgrees` | |
| | `UploadsInOrder`, `UploadsAreExact`, `OnlyTheImage` | `UploadIsInOrder`, `UploadIsExact`, `OnlyTheImageChanges` | |
| | `StreamPlaced`, `SyncOnFlash` | `StreamIsPlaced`, `SyncMeansOnFlash` | `WholeFills` |
| `MmcPartProofs` | `TypeCorrect`, `CopyIsRight`, `WrittenIsBooted`, `EraseIsExact` | `TypeOK`, `PartNumIsOpen`, `BootsWhatWasWritten`, `EraseHitsItsRange` | |
| | `IsFlatDisk` | `ImplementsFlatDisk` | `DirectUse` |
| `MmcCardProofs` | `CardIsReady`, `ClockFits`, `BusyIsAwaited` | `Safety`, `ClockFitsCard`, `WaitsWhileBusy` | `Patient` |
| `UsbUdlProofs` | `TypeCorrect`, `InOrder`, `BufferKept`, `NoPacketLost`, `NoIdleSpin` | `TypeOK`, `PacketsInOrder`, `BufferIsStable`, two more | |
| `UdcEp0Proofs` | `SafetyHolds`, `AnswerFits` | `Safety`, `AnswersWhatIsAsked` | |
| `DdrConfigProofs` | `OneTrainingRuns`, `TrainsWhenNeeded`, `StoreIsAtomic` | `Safety`, `TrainsOnlyWhenNeeded`, `SaveIsAtomic` | `FirstUsed` |
| `DqsTrainingProofs` | `WindowIsFound`, `WorkingDelayIsSet` | `FindsWindow`, `Safety` | |
| `BootFlowProofs` | `OfOnePiece`, `RebootStands`, `AskedIsReached` | `Safety`, `RebootGoesOn`, `RecoveryIsReached` | |
| | `FastbootTyped`, `FastbootAnswersOnce`, `FastbootFlashesInside`, `FastbootOkayIsFlashed` | `FastbootTypeOK`, `OneVerdict`, `FlashStaysInside`, `OkayMeansFlashed` | |
| | `FastbootEraseCovers` | `EraseCovers` | `FbPartsOnDevice` |

Some theorems have a hypothesis of their own. The instances of the runs satisfy
each of them:

* `WholeFills`: fill chunks are whole blocks. The code's check of it comes too
  late to notice (see *Disagreements*); that of skip and raw chunks does not,
  and they need no hypothesis.
* `DirectUse`: no switch fails, nothing is erased, and no request straddles the
  end of the boot partition. Without the first two the contract of `FlatDisk`
  is broken by the code (see *Disagreements*), and no caller does the third.
* `Patient`, `MaxBusy <= StatusTries + 1`: a busy card is ready before
  `mmc_send_status` gives up. Its callers do not look at what it returns, so a
  slower card meets the next command while it is busy.
* `FirstUsed`: a board uses the first memory controller, alone or with the
  second, as all of `include/configs` do.
* `FbPartsOnDevice`: the partitions that the host can name end on the device.
  The table is a constant of the build and nothing compares it with the card;
  the erase of a partition that is cut off erases what there is of it and
  reports success. The other theorems about `Fastboot` do without it.

`LimitAssumption` of `DqsTraining` (the lower limit of a delay is not 0, the
upper one is a delay of the sweep, the standard delay lies between them) is
what the constants of `dqs_training.c` satisfy. `PartAssumption` of `Fastboot` (every
partition starts below 4 GiB) is what the tables of `include/configs` satisfy;
no assumption bounds the length of a partition.

**Loader.** Types and counts first, none of which is inductive. A flush copies
the staging buffer up to the last whole block, so the types need the buffer not
to overflow. That it does not needs the packet count: in the data phase
`tmpsize <= threshold * once`, `threshold < max_cnt` and `max_cnt * once <=
TmpBufSize`. A packet is no longer than `once` only if the expected size is the
smaller of `once` and what is left, which is `CountdownAgrees`; and that the
count is 0 when a new packet size is announced needs the buffer to be empty
outside the data phase, which is `NothingLeftStaged`. The assumptions are that
the buffer is a whole number of blocks, that packet sizes lie between 1 and the
buffer's size, and the host's side of a download: `HostPacket`, `HostContinues`
(no data that nothing announced) and `HostChunk` (the data of a zip packet lies
in it). The code relies on them and checks none, so `BufferSafe` and
`BufferDrained` are theorems about a host that keeps to them.

What is read and written where takes three more invariants. `UpInv`: between two
packets of an upload `cur_addr` is the start plus what was sent and begins a
block, because every packet but the last is `UP_DATA_SIZE`, a whole number of
blocks; a turn that changes these settings also ends the upload, so that a
`CMD_SUCCESS` which continues one finds them as it left them, and one that
comes at another time continues none. `UploadIsExact` needs no more than
`IInv` and this: the upper half that was kept is in the count from the start.
`PlaceInv`: the offset of `CMD_UNZIP_INFO` and
the start of an image begin a block, and `wpos`, the host's next unit, is
`cur_addr` plus what is staged; since a flush starts at `cur_addr` and ends with
what is staged, `OnlyTheImageChanges` follows, and it holds although writes
fail and chunks have odd lengths. `AlignInv` carries the contents: while another
packet is due, `cur_addr` and the count of staged units are whole blocks, and
all that was sent is `Placed`. `flashex_write` rounds its start down to a
block and writes whole blocks, so a flush from the middle of one would put every
unit of it in the wrong place. Only the last packet may be odd, and the
countdown says which one that is: `WholePacket` is where `CountdownAgrees`
comes in. `FlushedOut`, `RawPlaced` and `ChunkPlaced` say what a flush, a
packet and a chunk leave of it.

**Block layer.** `PartNumIsOpen` alone survives every action but says nothing
of a transfer under way. `WriteInv` and the two `Erase...Inv` say what a
multi-command transfer has done so far: the blocks behind `job.start` are
written, or erased, in the partition that is still open, and `OpenIsBooted`
that a boot partition which the driver has opened is the one booted from. An
erase from block 0 goes through two phases, `BootPhase` and `UserPhase`. For
the refinement `FlatInv` adds that what a call has still to move lies in the
open partition; the mapping sends a block to the partition on its side of
`BootBlks`, and each action is a step of `FlatDisk` or a stutter.

**Card.** `Safety` is about the end of `mmc_init` only. The invariant follows
card and driver through its phases: before CMD7 (`CardInv`, `VersionInv`,
`SelectInv`) an SD card is one the driver takes for one, and the address is the
driver's; a card that missed CMD0 fails a later command, because it is not in
the state that the command needs. `ClockInv` keeps the divider of 400 kHz until
the last `set_ios`. `BusyInv` bounds what a card is still busy by the polls
that are left, which is where `Patient` enters. `LoopInv` is the difficult
part: as long as fewer than two commands have failed, a width that works has
been given up only for a fault, and a card that is still busy has the
controller's width, so that the width the loop ends with was checked or needs
no check. One lemma per action, on top of lemmas that say what a command of
each kind leaves of the card whether or not it was heard and answered.

**USB.** `EpInv` ties the three places a request is in together: the queue, the
DMA, and the completion that the handler has yet to see; `CallInv` covers the
points inside `comip_ep_queue` at which it is in none of them. `PacketInv` says
which of the two buffers holds the packet not yet returned, `HeldInv` that the
loader has the other one. `NoPacketLost` states that a packet the controller
has taken is on its way to `usb_udl_recv` unless a handler has cleared its
completion; `NoIdleSpin` that the thread spins only for a request that
is armed or completed, unless the session is broken. The latter is the safety
half of `SessionGoesOn`.

**Endpoint 0.** A control transfer goes through four phases, `Quiet`,
`SetupCame`, `Answering(r)` and `Taken(r)`, and `PhaseInv` says where in each
of them the one request is: not in the queue, in it and on the IN endpoint, or
in it with its completion not yet looked at. The host's next SETUP packet is
not received before the handler has gone back to `Quiet`, which is why no
answer is a late one. `AddressInv` allows for a reset that the driver has
not seen and for the address that is set before the status is out; `ConfInv` and
`LinkInv` keep what a reset takes back. Of a transfer that was cut short over
a queued request only the types are claimed: `comip_udc_reinit` leaves the
queue as it is. The queue is followed as the linked list it is
(`AddIs`, `DelIs`), and one lemma for each function of the driver says what it
leaves alone.

**DDR.** `HeaderInv` knows every header that can be on flash: none, or one that
a firmware of this board wrote. `FlashInv` says what a header vouches for,
`RamInv` what has been restored, `SaveInv` how far a save has come. The
refinement maps the training kept to that of the areas under a valid header;
the write of the last header block is the step that commits.

**Search.** `Longest(j)` and `LastSeen(j)` are the loop invariants: `found` and
`max_len` belong to the first of the longest windows that start before `j`, and
`data1` and `data2` to the last one. They hold for every record, where the run
tries all of one length.

**Boot.** `gd` remembers what the boot has read and each decision is taken from
it later; the invariant says for each stretch of the boot what `gd` has to do
with the chip (`StartRead`), the names (`NamesAgree`, `RecoveryChosen`,
`ChargingChosen`) and the memory (`ImagesLoaded`).

**Fastboot.** The headers that `write_unsparse` follows are read from the
download buffer, and that holds whatever downloads have left there: a download
that breaks off covers the front of the one before it, and the next flash takes
the mixture for an image. `FbBuffer` is what remains true of every mixture: the
data of each raw header in the buffer ends before the buffer's last cell, which
no download reaches. A download only ever puts whole images over the front, so
a header that survives is followed by its data or by other cells, and in either
case the data is inside. The types need it, because `block_write` reads as many
blocks as the header says. `FbJob` keeps `at` in step with the output, which is
bounded by the partition: `FlashStaysInside`, for raw chunks of a mixture too.
`OkayMeansFlashed` is about a whole download. `FbLoaded` says that the buffer
still holds it, `FbWalk` that `write_unsparse` is at the header of the next
chunk, its output where that chunk's data belongs, and that every raw chunk
before is on the device. A chunk that was done is not touched by a later one,
since outputs follow one another (`Follows` in `ImageAssumption`, which the
host's tool keeps and the code does not check). `OneVerdict` is proved from
`FbPhase`: when a handler answers, nothing but DATA has been answered.

Only model-checked is what must happen eventually (`CallsEnd`, `DmaInitEnds`,
`SessionGoesOn`, `TransfersEnd`, `BootEnds`): liveness under fairness is out of
the prover's reach. What a search over a record or a list of chunks computes is
proved where the code is a loop whose steps are actions; there is no theorem
about a recursive definition, since the prover has no induction over data.

## Not modelled

The models stand for a few thousand lines of the hundred thousand in the tree.
Most of the rest is not code with a state to model:

* headers of machine types, registers and configurations, tables of register
  values for each DDR chip, panel tables of the display: a third of the tree;
* register sequences without a decision in them: clocks, pins, regulators,
  I2C, LEDs, chargers, the display, the low-power processor, the boards of the
  LC181x, which repeat the LC186x with other registers;
* stock U-Boot code that no configuration builds: partition formats
  (`CONFIG_EFI_PARTITION` is commented out everywhere), `usbtty`, file systems,
  and the NAND driver, whose callers hold `#error` lines;
* the arithmetic of RSA and SHA-256, CRC, `printf` and string functions, whose
  results no decision here depends on beyond *right or wrong*. Verification of
  images is off in all configurations; `BootFlow` models it both ways.

Within the modelled components: `flashex_boot_partition_switch`, which the
loader does not call; the request pool of the controller driver
(`comip_udc_otg.c:127`), which holds exactly the requests taken from it, and
none is freed in a session; the data path of `f_abi.c`, which is that of
`f_udl.c` with one buffer that is queued by `usb_abi_recv` and not before; the
encoding of CSD and EXT_CSD; the FIFO configuration; the ZQ calibration;
`flash_partition_string` and the fixup of the partition table.
`PROJECT.json` gives the reason for each component.

## Plan

The modules planned are written, except for two that were given up:
`GptTable`, because no board builds it, and `LoaderOnCard`, whose one
interesting case, the erase that bypasses the copy of the open partition, is in
`MmcPart`. Every safety property, action property and refinement that a run
checks is proved; the five liveness properties are checked by the runs.
