# Online upgrade: specification, model checking and proofs

The repository upgrades a board in the field. A PC tool sends a file over a
serial line with YMODEM; the application on the board stores it, either in the
partition `fm_area` (an MCU package, `.rbl`) or in the configuration flash of
the FPGA (`.rbf`), and resets; the boot loader verifies what is in `fm_area`,
installs it over the application and starts it. This directory holds TLA+
modules of that path, the TLC runs that check them and TLAPS proofs about them.

Source paths below are relative to `src/`. Abbreviations: `rt_fota.c` is
`boot/BootLoader/applications/rt_fota.c`, `ymodem.c` is
`app/App/rt-thread/components/utilities/ymodem/ymodem.c`, `uart_ymodem.c` is
`app/App/packages/uart_ymodem/uart_ymodem.c`, `Form1.cs` is
`pc/upgrade/Form1.cs`; the other application files are in
`app/App/applications/protocol/`.

## 1. Inventory

| Component | State | Operations | Talks to |
|---|---|---|---|
| Boot thread (`rt_fota.c`) | `fota_part_head`, positions, buffers; flash `app`, `fm_area`, `df_area` | keys, verify, check version, erase, copy, mark as installed, start, fall back | flash (FAL), operator, application |
| Copy loop (`rt_fota_upgrade`) | read position, place of the next block header, output | read a buffer, cut out a block, decrypt/decompress, write, size check | flash |
| Boot shell (`rt_fota_info`, `ymodem_ota.c`) | the same flash and header | probe, clone, exec, reset, ymdown | operator |
| MCU upgrade thread (`mcu_upgrade.c`) | `mcu_bin_rec_flag`, `uart_mode`, sizes | start on command, erase, store, reset or give up | session, flash |
| FPGA upgrade thread (`fpga_upgrade.c`) | `fpga_upgrade_rec_flag`, `uart_mode` | the same, resets in any case | session, EPCS flash |
| Serial driver (`drv_usart.c`, `serial.c`) | DMA ring, `last_index`, put and get index, `is_full` | three interrupts count what has come, a read takes it out | line, serial thread |
| Serial thread (`serial_pc.c`, `serial_unpack.c`) | message queue, `uart_mode` | unpack a command, or pass bytes on | driver, decoder, upgrade threads, device |
| Device `u_ymodem` (`uart_ymodem.c`) | receive FIFO, open flag | open, close, put, get, notify | serial thread, session |
| YMODEM session (`ymodem.c`) | context, stage, semaphore | handshake, packets, EOT, closing packet, error exits | device, callbacks |
| PC tool (`Form1.cs`) | `packetNumber`, one thread per click, one serial port | upload, `DataReceived` | line |
| EPCS driver (`fpgaupdate.c`) | pins, address | erase, program, verify, shell command `ff_read` | FPGA flash |
| Frame decoder (`upacker.c`) | place in the header, partial body | decode, call back | serial thread |
| FAL and flash drivers, RT-Thread, HAL, EasyFlash, codecs | vendored | | |

What is hard about them:

* **Crashes.** Power may fail at any point of an installation. The application
  is erased before it is rewritten, the sector that holds the package header is
  erased to mark the package as installed, and nothing but flash survives.
* **Failure on the way.** After a failed installation the boot goes on to start
  whatever is there, and only two words of it are looked at.
* **Buffers and boundaries.** Compressed blocks lie across read buffers in three
  ways, headers may be split, and the last buffer is treated apart.
* **Interleaving.** The serial thread (priority 4) cuts in on the session thread
  (27) between any two bytes, and while the device is being opened or closed.
* **Interrupts.** Three of them count the bytes of one DMA ring by an index that
  has moved on when they look, and are served late while flash is erased.
* **Shared objects without owners.** The shell's `ff_read` uses the pins of the
  FPGA flash in the middle of an upgrade. All clicks share one serial port and one
  `packetNumber`; both upgrade kinds share one session; the board does not check
  the order of packets.
* **Loss, timeouts and retries.** The board times out, the PC never does.

What makes each part correct: the boot loader can always repair what it has
begun to overwrite, never marks as installed what is not, and ends each boot
somewhere; the copy loop writes every block of a package it can follow once and
in order, claims success only for all of them, and is never given one it cannot
read to the end; the device is a queue that loses only its oldest
byte and never a wake-up; a session that ends in the reset has stored one whole
file, PC and board agree on that, and a failed session leaves the board ready
for the next; what an FPGA session reports as written is in the chip; a byte
from the line is passed on once, in order and without waiting for another, and
the first undamaged command after any trouble is understood. `PROJECT.json` lists the hazards at their lines.

## 2. Plan

1. `RtFota` against `UpgradePromise`: the boot loader, most important because
   it is what can brick a unit. *Done, with proofs of safety and of the refinement.*
2. `FotaCopy`: the copy loop `RtFota` takes as one step per chunk. *Done, with
   proofs.*
3. `UartYmodem` against `DropOldestQueue`: the device under its two threads.
   *Done, with the refinement proved.*
4. `YmodemUpload`: PC, line, serial thread, session and upgrade threads
   together. *Done, with proofs of every property but the liveness of a session.*
5. `FpgaFlash`: the chip's commands, the session that gives them and the shell
   command that cuts in. *Done, with proofs of safety.*
6. `Upacker` and `SerialLine`: the bytes of the line, from the DMA to the
   decoded command. *Done, with proofs of ring and decoder.*
7. Left: `clone` between any two partitions.

## 3. Modules

| Module | Models | Notes |
|---|---|---|
| `UpgradePromise` | abstract: installed, staged, factory | what a unit promises its owner |
| `RtFota` | `rt_fota.c`, the download of `mcu_upgrade.c`, `ymodem_ota.c`, FAL and flash | implements `UpgradePromise` |
| `MCRtFota` | packages for TLC | small, large, gzip, short, huge, alien |
| `RtFota_proofs` | proofs, the refinement among them | |
| `FotaCopy`, `MCFotaCopy` | `rt_fota_upgrade`, lines 516-842, `rt_fota_read_part`, the reads of `rt_fota_part_fw_verify` | every layout up to a bound |
| `FotaCopy_proofs` | proofs | |
| `DropOldestQueue` | abstract: a bounded queue | |
| `UartYmodem` | `uart_ymodem.c`, the waits of `ymodem.c` | implements `DropOldestQueue` |
| `UartYmodem_proofs` | proofs, the refinement among them | |
| `YmodemUpload` | `Form1.cs`, the line, `serial_pc.c`, `serial_unpack.c`, `ymodem.c`, `mcu_upgrade.c`, `fpga_upgrade.c` | composes PC and board |
| `YmodemUpload_proofs` | proofs | |
| `FpgaFlash` | `fpga_upgrade.c` on `fpgaupdate.c`, the EPCS chip | |
| `FpgaFlash_proofs` | proofs, lemmas about pages among them | |
| `DivisionLemmas` | facts about `\div` and `%` for any divisor | for the proofs on buffers and pages |
| `Upacker` | `frame_decode` of `upacker.c` | operators on a decoder's state |
| `SerialLine`, `MCSerialLine` | uart1's part of `drv_usart.c` and `serial.c`, `serial_pc.c` | extends `Upacker`, ends where `UartYmodem` and `YmodemUpload` begin |
| `SerialLine_proofs` | proofs about the decoder behind the ring | |
| `SerialRing_proofs` | proofs about the ring | extends `SerialLine_proofs` |

Operators whose comment begins with "Mutant" are wrong versions of the
definition that follows them. Nothing in the specifications uses them; they
stand for bugs the properties are meant to find, and `PROJECT.json` says which.

### RtFota

`pc` is where the processor is: the boot thread's steps (`keys`, `verify`,
`check`, `erase`, `copy`, `commit`, `commitWrite`, `start`), the shell and its
transfers, or the application (`app`, `download`, and `hung` for one that is not
whole). Flash is counted in chunks of 4096 bytes, the unit of the copy; the
chunk `<<i, n>>` is the n-th of image i, `Blank` is erased, `Garbage` what an
interrupted or overlapping operation leaves. `Program` turns everything but
erased flash into garbage, as the chip does.

One action is one flash operation together with the code around it.
`rt_fota_copy_version` is two (`CommitErase`, `CommitWrite`) because a power
loss between them is the interesting case. `PowerLoss` may come between any two
steps and, through `CutApp` and `CutPack`, in the middle of each operation.
With `Faults`, every flash call and `rt_malloc` may fail.

Versions are strings; the package's `current_version` starts as `Fresh`, what
the packaging tool writes, and no package has that as its own version
(`README.md`: the version must differ from the last). Verification is the
comparison of the chunks. A download is *any* package of `Images`, so the
sequence "one is installed, another is downloaded, ..." is explored without
bound. `Decodes[i]` is how many chunks the copy loop gets out of image i, in order,
and this is where `FotaCopy` comes in: the images are packages it calls well placed.

### FotaCopy

A package is its block boundaries `off`. The variables are the code's
`fw_raw_pos` (`raw`), `block_hdr_pos` (`hdr`) and the pieces written (`out`).
First `rt_fota_part_fw_verify` reads the package (`VerifyRead`), in buffers of the
same size; only what it accepts is copied (`StartCopy`). The ways a block lies in
the buffers are actions of their own: `FirstInBuffer`, `InsideBuffer`,
`CrossesBuffer`, `SplitHeader`.

`HeaderFlush` is the one the code has no case for: a header whose last byte is the
last of the buffer. The inner `while` is over before it comes to the body, so the
block still in `cmprs_buff` is decompressed and written once more, and the next
turn takes the first bytes of the body for a size. This does harm, as the
application is erased by then. From there, and wherever else a header is read where
none is, the size is *any* number (`Ends`) and what is decompressed `Garbage`. The
loop is followed on: it may come upon a real header again, or reach the tail
(`TailGarbage`), or copy beyond `crypt_buf`, `cmprs_buff` or `dcprs_buff`
(`Overrun`). The last has no defined outcome, so the model ends there, at `stray`,
and nothing is claimed of it.

`WellPlaced` says which packages the loop can follow: no block needs more than one
new buffer, no header ends with a buffer, no split block ends with one. If the
places are spread evenly, one header in 4096 ends with a buffer, that is one package of a
hundred blocks in about forty.

### UartYmodem

`buffer`, `put_index`, `get_index` and `is_full` are the FIFO's; one action is
one turn of a loop, which is what the code makes atomic with
`rt_hw_interrupt_disable`. `Runs` says that the session thread takes no step
while the serial thread has work: priority 4 against 27. The order of flag and
pointer in open and close is kept, one action per assignment.

### YmodemUpload

Each click is a thread with its own place `pc[u]` and file, all share
`packetNumber`, the input buffer `down` and the line `up`. An item of the line
is a command, a packet with its number and its state (good, CRC wrong, short)
or EOT. The board's side is `mode`, `flag`, the threads `created`, the session
`stage` with the handshake's `tries`, and what has been stored, `got`.

Abstractions: a packet is written, carried and taken whole; `packetNumber++` and
the write after it are one step; a byte that is no command is ignored while the
board expects commands. A command that arrives during the handshake is kept
precisely, since its bytes matter: three of them are answered with `C` and 0x02
is taken for STX. The CRC of a packet is right if the packet is.

`prompt`, chosen once, says whether PC and line are quicker than the three
seconds the board waits, except for what is lost. Some properties hold only
then, and say so.

Two variables are history: `delivered`, the uploads whose EOT the board has seen
with the whole file stored, and `clean`, which turns FALSE when a session begins while
an upload is half way in an earlier one or an answer of an earlier one lies unread in
the PC's input buffer.

### FpgaFlash

`stage` is where the session is, `command` and `step` where the driver is in the
command it is giving: selection, opcode, address, data, deselection, or the loop
on the busy bit. The chip is what the driver takes it to be: it hears an opcode
after a falling EP_CS, acts when EP_CS rises, passes over what comes while it is
busy or without a write enable, wraps a page program in its page, and programs
by clearing bits. A slot is 128 bytes, the smaller packet, and holds the set of
its cleared bits; there are two packets, half a page and two pages.

`FfRead` is one action, since the shell has the higher priority and the upgrade
thread sees only what it leaves: EP_CS high, and perhaps a page programmed with
its bits. `harm` records the three things nothing in the code guards against: bits
read while no chip was answering (`floating`), a page program that took `ff_read`'s
bits (`foreign`), and a packet that crosses a page (`wrapped`: an STX packet after
one SOH packet; `Form1.cs` sends none such). Any other mishap, also a lost write
enable or erase, is caught by the reading back.

### Upacker and SerialLine

`Decoded` is `frame_decode`, on a record of the decoder's fields. `SerialLine` has
the DMA's own index `dma`, the pending interrupts `ht`, `tc` and `idle`, the
driver's `last_index`, the FIFO's indices and the queue of message sizes.
`HalfCplt`, `Cplt` and `UartIsr` all come down to `Count`, which is atomic here; in
the code a DMA interrupt can preempt the serial one between `drv_usart.c`:331 and 335,
where the two additions commute. A negative `recv_len`
goes through `UpdatePutIndex` modulo 2^16, as the code's types have it. Interrupts
come before the thread; `Receive` lets bytes come while one is pending only when
the thread has nothing to do, which is when an upgrade thread erases flash and
the processor stands still.

`coming` is the history of the bytes not yet passed on. Two things break the count
and are recorded, `overrun` (the DMA laps the reader; lost bytes, by design) and
`phantom` (the interrupt for the end of the ring finds everything counted and counts
a whole ring again); bytes then come again when the line is drained, so that the
recovery is checked as well.

## 4. Runs

| Run | Spec | Distinct states | Shows |
|---|---|---|---|
| `boot_safety` | `Spec` | 195 000 | `NoSourceLost`, `CommittedIsInstalled`, `ImplementsPromise`, `BootAdvances` with faults, power losses and all six packages |
| `boot_shell` | `Spec` | 2 330 000 | the inductive invariant, type and `HeadIsCurrent` in it, and the action properties with `ymdown` and `clone` |
| `boot_live` | `FairSpec` | 6 300 | `HungOnlyAfterRestore`, `StagedGetsInstalled`, `ImplementsFairPromise`, `FallsBackToFactory`, `BootEnds`, without flash faults |
| `copy_safety` | `FairSpec` | 975 000 | all properties of the copy loop |
| `copy_raw_size` | `Spec` | violation | finding 1 |
| `fifo_safety` | `FairSpec` | 8 100 | all properties of the device, `ImplementsQueue`, `ReadEnds` |
| `fifo_assert` | `Spec` | violation | finding 2 |
| `upload_safety` | `FairSpec` | 206 000 | all properties of an upload |
| `upload_success` | `Spec` | violation | finding 3 |
| `upload_crc` | `Spec` | violation | finding 4 |
| `fpga_safety` | `FairSpec` | 1 480 000 | all properties of the FPGA flash |
| `serial_safety` | `FairSpec` | 1 090 000 | all properties of the receive path and the decoder |

Bounds, and why they are enough:

* `RtFota`: `app` of four chunks in sectors of two, so that images share sectors
  with erased flash, fill them, or end inside one; images of one chunk and of
  three, and one that fits its package partition but not `app`. `boot_shell`,
  whose commands multiply the states, has two sectors of one chunk.
  The number of boots, downloads and power losses is not bounded; finitely many
  power losses are only assumed by `FairSpec`.
* `FotaCopy`: buffers of 8 bytes, headers of 2, one to four blocks of 1 to 9
  bytes: a block can be inside a buffer, cross its end, end with it, be longer
  than one, and a header can be split or end flush, in every combination over
  six buffers. Garbage is taken for every size up to one more than `cmprs_buff`
  holds; all above leave it alike. `Room` is not a multiple of the buffer and less
  than the largest package, so the last buffer of some lies only partly in it.
* `UartYmodem`: a FIFO of three slots, six bytes, chunks of up to three, reads of
  up to four: it wraps twice and overflows, and a read asks for more than the
  FIFO can ever hold.
* `YmodemUpload`: two uploads of MCU or FPGA files, two units each, two packet
  numbers, two tries, one fault. `Numbers` is not larger than `Units` on
  purpose: with it larger the wrap of `packetNumber`, which the code has after
  256 units, never happens, and properties hold that do not hold of the code.
* `FpgaFlash`: three pages of two slots, up to seven slots sent: one packet covers
  two pages, a small one half of one, packets cross pages, and a file is one slot
  larger than the chip. One `ff_read` in mid-command and one weak page program, at
  any place. A chip of four pages was run as well, without a violation.
* `SerialLine`: a ring of four bytes against frames of eight, so each frame wraps
  it; two messages behind; any number of frames, one piece of trouble: a noise byte,
  a frame broken off, a first frame after an overrun, or a session.
  `QueueSize` is larger than `Ring`, as 85 is than 64.

Deadlock is checked in the boot and FPGA runs (a hung application still loses power). The
copy loop ends, the device stops in its assertion and an upload is over at some
time, and a line may be silent for ever: those runs do not check it.

### Fairness

* The boot thread is the only one that has work (weak fairness of `Boot`); a
  transfer has a timeout at every wait; power is lost finitely often. The
  operator and the application owe nothing.
* The copy loop runs in that thread (`Work`).
* The serial thread finishes what it was handed, and the session thread gets the
  processor when the serial thread waits (`uart_ymodem.c` and the priorities);
  a timeout fires (`Timeout`).
* On the board both threads run; a PC need answer only if `prompt`. Nobody need
  click.

* The FPGA upgrade thread goes on or times out, and the chip gets ready; the polling
  loop has no timeout, which is why `SessionEnds` presumes that nobody cut in.
* A line that is silent raises its idle interrupt; interrupts are served, and the
  serial thread runs.

### What the properties say beyond one action

* `NoSourceLost` relates the application, the package it was last overwritten
  from and that package's version fields: however a boot was cut short, that
  package still verifies and, if it is the download, will still look new.
* `HungOnlyAfterRestore` marks the one way to a half-written application that
  the boot loader starts: a restore of the factory package that loses power.
* `InstallsExactly` says which well-placed packages install: those whose last
  buffer holds one block after the one that reaches into it, or none and no zero
  fill behind. It is the precise form of finding 1.
* `BootAdvances` is the part of `BootEnds` that is safety: with flash operations that
  fail wherever they like, a boot never comes back to a step it has taken for the same
  partition. `Advances` is the same for the copy loop's turns (`CopyEnds`), also for
  those that take garbage for a size: each looks for its next header further on, and
  no further than a buffer behind the end. `CopyEnds` presumes that no copy leaves the
  buffers.
* `RepeatsOnlyFlush` holds of every package, well placed or not: however the loop gets
  lost and comes upon a header again, it never goes back, and only a flush header makes
  it write a block twice. For what a badly placed package makes of the application
  nothing better holds (section 5).
* `CopyReadsInside` ties two loops in two functions together: what the verification
  could read the copy can, so no package fails on its last buffer after the erase.
* `Accounted` and `ImplementsQueue` hold although two loops write `get_index`.
* `CommitsWholeFile` and `SaysDoneOfWhole` hold although nothing on the board checks
  numbers or the CRC of the file: what carries them is that the PC waits for each
  ACK. They need that nothing is left over from an earlier session, neither a thread
  nor an answer (`Undisturbed`); finding 4 is what happens otherwise. Neither a prompt
  PC nor a single upload is needed: uploads begun in the same session do no harm.
* `SuccessIsStored` does not presume that erase, write enable or programming worked:
  the chip's contents at the start are arbitrary, and any of these may be lost.
  `CleanVerifies` is the other half: with a sound chip the reading back succeeds.
* `CommandsStartClean` holds although `as_verify` leaves the chip selected: all ways
  on from there lead over `as_program_done`.
* `NothingLeftBehind` and `ResyncsAtOnce` hold after overruns and phantoms too.
  `ResyncsAtOnce` needs that a command's body has no STX_L followed by STX_R
  (`Intact`): the decoder skips that STX_R. Both of `Form1.cs`'s commands are such.
* `RetriesFail` describes what the code does to a user: after a failure with
  `packetNumber` other than 0, only restarting the tool helps. The line must be quiet
  (`Stranded`): with three uploads the last may be refused when its EOT is on the way
  already, and the board then still takes the file.

## 5. Findings

1. `copy_raw_size` (`rt_fota.c`:771): after the last buffer at most one block is
   decompressed. A package whose last buffer holds two whole blocks falls short
   of `raw_size`, is turned down, and the application is gone by then. The
   comment at line 810 says the total must reach `raw_size`.
2. `fifo_assert` (`uart_ymodem.c`:217 and 179): the flag says "open" while the
   FIFO is not there, at both ends of a session; the serial thread may come in
   between and stops in `RT_ASSERT(rx_fifo != RT_NULL)`, or writes to freed
   memory between lines 216 and 217. Bytes do come at the end: `_rym_do_fin`
   reads 133 of the closing packet's 1029.
3. `upload_success` (`Form1.cs`:204): the ACK of the closing packet is not waited
   for, so the tool reports a success the board did not have.
4. `upload_crc` (`mcu_upgrade.c`:165): the board says "crc check succ" of a file
   that misses units. No CRC is compared, and a thread left waiting by a failed
   session can take the ACK of a later one.

Seen on the way, and only described: a package with a flush header, or another that is
not `WellPlaced`, passes the verification, and the application is erased for it; the copy
then takes body bytes for a size. What fastlz and quicklz write starts with a byte other
than 0, which makes that size 2^24 or more, and the `memcpy` at 652 runs through the memory
of the boot loader; at every boot again, as the package is still staged. A small size may
even end in "Upgrade success" (838) with blocks missing. Nothing in the repository says
which packages may be built, so no run claims otherwise. Further: name and size of a file may come from
another upload than its contents, which does no harm as the size is only logged;
with a PC slower than the board's timeouts a stored file may mix two uploads;
with five uploads, answers of failed sessions that nobody has read let a later upload
run one ACK ahead, and the tool says done of a file the board has not stored, though PC
and line are prompt;
with a command for each kind before the first thread runs, the second thread
stops in `RT_ASSERT(_rym_the_ctx == 0)` and keeps its flag until the reset;
`ff_read` during an upgrade can leave the polling loop of `as_prog` (147) turning
on a pin nobody drives, or a damaged page unseen if the pin happens to read right;
`dma_isr` (`drv_usart.c`:409) counts a ring of old bytes again when the half and the
end of a transfer are both pending at index 0; an overrun of exactly one ring looks
like no byte at all.

## 6. Proofs

All theorems hold for every value of the constants that meets the named
assumptions of the module; TLC evaluates those on each run.

**Boot loader** (`ImageAssumption`, `FlashAssumption`, `EnvironmentAssumption`).
`BootInv` is type correctness, `HeadIsCurrent` and `RamPhase`, inductive by
itself: `TypeCorrect`, `HeaderCurrent`. `OverwriteSound` and `CopySound` are
action properties over it and the phases: at `erase`, the sectors before `pos`
are blank; at `copy`, the chunks before `pos` are the image's, those after are
blank. `SourceKept` and `CommitSound` need `IndInv` (`IndInvariance`), which adds the phases of
the commit (the cached header is the one with the version set) and that only a
whole application runs. They are stated under `ReadOnlyShell`, since the shell's
`ymdown` and `clone` overwrite packages on the operator's word.
`PromiseKept` is the refinement, under `ReadOnlyShell` too. What is installed, staged
and the factory package are functions of flash (`AbstractView`), so each step is
judged by what it does to the application (`AppChange`: a chunk is copied, or chunks
become blank or garbage) or to a package (`PackChange`). The abstract unit
gives an application up only with a package at hand and never goes without one;
`IndInv` supplies that the package is still there when the copy ends. An image is
told by its first chunk (`InstalledOne`), so at most one is installed.
`HangsOnlyAfterRestore` is stated under `Sound`: no failing flash, no `exec` and none
of the writing commands, and packages that decode to what they say. Its invariant
`HangInv` says why a download never leaves the unit hanging: as long as the
application is incomplete the download that was being copied is still staged and fits,
so the next boot installs it again, and one whose format is turned down is turned
down with the first sector blank, where no start vector is found.
`BootGoesOn` goes by action over the order of the steps. It needs of `IndInv` that
whatever is erased or copied fits (`SectorCount`, `ChunkCount`) and that only the
download is checked and committed, and that no partition is chosen before the keys have
been read (`KeysFirst`).

**Copy loop** (`SizeAssumption`, `LayoutAssumption`). The invariant has three parts.
`ReadInv`: every buffer that starts in what the verification has read lies in the
partition; the copy starts when that is all of them, hence `ReadsStayInside`.
`OrderInv`: every block written starts before the place where the next header is looked
for, and while that place is in the buffer it is the end of the last block or the start
of the buffer, hence `RepeatsKept`: a block found later starts later, so it comes later
in the package, and a flush header, which repeats the last, moves on to where no flush
can follow. `PlaceInv`: of a well-placed package the header looked at next is that of the
block after the last one written (`OnTrack`), hence `PlaceKept`. The branches that decode
share one lemma (`Turns`), which says what a turn does to place and buffer. `InstallsJustThese` is the exact outcome on
well-placed packages: once the loop has read the last buffer (`LastBuffer`: there is
just one that begins before the end of the data and reaches it) the block last written
is the one that reaches into that buffer (`EndInv`), so what is installed depends on
whether the tail's one more block is the last. `CopyAdvances`
goes by action: a turn ends behind the header it has read, whatever that said, or
(`HeaderFlush`) passes over it to the end of its buffer.

**Device** (`SizeAssumption`, `LineAssumption`). The invariant joins the ring
(`Accounted`, `FullIsFull`), the wake-ups (`NoLostWakeup`) and `LifeCycle`, which
says where flag and pointer stand at each step of open and close; the last is
needed to know that a thread in the middle of the FIFO has one. `FifoIsQueue`
maps the ring to the sequence of its bytes: a store is a `Put`, a turn of the
read loop a `Get`, `OpenFifo` an `Open`, `CloseFree` a `Close`, everything else
a stutter.

**Upload** (`UploadAssumption`). The invariant types the items on the line and says
that the number of the closing packet is among them only when an upload is done
(`Known`): it is what `FinishKnown` lives on, as the board finishes on that packet and
nothing else. `FlagsGivenUp` needs besides (`Threads`) that a kind is not at the same
time created, running and stopped, and that a session is under way exactly while a
thread runs it.
`UploadCommits` and `UploadSaysDone` are for any number of uploads, with a PC, line
and board as slow and faulty as they like. Their invariant `CleanInv` is about all
sessions that began with nothing left over (`clean`). What is between PC and session is
one sequence, `queue`; the line and the reads of the session only shorten it or wear its
items (`Part`, `Rear`), and what it is known to hold survives that (`PartEnds`). `Course`
lists where uploads and session can be together: while the board calls, any number of
uploads may have sent names (`Calling`), but it acknowledges one, and so at most one
upload gets to send units (`Naming`, `Readying`, `First`). From then on the last thing
in the queue is that upload's one unit or EOT, apart from commands of others (`Ends`),
and until the session has read it nothing comes back that would make the PC send
another (`Sending`, `Ending`): that is all that keeps the units in order, as no number
is looked at. A session that fails in the middle leaves a thread that waits for an
answer (`Stuck`) or CANs (`Refusing`); the next session is not clean then, unless what
was left is read first. `SingleIsClean` shows that the hypothesis always holds
for the tool's plain use: of one command comes one thread, so one upload has one session.
`RetriesAllFail` proves `RetriesFail` from `Locked`: on the line are only commands and
names with a number other than 0, and the board answers nothing but C to those.

**FPGA flash** (`ChipAssumption`, `BoundAssumption`). The invariant follows a command
over the wire: what the chip has heard is the command the driver is giving or nothing
(`Wire`), its address is the one meant (`Aimed`), and the data of a page stay in their
page (`Fits`). With these, a page program leaves everything before its packet alone
(`ProgrammedFacts`, on lemmas about `\div` and `%` that hold for every size of page),
so what earlier packets have put there is still there (`Kept`), and a reading that
finds no difference puts the current one there too (`Compared`). `SuccessStored`
follows without a word about erase, write enable or the busy bit. `SoundChipVerifies`
is the converse, on a chip that is sound, with no `ff_read` and no power loss, and it
does need them: the chip listens whenever it is selected (`Answering`: WIP is clear but
while its status is polled, and the write enable is set when an erase or a program
needs it); what is ahead of the driver is erased and what is behind is there
(`Written`). `CommandsClean` says each command has a selection of its own.

**Decoder** (`RingAssumption`, `CommandAssumption`, `LineAssumption`, `BodyAssumption`,
`BytesAssumption`). The invariant `DecoderInv` relates the decoder to the last bytes
it was given: two of them can be the beginning of a header, and then `head_flag` says so; a header and k
bytes of a command, and then it is in the body with those k bytes. Each byte keeps
this (`WindowMoves`, `BodyByte`), whatever the bytes before were, so
`CommandsGetThrough` needs nothing of ring, interrupts or queue but that they hand on
bytes (`BytesInv`).

**Ring** (`RingAssumption`, `LineAssumption`, and `Unhurried` as a hypothesis: the
queue holds two messages more than may be waiting when a byte comes, and at least four).
`RingInv` says that the bytes that have come are what the thread holds, what is counted
in the ring and what the DMA has put behind that (`InRing`); that what is not counted yet
has an interrupt to come, and that the index may have gone round only with the queue
empty (`Noticed`); and that the last message tells all there is to read (`Told`). It is
needed in this form because `recv_len` can be negative and the test for a full ring has
three cases: `CountIs` shows that the sum is the DMA index or the size of the ring
whatever the sign, and `CountRing` that the test is right in every case but one, the end
of the transfer counted at index 0 a second time, which `phantom` marks. `BytesInOrder`,
`RingDrained` and `LineTypeCorrect` follow. `Unhurried` is needed since a message that
a full queue drops leaves its bytes behind.

The type invariants of device and upload are proved (`FifoTypeCorrect`,
`UploadTypeCorrect`), so their runs are left to the properties that say more.

Only model-checked: all liveness properties (liveness under fairness is out of the
reach of the installed provers); `BootAdvances` and `Advances`, which two of them rest
on, are proved. No theorem is about what `upacker`'s checksum or the
codecs compute.

## 7. Not modelled

* `as_silicon_id` of `fpgaupdate.c` and `frame_encode` of `upacker.c`: no caller that
  an upgrade reaches.
* Bits on the pins of the FPGA flash and the order of bits in a byte.
* Modes of `drv_usart.c` and `serial.c` that uart1 does not use.
* AES, fastlz, quicklz, CRC: pure functions. A block or packet is right or not.
* What a copy that has left its buffers overwrites.
* The sending side of `ymodem.c`: no caller. `clone` to partitions other than
  `fm_area` and `df_area`, and the shell's `reset`.
* RT-Thread, HAL, FAL's partition table, EasyFlash, sfud, littlefs, ulog,
  SignalLed: third-party code; what an upgrade needs of them is in the modules
  that use it.
* Widgets, port settings and registry of the PC tool; the rest of the
  application.
