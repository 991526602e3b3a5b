# ViaOS in TLA+

TLA+ specifications of the stateful parts of ViaOS (kernel "VDK" 0.9.5), the TLC
runs that check them and theorems proved with TLAPS. Every definition is
translated from the C source; line numbers refer to `src/`.

## 1. The system

ViaOS is a 32-bit kernel booted by GRUB (`init/boot.asm`, `_start` calls `kmain`).
It has **one thread**, `kmain`, and **one interrupt routine** that is ever
reached, the keyboard's. There is no scheduler, no heap in use and no lock.

| Part | Where | State | Operations | Hard behaviour |
|---|---|---|---|---|
| Main thread | `init/main.c` 1015-1310 | `isInstalled`, `stop1..7`, `servicePage`, `agreePage`, `agreePage2`, `serviceAgreed`; the disk | hardware set-up, verification of the installation, six boot writes, installer pages, desktop frames | interrupts between any two steps; the power can fail between two writes |
| Keyboard routine and command line | `init/main.c` 310-534 | `input_buffer`, `buffer_pos`, `pageNumber`, `continueSetup`, `isInput`, `poweroff_sys`, `kbI`, `mx`, `my` | one interrupt: take a character, interpret the end of the buffer | a buffer that is never emptied; letters with two meanings; shared flags without a protocol |
| PS/2 mouse | `init/main.c` 726-906, 1275-1284 | `MousePacket`, `MouseCycle`, `MousePosition`, `bonzi`; the 8042 | `mouse_init`, one poll per frame | the port is read without asking whether a byte is there or whose it is; waits that time out |
| ATA driver | `drivers/independent/disk/ata/IDE.c`, `IDE.h` | `g_ide_channels`, `g_ide_devices`; the drives | `ide_init`, `ide_read_sectors`, `ide_write_sectors` | polling a drive that works on its own and may fail at every sector; three addressing modes |
| Physical memory manager | `include/shell/shell32/accessories/pmm.c`, `.h` | `memory_map_array`, `max_blocks`, `used_blocks` | `pmm_init_region`, `pmm_deinit_region`, `pmm_alloc_block(s)`, `pmm_free_block(s)`, `malloc`, `free` | any order of calls; full memory; several frames at once |
| IDT and PICs | `init/main.c` 249-299, `boot.asm` | two entries of the table; the 8259s | `init_idt`, `kb_init` | command words in a fixed order, some at the wrong port; edges that are lost |
| VGA graphics, text | `drivers/independent/graphics/vga/vga.c` | `current_x`, `current_y`, `new`, `counter` | drawing | the text position is loaded and stored by the thread and the routine at once; no end of the screen |
| Text terminal, strings | `init/main.c` | `terminal_row/column` | `printf`, `terminal_*`, `strcpy`, ... | scrolling |
| RIFS file table | `init/main.c` 1120-1205 | `all_files` | filled once | read by nothing |
| Windows, paint, viaver | `include/shell/shell32/` | a rectangle each | drawn, or not called at all | none |
| File previewer | `include/shell/shell32/accessories/notepad.c` | none | reads `desktop.cfg` in every frame | a failed read is not noticed; its buffer is cleared by four bytes only |
| Command bodies | `include/shell/` | none | print | none |

How they interact:

* `kmain` **calls** the ATA driver: at boot it reads the marker sector and writes
  six sectors, reads four of them back, the installer writes two, and every frame of
  the desktop reads one, through the file previewer. Every result is ignored.
* The keyboard routine **shares variables** with `kmain`: it reads `isInstalled` and the
  page flags, it writes `pageNumber`, `poweroff_sys` and `kbI`; `kmain` tests them in its loop.
* The desktop loop **polls** port 0x60, the same port the keyboard routine reads.
* Both `kmain` and the routine **draw text** with the same four variables.
* Whether the keyboard's interrupt exists at all is decided once, in `kmain`'s first
  lines, from the value `isInstalled` was *compiled* with. The committed image has
  `TRUE`: it calls `mouse_init` and leaves every interrupt masked. The installer's
  image has `FALSE`: it opens IRQ 1 and never initialises the mouse.
* `vga_swap_buffer`, `BACK_BUFFER` and `bitmap_draw_stringS`, which the desktop calls, are
  not in the repository; nothing they may do touches the state modelled here.
* `pmm.c` is linked and not called; its callers are the ones `pmm.h` documents.

What makes each part correct, in a sentence: the installer changes the disk only
after its three pages were passed in order; an interrupted boot is repaired by
the next; a line typed at the shell runs its command; a read returns the blocks
asked for and no other block is ever written; a frame has one owner; the cursor
stays on the screen and the controller stays configured; every byte of the keyboard
reaches the routine; what the user agrees to was on the screen.

## 2. The modules

| Module | Models | State and actions |
|---|---|---|
| `Keyboard` | `handle_keyboard_interrupt`, `keyboard_map` | One interrupt is one action (`Press`, `NoKey`, `AfterPoweroff`), because IRQ 1 enters through an interrupt gate. `Receive` is the routine's body: `Erase`, `Ignore`, `CommandLine` (`RunCommand`, `MoveCursor`) or `SetupPage`. `input_buffer` is the sequence of the characters below `buffer_pos`. |
| `Shell` | the routine from `kb_init` on, on a disk with an installation | `Keyboard` with the line typed since the last Enter beside it, a notion the routine does not have. `OpenLine` is `kb_init` and `enable_interrupts`, `Verified` the verification (`main.c:1109-1117`): between them the keys are taken by the installer's branch, and what they left in the buffer the command line begins with. |
| `Kernel` | `kmain` | `pc` walks the boot and the loop; a step touches at most one variable shared with the routine, so all interleavings are there. Bodies of the pages are two steps, test and flags, because keys come while a page is drawn. `disk` is the set of sectors that hold what ViaOS writes. `PowerCycle` keeps `disk` alone. Extends `Keyboard`. |
| `FrameAllocator` | the promise of `pmm.h` | `lent`, `avail`, `held`; memory is lent and taken back, frames of it are granted and released |
| `Pmm` | `pmm.c` | `used` (the set bits), `used_blocks` modulo its width, one action per function, with the arguments of the code: regions by base and size in bytes (`RegionFrames` divides them), grants by address (`Address`, `FrameOf` add and take off `MapEnd`). `granted`, `passed` and `behind` record what callers hold, the memory they passed, and the frame behind each region that `blocks >= 0` adds. Implements `FrameAllocator` on addresses with `avail <- Available, held <- Held, lent <- passed ∪ behind`. |
| `AtaAddress` | the address arithmetic of `ide_ata_access` | pure operators: `chs`, `lba28`, `lba48`, `TaskFile`; `Addressed` is the drive's side |
| `Ata`, `MCAta` | `IDE.c` | the driver's steps (`ide_init` position by position, with drives that answer late, fail or are packet devices; `Call` and its outcomes, `SendCommand`, `ReadSector`, `WriteSector`, `Flush`, ...) and the drive's (`DriveReady`, `DriveWrites`, `DriveFlushes`, `DriveFails`) between them |
| `Mouse`, `MCMouse` | `mouse_init`, `HandlePS2Mouse`, `ProcessMousePacket`, the desktop's polling | `mouse_init` is a script of port accesses, each an action; `Poll` is one frame; `KeyPressed`, `Move`, `Deliver` are keyboard, mouse and controller. `MouseCycle` is the length of `MousePacket`; `MousePacketReady` is FALSE between polls, since a packet is processed in the poll that completes it. |
| `Boot`, `MCBoot` | `kmain`'s boot and the previewer over the driver | extends `Ata`: eleven calls of the boot and one per frame (`BootCall`, `BootReturn`, `Frame`, `FrameReturn`), the driver's and the drive's steps between, `PowerCycle` at any of them. Implements `Kernel` (`KernelSpec`), where a sector is written in one step. |
| `Pic` | the 8259s, `init_idt`, `kb_init` | pure operators: the words sent as `<< port, word >>`, what a controller makes of one (`Sent`), of an edge (`Raised`), and which interrupt it asks for and by which vector. `ModeBit` says whether it heeds the first bit of ICW4, as an 8259A does and QEMU's does not. |
| `Desktop`, `MCDesktop` | the installer's image from its first word to the controllers to the desktop's frames | composes `Pic`, `Keyboard` (`K`) and `Mouse` (`M`): `SendWord`, `EnableInterrupts`, `Verify`, `TestKbI`, `Poll`; `Interrupt`, `AfterPoweroff`; the keyboard's `KeyMoves`, `Deliver`. `irq1`, a variable of `Keyboard`, is here what the controllers make of the line. |
| `Text`, `MCText` | the text position in `vga.c`, the pages of `kmain` | `bitmap_draw_string` goes from character to character (`NextGlyph`, `NextLine`, `NextPage`). `bitmap_putchar` is there twice: in `Code`, blocks of loads and stores that the main thread takes one by one (`Instruction`), and whole for the routine (`PutChar`), which draws for a key character by character (`Echo`, `EchoChar`). |
| `KeyboardProofs`, `ShellProofs`, `KernelProofs`, `PmmProofs`, `DriverProofs`, `MouseProofs`, `DesktopProofs`, `TextProofs` | - | theorems; `DriverProofs` is about `Ata` and about `Boot`, and builds on `KernelProofs`, `DesktopProofs` on `KeyboardProofs` |

Abstractions: what is drawn is left out but for its position, a row of a glyph is plotted
in one step; a sector either holds ViaOS's
contents or does not, and which boot wrote it cannot be told; a drive's data register is
one whole sector; a drive stores the sectors of a write in order and has no cache that a power failure could
empty, so what it has stored stays, flushed or not; an error code is any that `ide_print_error` can answer for the
drive's state. Undefined results are choices: an uninitialised `err` for packet
devices (`PacketDevice`), the boot's verification on a drive that fails
(`Verify`), what a packet device answers while it is busy. History variables (`agreed`,
`granted`, `doubled`, `passed`, `behind`, `null`, `early`, `left`, `lastRan`, `failed`, `flushed`, `landed`, `late`, `stale`,
`stolen`, `latePolls`, `top`, `disturbed`, `quiet` and others) are marked as such and never guard a step of
the code; `granted`, `passed` and `behind` guard what *callers* do.

## 3. The runs

| Run | Shows |
|---|---|
| `shell_plain` | Whatever was typed before, verified or not, a line that spells `hi`, `info` or `help` on the verified installation runs it while there is room (`PlainLineRuns`). A command spelt with d, s, w or a runs only if such a letter was typed before the verification, and then as the first command of the session or again behind itself (`MoveCommandsAreEarly`). What a command leaves in the buffer is never taken away, and every plain command typed as a line leaves more: the command line wears out (`BufferWearsOut`). |
| `shell_listed` (violation) | `ld` is listed in the help menu and, typed as a line on the verified installation, does not run. |
| `kernel` | Both images, three kinds of drive, three disks, a power failure anywhere: pages in order and a key on the last one before anything is installed (`InstallNeedsConsent`); who left setup gets no further than page one and nothing is installed (`QuitStopsSetup`); a boot that reaches the loop has repaired a working disk (`ImageBeforeLoop`); the marker is never there without its metadata (`MarkerAfterMetadata`); the committed image takes no key (`CommittedImageIsDeaf`). The first page comes once asked for (`FirstPageComes`); a working drive ends with the whole image (`ImageIsWritten`). |
| `kernel_success` (violation) | "Successfully installed" without a drive. |
| `pmm_single` | Callers that take one frame at a time, keep a spare frame behind each region and count bases from the end of the map get the allocator `pmm.h` promises, and the memory they passed (with the one frame behind each region, by name): `NoOverlap`, `NothingLeaks`, `FreeCountExact`, `NullMeansFull`, and the refinement `PromiseSpec`. |
| `pmm_overlap` (violation) | A request for two frames is given one that is in use. |
| `ata_drives` | Over three machines, all addressing modes and failures at every sector: `ReadReturnsData`, `WriteIsDone`, `OnlyWantedWritten`, and every call returns (`CallsReturn`). |
| `ata_write_fault` (violation) | A write the drive failed returns 0. |
| `boot_driver` | The boot over the driver, power failures between any two of their steps: it implements `Kernel` (`KernelSpec`), although nobody looks at a result and a flush may be lost (harmless here, as the drive has no cache of its own); on a drive that works the previewer shows what ViaOS writes to its sector or nothing yet (`PreviewIsWritten`); every boot reaches its loop and every frame ends (`BootEnds`), unless a drive answers IDENTIFY with a fault alone. |
| `desktop_keys` | From the firmware's controllers on, with controllers that do not heed ICW4's mode bit (`ModeBit = FALSE`, QEMU's): no interrupt reaches an entry that was not filled, although most of the second controller's words went to the first (`OnlyGates`); the polling takes at most one byte from the routine (`OneByteLost`); the routine is served as `Keyboard` has it (`RoutineAsSpecified`); every byte leaves the port, but for the two cases the property names (`PortDrains`). |
| `text_pages` | Without a key every row of every glyph of the installer's five pages and of the desktop is drawn where it belongs (`PageAsLaidOut`), on the screen (`PageFits`), whatever keys did to the pages before; a key at any instruction spoils the row of two glyphs at most (`RowHeals`). |
| `mouse_desktop` | Undisturbed, `mouse_init` leaves the controller as it was but for one bit, and the mouse reporting (`ConfigurationKept`), and packets are taken whole (`PacketsWhole`); whatever is polled, the cursor stays on the screen (`TypeOK`) and comes to rest (`CursorRests`). |

**Bounds, and why they are enough.**

* *Keyboard, Kernel:* the installer's tests look at the last character only, so
  its three keys and one that means nothing reach every branch; a buffer of three
  characters fills during the pages and after them. `CoordModulus` wraps `mx`, `my`
  early. Two power-ons (`MaxBoots = 2`) give one boot cut short anywhere and one that finds
  what it left; what a third finds is no different, as only `disk` survives.
* *Shell:* a plain command (`hi`), a command with a movement's letter (`ld`), two letters that
  move (d, s), typed before and after the verification; a buffer of four
  characters that fills after two commands. The kept line is as long as the
  longest spelling that can be typed with its Enter. `CoordModulus = 1`, as where the cursor is does not
  matter to a line.
* *Pmm:* seven frames in words of two bits: the map's spare bits, several words
  and regions that end inside one. `MapEnd = 3` is no multiple of the frame's size 2, so that an address is
  neither a base nor a frame's number. `UintMod` only has to exceed the count.
* *Ata:* a register of four values makes 28-bit addresses end at 128 and the
  uint32 at 256; the addresses are one in the third cylinder, the last of 28 bits, one of 48
  bits, one whose range check wraps. Requests of one and two sectors have a first,
  a last and a failure between them.
* *Boot:* registers of four values, a disk of nine sectors of which the boot uses
  six; QEMU's machine, a disk behind a CD-ROM, a disk on the channel after the CD-ROM's,
  no disk; the first boot and one more, on blank, half-written and installed disks, with
  drives that may fail and drives that do not.
* *Desktop:* a key the command line acts on at once and the one that leaves setup; three bytes, so that
  one can be at the port, one in the queue and one served; a byte that was at the port before the
  first word; a screen of two by two, as only the order of bytes matters here. The timer and a drive
  of the second controller ask whenever they like.
* *Text:* the pages are those of `kmain`, by the lengths of their lines, on 320 by 200, with the
  line that a click adds to the desktop's frame, which begins with a reset of its own, as a page. Keys
  are checked on rows of three glyphs: two, at any instruction, of three kinds (a
  character, Enter, a key that draws a prompt), so that a row can be lost twice
  in one glyph. The row of a key that comes before a page is the same on any screen.
* *Mouse:* two packets and one key: each can arrive before, between and after the
  steps of `mouse_init`; the screen is so small that every edge is met.

**Fairness.** `kmain` is the only thread: the processor returns from every interrupt
to it, and it never blocks (`WF_vars(Main)` in `Kernel`, `Mouse` and `Desktop`, `WF_allVars(Processor)` in `Boot`). The
ATA driver is that same thread (`WF_vars(Driver)`), and a drive that is busy ends
being busy (`WF_vars(Drive)`): the driver's waits have no limit, so without it
nothing could be said. In `Desktop` the processor takes an interrupt that is asked for
(`WF_vars(Interrupt \/ AfterPoweroff)`), and the keyboard's controller passes on what it
has once the port is free (`WF_vars(Deliver)`). Keys, packets and power failures are never assumed to happen. No
run turns the deadlock check off.

## 4. The theorems

All are for every value of the constants under the modules' named assumptions
(`KeyboardAssumption`, `KernelAssumption`, `PmmAssumption`,
`ShellAssumption`, `AtaAddressAssumption`, `AtaAssumption`, `BootAssumption`, `MouseAssumption`,
`PicAssumption`, `DesktopAssumption`, `TextAssumption`), which the runs evaluate. They give the constants their types and say
what the source fixes: a register holds two values or more and a head has fewer bits than a register, a drive without LBA has
no sector its registers cannot name, a disk has room for the boot's sectors, a scan code is below 128.

* `KernelProofs!TypeCorrect`: the type invariant; `KeyboardProofs` has the lemmas, one per
  branch of the routine. It includes that `buffer_pos` stays inside the array.
* `KernelProofs!ConsentSafety`: `InstallNeedsConsent`. The property is not inductive: `ConsentInv` adds that a
  request in `pageNumber` was made on a page that offers it (`Requests`, in particular
  `pageNumber = 2 => agreed`), that a page's flag is set only together with its stop flag
  (`PageFlags`), and that a page's body runs only after the page before (`BodiesInOrder`).
* `KernelProofs!ImageSafety`: `ImageBeforeLoop` for any number of boots. `ImageInv` says that
  at `write` the sectors before `sector` are on the disk, and in the loop all are.
* `KernelProofs!MarkerSafety`: `MarkerAfterMetadata`, if the disk before the first boot has it
  (`StartInOrder`). It needs `ImageInv`: at `write` the sectors before `sector`, the metadata among
  them, are there when the marker is written.
* `KernelProofs!DeafSafety`: `CommittedImageIsDeaf`. `DeafInv` adds that the image compiled as
  installed stays `isInstalled` and no page is asked for or being shown.
* `KernelProofs!QuitSafety`: `QuitStopsSetup`. Leaving is possible before the first page's flags
  are set only, where `ConsentInv` allows no request but the first page's; and as
  it also sets `poweroff_sys`, no key changes that request any more (`QuitInv`).
* `ShellProofs!ShellTypeCorrect`: `ShellTypeOK`. `ShellInv` adds that no page is shown before the
  verification, and that a buffer without an early movement's letter holds none (`Clean`): the argument follows the four
  `if`s that take such a letter off the end of the buffer.
* `ShellProofs!PlainLineSafety`: `PlainLineRuns`, whatever backspace does. The invariant `LineInv` says that the
  line typed and the buffer end alike, back to the line's last character that is taken out of the buffer again
  (`Taken`: a letter that moves the cursor, an answer to the installer, a backspace), if any; a plain spelling has none,
  so a line that spells it is a buffer that ends in it. The two letters before the Enter tell the commands apart (`OneSpelling`),
  so the routine finds no other command there.
* `ShellProofs!MoveCommandsSafety`: `MoveCommandsAreEarly`, if no key gives a backspace (`NoBackspace`), as
  in the source's map, where that key gives a space. `LeftInv` says that the buffer begins with what the last command
  left (`left`), that this ends in the command's letter before its last, and that every movement's letter
  in the buffer is within it. A command with such a letter reaches into `left` therefore, and it fits
  behind the end of `left` only if it is the same one.
* `ShellProofs!WearSafety`: `BufferWearsOut`, if no key gives a backspace. `BehindInv` says that what of the line stays is
  behind `left`, so a plain command takes its last two characters from there and leaves the others: every spelling is three
  characters at least, its Enter included.
* `PmmProofs!FramesExclusive`, `FramesAccounted`, `Implements`: `NoOverlap`, `NothingLeaks` and the
  refinement of `FrameAllocator`, for memories and words of every size and wherever the map ends, under the
  hypothesis `Careful` of that module: `MaxRequest <= 1`, `Spare = 1` and `RegionStart = MapEnd`. Without the
  first, `pmm_overlap` is the counterexample; without the second, `pmm_init_region`
  takes the frame behind the region (lines 112-113), which may be another's; without the third, the frames given out
  are not those of the regions, as bases are divided (109, 126) and addresses have `memory_map_end` added and
  taken off (153, 189, 165, 203): TLC finds `NothingLeaks` violated with `RegionStart = 0`. `RegionIsMeant` is the lemma that
  ties the frames of a base to the addresses its caller means, `FrameOfAddress` that an address comes back to its frame.
  The invariant relates the set bits, the memory passed and the grants, all of which have size one.
* `PmmProofs!CountSafety`, `PmmTypeCorrect`: `FreeCountExact` and `TypeOK` under the same hypothesis.
  `CountInv` says that the regions lie in the memory and that `used_blocks` is what the clear bits
  leave of `max_blocks`, as a number: it never wraps.
* `PmmProofs!RefusalSafety`: `NullMeansFull`. The search finds a clear bit if there is one, as
  the set of the clear bits has a least element (`<` on `Nat` is well-founded); so the only
  refusals are those of the count.
* `DriverProofs!AddressReachesBlock`: in the mode `ide_ata_access` chooses, the registers address
  the block that was asked for, whatever their widths. The bytes of a number are taken apart and put
  together with two lemmas on division (`Division`, `Quotients`), so that no width is
  computed with.
* `DriverProofs!AtaTypeCorrect`, `ReadSafety`, `WriteSafety`, `WritesWanted`: `TypeOK`, `ReadReturnsData`,
  `WriteIsDone` and `OnlyWantedWritten` of the driver, for all machines, blocks and counts. Its invariant
  `Inv` keeps driver and drive together: a call under way has passed the tests of
  `ide_read_sectors`, so its blocks are ones the registers can name (`Accessing`, with
  `AddressReachesBlock`); while it reads both are at the same sector (`InRead`); while it writes the
  drive is no further than the driver and exactly as far unless it has failed, and what is
  written lies between the first block and that one (`InWrite`); a drive that is busy between the
  calls works on an answer to `ide_init` that nobody waits for (`Probing`), never on a write
  (`Sending`). Without the last, the late end of one call could write in the next.
* `DriverProofs!BootTypeCorrect`, `PreviewCorrect`: `BootTypeOK` and `PreviewIsWritten`, for any
  number of boots. `BootInv` adds to the driver's invariant which drive the kernel's calls reach
  (`DiskSlots`: a slot with the model name is a disk's), that `ide_init` finds a disk that works and that no
  packet device hides (`Answers`, `DiskFound`), that without failures no call ends in an error
  (`Faultless`), that the driver is at the call the boot is at (`Calling`, `Outcome`), and that a good
  drive holds the sectors whose calls have ended (`OnDisk`).
* `DriverProofs!BootImplementsKernel`: `KernelSpec`, the refinement of `Kernel`. The drive's step
  that stores the sector of a call is `WriteSector` of `Kernel` (`LandingStep`), the end of the
  first call is `Verify`, the end of a write that did not land is `WriteSector` on a drive
  that is not there or may fail (`ReturningStep`), the end of the search for drives is `Hardware`, and every
  other step of driver and drive stutters (`QuietStep`). That a sector lands once in a call, and
  only the call's own, comes from `InWrite` of the driver's invariant; that a call on a good drive
  lands at all is in `Outcome`.
* `DriverProofs!ImageBehindDriver`, `MarkerBehindDriver`: what `KernelProofs` has proved of the disk
  (`ImageSafety`, `MarkerSafety`) holds of the drive behind `IDE.c`, for every machine and with the
  power failing between any two steps of driver and drive. The two theorems are cited through an
  `INSTANCE` with the refinement's mapping.
* `MouseProofs!MouseTypeCorrect`: the cursor stays on the screen whatever is
  polled. `MouseProofs!ConfigurationSafety`: `ConfigurationKept`, from the invariant `Handshake`
  that says, for each step of `mouse_init`, what can be under way in the
  controller: nothing when it sends, at most the awaited answer when it reads.
* `MouseProofs!PacketsSafety`: `PacketsWhole`. A packet in the making is the first bytes of one the mouse sent, and
  the rest of it is still on its way and first in line (`StreamInv`): what `MousePacket` holds,
  the port and the mouse's queue together are whole packets, until a frame has polled when nothing was there (`stale`).
* `DesktopProofs!GatesSafety`, `OneByteSafety`, `RoutineSafety`: `OnlyGates`, `OneByteLost` and
  `RoutineAsSpecified`, for every set of keys, buffer and screen and without a bound on the
  keyboard's bytes. `Stage` says, word by word, what the first controller has become; behind
  the last word it is `Live`: it asks for line 1 at most, at entry 33 unless it heeds ICW4's mode bit. `GatesSafety` has that
  as its hypothesis (`~ ModeBit`), the two others need none. `GatesMissed` says what happens otherwise: with `ModeBit` no
  interrupt that is ever asked for has a filled entry. A line that
  stays in service has set `kbI` (`Flags`), and a byte that was stolen has left its
  interrupt asked for, which sets `kbI` before the next test of it (`Polls`).
* `DesktopProofs!DesktopTypeCorrect`: `TypeOK` of the composition. The routine's part is
  `KeyboardProofs`' own lemma, cited through an `INSTANCE`; the mouse's position is kept on
  the screen by the polling, whatever the byte was.
* `TextProofs!TextHeals`: `RowHeals`, for pages of any lengths, any number of keys and whatever they draw.
  The property speaks of one instruction; its invariant `HealInv` has a clause for each block of `Code`. A
  character finds `current_y` on the row due if no key came since the glyph before it was begun, since that
  glyph ended by computing `current_y` from `counter` alone; from there the clauses follow the loads and stores to
  the next computation. Between two characters one such glyph is enough, while a character is being drawn it takes
  two: that is why `quiet` counts to 2, and why a key can spoil two glyphs and no third.
* `TextProofs!TextLaidOut`: `PageAsLaidOut`. `LaidInv` gives the whole position at every instruction of a page
  without a key, as a function of the place in the text (`DueX`, `DueRow`, `Lift`); that the next
  character is again where it gives it is arithmetic of columns and rows (`DivNext`, `DueNext`) and a fact about the row
  that is drawn too high (`LiftAfter`: it is the first one below the top, and there is one only). The pages before do not
  occur in it: what keys left behind is gone after the four stores of the reset.
* `TextProofs!TextFits`: `PageFits` under the hypothesis `FittingPages`, that for every page there are rows for
  its lines to begin at, each as far behind the one before as that line is long, at which all its glyphs are on the screen.
  It says of the pages alone what a recursive definition of those rows would, and the run evaluates it
  for `kmain`'s pages (`FittingScenes` in `MCText`). By `FitInv` the rows counted while drawing (`top`) are these.
* `TextProofs!TextTypes`: `TypeOK`. A glyph begins one place behind a row's last at most (`InRow`), whenever keys come: the routine
  tests before each of its own characters, and moves at most the one that the main thread had tested for before.

Every invariant, every action property and every refinement that a passing run checks is stated by a theorem. Only
model-checked are the liveness properties (`FirstPageComes`, `ImageIsWritten`,
`CallsReturn`, `CursorRests`, `BootEnds`, `PortDrains`), which the prover does not reach. The hypotheses that
theorems have beyond the modules' assumptions are named above (`Careful`, `StartInOrder`, `NoBackspace`, `~ ModeBit`,
`FittingPages`); the last says of the pages what no proof could compute from their lengths without induction over data.

## 5. What the code does not do

Four disagreements between the code and what the repository says of it are runs
(see `findings` in `PROJECT.json`): listed commands that cannot be typed, a success that is not
one, frames given out twice, failed writes reported as done. Others, met while modelling:

* Backspace is a space in `keyboard_map`, so the erasing branch (`main.c:344`) is
  dead: `Receive` keeps it, no key of the map reaches it.
* Every boot writes the marker (`main.c:1138`) whether the terms were accepted or
  not, and rewrites `desktop.cfg` (`main.c:1156`), which `dev/desktopcfg.md` describes as the
  user's settings.
* "PRESS ANY KEY TO AGREE" (`main.c:1241`): `1` and `l` do not, they set `pageNumber` to
  4 and 5 after it was set to 2; and with a full buffer no key counts.
* "PRESS L" (`main.c:1231`) is lost if a `1` follows before the loop looks
  (`main.c:516`): `pageNumber` holds one request.
* After "QUIT SETUP", a page asked for before is still drawn.
* `set_mouse_rate` (`main.c:775`) sets the *keyboard's* rate: its bytes go to port
  0x60 without the 0xD4 that addresses the mouse. A key pressed before
  `mouse_init`, or an answer that comes late, shifts every answer by one, and the
  controller's configuration is overwritten with an acknowledgement.
* `kbI == FALSE;` (`main.c:1283`) compares: after the first keyboard interrupt the desktop never polls
  again. If it did assign, every frame would race the routine for its bytes (`OneByteLost`).
* The desktop takes the same byte again if there is no new one: a mouse at rest
  moves the cursor into a corner.
* Between `main.c:1026` and the verification at 1116 keys go to the installer's branch, which leaves them in the
  buffer: a d, s, w or a among them does not move the cursor, and an Enter pressed later can run a command spelt with it, as `ld` or
  `shutdown`, that cannot be typed on the verified installation.
* The frames of a region are found by dividing its base (`pmm.c:109`, 126), while the addresses of frames are counted from
  `memory_map_end` (153, 189, 165, 203), which line 101 calls the starting point of regions. A caller that passes the physical
  address of a region, as the parameter's type has it, is given frames `memory_map_end` further on.
* `pmm_init_region` and `pmm_deinit_region` process one frame more than the
  region has (`blocks >= 0`, `pmm.c:113`).
* `pmm_alloc_blocks` refuses a request for all free frames (`pmm.c:178`).
* The flush is sent while the drive may still be busy with the last sector
  (`IDE.c:488`) and is then not taken; the poll behind it saves the write.
* The range check `lba + n > size` wraps at 2^32 (`IDE.c:515`).
* The bytes that should turn the drives' interrupts off (`IDE.c:252`, 367) go two ports above the
  control registers that `IDE.h:124` names (`IDE.c:83`).
* A packet device is not waited for (`IDE.c:289`): while it is busy the disk behind it on
  the same channel is not found, or the device is found twice. A disk on the other channel is
  found, so the claim of `Boot` about drives that work is about all but that one.
* A drive that answers IDENTIFY with a fault and without ERR or DRQ hangs the boot (`IDE.c:267`).
* `ide_read_sectors` and `ide_write_sectors` return an uninitialised value for a packet device they
  have no code for (`IDE.c:521`), and let the slot behind the array through (`IDE.c:510`).
* `init_idt` sends the vector, mode and mask words of the second controller to the first
  (`main.c:276-285`). The first one takes them as the words that follow, the `0x00` of line 278 as its ICW4,
  and the second stays without its mode, so that it never asks. QEMU's controller does not look at the mode bit of ICW4, and there
  it works; an 8259A answers from then on as for an MCS-80/85 processor, and its first interrupt, a key, goes to
  entry 8 of the table, which is not filled (`GatesMissed`). The other claims of `desktop_keys` are about what comes
  behind that entry: they share the assumption in practice, as the machine stops there.
* A byte that is at the port before ICW1 loses its interrupt; on a disk without an
  installation nobody polls, the port stays full and the keyboard is silent.
* The first glyph after the first line break of a page is drawn a row too high (`vga.c:418-430`,
  `Place` in `Text`). Enter on a page of the terms pushes its last row off the screen. A key
  during drawing loses or doubles a row. `update_text_position` is called by nobody.
* The previewer's `memset(buffer, 0, sizeof(buffer))` clears four bytes (`notepad.c:17`): enough to
  show an empty file if the read fails.

## 6. Not modelled, and the plan

Not modelled for good: pixels and fonts, boot loader and build files, the printed
text of the commands, `ide_wait_irq` (no interrupt of the drive is ever delivered),
`all_files` (written once, read by nothing), windows that draw one rectangle, the drawing functions that
are declared and not in the repository. The text terminal and the string helpers (`strcpy`,
`strcat`, `memcmp`, `itoa`) have no state another part reads; what their callers
make of the results is modelled where they are called.

What is left: the terminal's scrolling, and requests of 0 sectors, if code comes to depend on them.

## 7. Running

    tlc -config Kernel.cfg Kernel              # any run of PROJECT.json
    tlc -config DesktopKeys.cfg MCDesktop
    tlapm KernelProofs.tla                     # any *Proofs module
