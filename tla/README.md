# Verification of the BAS kernel

TLA+ models of the BAS kernel (`src/kernel`, `src/desktop`), the configurations
that check them with TLC, and proofs checked by TLAPS. All paths below are
relative to `src/`.

## The system

The boot loader (`gnu-efi/bootloader/main.c`) loads the kernel, reads the UEFI
memory map and jumps to `_start` (`kernel/src/kernel.cpp`). `InitializeKernel`
(`kernelUtil.cpp`) then brings the parts up one after the other: GDT, page
frames and page tables (`PrepareMemory`), heap, interrupts, mouse, PCI and AHCI;
it enables interrupts last. `_start` picks a disk, reads the FAT volume's boot
sector, prints the prompt and halts in a loop. From then on everything happens
in interrupt handlers: the keyboard's handler runs a whole shell command.

| component | state | operations | interacts with |
|---|---|---|---|
| page frame allocator (`paging/PageFrameAllocator.cpp`, `Bitmap.cpp`) | bitmap, search hint, three byte counters | `ReadEFIMemoryMap`, `RequestPage`, `FreePage(s)`, `LockPage(s)` | everybody who needs a frame |
| page tables (`paging/PageTableManager.cpp`, `PageMapIndexer.cpp`) | the tables in memory, PML4 | `MapMemory`; `PrepareMemory` builds the first ones | takes frames from the allocator; heap, PCI and AHCI map through it |
| heap (`memory/heap.cpp`) | list of segments, `end`, `LastHdr` | `malloc`, `free`, `ExpandHeap` | takes frames and maps them; `new` in AHCI and the shell |
| FAT (`filesystem/fat.cpp`, `drivers/readDisk.cpp`) | boot sector, root directory, ten handles, five cached FAT sectors | `FAT_Initialize`, `FAT_Open`, `FAT_Read`, `FAT_ReadEntry`, `FAT_Close` | reads sectors through AHCI; called by the shell |
| AHCI (`AHCI/ahci.cpp`) | ports and their command lists | `ProbePorts`, `configure`, `Read` | the device; frames for its lists |
| PCI, ACPI (`pci.cpp`, `acpi.cpp`) | table of drivers | `FindTable`, `EnumeratePCI` | maps configuration space, creates AHCI drivers |
| shell (`desktop/handlers/keyboard.cpp`) | input line and index, current path, disk | one call per key; `ls`, `cd`, `read`, ... | FAT, heap, renderer |
| keyboard, mouse (`userinput/`) | shift keys; packet buffer, position | one call per byte of the device | shell, renderer |
| interrupts (`interrupts/`) | PIC masks and in-service bits | handlers, `RemapPIC` | keyboard, mouse, timer |
| timer, clock (`time/`) | ticks; date and time | `Tick`, `Sleep`, `read_rtc` | - |
| renderer (`BasicRenderer.cpp`) | cursor, colours | characters, lines, mouse pointer | framebuffer |

What is hard in it: boot is a fixed order of steps in which each undoes part of
the one before (reserve everything, give some back, protect parts again); tables
are built in memory that they themselves must map; the heap rewrites a doubly
linked list in four places; the file system keeps positions, buffers and caches
that must agree after errors; handlers run a command against whatever the main
program has set up by then; devices may stay silent.

What makes each part correct: a frame has one owner and protected frames have
none (below 2 GiB, see there); a walk of the tables gives what was mapped last; segments tile the heap
and blocks never overlap; a file's bytes come from its own chain of clusters;
every command ends; a device is answered only when it is ready; a command is the
line that was typed. `PROJECT.json` lists the places where these are at risk
("hazards"), with the properties that cover them.

## Modules

| module | models |
|---|---|
| `FramePool` | abstract: a pool of frames, each free, withdrawn or held |
| `PageFrameAllocator` | the allocator, from the memory map to the last request |
| `PageTableManager` | `MapMemory`, `PrepareMemory` and the later callers |
| `BlockStore` | abstract: blocks of bytes held at the same time are disjoint |
| `Heap` | `malloc` and `free` |
| `FAT` | the file system, and `ls`, `cd` and `read` of the shell that use it |
| `SectorReader` | abstract: one read at a time, answered truthfully |
| `AHCIPort` | a port's driver and its device |
| `LineEditor` | abstract: a line that is typed, erased and entered |
| `Keyboard` | scancodes, shift keys and the shell's input line |
| `Interrupts` | extends `Keyboard`: the handlers, the PICs, the devices and the main program after `sti` |
| `Mouse` | the decoder of the mouse's packets, with bytes that get lost |
| `Renderer` | the text, its pointer and the mouse's arrow on the screen |
| `Boot` | the loader's last part and the search for the disk |
| `MC*` | the instances that TLC checks |
| `PageFrameAllocatorProofs`, `PageTableManagerProofs`, `HeapProofs`, `FATProofs`, `AHCIPortProofs`, `InterruptsProofs`, `BootProofs` | the theorems about each of them |
| `ScreenProofs` | the theorems about `Mouse` and `Renderer` |

### PageFrameAllocator

`phase` is the place in `ReadEFIMemoryMap`; `i` and `t` are its loop variables,
and every step handles one descriptor or one frame, so that an invariant of each
loop can be stated. Afterwards (`phase = "ready"`) `RequestPage`, `FreePage` and
`LockPage` run in any order. Counters are kept in frames and wrap as the 64-bit
byte counters do. The bits past the memory are part of the model: the bitmap has
`memorySize / 4096 / 8 + 1` bytes, up to fifteen bits more than there are frames,
and only the bits up to the memory size (and below 2 GiB, see below) are reserved. Those *phantom* frames
stay clear and `RequestPage` hands them out when nothing else is left
(`PhantomsLast` says: not before). The same code makes the free counter start
at one frame less than the memory and lets it pass below zero when phantoms are
taken; `CountersTrackBitmap` states what it equals modulo 2^64 bytes. In a memory
map with holes the memory size is the sum of the descriptors, so frames above it
have no bit and no lock holds them; `ProtectedKept` speaks of those that have one.

The loops over several frames add `t * 4096` to an address, where `t` is an `int`:
the product wraps at 2 GiB (the kernel is built without optimisation, so that the
instruction's result is what counts) and is then extended with its sign. `Offset` is
that product in frames, `IntFrames` the 524288 frames of 2 GiB. So `ReservePages`
never reserves a frame at 2 GiB or above: what is not conventional memory there stays
clear and `RequestPage` hands it out. And within a conventional segment of more than
2 GiB `UnreservePages` gives back frames below the segment's base. `Protected` is what
does stay protected: the low frames, the bitmap's first 2 GiB of frames, and the
non-conventional frames below 2 GiB as long as no conventional segment is larger than
that (`SegmentsFit`). Nothing is claimed of the others. Beyond 8 TiB `t` itself wraps;
`Offset` is periodic, so that going on would change the same frames again, and the
model's loop, which ends, stands for memories below that, as does `InitBitmap`, whose
`int i` counts the bitmap's bytes.

`FreePage` is modelled although the kernel never calls it: by the holder of a frame,
and once more on a frame that is free. It would free a reserved or a locked frame
too; that callers free only what they hold is their contract, which the guard states.

`FramePool` is what the callers rely on. `ImplementsPool` maps a clear bit to a
free frame and checks every step of the allocator against it.

### PageTableManager

A page is its number, a frame is its number; `memory` gives every frame read as a
table of `Fanout` entries. `Descend` is one of the three equal passages of
`MapMemory`; frames have arbitrary contents until `memset`. The pool answers as
the allocator does (lowest clear frame first, phantoms last, then NULL). The
model stops at the step that puts a table in a phantom frame or in frame 0, which
is what NULL is as an address, since `MapMemory` does not look at the answer and
the kernel then overwrites memory it does not own: `exhausted` marks these states
(`Misplaced`), and `CHECK_DEADLOCK FALSE` allows them. The constants' assumptions
put the framebuffers and the devices below the heap, whose address is above any
memory; they say nothing of where the pools' frames lie, nor of what is in them. The framebuffer's lock covers one frame more than its mapping when its
size is a multiple of a page.

### Heap

Addresses and lengths are bytes as in the code (header of 32 bytes, unit of 16,
pages of 4096). `malloc` is a search with one step per segment; a recursive call
after `ExpandHeap` starts again at the first segment, and `expansions` counts
them. Merged headers leave `seg`, so that a link to one of them cannot pass
unnoticed. `Split` stores through `next` even when it is NULL, that is, to
address 16; `nullLast` holds that word, and `Keyboard` says whose memory that is. Requests whose rounding overflows 64
bits are outside of the model, as is a caller that writes past its block.

### FAT

`pc` is the place in the running command: `walk` and `search` are the loop of
`FAT_Open` and the one of `FAT_FindFile`, `open` is `FAT_OpenEntry`, `opened` the
command's own part. A step is one iteration of a loop. A command runs in the
keyboard's handler, so the next one begins when it has ended. The operators that
read the disk give the set of their outcomes; `Outcome` takes one of them.

Lengths are in units, of which a sector has eight and an entry two. A sector's
content is its number, so that a buffer is the number of the sector it was
filled from, and `output` is the list of sectors and offsets that `read`
printed. The FAT cache remembers both what it should hold (`FatCachePosition`)
and what it does hold (`FatCacheHolds`): they differ after a failed read. Numbers
wrap at `Word`, which stands for 2^32.

The volume is a constant and is assumed to be in order: the numbers of its boot
sector have their widths, the root directory is on the disk, and an entry whose
name somebody can ask for (`UserNames`) has its chain of clusters (`Chained`) or,
when it is an empty file, none. A chain lies on the disk, ends, is as long as the
file's size needs and shorter than 2^32 bytes. The four reserved bits of a FAT32
entry, which `NextCluster` does not mask, are zero. Deleted entries, parts of long names, "." and
".." may point anywhere. What the code does on a damaged volume is not modelled.

A failing read leaves the buffer alone or fills it; `failures` counts those of
sectors that the disk has, and a read past the disk always fails. A failed read
makes `FAT_Open` answer NULL in places where its caller then uses it. `UsesNull`
stops the model there, and `CHECK_DEADLOCK FALSE` allows that. The last name of a
path may come out with one character too many, because `FAT_Open` reads the
byte after the end of the string; `ShortNames` are the names that this
changes.

Boot's `FAT_Initialize` succeeds; the one that `cd` repeats may fail. FAT12,
`FAT_Detect`, long file names and the conversion to names of 8.3 are left out:
the names are distinct values and an entry has exactly one.

### AHCIPort

Driver and device are two processes. A step of the driver is one access to a
register that the device changes too, together with what the code does up to the
next one; `pc` is its place in `configure` and then in `Read`. The device has two
engines that follow the bits ST and FRE with the bits CR and FR, takes a command
when its list engine runs, transfers, and completes or fails. After a failure it
is `halted` until ST is cleared, as the AHCI specification has it. The driver
never clears ST again, so the next call waits for ever; `CallsReturn` therefore
speaks of devices that are not halted, and the deadlock check passes only because
polling goes on. `Lba` is the number that arrives: the six bytes are filled from
the wrong halves, so only 24 bits do (the assumption keeps sectors below that,
8 GiB, where the file system of a small disk lives). `tables` shows that the
tables of the upper half of the slots are put beyond their own page; only slot 0
is ever used.

`SectorReader` is what `FAT` assumes of a read that succeeds or fails
(`ImplementsReader`). `EnginesRest` says when memory may be exchanged.

### Keyboard and Interrupts

`Keyboard` has the code's numbers: scancodes, characters, and `- 32` for a
shifted key, whatever the key, so that a shifted `*` is a newline. The table of
characters is of 7 bits, as `ASCIITable` is. The index of
the line wraps at `LineSize`, 256 in the code; `overrun` is history and tells
that the line is no longer what was typed. A command ends the line; its work is
left to `FAT`.

`inputedString` is a pointer that nothing assigns. It is in `.bss`, which the model
takes to be zero (the loader copies `p_filesz` bytes of a segment and no more; with
other memory behind them the line is anywhere), so the line lies at address 0. That
page is mapped, and the kernel is linked there: the line's 256 bytes are
`ACPI::FindTable` and `AHCI::CheckPortType`, which run at boot only, so the line
begins as code (`CodeBytes`) and typing destroys them. The same page has the word that
`Split` writes through a NULL `next`: characters 16 to 23 of the line (`LastField`)
become a pointer to a segment (`PointerBytes`) when a command allocates and the heap's
last segment is split. The command runs on the line itself. `cd` finds the length of
its argument, allocates and then copies, so its argument may come out with those
eight characters replaced, or cut off at one that is zero (`WithPointer`, `IsCd`).
The other commands compare or copy their line before they allocate: `read` copies the
name out of the line first, `mcolor`'s copy goes through `BSLstr::substr`, which does
not allocate. `FinishLine` is the whole of this in one step; nothing interleaves, as
interrupts are off. `LineEditor` states what is left of the promise: a command of
`Rereading` may find other characters at the positions `Exposed`, and at no others.

`Interrupts` lets keyboard and mouse fill the controller's buffer, the PICs
choose, and a handler run in two steps (the byte is read, the byte is handled and
the end of the interrupt told) between which only the devices move. The main
program is what follows `sti`: everything up to the prompt is one place
(`"prompt"`), and the two assignments of the prompt are two steps. `leftover` is
how `PS2MouseInitialization` may leave the controller: its time-outs are counted
in iterations, so that the mouse's last answer may have been read in time, be
still unread, or be read with its interrupt latched. In the last case a handler may take the
other device's byte, and `BytesInOrder` and `ShiftsFollow` do not claim
anything. `due` and `held` are history.

`ImplementsLine` maps the line to `LineEditor`, `BytesFetched` is liveness: no
byte stays in the controller.

### Mouse

`HandleMouseData` first acts on the packet that the byte before completed, then
takes the byte. The mouse sends packets whose first byte has bit 3 set; `Lose`
drops a byte on its way, `phase` is the place in the packet that the mouse has
reached, `mouseDataTime` the one the code believes in. `Resynchronises`: three
motion bytes in a row without bit 3 are enough to fall into step again, whatever
was lost before. `PointerFollows`: a packet that arrived whole moves the pointer
by what it says, to the edge of the screen at most.

### Renderer

The screen is a grid of cells of 8 by 16 pixels, a cell the set of what was drawn in
it since it was cleared, since `PutChar` only adds pixels. The text's pointer (`Bar`)
is drawn and removed as the code does, before and after each operation.

The arrow is a bitmap of 16 by 16 pixels (`CursorBitmap`), drawn at any pixel:
`Covered` computes the cells in which it has pixels, up to three columns by two rows,
cut off at the edges. `DrawCursor` keeps what it found in each of them and
`DelteCursor` (`Deleted`) puts it back. A cell in which nothing changed meanwhile is
as before. In one that was written, erased or cleared, the arrow's pixels get their
old contents and the others stay, which is a mixture: `Smear`, together with all that
either may show. `mcolor` (`Recolour`) draws the arrow anew without the mouse, also
before the mouse was first moved.

Cells are cleared with `ClearColour`, a member that no constructor and no caller sets:
`Cleared` marks them, so that a cleared cell is not one that was never drawn in, and
the bar, whose background is kept in eight bits a pixel, leaves a `Trace` on them and
cuts the left edge off a character that it is drawn over (`Cut`). Colours are not
modelled: should `ClearColour` be that of the text, what is typed there cannot be read.

`LineShown` claims the rest: the characters drawn since a cell was cleared are the
line's, from its first on, and nothing after it, whole, with the pointer at its end or
nowhere; smeared cells are excluded until they are cleared.

`showPointer` and `hidePointer` index `pointerBackground` with -5 and -4, that is, 80
to 49 bytes below the array. In the kernel as it is linked here no variable lies there
(padding between two sections); the model has the background live from a
`showPointer` to the `hidePointer` that always follows, and says nothing of what else
these bytes may be in another build.

### Boot

`machine` is a computer: its configuration tables, its list of ACPI tables, its
PCI functions and their ports. The first half is `efi_main` from the memory map
on, beside a firmware whose timer events may change the map (`FirmwareEvent`).
The second half is the chain of searches through which the kernel finds its
disk, each as the code does it. The enumeration takes one function per step
(`EnumerateFunction`, in the order of addresses that the nested loops have, over
the addresses where a computer may differ: a function that a loop of the code
would find absent changes nothing), and the probing of a controller one port
per step (`ProbePort`); `devices` gets its row when the last one has been probed.
`WellFormed` says what every computer keeps: bus, device and function numbers
have their widths, a controller has at most 32 ports, as its register
`portsImplemented` has bits, and there are at most 32 controllers, since
`PCI::devices` has 32 rows and the code does not count them.

`pc = "lost"` is where the code goes on with
what is not there: a NULL table, a map that was never written, a port count that
was not initialised. Reading the registers of port 30 or 31 is such a step, as
`ahci.cpp:192` maps one page and they begin at offset 0x1000, unless the page behind
is mapped anyway (`reach`). Two more may go either way (`Hopefully`), depending on
what the memory in question is: a class without a name (`classed`), with which
`deviceClasses` is indexed past its 20 entries, and a row of text below the last one of
the screen, since each present function prints its line (`rows` of them), a driver
three rows more, and nothing ends the listing. `Below` and `Bottom` are the rows that
the pointer comes to.
 `StartsAlone` says when boot services are gone and the map
is the right one; `DiskFound` that an `Ordinary` computer, and the definition
says what that takes, these three included, gets its first controller's first disk.

## Runs

| run | instance | bounds | shows |
|---|---|---|---|
| `frames` | `MCPageFrameAllocator` | four memory maps of a few frames: contiguous, with holes, with nearly all padding, and with a segment larger than `IntFrames` (10 frames stand for 2 GiB); every order of request, free, double free and lock | the protection, the hint, the counters, and the refinement of `FramePool` |
| `tables` | `MCPageTableManager` | four entries per table, 22 frames, three pools, two framebuffers, two devices; the heap starts one page before a boundary of all its tables | exact translation, no frame lost or shared, every table in reach |
| `heap` | `MCHeap` | one page at first, at most three; requests at the boundaries of split, page and double expansion | tiling, coalescing, disjoint blocks, bounded recursion, termination |
| `files` | `MCFAT` with `MCFAT.cfg` | FAT16, 22 sectors, four files (one of them empty) and two directories, two handles, a cache of two sectors, one failing read; any sequence of commands | handles come back, `read` prints the file and no more, commands end |
| `ls_complete` | `MCFATList.cfg` | the same volume, no read fails | violated: `ls` misses entries |
| `not_a_directory` | `MCFATWalk.cfg` | the same | violated: a file is searched for entries |
| `fat32_ends` | `MCFAT32.cfg` | FAT32, a root directory of one cluster | violated: a search does not end |
| `disk` | `MCAHCIPort` | three slots, two to a page, two polls until a busy device is given up, one failure, sectors at the ends of the 24 bits | engines rest, calls answer right and return |
| `mouse` | `MCMouse` | four kinds of packets, motions 0, 1 and -1, a screen of 3 by 2 positions, two lost bytes | the decoder falls into step, the pointer follows |
| `input` | `MCInterrupts` | lines of three bytes, a key with a character, Enter, backspace, one shift key, one byte of the mouse, the three leftovers; a line of two characters is a `cd` command whose second character the heap may write over | bytes in order, shifts, the line editor, no byte stays |
| `screen` | `MCRenderer` | a screen of two columns and five rows, two characters, lines of up to four of them, commands of no or one line, the arrow drawn twice, at three places (over two, four and one cells) | the line is shown |
| `boot` | `MCBoot` | 3184 computers, one firmware event | the kernel is alone, the disk is found |

The fourth map of `frames` has one segment from frame 13 on in which the product
wraps: frames 3 and 4 are given back in place of 23 and 24, and frames 10 to 12 are
never reserved. The bounds of `frames` reach every phase and let the pool run dry, so that
phantoms and refusals occur. In `tables` the pool runs dry on every path too, and
new tables are needed at each of the three levels after the identity map.
Three pages are enough for `heap` to have a free tail that is merged into, a
tail in use, and a request that needs two expansions.

In `files` the volume has a file that ends inside a sector, one that ends with
its cluster, one whose chain of clusters goes back and forth over three FAT
sectors (with a cache of two), a directory whose only entry is in its second
sector, and an entry that is the last of its sector. `ls` reads one entry less
than a sector has, as it does in the code. One failing read anywhere, followed by
any commands, is enough to leave each of the buffers and caches stale. What is
claimed after a failure is what the code can keep: handles and lengths, not data.

The fairness is `WF_vars(MallocStep)` for `malloc` and `WF_vars(CommandStep)` for a
command: both run either before `sti` or inside a handler, whose gate keeps
interrupts off, so a call that has begun is never abandoned. Callers and users
owe nothing. In `AHCIPort` the driver's steps are fair for the same reason, and so
are the device's engines and the end of a command; `BecomeReady` is not (a device
may stay busy), nor is `Read`. In `Interrupts` the processor is fair, with a
handler or with an interrupt it can take, and so is the main program between
interrupts; keys and mouse are not.

The bounds of the later runs: `SpinLimit` 2 has a device that becomes ready
before the limit, at it and never. Two lost bytes shift the packets by one and by
two places. A line of three bytes wraps with three keys, and `due` never holds
more than two bytes of a device, since the buffer holds one. The two
columns of `screen` make a line of four characters cross two row boundaries; the
arrow is drawn over a line, and what is typed, erased or printed under a part of it is
smeared when it is drawn a second time; `MaxLine` bounds the line. The machines of `boot` vary the
tables (all sequences of up to four kinds, with memory after them that looks like
ACPI 2's identifier or not) and the PCI functions (absent host bridges, absent
first functions, a controller on the last bus, a second segment, controllers
with sleeping, optical, multiplier and no ports) separately. A third group has a
controller with 32 ports, whose last two are not implemented, unused or disks, with
their page mapped or not, a function with and without a class name, and screens of 6
to 13 rows for a listing that needs 13.

## Findings

- `fat.cpp:356`: `FAT_Close` rewinds the root directory but does not reload its
  buffer. After a search that ended on the last entry of a sector, `ls` lists the
  next sector in place of the first one (`ls_complete`).
- `fat.cpp:435`: `entry.Attributes & FAT_ATTRIBUTE_DIRECTORY == 0` compares first,
  so "not a directory" is never answered and a file is searched for entries
  (`not_a_directory`).
- `fat.cpp:295`: on FAT32 the root directory's size is 0, which lifts the limit of
  `FAT_Read`, and nothing else ends the search for a name that is missing, though
  the README claims FAT32 (`fat32_ends`).

## Proofs

TLAPS proves the theorems below for every value of the constants that satisfies
the assumptions of the modules, which TLC evaluates in every run. A safety
invariant that a run checks is proved unless this section says otherwise.

| module | theorem | property |
|---|---|---|
| `PageFrameAllocatorProofs` | `TypeCorrect`, `HintIsSound`, `ProtectionHolds`, `PhantomsComeLast`, `CountersHold` | `TypeOK`, `HintSound`, `ProtectedKept`, `PhantomsLast`, `CountersTrackBitmap` |
| | `PoolImplemented` | `ImplementsPool`: refinement of `FramePool` |
| `PageTableManagerProofs` | `TypeCorrect`, `Translations`, `TablesMapped`, `HeapPrivate`, `FramesCounted` | `TypeOK`, `TranslationExact`, `TablesReachable`, `HeapPagesPrivate`, `FramesAccounted` |
| `HeapProofs` | `TypeCorrect`, `HeapTiled`, `HeapAligned`, `HeapCoalesced`, `BlocksKept`, `RecursionBound` | `TypeOK`, `Tiled`, `Aligned`, `Coalesced`, `BlocksInSegments`, `RecursionBounded` |
| | `StoreImplemented` | `ImplementsStore`: refinement of `BlockStore` |
| `FATProofs` | `TypeCorrect`, `HandlesComeBack`, `PrintsNoMore` | `TypeOK`, `HandlesReturned`, `NeverTooLong` |
| | `BufferExact`, `WholeFileRead` | `BufferAtPosition`, `WholeFile` |
| `AHCIPortProofs` | `TypeCorrect`, `EnginesAtRest` | `TypeOK`, `EnginesRest` |
| | `ReaderImplemented` | `ImplementsReader`: refinement of `SectorReader` |
| `InterruptsProofs` | `TypeCorrect`, `BytesHandledInOrder`, `FlagsFollowKeys` | `TypeOK`, `BytesInOrder`, `ShiftsFollow` |
| | `LineImplemented` | `ImplementsLine`: refinement of `LineEditor` |
| `ScreenProofs` | `TypeCorrect`, `BackInStep`, `PointerMoves` (`Mouse`) | `TypeOK`, `Resynchronises`, `PointerFollows` |
| | `LineCorrect` (`Renderer`) | `LineShown` |
| `BootProofs` | `KernelAlone`, `FirstDiskFound` | `StartsAlone`, `DiskFound` |

Each module has an inductive invariant (`IInv`, theorem `Invariance`), because the
properties speak of what the code has achieved and not of how far it has come.
TLC checked every one of them on the module's run before it was proved.

- Allocator: `ProtectedKept` is about the time after boot, and why it holds is what
  each loop has done so far. `BootProgress` says for each phase which frames below
  the loop variable are set, as far as `Offset` reaches, `SetBelow` and `OthersSet` what was set and not given
  back, `Holders` that a held or locked frame has its bit set, `Counted` how the
  counters follow. `TypeOK` and `HintSound` are inductive together.
- Page tables: translation is exact because the tables are a tree of four levels
  (`Tree`): no frame is a table twice, and none is left in the pool. `Holds` says
  that the last level is what was mapped, `Needed` that there is a table for a
  prefix of a page's indices exactly when a mapped page has that prefix, `Targets`
  where the identity map and the heap point. `Descend` either follows an
  entry or adds one leaf to the tree; `MapMemory` is three of them and a store.
- Heap: no induction over the list is needed, since the invariant is local to
  an address. `Forward` and `Backward` say that a segment's link and its
  neighbour's link back agree, `Ordered` that nothing lies between the two, `Units`
  that lengths are multiples of 16. `Split`, both merges and `ExpandHeap` are
  lemmas on headers, used by `malloc` and `free`. `Search` knows how often the
  heap was expanded and why one more expansion is enough.
- FAT: `Safe` holds whatever reads fail. It says whose entry the one open file is
  and keeps position, size and what was printed in order; the
  size may shrink to the position at the end of a chain. `Exact` holds as long as
  no read failed: the cached sectors are those the cache should hold
  (`CacheRight`), and an open file stands inside its chain with the cluster, the
  sector and the buffer of its position (`Inside`), or has been read to the chain's
  end (`AtEnd`). The n-th cluster of a chain is defined by recursion; all that the
  proof needs of it is `ClusterAtIs`. On FAT32 `NextCluster`
  does not widen the end marks, so `FAT_Read` does not notice the end of a chain. A
  file's size ends the reading before that, so files are proved there too. A
  directory has no size: its search goes behind the chain (`Lost`), where nothing is
  claimed of its position, and may move the cache off the disk; `CacheRight` is
  therefore about the sectors that the disk has, which is what makes the next file
  come out right. The kept FAT32 run is the violation `fat32_ends`; TLC also checked
  this invariant on FAT32 instances (end marks 20, 60 and 90, up to 5.3 million states).
- AHCI: `DeviceState`, `CommandState` and `CallState` say for each place of the
  driver which engine bits, command and buffer are possible, and `FramesState`
  that no frame is exchanged before the engines rest.
- Mouse: `QuietBound` bounds how far the decoder and the mouse can be apart after so
  many bytes without bit 3, `Received` says which bytes of the packet the buffer has.
- Interrupts: `QueueState` says that what the controller, the handlers and the
  latches hold is, in order, what is due; `ShiftState` applies those bytes to the
  flags; `LineState` says that the line holds bytes, whatever code it began with, and no
  zero before its end. What `FinishLine` makes of a `cd` command after the heap's store
  is a lemma on `StringAt`: it is the line up to an exposed position.
- Renderer: the cursor is as many cells behind the line's start as the line is long,
  which makes `LineShown` inductive. The arrow needs
  no position: whatever cells it covers, `Deleted` either leaves a cell's characters as
  they are or smears it.
- Boot: `MapState` says that the key of the firmware's map grows with every change,
  so that a key that is still the map's tells that nothing happened in between;
  `StartsAlone` follows, for any number of changes. `EnumerationState` says that the
  row being built has the used ports of its controller, in order, below the next one to
  be probed. For a computer that is `Ordinary`, `SearchState` says that no
  step so far went astray and that the first controller is either still to come
  (and then the table is empty and no other controller is being probed), or the one being
  probed, or the owner of the table's first row; that the ports are mapped and the rows
  on the screen is what `Ordinary` asks of every function that is visited. That there is a first controller,
  and that `FindRsdp` takes ACPI 2's table, are lemmas on finite sets of numbers.

Every invariant, action property and refinement that a passing run checks is
proved. Only model-checked is liveness (`MallocReturns`, `CommandEnds`,
`CallsReturn`, `BytesFetched`), which needs fairness and ENABLED, out of the
prover's reach. The proofs are about the models; the bounds of the
loops that TLC explores are gone in them, the assumptions of each module are not.

## Plan

1. Done: allocator, page tables, heap, and the allocator's proofs.
2. Done: `FAT` with the shell's `ls`, `cd` and `read`.
3. Done: `AHCIPort` with its device, `Keyboard` and `Interrupts` with what runs
   after `sti`, `Mouse`, `Renderer`, `Boot`.
4. Done: the proofs of `AHCIPort`, `Interrupts`, `Mouse`, `Heap`,
   `PageTableManager`, `Renderer`, `FAT` and `Boot`.
5. Left: an abstract file store that `FAT` refines.

## Not modelled

- gnu-efi (vendored): nearly nine tenths of the repository's lines. The kernel's and the
  loader's own code is about four thousand lines, and the share of the whole that the
  models can cover stays small for that reason.
- The clock (`time/CMOS`): nobody calls it. The sleeping functions of the timer:
  nobody calls them. `PIT::Tick` adds to a floating-point number that nobody reads;
  the timer's handler shares the PIC with the others and nothing else.
- GDT, panic, port I/O, `RemapPIC` and the IDT: constants and single instructions.
- The commands that only print or write a port, the names of PCI devices,
  strings and numbers: output. `BSLstr::substr`, which `mcolor` and `read` use, writes
  its copy into the literal `""` of the program.
- Memory that is not what the loader meant it to be: the kernel's `.bss` is taken to
  be zero, although the loader copies only the bytes that the file has, and the line's
  typing destroys code at address 0 that the kernel no longer runs.
- The allocator's frames above 2 GiB that the code fails to protect: the model hands
  them out as the code does, and no property speaks of them.
- The text below the last row of the screen: `Next` has no limit, and the code
  then writes past the framebuffer. `Renderer` ends there.
- FAT12, `FAT_Detect`, long names; `standardHeap` (nobody calls it).
- What a caller does to the heap that writes one byte past its block, as `cd` and
  `read` do when a path's length is a multiple of 16 (`keyboard.cpp:169`): the
  heap's model has no bytes in its headers.
- The loader's reading of the kernel and the font: straight-line calls of the
  firmware.
