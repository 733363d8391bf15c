# A TLA+ model of JuiceOS Kernel32

JuiceOS Kernel32 is a small 32-bit kernel: one kernel thread, started by GRUB,
that initialises memory, interrupts and drivers and then runs a shell, and
interrupt handlers that run between any two instructions of it. There are no
processes and there is no scheduler. What is hard to get right in it is

* data structures whose errors show many calls later: the free list of the
  heap, the page bitmap with its hint, the ring of the kernel log;
* the interrupt handlers and the thread sharing a one-event keyboard buffer
  and a 64-bit counter without locks;
* the protocol with hardware: the two interrupt controllers, the keyboard
  controller that stays silent until its byte is read, the IDE drives;
* on-disk structures read through buffers that everybody shares.

All paths below are relative to the repository (`src/`). Every module starts
with a comment that says which code it models, and `PROJECT.json` maps each
definition to its lines.

## Inventory

| Component | State | Operations | Works with | Hard behaviour, and what makes it correct |
|---|---|---|---|---|
| Heap (`core/free_llist_allocator.cpp`, `core/heap.cpp`) | doubly linked list of free blocks inside the heap, a header before each live block | `alloc`, `free`, `get_unused`, `dump` | page allocator (12 pages at boot), everything that allocates | splitting, merging on four sides, relinking without null tests, exhaustion. Blocks never overlap, no byte is lost, the list stays ordered and merged, `free` never fails for a live block |
| Page allocator and paging (`core/bitmap_allocator.cpp`, `core/mmanager.cpp`, `core/paging.*`) | bitmap, hint byte, counter; page directory and tables | `alloc_pages`, `free_pages` | heap, FAT driver; page fault handler | a page table allocated in the middle of an allocation, byte and 4 MB borders, a stale hint. One owner per page, bitmap = owned pages, nothing lost behind the hint, what is returned is mapped |
| Interrupt dispatch (`core/isr.cpp`, `core/idt.cpp`, `core/asm/idt.asm`, `core/drivers/pic.cpp`) | handler table; request and in-service bits of both controllers | IRQ stub, end of interrupt, spurious test, dispatch, `register_handler` | timer, keyboard, page fault | priority and cascade, spurious interrupts, events during a handler. No line stays blocked, no event is lost |
| Keyboard (`core/drivers/ps2.cpp`) | `inargs`, one event; the controller's output buffer | handler, `read`, `read_scancode`, `read_ascii` | interrupt dispatch, console, shell | the handler between any two accesses of the reader, `hlt` after the test, events before the handler is registered |
| Timer (`core/drivers/pit.cpp`) | 64-bit `ticks` | handler, `wait` | interrupt dispatch; ends the `hlt` of readers | two 32-bit loads |
| Console and screen (`core/console.cpp`, `core/drivers/screen.cpp`) | text cells, two cursors, the input line | `print`, `read_string`, `calc_fit_substring`, scrolling | keyboard, shell, kernel log | row ends, tabs, backspace over them, scrolling while typing, programs that write cells and move both cursors. The screen shows the input, and nothing a program left |
| Kernel log (`core/kernel.cpp`), its viewer (`core/shell.cpp`) | ring of 2048 characters | `kernel_log`, `kernel_render_logs`, `open_syslogs` | console | wrap at exact borders, paging. The log keeps the last characters; pages adjoin |
| Boot (`core/kernel.cpp`, `core/multiboot.cpp`, `core/gdt.cpp`, `core/asm`) | memory map, order of initialisation | `init` | everything | interrupts are on before the keyboard handler is registered |
| Storage (`core/drivers/storage.cpp`) | drives, partitions, volumes (16 each) | `register_device`, `init`, `mount`, `analyze_partitioning`, `normalize_path` | IDE, FAT, ISO 9660, shell | fixed registries, a shared read buffer, sector offsets of partitions. What is mounted is what the drives hold, once, from its own place; a path means what was typed |
| IDE (`core/drivers/ide.cpp`) | up to 4 devices; the drive's status register | identify, `read`, `write`, flush | storage | polling without a limit, a status that is late, errors in the middle of a transfer, portions of 255 sectors, drive selects that a busy drive ignores. Each sector goes to its own place, every call ends |
| FAT (`core/filesystems/fat.cpp`) | boot sector data, a shared sector buffer | `probe`, `on_init`, `resolve_path`, `read_file`, `read_dir` | storage | three table encodings, cluster chains, long names, reads in pieces, a buffer from a small heap. A listing, a lookup and a read give what the volume holds |
| ISO 9660 (`core/filesystems/iso_9660.cpp`) | volume information, a shared buffer | `probe`, `on_init`, `resolve_path`, `read_file`, `read_dir` | storage | descriptor scan, nested SUSP areas, names in several fields. The same promise |
| Shell (`core/shell.cpp`) | menu position, current directory and volume, the dumper's pointer | menu, command line, `cd`, `dir`, `readf`, `setvol`, viewers | all of the above | hidden characters and quotes, paths in fixed buffers, a current directory that outlives its volume, listings longer than the screen, with names that wrap |
| PCI (`core/drivers/pci.cpp`), CPU identification, string and number formatting, AHCI (`core/drivers/non_ready`), build scripts | | | | boot-time I/O, formatting, code the repository keeps aside |

## Modules

| Module | Models | Role |
|---|---|---|
| `HeapSpec` | what a heap promises | abstract specification |
| `FreeListAllocator` | `fll_allocator` behind `kheap` | one action per loop iteration or exit of `alloc`, `free`, `get_unused` |
| `PageAllocator` | `bitmap_allocator`, `kmmanager`, page tables | one action per bit of the scan and per part of `paging_map` |
| `Interrupts` | both 8259s, `irq_c_handler`, `handle_isr` | device events interleave with each part of the handler |
| `Keyboard` | `kps2`, the 8042, the tick that ends a `hlt` | one action per load or store of `inargs` |
| `Screen` | `kscreen`, printing of `kconsole` | operators, no state |
| `Console` | `kconsole` and its line editor | extends `Screen` |
| `LogTail` | what the kernel log promises | abstract specification |
| `Syslog` | `kernel_log`, `flatten_logs`, `kernel_render_logs`, `open_syslogs` | extends `Screen` |
| `Ide` | `kide`, one bus | the driver step by step, the two drives as its environment |
| `BlockDevice` | reading sectors of a drive or a partition | operators |
| `Fat`, `Iso9660` | the two file system drivers | extend `BlockDevice`; operators on a volume |
| `Storage` | `kstorage` and what the shell asks of it | composes `Fat` and `Iso9660` |
| `Paths` | `normalize_path`, `get_fullpath`, and a reference meaning of paths | operators |
| `Shell` | `kshell::open_menu`, `open_console` and the programs they open | extends `Paths` |
| `FreeListAllocatorProofs`, `PageAllocatorProofs`, `InterruptsProofs`, `KeyboardProofs`, `ShellProofs` | | theorems about the module of that name, checked by TLAPS |
| `DiskProofs` | | theorems about `Ide` and about `Storage` with both file systems |
| `ScreenProofs` | | theorems about `Syslog` and about `Console`, and the lemmas on `Screen` they rest on |
| `Recursion` | | lemmas about recursion and induction over numbers and sequences, for `DiskProofs`, `ScreenProofs` and `ShellProofs` |

`MC...` modules give the constants of a component their values for TLC. An
operator whose name starts with `Mut` is a faulty variant of the definition
that follows it, as a plausible slip in the code would make it; no
specification uses them. Each shows that a property can fail: with the variant
in place of the definition TLC finds the property violated.

### How state and actions correspond to the code

* **FreeListAllocator.** Addresses are numbers; `prev`, `next` and `size` are
  the fields of `llist_free_entry` as functions on the listed entries,
  `header` is `alloc_header::size` of the live blocks. `alloc(0)` returns at
  once and has no action. `AllocBegin` enters the loop of `alloc`,
  `SearchNext` is an iteration, `TakeWhole` and `Split` the two ends of
  `llist_shrink`; `FreeBegin` enters `free`, `WalkNext` is an iteration,
  `MergeBelow`, `MergeBoth`, `GrowUp`, `InsertBefore`, `InsertAfter` its ends.
  A failed assertion or a pointer that leads nowhere ends the behaviour: `pc`
  says how. A null `prev` or `next` that is written through touches the real-mode
  area at address 0, which is mapped and unused, and changes nothing here.
* **PageAllocator.** Pages are numbered from `m_begin`; `used` is the bitmap.
  `SkipFullByte`, `UsedBit` and `ClearBit` are the scan; the caller's block and
  the page table found on the way use the same scan. Frames are real addresses
  in pages, so the 4 MB border and the end of the region appear as numbers.
* **Interrupts.** All gates are interrupt gates, so `pc = "thread"` is the same
  as the interrupt flag. `irr` and `isr` are the controllers' registers.
* **Keyboard.** An event is its number in typing order; a character is the
  number of the event it comes from. The compiler options (a debug build, no
  optimisation) make every access of `inargs` one instruction, and the copy in
  `read()` loads the fields used in one; the model has one action for each.
* **Console, Syslog.** Characters are glyphs and the control characters that
  `print` treats. `gone` counts the rows that left the screen and `start`
  remembers where an input line began; both exist for the properties only, and
  so do `offset` and `chunk` of the log viewer. `RenderDirectly` is what the
  menu, the dumper and the debugger do with `kscreen`: write a cell, move
  the cursor of `outargs`, or take the console's cursor along
  (`sync_scursor_coords`, which the dumper does before each number).
  `ListFile` is a file in `dir`, with its size in column 45, also over a name
  that has passed it; `AskForMore` and `GoOn` are the paginator's prompt and
  its blanks. `writer` says who has the screen: every program ends with
  `clear()`, so the console reads a line only when it is its own, and the
  paginator asks only after an entry of `dir`.
* **Ide.** The two buses share nothing, so there is one. `sel` and `high` are
  the drive register, `drive` is what the selected drive does: idle, late (the
  command is written, the status still shows how the last one ended), busy, or
  with data to transfer. `SelectDrive`, `Ready`, `Command`, `Delay`,
  `PollError`, `Transfer` are the parts of `ata_read_sector`,
  `ata_write_sector`, their polling loops and `ata_identify`; `NextPortion` is the loop of `IDEDeviceImpl`. The content of
  a sector is its drive and number. `heard`, `faulted` and `missed` exist for
  the properties.
* **BlockDevice, Fat, Iso9660.** The kernel reads media that do not change, from one
  thread, so a driver's operation is a function of the volume and its
  arguments. A disk maps sector numbers to what a sector holds: a boot record,
  bytes of an allocation table, directory entries, descriptors, records, areas,
  data. The drivers' arithmetic (sectors of clusters, the 12, 16 and 28 bits of
  a table entry, the position within a cluster) is kept; the text of names is
  abstracted to pieces of 13 characters for FAT (a piece knows whether it ends
  with a terminator) and to a few characters for ISO. What a name buffer on the
  stack held before is an argument, `junk`.
* **Storage.** `MountDrive` is `mount_drive()` for one drive: the whole drive,
  or, when nothing was mounted or panicked, each partition, which are read from
  any first sector with the signature, a refused boot sector included
  (`Signed`). `ListDir`, `OpenFile` and `ReadFile` are `read_dir`,
  `resolve_path` and `read_file`; `buffers` follows the size of each FAT
  volume's shared buffer and the largest load that went to it. The buffers
  together take at most `HeapRoom` bytes, what the 48 KB heap has for them,
  and the tables `PageRoom`: a load that does not fit stops the kernel
  (`RunsOut`, `AddIfFits`). A real heap, in pieces and with other users,
  may refuse sooner. `phase` says how a machine stopped: `panic` (the table
  is full), `stuck` (in a probe), `fault` (division by zero) or `exhausted`.
* **Paths, Shell.** `NormalizePath` works on the characters of a path and on a
  buffer that has a place below its start, as the code would write there;
  `Walk` and `Follow` are the reference: what a path of names means. `mode` is
  the program that has the keyboard; the volumes are trees, the drivers are in
  `Storage`. A directory has, for each entry, the rows its line takes on the
  screen; a listing counts entries as the paginator does (`counter`), and
  `unseen` and `wrapped` count the rows since the last prompt. The dumper
  shows pages of memory and stops the kernel at the first that is not
  mapped (`faulted`), far below the addresses where its signed comparison
  would matter. A key that a program waits for is a choice of its action.

## Runs

| Run | Shows | Bounds |
|---|---|---|
| `heap_safety` | the allocator implements `HeapSpec`, which refuses only when no gap is long enough; blocks are disjoint and cover the heap; the double-free assertions hold; `get_unused` is exact; every call ends | a heap of a few entries, request sizes that split, leave too small a rest and fit exactly; every order of calls |
| `pages_safety` | one owner per page; bitmap, counter and page tables agree, what is held is mapped and nothing else is; `nullptr` only without a run; every call ends | 10 pages, bytes of 4 bits, tables of 6 entries: blocks within, across and over bytes, across the 4 MB border, and page tables made both while the low pages last and after |
| `interrupts_safety` | after the end of interrupt nothing is in service; no event is lost; genuine interrupts 7 and 15 are dispatched; every request is served | 5 lines on both controllers, 3 events, 1 spurious interrupt: any two lines plus one during the handler |
| `keyboard_safety` | scancodes in order and at most once; releases filtered; a controller left with an unread byte only by the first event before registration; no missed wake-up | 3 events of every kind, enough for one read, one being read and one overwriting |
| `console_safety` | the screen shows the input buffer; when neither a program nor the paginator has it, nothing stands behind the cursor | 3 by 3 cells, tabs of 2, input of 3: every wrap, two rows scrolled; programs writing anywhere, a size put over a name, a prompt of 2 cells |
| `syslog_safety` | the ring implements `LogTail`; pages adjoin, reach the end, do not scroll | ring of 6, portions of 0, 1, 2, 6 and 8, screen of 2 by 3: up to three pages |
| `ide_safety` | only disks are registered; a read fills each cell with its own sector whatever failed; a write goes where it was asked; an error reported is the error of this command; detection and every call end | every pair of disk, CHS disk, packet drive and none; 5 sectors, portions of 2, so one to three commands; low registers of 3 values, so a call crosses from the low registers to the bits in the drive register |
| `files_safety` | every volume of every drive is mounted, in order, and nothing else, until the kernel stops; a listing is complete; a path finds what is stored under it; a portion read is that portion; a division by zero only in the known cases; no load overruns the shared buffer | disks of 1 to 80 sectors of 4 bytes, one of each kind (below), ten machines, 3 volumes before the panic, memory for the buffers of two or three FAT volumes, first clusters cut to 16 values, reads of one and of three sectors |
| `shell_safety` | quoted words come back as arguments; `argv` never overflows; a path is the one asked for; `cd` lands on something that exists, and crashes only on a machine without volumes; no row of a listing scrolls away unread, with at most one wrapped row on a page | none, one or two volumes; every path of up to 4 characters of `/ . d f`; every line of up to 4 of blank, quote, backslash and letter; path buffer of 8; 2 arguments; screen of 5 lines; listings of 7 entries, entries of 1 to 3 rows; 6 pages of mapped memory, jumps of 4 |

The disks of `files_safety` are laid out by hand in `MCStorage`, each with what
it was written to hold (`Written`), which is what the properties compare with:
a FAT12 floppy without partitions (volume label, names in one and two pieces, a
name across two clusters, erased and orphaned entries, a file in several
pieces); a FAT16 disk with sectors larger than the drive's; a hard disk with a
FAT32 and a FAT16 partition among unused entries (a root in two clusters with
leftovers behind its end, an empty file, files of one and of several clusters);
an ISO disc with plain names and a root of two blocks, whose extension is not
Rock Ridge; one with Rock Ridge names continued in two other blocks; one with
two primary descriptors; a FAT32 disk with files and a directory that begin
beyond the width of a first cluster; boot sectors the driver refuses (NTFS
with code in place of a partition table, a table whose size is 0 in 16 bits, a
total too small for its own tables); an empty disk. Some of the machines have
a full table of volumes, some no room for one volume more, at boot or for
a directory later. The floppy is what needs every branch of
the directory parser, the hard disk every branch of the partition and chain
code, the discs every branch of the SUSP walk.

Runs expected to fail state what a comment or an assertion says and find the
behaviour of the code that contradicts it:

| Run | What happens |
|---|---|
| `heap_free_strays` | a block freed into an empty list keeps the old header bytes as `next`; the next `free` follows them |
| `interrupts_spurious` | a spurious interrupt is dispatched: the test is late and inverted |
| `fat_names` | a long name that fills its last piece is handed out with the tail of a longer one read before it |

Seen while modelling, in the models' behaviour and without a run of their own:

* Heap and pages: an `alloc` that nothing fits reads address 0 before the
  assertion that reports it; `m_pagesCount` counts from the start of the region
  and not from `m_begin` (`bitmap_allocator.cpp:28`), so pages past its end can
  be handed out; the size of an `alloc` near 2^32 wraps; no caller of
  `alloc_pages` tests for `nullptr` (`heap.cpp:33`); a block across a 4 MB
  border is returned half mapped (`MappingIsExact` excludes just these); freeing
  a block behind a page table stops at an inverted assertion
  (`mmanager.cpp:166`); memory above 4 MB gets mapped although
  `docs/memory.txt` lists it as unmapped.
* Keyboard and timer: a key typed before `kps2::init` silences the keyboard for
  good (`StuckOnlyFromBoot` says that nothing else does); `read_ascii` can
  return 0 when a release comes between its test and its read, and a modifier
  key makes a waiting one return the last character again; `read_string` stores
  Escape instead of ending the line (`console.h` names it beside Enter); the
  64-bit tick count is read in two halves.
* IDE: a cache flush is not awaited, so the select of the next portion can be
  ignored (`heard` is false then; `write` has no caller), and what a failed
  portion returns is ignored, so a failed `read` looks like any other.
* FAT: `read_file` takes the clusters of a file for contiguous and copies each
  to the start of the caller's buffer, so only reads within a cluster of a file
  in one piece are right; an empty file or one in several pieces on FAT32
  divides by zero; the table is read from the wrong sectors when the volume's
  sectors are larger than the drive's; only 16 bits of a FAT32 entry's first
  cluster are used (`HandedOut`), so what begins beyond them is looked for
  elsewhere, and at a multiple of 65536 as the root; 16 bits of the length of
  a FAT32 volume's table are kept (`SectorsPerFAT`), and a total smaller than
  the tables wraps to very many clusters (`FatVolume`); the entry of a volume
  label can be opened under its name, as can `.` and `..` of a
  subdirectory; a short name without an extension gets a trailing dot.
* FAT and memory: the buffer of a volume and its table are allocated without a
  test. Three FAT16 volumes with 512 root entries, 16 KB each, or one with
  clusters of 64 KB, exhaust the 48 KB heap and stop the kernel, at boot or at the
  first command that needs a larger load.
* ISO 9660: a second primary descriptor is scanned for ever; tags after a CE in
  the same area are dropped.
* Storage and shell: `analyze_partitioning()` takes any sector with the
  signature for a master boot record; `mount()` panics at 16 volumes before it has looked whether
  the device holds one; `Partition::write` leaves out the partition's offset (no
  caller); `cd` without volumes follows a null pointer; ".." at the root writes
  below the buffer; `setvol` leaves the current directory of the other volume;
  names that wrap scroll the first entries of a page away, since the paginator
  counts entries and has one row to spare; the dumper stops the kernel
  when it is moved to memory that is not mapped; `cd` accepts a file; a path too long is cut without a word; the prompt of
  `setvol` points into a string that is already gone.

`mmanager.h` says that `get_allocated()` counts what `alloc_pages()` gave out;
it also counts the directory and the page tables (`BitmapIsExact` has the exact
sum).

Deadlock is checked in the console, log and keyboard runs. Elsewhere the system
may stop: at an assertion or an exception (heap, pages), at a panic, an endless
descriptor scan, a division by zero or without memory (files), at a null
pointer or an unmapped page (shell), with
no event left to come (interrupts), without a disk to call (IDE).

### Fairness

* Heap, pages: weak fairness of the steps of a call: the thread runs on.
* Interrupts: weak fairness of each line's delivery and of the handler: the
  CPU takes an interrupt that stays deliverable, and handlers are straight code.
  Events are bounded, so more important lines cannot starve a line for ever;
  the real timer and keyboard are slow against their handlers.
* Keyboard: the controller passes bytes on, the timer ticks, requested
  interrupts are taken, the boot code reaches `kps2::init`, the thread runs on.
  No fairness of typing and none of calling `read`.
* IDE: weak fairness of the drives and of the driver: a drive ends what it
  does, with data or with an error, and the driver is straight code between two
  reads of the status. That a drive answers is what the polling loops, which
  have no limit, rest on.
* The console, the log, the storage layer and the shell have safety properties
  only: each operation there is one step, or waits for the user.

## Proofs

TLC checks the small instances above; TLAPS proves the following for every
value of the constants that satisfies the assumptions named in the modules.
Every proof has the same shape: an inductive invariant, one lemma per action
that the action preserves it, and the properties as consequences of it. TLC
checked each invariant on the instance of its component's run first.

| Module | Proved | Assumed of the constants |
|---|---|---|
| `FreeListAllocatorProofs` | `TypeOK`, `NoOverlap`, `NoLeak`, `Coalesced`, `WalkAssertsHold`; the refinement `KeepsPromise` of `HeapSpec` | an entry is longer than a header, the heap holds at least one entry and lies above its own length, as it does above 1 MB |
| `PageAllocatorProofs` | `TypeOK`, `OneOwner`, `BitmapIsExact`, `NullOnlyWhenNoRun`, `MappingIsExact` | the region begins in the first 4 MB but not at 0; sizes stay below the word's limit |
| `InterruptsProofs` | `NothingLeftInService`, `NoEventLost`, `GenuineIsDispatched` | devices use lines 0 to 15 other than the cascade |
| `KeyboardProofs` | `StuckOnlyFromBoot`, `ScancodesInOrder` | for the second, that callers discard the queue, as every caller does |
| `DiskProofs` | of `Ide`: `TypeOK`, `OnlyDisksRegistered`, `ReadIsRight`, `WritesWhereAsked`, `FailureIsReal`. Of `Storage`: `StorageOK`, `MountsAll`, `PortionIsRight` | the sectors can be numbered with the registers; a sector holds one of the things `SectorContents` lists; on each volume found, the table links a cluster only to ones nearer the end of their chain, so no chain is a circle (`ChainsEnd`); for `MountsAll` also that `Holds` names, of each disk alone, what the drivers recognise on it, and that no drive or partition is one the probes do not return from (`LaidOut`); for `PortionIsRight` that, where a path leads the driver by directories it reads right to something that begins within 16 bits, the bytes of what is stored lie, in the cluster or block that each belongs to (`FilesLaidOut`). The memory for buffers and tables is any number of bytes |
| `ScreenProofs` | of `Syslog`: the refinement `IsLogTail` of `LogTail`; `PagesAreWhole`, `PagesAdjoin`. Of `Console`: `EchoIsInput` | a tab is shorter than the screen without its last line; the longest input, all tabs, is not longer than that either; line feed and carriage return are not glyphs; the paginator's prompt and the sizes of `dir` fit their row |
| `ShellProofs` | `ArgsAreTheWords`, `NothingScrollsAway`, `CdFindsThePlace`; `PathIsRight` as long as each path that a `cd` succeeded with fitted its buffer and stayed below the root (`PathIsRightWhenMovesFit`), and without that condition where no volume lists `.` or `..` (`AlwaysPathIsRight`); `TypeOK` on volumes whose root lists no `.` and `..` (`AlwaysTypeOK`), and on all as long as no `cd` succeeds by a path that climbs above the root (`TypeOKWithinRoot`) | the entries of a directory take at least one row each, path buffers hold more than 3 characters, lines and leftovers are characters, lines without a terminator inside; a line offered with words spells them |
| `Recursion` | lemmas only: least number, induction up to a number and over sequences, existence and uniqueness of a recursively defined function, also of one that descends along links, concatenation of a sequence of texts | |

### Why the invariants are what they are

* **Heap.** `Inv == TypeOK /\ NoOverlap /\ NoLeak /\ Coalesced /\ ListOrdered /\
  SearchPosition /\ WalkPosition`. To know that a merge takes only bytes that are
  free one has to know that `next` is the nearest entry above (`ListOrdered`),
  that the entry `free` stands at is the last one below the block
  (`WalkPosition`), and to know that relinking ends at the right place that two
  free blocks never touch (`Coalesced`). The refinement is a second pass over the
  actions: every step is a stutter, an `Ask`, a `Grant`, a `Refuse` or a
  `GiveBack`.
* **Pages.** Below the hint every page is taken (`HintIsLow`), and a scan never
  leaves a run behind it (`ScanMissesNothing`): together they make `nullptr`
  mean that there is no run. The page tables need that an entry sits in the
  table of its own frame, and that a block that begins behind a table ends
  behind the same one (`BlocksStayInTable`): otherwise a release would clear
  entries of another block.
* **Interrupts.** That nothing stays in service depends on what the controllers
  marked when the interrupt was taken: `OwnService` says that the lines in
  service are exactly those of the interrupt being handled, for a spurious one of
  the slave only the cascade, and the end of interrupt undoes exactly that.
* **Keyboard.** No lock protects `inargs`. The order survives because the
  controller's byte is always newer than the buffer (`ByteIsNewer`) and a full
  buffer newer than what was last returned (`ReadIsNewer`, which needs
  that a call begins by discarding); `OneEvent` says that the two fields that
  are copied one after the other are of one event.
* **IDE.** The driver and the drive count sectors independently. `CommandOK` ties
  them: while the driver polls, the drive has left what `idx` says (`InStep`), or
  has failed this very command (`GaveUp`), or is not there. `MissedOK` and
  `CellsOK` then say cell by cell what the buffer holds.
* **Volumes.** `StorageOK` says that a load never exceeds the buffer it goes to and
  that a file is not read past its end. Both are about numbers read from the
  medium, so the invariant says where they come from: each volume in the table is
  one that probing a drive, or a partition of one, and initialising it gave
  (`FoundVolumes`), and whatever the sectors hold, that gives numbers, a chain
  of clusters and directory entries of their types. The buffer is followed
  through each load of a walk, the position of the open file through each cluster
  of a read. `MountsAll` needs to know which part of the table each drive gave
  (`Grown`): the table is the volumes of the drives before `next`, put end to
  end, or as many of them as were mounted when the kernel panicked or ran out of memory
  (`UsedUp`); and that the partitions
  are tried exactly when the drive itself gave none. `PortionIsRight` needs that a
  file in hand was found under its path and is not read to its end
  (`PortionInv`). What is proved then is the arithmetic of `read_file`: the two
  divisions that take a position to a cluster or block (`Located`), how much of it
  is taken (`FatPortion`, `ChunkIsRight`), that the parts join to the portion
  (`Stretches`, `IsoPortion`), that no cluster behind a delivered portion spoils
  it (`DeliveredStays`), and that only a cluster without sectors makes the read
  divide by zero (`SolidReads`).
* **Log.** Each call maps to one `Append` of `LogTail`: the ring, cut at
  `writePtr` and put end to end, is the old log with the portion behind it, cut to
  the last `SYSLOG_LENGTH` characters, whether it did not reach the end of the array,
  reached it exactly or went over it (`KernelLogAppends`). For the viewer,
  `calc_fit_substring` and `print` walk the same text in two ways, one with a
  number and one with a screen; `PlacesFacts` and `PrintingFacts` tie the number to
  the cursor after each character, by induction over the text, and
  `PageIsWhole` concludes that a page scrolls nothing away.
* **Console.** A screen forgets what scrolls away and a backspace undoes what a
  `print` did, so nothing about the cells alone is inductive. The invariant speaks of a
  tape: one cell for every place ever reached, rows scrolled away counted. The screen
  shows the end of some tape (`Painted`), the tape is blank from the console's
  cursor on (`Bare`), and a line being read stands on it from `start` up to the
  cursor (`Echo`). Then `putc_core` is an assignment to the tape, scrolling
  changes nothing of it (`ScrollOnTape`), a tab moves over cells that are
  blank (`BlanksOnTape`), and a backspace moves the end of the line back
  (`StepsBackFacts`, `EchoErased`) wherever the rows end. All of this holds while the
  console has the screen (`writer`); programs may leave anything on it, and the
  invariant starts anew at the `clear()` behind them. The paginator's prompt
  stands on a row that was blank, `Asked` says how far, and its blanks make the
  row what it was. A size that `dir` puts over a long name, or behind a gap, is
  followed by an end of line, behind which the tape is blank. That the start of a
  line never scrolls away is the bound on the input (`ShownLength`).
* **Shell.** That the current directory fits its buffer is not inductive by
  itself. `normalize_path` writes a terminator only when it writes something: a
  path that begins with dots and has nothing else leaves its buffer as it was, and
  what was on the stack would be the new directory. It cannot happen because the path that
  is normalised begins with a slash, or with the current directory, and that
  one (`PlaceOK`) is empty or begins with a slash or a name other than dots.
  Two arguments show that the next directory does so too. On a FAT volume it is something
  the volume holds, and the root of one lists no dots (`FirstName`,
  `HeldOpens`). On any volume, no turn of the loop leaves dots at the start of the buffer
  (`Clean`, `TurnCleans`, `NormalizedOpens`), as long as the write position never
  went below it. The lemmas follow the segments of a path (`FirstSegment`,
  `LongerOpens`, `SegmentsSlash`) and the terminator through the loop (`Ends`,
  `TurnFacts`).

  `PathIsRight` compares the buffer after each turn of the loop with the place
  that the names read so far lead to: the buffer is always that place, each
  name behind a slash. It needs, once more, that the current directory has no
  dots among its names (`CwdOK`). A `cd` keeps that if its path was right. But
  a path longer than the buffer is cut without a word, and its last name may be
  cut to `..`; a path that climbs above the root loses characters to the place
  below the buffer. If the volume lists the dots that are left, as ISO 9660 directories
  and FAT subdirectories do, the current directory ends in dots and the next
  relative path is wrong. Hence the condition of `PathIsRightWhenMovesFit`, which
  is about earlier calls of `cd` only.

  `ArgsAreTheWords` follows the parser over a line of the form that `Means`
  describes: what is in `argv[]` after each word, plain or quoted, is the words so far,
  and the next character starts a word.

### What the proofs changed in the models

* `Ide`: `TypeOK` gave the drive's next sector too small a range: a command may be given
  any number its registers hold, and a drive that served the disk's last
  sector stands behind it.
* `PageAllocator`: `OneOwner` also says now that no page is the table of two
  directory entries, and that the page being cleared for a table is not one
  yet; without it `MappingIsExact` is not inductive.
* `Syslog`: `PagesAreWhole` needs the tab to fit a page, which the code
  takes for granted (4 columns of 80 by 25); it is now an assumption.
* `Console`: the paginator's prompt leaves no trace only if it fits its row, which is
  now an assumption; the echo of a line needs that the characters that move the cursor
  are not glyphs and that texts are made of characters; both are now assumptions. `Shown`
  and the backspaces over a tab are written without folds.
* `Shell`: the assumption on the lines offered to the parser says what words a
  line spells, so that the parser's result can be compared with them on every such
  line; a line has no terminator inside, and a buffer on the stack may hold
  anything, terminators included. That the root of an ISO 9660 volume lists `.` and
  `..` (`iso_9660.cpp:328`), which turned up as the hypothesis the bound on the current
  directory needs, is now in the trees of `MCShell`.
* `Storage`: how much memory there is does not matter to what is mounted and to the
  bound on a load, so `HeapRoom` and `PageRoom` are any numbers; what a sector can hold (`SectorContents`) was understood and not
  stated; it is now an assumption on the disks. A machine without drives starts
  ready, where it waited for a drive to mount. The cases of the ISO 9660 verdict
  exclude each other.
* Folds over texts, paths, clusters and entries became recursive functions
  (`Printing`, `PlacesAfter`, `Segmenting`, `Normalizing`, `Naming` of the texts,
  `Loads`, `Mounting`, `FatWalk`, `FatReading`, `Buffers`, `IsoWalk` of the volumes,
  and both `Parsing`), of which
  `Recursion` proves that they exist and step as written. The induction
  theorems of the library take an operator as parameter, which the provers
  cannot instantiate; those of `Recursion` take a set, and they can.

### Only model-checked

* Liveness (`EveryCallEnds`, `RequestIsServed` and the like): fairness and
  `ENABLED` are outside what the prover handles.
* `UnusedIsExact`: a sum over a linked list.
* `Shell.TypeOK` on a volume whose root lists dots, after a `cd` that climbed above
  the root: below the buffer, a name can lose its first characters to the
  place before it, and what is left may be dots. TLC finds no such `cd` among
  paths of 4 characters.
* `ListingIsRight`, `OpenIsRight` of `Storage`, and what `NamesAreReady`
  contradicts: they compare the drivers with what each disk was written to hold,
  and that a disk holds it, chain by chain and record by record, is a statement
  about the disk that would repeat the drivers.
  TLC evaluates it on the disks described above. It also found `ChainsEnd`,
  `LaidOut` and `FilesLaidOut`, which the theorems about `Storage` assume, true
  of these disks.

## Not modelled

* PCI enumeration, CPU identification, the GDT and the parsing of the multiboot
  tags compute from input at boot and keep no state that changes afterwards.
* FAT long names outside their buffer: a piece numbered 0 is written in front of
  the 256 bytes of the name, piece 20, of a name of 248 characters or more, up to 4
  bytes past their end, and higher numbers beyond (`fat.cpp:467`). The disks have names
  of 1 to `MaxPieces` pieces, 19 in the code.
* How the heap is cut up between its users: `Storage` bounds what the volumes
  take together, `FreeListAllocator` says what a heap does.
* The AHCI driver is not part of the running kernel; the repository keeps it
  under `non_ready`.
* Number and string formatting, colours, the hardware cursor, the tables of the
  keyboard layout: data, without control that a property here is about. The
  menus and the commands of the shell that only print are one action each.
* Calls without a caller: `pic_mask`, `pic_disable`, `ktimer::wait`,
  `kps2::peek`, `destroy_array`, `ata_softreset`, `Partition::write`, `deinit`.
  `IDEDeviceImpl::write`, also without one, is modelled with `read`.
* The limit of `register_device` is 16, four drives at most are registered.
* `iderd` is a `read` of `Ide` followed by printing.

## Plan

1. Heap and its proof, pages, keyboard, interrupts, console and log: done.
2. IDE, volumes, both file systems, paths and the shell: done.
3. Proofs of the safety properties of the heap, the pages, interrupts, keyboard, IDE, log
   and shell: done.
4. The console's echo, the meaning of paths and of quoted words, the table of
   volumes, the shared buffers and the portions read proved: done.
5. Left to TLC: what is listed under "Only model-checked".
