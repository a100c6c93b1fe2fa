# aiOS in TLA+

aiOS is a small x86 operating system: a paging manager, processes with a
round-robin scheduler, a FAT32 driver, a keyboard and text screen, a CMOS clock
driver, and a shell with a handful of programs.  This directory models its core
logic, checks it with TLC and proves most of what it checks with TLAPS.

Paths below are relative to the repository's `src/`.

## Inventory

| Part | State | Operations | Hard part | Correct when |
|---|---|---|---|---|
| paging manager `paging.c` | frame map, free counter, used directories, entries | create/free directory, allocate/free user frame, check | entries overwritten, pages freed twice | counter exact; no frame mapped twice |
| process manager `process.c` | process list, used slots, counter | create (six exits), destroy by pid | half-finished creations, dead slots that still match pid 0 | the three records agree; no stale context |
| scheduler `scheduler.c` | running index, states, CR3 | init, save context, switch | a tick at any instruction, after any create or kill | the interrupted program is what is saved; every READY slot is reached |
| boot `kernel.c` | - | format or load the FAT, map page 0, create init, first switch | return codes are not looked at | init runs in its own directory |
| system calls `interrupt.c` | - | 15 calls, timer, keyboard | run with interrupts off | - |
| FAT32 driver `fat32.c` | FAT cache, table buffer; the disk | format, read, write, delete, read_directory | power failures between cluster writes; two copies of the driver, each with a FAT of its own | every disk on the way is a sound file system; a call is all or nothing |
| keyboard `keyboard.c` | one-character buffer, flag | interrupt, system call 4 | keys between any two instructions | keys applied once and in order |
| screen `framebuffer.c` | cells, cursor | characters, newline, tab, backspace, scroll | wrap, scroll and backspace at edges; the clock writing too | the screen shows the line |
| shell `user-shell.c` | line | edit a line | polling against interrupts | the line is what was typed |
| file commands `cd.c mkdir.c rm.c cat.c exec.c cp.c mv.c find.c` | current directory, one directory table for all of them | walk a path, then read, write or delete; `cp` recursive, `mv` as `cp` and `rm` | the table changes under a loop that reads it; return codes not looked at; power failures between the writes | the prompt tells the truth, copies are copies, nothing is lost but by `rm` |
| clock `clock.c`, `cmos.c` | last two readings; the corner | read the chip until two passes agree, write the digits | the chip updates between reads | never a torn time; the corner shows it |
| ATA driver `disk.c` | the device's registers | read/write blocks | the device works between the accesses; the shell's copy runs with interrupts on | what is written is what is read |
| `gdt.c idt.c intsetup.s portio.c stdlib/` | tables | - | - | not modelled |

How they interact.  Programs enter the kernel by `int 0x30`; the timer and the
keyboard by IRQ.  All gates are interrupt gates, so kernel code is never
interrupted: a handler is one step of the models, and concurrency is that of
handlers with the instructions of programs.  Process creation calls the paging
manager and the driver's `read`.  The shell links its own copy of the driver and
of `disk.c` (`mkdir`, `rm`, `cp`) and writes to the disk in user mode; it uses the
kernel's copy to read.  The clock program writes into the corner of the screen
that the shell scrolls.

## Modules

| Module | Models | Correspondence |
|---|---|---|
| `Paging` | `paging.c` | `memory` is `page_manager_state`, `page_directory_manager` and the entries; each routine is an operator from one `memory` to the next. `PagingSpec` runs it on its own. |
| `Process` | `process.c`, `scheduler.c`, boot from `kernel.c:35`, timer and system calls 10 and 11, `exec.c`, `kill.c`, `crt0.s` | EXTENDS `Paging`. `state`, `pid`, `context` are the control blocks; `cpu` is whose registers are loaded, `cr3` the directory in force. The exits of `process_create_user_process` are disjuncts in the order of the code. |
| `FileStore` | nothing of the code: the promise | A set of entries; adding or removing one is one step, and a file's name and extension are new where it comes. No disk, cache or failure. |
| `Fat32` | `fat32.c`, with requests as `mkdir.c`, `rm.c` and the inserter make them | `disk` survives `PowerOff`, `cache` does not. A call reads and decides in one step and leaves in `pending` the disks its writes produce, one `DiskWrite` each. `ImplementsFileStore` is the refinement of `FileStore`. |
| `Terminal` | `keyboard.c`, `framebuffer.c`, loop of `user-shell.c`, writes of `clock.c` | `PressKey` is the interrupt; `Poll` and `Echo` are system calls 4 and 5 with the code around them; `ClockWrite` is system call 14. |
| `Shell` | the file commands, the prompt and the dispatch of `user-shell.c`, the inserter | EXTENDS `Fat32`. A path is its words. A walk and what is decided from it are one step; `calls` is the stack of what `cp` and `mv` have still to do, a level of `cpHelper`'s recursion being a `Loop`. The writes are those of `Fat32`, one at a time. |
| `Rtc` | `read_rtc` of `cmos.c`; the chip is external | Each register read is a step; the chip raises its flag, changes registers one at a time and lowers it in between. |
| `Clock` | `clock.c`, system calls 13 and 14 | EXTENDS `Rtc`. Every digit is a write of its own; then `read_rtc` is called again. |
| `Ata` | `disk.c`; the device is external | Every port access is a step. `drive` is what the device does: fetching, accepting or storing a block, or at rest; busy, it takes and delivers nothing. `registers` are its sector count and address. |
| `ProcessProofs` | - | theorems about `Paging` and `Process` |
| `Fat32Proofs`, `FileStoreProofs` | - | theorems about `Fat32`; its refinement of `FileStore` |
| `ShellProofs` | - | theorems about `Shell`, on top of these |
| `TerminalProofs`, `ClockProofs`, `AtaProofs` | - | theorems about these, `Rtc`'s in `ClockProofs` |
| `InductionLemmas` | - | induction over numbers and intervals, recursive functions, from well-foundedness; division with remainder |
| `MC*` | - | constants for TLC |

A frame, a directory or a page directory index is a number.  A saved context is
two names: the process whose registers it holds and the directory it names;
the contents of registers, of executables and of pages are left out.  A cluster of data is
a token that says which cluster of which write it is.  Lower-case operators keep the
names of the C functions.

## Runs

Passing runs:

| Run | Question | Bounds, and why they are enough |
|---|---|---|
| `paging` | Does any sequence of the four routines keep the counter exact and frames private? | 4 frames, 3 directories, 4 pages: exhaustion, overwritten entries, release and reuse of a directory all happen. |
| `processes` | With programs that kill only others and execute readable files: do table, contexts and CPU agree, is nobody starved, can a creation stop half-way? | 12 frames, 5 directories and slots. Frames run out as on the real machine (1 for page 0 and 2 per process, never given back), slots are reused, the search wraps. Exec at any page, the stack's included. |
| `processes_wild` | Does what must hold whatever programs do still hold? | 11 frames, 4 directories, 3 slots, a counter of 8 values so that it wraps; self-kills, kills of dead slots, unreadable files, creations that stop half-way happen. Directories or slots may run out before frames, which the real constants exclude: a creation then maps through the null directory or stores before the list. |
| `files` | Is a FAT file system, written and deleted in any order through the shell's copy of the driver beside the kernel's, with the power failing, sound on every disk; does the copy's FAT stay the disk's; does the driver implement `FileStore`? | 4 user clusters, 2 slots, files of 1 or 2 clusters: chains fragment, slots are reused, the disk and the table fill up; one power failure, after which everything can happen again. |
| `tree` | The same with directories within directories, under requests with any extension, as `mkdir.c:24` and `rm.c:20` leave it unset; does a file ever come to stand beside an entry of its name and extension? | 2 user clusters, 2 directories below the root: one within the other, deleted and made again. One name, as it is collisions that matter, with two extensions: files and directories of it in either order, twice the same directory, a directory in a slot that held a file's extension. |
| `terminal` | Is the line what was typed, does the screen show it, does the clock stay in its corner? | 3x4 screen, 2 of the columns the clock's, 7 keys of two characters, newline, backspace and tab: a line wraps at the bottom and scrolls, a backspace goes back over the wrap. |
| `rtc` | Is the time delivered ever torn, does the corner show it, does it keep up? | Starts before a carry into minute, hour, noon, midnight; 5 updates, up to 3 of them during one call, in both hour modes and both codings; as many calls as the clock makes meanwhile. |
| `shell` | Two commands in a row on a disk the inserter made: is the prompt's path true, are copies complete, can anything be lost, does every command end? | 9 clusters, 3 slots, four names; disks with next to nothing, with a tree two deep, and with a file longer than `cp`'s buffer beside a directory with a file. Copies of a tree with the room for it and without, moves, names that exist, `..`, absolute paths; one power failure between any two writes. |
| `ata` | Is what calls write what calls read, whatever the device does between two accesses? | 5 blocks whose numbers take two registers and more (a register has 2 values instead of 256), blocks of 2 words, calls of up to 2 blocks, 3 calls: a write, another over it, a read. |

A call of `read_rtc` takes microseconds and the chip updates once a second, so
three updates (`UpdatesPerCall`) are more than any real call meets; without a bound a call
could be caught in updates for ever.  In `shell` the buffer of `cp` has one cluster instead of
twelve, and the longest file two.

Where code and callers leave something open the passing runs assume it by name:

| Constant | Assumes | Without it |
|---|---|---|
| `CarefulKills` | programs kill live processes other than themselves and init, and do not return from main | `processes_wild`; `MCProcessSelfKill.cfg`, `MCProcessExit.cfg` |
| `AlwaysReadable` | exec names files that can be read | `processes_wild`; `MCProcessReadFailure.cfg` |
| `RoomChecked` | no write when some but not enough clusters are free | `no_room` |
| `FreshDelete` | a copy of the driver reads or writes before it deletes | `fresh_shell` |
| `EmptyDirsOnly` | programs delete no directory that has entries | `delete_full` |
| `AtomicFormat` | the power stays on while formatting | `MCFat32Format.cfg` |
| `CarefulUser` | the shell's user does not type a directory's own name in it, deletes no directory that is not empty or that the shell is in, copies nothing below itself, and moves files of the root that read finds and that fit the buffer, to new names | `MCShellMove.cfg`, `MCShellOwnName.cfg` |
| `OneAtATime` | no program's disk command is cut by another's | `MCAtaTwo.cfg` |
| `KeepClock` | a clock, once started, is not killed | its digits stay and scroll up with the text |

`CopyMirrors` speaks of copies that must succeed (`Expected` in `Shell`): the target is new, there is room,
the source is a file of the root that `read` finds and that fits the buffer, or a directory; of the files in
a directory it says nothing, because `cp` reads every file from the root (`cp.c:121`) and
writes it under the target's own name (`cp.c:134`).

That `read` finds the file has to be said.  `read` compares deleted entries too (`fat32.c:123`), and the shell
never sets the extension of its requests (`mkdir.c:24`): where a deleted directory of the file's name lies in front of it, `read`
stops there with 1, `cp` writes its buffer all the same (`cp.c:127`), and `mv` then removes the only copy.  Four commands
are needed for it, one more than `MCShell.cfg` allows; it was met in the proof of `OnlyRmLosesData`, for which `FitsBuffer` excludes it.

With the real constants resources end in proportion: 31 of 32 frames are free at boot,
page 0 takes 1 and every process 2, none is given back: 15 processes are ever
created, with 16 slots and 32 directories.  `PoolsBalanced` states that
proportion and `processes` has it in small.

Three runs expect a violation; `findings` in `PROJECT.json` quotes the comment each
contradicts:

| Run | What happens |
|---|---|
| `no_room` | with some but too few clusters free, `write` returns 0 although it took clusters twice: with two free and three required it takes 3, 4 and 3, the last assignment (`fat32.c:223`) ends the chain at 3, and of the file the third part alone can be read |
| `fresh_shell` | the shell's first delete, before it ever wrote, replaces the FAT on disk by an empty one |
| `delete_full` | a directory with entries is deleted |

`MCFat32Names.cfg` passes too: `ReadFindsFile` and `FilesEnterAlone` with two names, two extensions and a directory.  There a directory
does come to stand before a file of its name and extension (`Hidden`), which takes a second name: the slot it takes must have held that extension under another.

The other configurations reproduce disagreements that are known and stay out of the
regular runs.  Each ends with its property violated:

| Configuration | Module | Property | What happens |
|---|---|---|---|
| `MCProcessReadFailure.cfg` | `MCProcess` | `SavedContextsResumable` | a failed exec leaves the new directory in CR3; the next tick saves it with the caller's registers (`process.c:53`, comment `process.h:50`) |
| `MCProcessKillNumber.cfg` | `MCProcess` | `KillReadsNumber` | the pid is the product of the digits: `kill 12` ends process 2 (`kill.c:26`, comment `kill.c:17`) |
| `MCProcessSelfKill.cfg` | `MCProcess` | `TickFindsRunningProcess` | a program that killed itself leaves no RUNNING slot; the tick stores through NULL (`scheduler.c:59`) |
| `MCProcessExit.cfg` | `MCProcess` | `ExitEndsCaller` | returning from main destroys process 0 (`crt0.s:13`) |
| `MCProcessDestroyLeak.cfg` | `MCProcess` | `DestroyReleasesDirectory` | a destroyed process keeps its directory and frames (`process.c:90`, comment `process.h:118`) |
| `MCFat32Format.cfg` | `MCFat32` | `SignedMeansFormatted` | power lost while formatting: signed, never formatted (`fat32.c:52`) |
| `MCFat32Folders.cfg` | `MCFat32` | `FoldersUnique` | two directories of one name (`fat32.c:180`, comment `fat32.h:237`) |
| `MCFat32ReadDeleted.cfg` | `MCFat32` | `DeletedIsNotRead` | `read` delivers a deleted file (`fat32.c:123`, comment `fat32.h:69`) |
| `MCShellMove.cfg` | `MCShell` | `OnlyRmLosesData` | `mv` removes the source of a copy that failed (`mv.c:32`) |
| `MCShellOwnName.cfg` | `MCShell` | `PromptIsPath` | `cd` into the directory's own name leads to cluster 0 (`user-shell.c:100`) |
| `MCShellEarlyReturn.cfg` | `MCShell` | `OnlyCdMoves` | `cat` and `exec` of a file that does not exist leave the shell in another directory (`cat.c:29`, `exec.c:31`) |
| `MCAtaEarly.cfg` | `MCAta` | `WriteIsCompleted` | `write_blocks` returns while the device still stores the last block (`disk.c:43`, comment `disk.h:40`) |
| `MCAtaTwo.cfg` | `MCAta` | `ReadsLastWrite` | with two programs at the disk a read returns other blocks (`disk.c:12`) |
| `MCClockZero.cfg` | `MCClock` | `FaceShowsEveryField` | at a full hour the old minute stays and the seconds read 00 (`clock.c:52`) |
| `MCRtcNoon.cfg` | `MCRtc` | `HourIn24Hours` | 12-hour mode: noon becomes 0, midnight 12 (`cmos.c:92`, comment `cmos.c:89`) |

Deadlock is checked for `paging`, `processes`, `terminal` and `rtc`.  It is
off where the model stops by itself: after a fault (`processes_wild`), when the last
power failure of the bound has left the disk in a state without requests (`Fat32`),
and when the last command (`shell`) or call (`ata`) of the bound is done.

## Fairness

- `Process`: the boot code runs by itself and the timer keeps firing (weak fairness of
  the boot actions and of `TimerTick`).  Programs owe the kernel nothing.
- `Terminal`: the shell takes its next step eventually: the scheduler returns to it
  (`NoStarvation` of `Process`), and none of its steps waits.
- `Clock`: the scheduler returns to the program, its call is executed, and an update the chip
  has begun ends.
- `Shell`: a command in progress goes on; nothing is assumed of the user, of the power
  or of the inserter.
- `Ata`: the device finishes the block it is at, and a program in a call runs on.
- `Fat32` on its own has safety properties only.

## Proofs

Everything here holds for every value of the constants under the `ASSUME`s of the
modules and the hypotheses a theorem names.  The assumptions of the modules say no more
than that the sizes are sizes: at least one frame and one slot; page 0, the stack's and the kernel's page are
different; a FAT with clusters behind the root's, a table with slots behind its two first;
fewer directories (a bound of the model) than clusters; a screen of two rows or more; a prompt of
characters that are printed, as the keys are, and not of control characters; a chip that starts at a time of day.

| Theorem | States | Assumes |
|---|---|---|
| `PagingTypeCorrect`, `PagingCountExact`, `PagingFramesPrivate` | `PagingTypeOK`, `FreeCountExact`, `FramesPrivate` of `PagingSpec` | - |
| `ProcessTypeCorrect`, `ProcessesFramesPrivate`, `ProcessesCountExact` | the same of the kernel | - |
| `TicksAreRoundRobin` | `RoundRobin` | - |
| `SchedulerOwnsCpu`, `ContextsStayOwned`, `ProcessTableAgrees`, `StacksStayMapped`, `KernelNeverFaults`, `PoolsStayBalanced` | `RunningOwnsCpu`, `ContextsOwned`, `ProcessTableConsistent`, `EveryProcessHasStack`, `NoFault`, `PoolsBalanced` | `CarefulKernel` |
| `KilledNeverReturns` | `KilledStaysDead` | `CarefulKernel` |
| `CacheIsCurrent` | `CacheCurrent` | `OneWriter` |
| `ChainsStaySound`, `TreeStaysSound` | `ChainsSound`, `TreeSound` | `Careful` |
| `FileNamesStayUnique` | `FileNamesUnique`: no directory lists two files of one name and extension | - |
| `FilesAlwaysEnterAlone` | `FilesEnterAlone` | - |
| `FilesAreFound` | `ReadFindsFile` | `RoomChecked`, no file called `..` |
| `PromiseIsKept` | `ImplementsFileStore` | `Orderly` |
| `NothingIsLost` | `NothingLeaks` | `Orderly` |
| `ShellAlways` | the invariant `ShellInv` | `ShellCareful` |
| `ShellChains`, `ShellTree` | `ChainsSound`, `TreeSound` of `Shell` | `ShellCareful` |
| `CopyAdds` | `CopyOnlyAdds` | `ShellCareful` |
| `MoveLosesNothing` | `OnlyRmLosesData` | `ShellCareful` |
| `PromptLeads`, `FindAgrees` | `PromptIsPath`, `FindMatchesPrompt` | `ShellCareful` |
| `CursorOnScreen`, `LineIsTyped`, `LineIsShown` | `TerminalTypeOK`, `LineAsTyped`, `EchoFaithful` | - |
| `DigitsStayInCorner` | `ClockInCorner` | `KeepClock` |
| `TimeReadIsInstant` | `ReadIsInstant` of `RtcSpec` | `UpdatesPerCall < 60` |
| `EveryCallReadsInstant` | `ReadIsInstant` of `ClockSpec` | `UpdatesPerCall < 60` |
| `CornerShowsTime` | `FaceShowsTime` | - |
| `WritesReachTheirBlocks`, `ReadsFollowWrites` | `MediumHoldsWrites`, `ReadsLastWrite` | `OneAtATime`, `Addressable` |

The arguments:

- **Paging.**  The invariant is `Sound`: the type, `CountExact` and `Private` together.  None of the three
  is inductive alone.  The counter stays within 0 and the number of frames because it is
  exact; it stays exact at a release because `Private` says that the frame was
  marked; and an allocation keeps `Private` because the frame it maps was not.  Each routine has a
  lemma (`CreateSound`, `AllocateSound`, `FreeSound`, `FreeDirectorySound`) that it
  leads from a sound memory to a sound memory; they are about operators and
  are cited again by the process proofs.
- **Processes, whatever programs do.**  `ProcessInv` is the type of the tables, of the CPU and of the control
  variables, and `Sound(memory)`.  A creation composes three
  routines; its lemma cites theirs, one exit of the creation after the other.
- **Round robin.**  Every tick brings each READY slot closer to the CPU in the
  order of the search, or onto it.  The lemmas: where the search stops no
  READY slot lies before (`SearchStops`), and the distance of every other slot
  shrinks by the distance travelled, across the end of the list
  (`DistanceShrinks`).  With `NoStarvation` checked by TLC, this is the bound: at most
  as many ticks as there are slots.
- **Processes of careful programs.**  `CarefulKernel` assumes `CarefulKills` and `AlwaysReadable` (above), and the
  proportion of the kernel's pools: past the kernel's frame and that of page 0, two frames for each of `n` processes, and
  no fewer directories and slots than `n`.  The source has 32 frames, 32 directories and 16 slots, so `n` is 15.
  A file's size counts at least the stack's page, hence is never 0.  `CarefulInv` adds to the six
  invariants what they lean on.  `Balance`: two frames leave with each directory, and at least as many directories as slots
  are in use; so the admission check, which asks for one free frame, suffices for the two a creation takes, and no creation stops half-way.
  `BootStage`: the table at each step of the boot.  And init lives for ever, because the
  scheduler, finding no other READY slot, stops at it.
- **Induction.**  The provers cannot instantiate the libraries' induction theorems.
  `InductionLemmas` derives what is needed from `NatLessThanWellFounded` and `WFMin`: of a set of numbers there is a
  least, and a claim that fails somewhere fails at a least place.  `RecursionExists` gives a recursive
  function of the models (a chain, a walk, a line typed) its values.
- **FAT.**  `FatTyped` is the type of the disk, of the disks still to be written and of the FATs cached.
  `CacheInv`: a writer that has cached a FAT has cached the one that will be on the disk once the call has finished; a
  power failure empties both sides.  `SoundInv`: `DiskSound` of the disk *and of every disk in `pending`*, which is why a power failure
  between two writes needs no case of its own.  `DiskSound` says of all tables, reachable or not, that
  the chain of every live entry ends after the clusters its size requires and is in use (`AllChained`), that
  chains are apart (`AllApart`), that directories hold tables that name their
  parent (`AllRooted`, `ParentsNamed`), and that an unsigned disk lists nothing.  The lemmas
  follow the writes: data into free clusters changes no chain, the FAT extends by a chain of free clusters, the
  table then lists it; a deletion first unlists and then frees (`Adds`, `Removes`).
  `Careful` assumes that one copy of the driver writes (the shell's, as in the repository), that what is written finds
  room or none at all (`RoomChecked`), that a copy has read before it deletes (`FreshDelete`), and that no file is called `..`.
  `no_room` and `fresh_shell` show what happens without the second and the third.
- **Tables.**  Names, reading and the sizes of files are facts about single tables.  A set of tables is `Closed` when the
  bare tables are in it and neither an entry nor a deletion leads out of it; `TablesStep` shows once that all tables of
  all disks then stay in it, and each of the three only has its set to be shown closed.
- **Reading.**  `read` takes the first slot of a name and extension, live or not.  `TableOrdered`: no slot before that of a live file
  holds another file, live or deleted, of its name and extension.  A file enters the first empty slot (`FirstEmptySlot`, for which there must be room: `RoomChecked`), the live ones before
  it were compared by the write, and a file that comes before it later is compared with it.  One writer and fresh caches are not needed.  A directory keeps
  the extension of the deleted entry whose slot it takes, and may so come to stand before a file of its name and that extension: then `read` returns 1 (`Hidden`).
- **Names.**  `NamesInv` says of every table that two live files in it differ.  `EnterInv` follows the disks in the order they will be written: from one to the
  next no file has come to stand in a table beside a live entry of its name and extension.  The table that gets the entry is the one `write` searched, whatever other clusters
  the same call overwrites; the other tables of the call stay, or have no entries.  Neither needs a hypothesis about programs.  Nothing of the kind holds of
  directories: `write` searches under the request's extension, which `mkdir.c:24` leaves unset, and gives a directory the
  extension its slot held before, so that a directory may be made twice (`MCFat32Folders.cfg`).
- **The driver implements `FileStore`.**  `StoreInv` says that every disk of `pending` is one step of `FileStore`, or none, from the one before
  (`Promised`, `Turns`), and that the walk from the root has come to its end on each of them (`Settled`), so that what is stored is what a walk of
  any length finds.  A write shows when the parent's table is written and not before (`WriteStore`); a
  deletion when its entry goes, and not again when its clusters are freed (`DeleteStore`).  Both rest on what
  an added or removed entry does to the walk (`EntryReach`, `RemovalReach`) and on the contents of all other
  files staying (`ContentsStore`).  `FileStore` promises of a new file
  that nothing else has its name and extension; of a new directory, which `mkdir` can make twice, only that it is new.  `Orderly` is `Careful` and `EmptyDirsOnly`.
- **No cluster is lost.**  `LeakInv`: as long as the power has not failed, on the disk to come (the last of `pending`) every cluster in use is held by an entry
  a walk comes to.  A write adds the clusters of its chain and the entry that leads to them (`EntryComplete`), a deletion frees all of a chain (`AllFreed`, which
  needs that no file has size 0, a closed set of tables) and the directory it removes had no entries (`RemovalComplete`).
- **Shell.**  The steps of a command are requests and deletions of the same driver, so `FatTyped`, `CacheInv` and `SoundInv` come back, and the lemmas about
  what a write and a deletion do are those of `Fat32`.  New is that the shell keeps places, slots and paths while the disk changes.  `ShellInv` adds
  - `HousedInv`, of the disk and of those to come: every directory is listed in its parent under the name in its own entry 0, and entry 0 leads to
    cluster 0, where nothing is listed.  A walk therefore stays in directories or ends in cluster 0 (`WalkStays`), and from cluster 0 nothing is written;
  - `HomeInv`: the current directory is one, on each of these disks, whichever the power leaves;
  - `PowerInv`: without power no command is in progress, and an image is whole after every run of the inserter;
  - `CallsInv`: what is on `cp`'s stack starts in directories and has targets that are names, not `..`.  It says nothing of how deep the stack
    is nor that a `Loop`'s slot is still the entry it was: `cp` may go on with what it read before it wrote;
  - `MoveInv`: the stages of `mv`.  The deletion of the source happens two writes after the user's command was found careful; what made it careful
    (`Removable`: no directory of that name has one below it) must outlast the copy (`Moves`);
  - `CopyInv`: as long as a copy lasts, each disk holds what the one before held.  `CopyAdds` is read off it.

  `MoveLosesNothing` needs three parts more (`DataInv`), about the data read through an entry (`DataAt`):
  - `FiledInv`: in the root no slot before that of a file carries its name and extension, a directory's excepted.  So `read`, if it delivers anything,
    delivers the file that `mv` was asked for (`FileRead`), and the buffer holds all of it (`BufferHolds`);
  - `SavedInv`: from stage to stage of `mv`, where what `rm` may find under the source's name is kept.  The search of `rm` takes the first live entry of the
    name, file or directory, whatever the extension of a request that never set one; so the invariant is about every entry of that name.  First their data are in `cp`'s
    buffer, then in that of the write, and once that is on its way, at another place of the disk to come.  The directories among them are empty
    and stay so, because the copy is not written into one: the walk to it would go through the root by that name, where the file comes
    first (`NotInside`);
  - `GrowInv`: from disk to disk no command but `rm` loses data.  For the copy it follows from the store growing, for `mv`'s deletion from what `SavedInv` says when it is requested.

  A step adds (`Adding`) or removes (`Removing`); two lemmas show what either keeps, and every action is shown to be one of them.
  For the prompt, `UpwardsSteps` gives the way up its values, and a directory that a walk down meets in `n` steps is as far below the root by its own
  tables: one step down is one step up more, with one name more (`PromptDown`, `LevelDown`).  So `Ascents` is not empty, and `find` and prompt print one path.
  `ShellCareful` is `Careful` and `CarefulUser`, that the shell's copy is the one that writes, and that `DirectoryMax` bounds nothing: there are
  no more directories than clusters behind the root's.
- **Terminal.**  `TerminalTyped` for the cursor; `Corner` adds that digits are in the corner only, and that a scroll, which
  copies rows upwards, blanks the corner.  `LineInv` follows a key: the interrupt's buffer holds the last key taken or is free, the shell's character
  is applied at the echo, and what it keeps over a poll that found nothing changes nothing.
  For the echo (`EchoInv`) cells are numbered row by row, and `Shows(t, s, n)` says that the first `n` characters of prompt and line stand before
  the cursor, as far as the screen reaches back.  A character goes to the next number (`PutCells`), a scroll lowers every number by the width of a row, and a
  backspace at the start of a row finds the row above full, because the line does not end there otherwise (`BackShows`).
- **Time.**  `RtcInv` relates every register that was read to the updates between which it can have been read.  Two passes that agree, the chip at rest
  between them: a register read before and after that moment with one value had this value at that moment,
  unless it left it and came back.  The second comes back after sixty updates: hence `UpdatesPerCall < 60`, that no call lasts a
  minute, which the code, reading three registers with interrupts off, is far from.  The updates of a behaviour are
  not bounded: `EveryCallReadsInstant` is about a program that calls again and again, the history of the chip counted anew at each call, and `CornerShowsTime` adds that the last write to a column stands.

- **Disk.**  A write returns when the device has taken its last word; the block is stored later, perhaps while the next call
  already waits.  `AtaInv` therefore speaks of the medium to come, `MediumToCome`: the blocks with the one the device still
  holds.  For the call in progress it says at which block the device is and what it holds (`Serving`): the words of the block not yet read, or those already
  written; that the blocks before are in the caller's buffer, or on the medium to come (`Overwritten`); and which registers are set.
  The command decodes them: a division by `Base` three times and back (`AddressDecoded`), for which a block number
  must fit the registers, 28 bits in the code (`Addressable`); the places of a buffer are apart by `PlaceFacts`.  `OneAtATime` is needed: `MCAtaTwo.cfg`.

Only model-checked:

- `CopyMirrors` of `Shell`.  It needs the whole recursion of `cp` as a function of the tree it started from: an induction over data that changes while it runs.
- Liveness (`NoStarvation`, `KeysAreRead`, `FaceCatchesUp`, `CommandsEnd`, `CallsReturn`) and everything with
  ENABLED, which are out of the prover's reach.

## Not modelled

- Port protocols of PIC and PIT, descriptor tables, entry code: sequences of
  machine instructions without decisions.
- Errors of the disk: `disk.c` looks at no error bit, and the device of `Ata` has none.
- Cutting command lines and paths into words, and paths of more words or letters than the
  parser's buffers hold, whose overrun is undefined behaviour.  Names with an extension: in
  `Shell` a typed word is a name without one.
- `ls`, `ps`: they only read.  What `cat` and `find` print, apart from `find`'s paths.
- Files in the directories that `cp` copies hold whatever the root has under their name; the model
  has it (`Buffer`), no property is stated about it.
- System calls 1, 2 and 3 (read_directory, write and delete through the kernel's copy) have
  no caller in the repository.
- A second shell: two shells would share the one keyboard buffer.
- The clock's digits where the cursor's row is the bottom one: a scroll blanks
  the corner of a wrapped line.  The shell's line is unaffected (`LineAsTyped`),
  the picture is not, and `EchoFaithful` is stated for a clock that does not run.

## Plan

Done, in the order of importance: `Paging` and `Process`; `Fat32`
refining `FileStore`; `Terminal`; `Rtc`, then `Clock` over it; `Shell` over `Fat32`; `Ata`;
with proofs for each.

Next:

1. A composition of `Process` and the shell's driver copy: FAT caches of two shells.
