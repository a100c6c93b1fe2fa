------------------------------- MODULE Paging -------------------------------
(***************************************************************************)
(* The page frame and page directory manager of paging.c.                  *)
(*                                                                         *)
(* The routines are operators from one state of the manager to the next,   *)
(* so that a kernel path that calls several of them (process creation)     *)
(* composes them in the order of the code.  Kernel code runs with          *)
(* interrupts disabled, so each call is one step.                          *)
(*                                                                         *)
(* A virtual address stands for its page directory entry (address >> 22).  *)
(* An entry stands for the frame it maps, or NotPresent; the flag bits     *)
(* other than present_bit are the same in every entry a routine writes.    *)
(***************************************************************************)
EXTENDS Integers, FiniteSets, FiniteSetsExt

CONSTANTS
    FrameCount,      \* PAGE_FRAME_MAX_COUNT
    DirectoryCount,  \* PAGING_DIRECTORY_TABLE_MAX_COUNT
    Pages,           \* page directory indexes in use
    ZeroPage,        \* index of virtual address 0
    StackPage,       \* index of 0xBFFFFFFC
    KernelPage       \* index 0x300 of the higher half

ASSUME PagingConstants ==
    /\ FrameCount \in Nat \ {0}
    /\ DirectoryCount \in Nat
    /\ Pages \subseteq Nat
    /\ {ZeroPage, StackPage, KernelPage} \subseteq Pages
    /\ Cardinality({ZeroPage, StackPage, KernelPage}) = 3

VARIABLE memory

Frames == 0 .. FrameCount - 1
Directories == 0 .. DirectoryCount - 1
KernelDirectory == DirectoryCount      \* _paging_kernel_page_directory
AllDirectories == 0 .. DirectoryCount
NULL == -1
NotPresent == -1

Memory == [page_frame_map : [Frames -> BOOLEAN],
           free_page_frame_count : Int,
           page_directory_used : [Directories -> BOOLEAN],
           table : [AllDirectories -> [Pages -> Frames \cup {NotPresent}]]]

FreeFrames(m) == {f \in Frames : ~m.page_frame_map[f]}
UnusedDirectories(m) == {d \in Directories : ~m.page_directory_used[d]}

EmptyTable == [p \in Pages |-> NotPresent]

\* A directory of paging_create_new_page_directory: kernel frame 0, twice.
KernelTable == [p \in Pages |->
                    IF p \in {ZeroPage, KernelPage} THEN 0 ELSE NotPresent]

\* page_manager_state at boot; the entry code has already deleted the
\* identity mapping of page 0 from the kernel's directory.
PagingInit ==
    memory = [page_frame_map |-> [f \in Frames |-> f = 0],
              free_page_frame_count |-> FrameCount - 1,
              page_directory_used |-> [d \in Directories |-> FALSE],
              table |-> [d \in AllDirectories |->
                            IF d = KernelDirectory
                            THEN [KernelTable EXCEPT ![ZeroPage] = NotPresent]
                            ELSE EmptyTable]]

\* First unused directory, or NULL.
paging_create_new_page_directory(m) ==
    IF UnusedDirectories(m) = {} THEN [memory |-> m, dir |-> NULL]
    ELSE LET d == Min(UnusedDirectories(m))
         IN  [memory |-> [m EXCEPT !.page_directory_used[d] = TRUE,
                                   !.table[d] = KernelTable],
              dir |-> d]

\* Called by process creation with a number of pages, although it counts
\* bytes: the rounded result for 1 .. PAGE_FRAME_SIZE is one frame.
paging_allocate_check(m, amount) ==
    (IF amount = 0 THEN 0 ELSE 1) <= m.free_page_frame_count

\* Mutants: the counter forgotten; the frame not marked.
AllocateUncounted(m, d, p) ==
    IF FreeFrames(m) = {} THEN [memory |-> m, frame |-> 0]
    ELSE LET f == Min(FreeFrames(m))
         IN  [memory |-> [m EXCEPT !.page_frame_map[f] = TRUE,
                                   !.table[d][p] = f],
              frame |-> f]
AllocateUnmarked(m, d, p) ==
    IF FreeFrames(m) = {} THEN [memory |-> m, frame |-> 0]
    ELSE LET f == Min(FreeFrames(m))
         IN  [memory |-> [m EXCEPT !.free_page_frame_count = @ - 1,
                                   !.table[d][p] = f],
              frame |-> f]

\* First free frame, mapped over whatever the entry held before; frame 0
\* (the null physical address) when there is none.
paging_allocate_user_page_frame(m, d, p) ==
    IF FreeFrames(m) = {} THEN [memory |-> m, frame |-> 0]
    ELSE LET f == Min(FreeFrames(m))
         IN  [memory |-> [m EXCEPT !.page_frame_map[f] = TRUE,
                                   !.free_page_frame_count = @ - 1,
                                   !.table[d][p] = f],
              frame |-> f]

\* Mutant: the entry stays present, so that its frame can be released twice.
FreeKeepsEntry(m, d, p) ==
    LET f == m.table[d][p]
    IN  IF f = NotPresent THEN [memory |-> m, ok |-> FALSE]
        ELSE [memory |-> [m EXCEPT !.page_frame_map[f] = FALSE,
                                   !.free_page_frame_count = @ + 1],
              ok |-> TRUE]

\* Releases the frame of a present entry; FALSE and no change otherwise.
paging_free_user_page_frame(m, d, p) ==
    LET f == m.table[d][p]
    IN  IF f = NotPresent THEN [memory |-> m, ok |-> FALSE]
        ELSE [memory |-> [m EXCEPT !.page_frame_map[f] = FALSE,
                                   !.free_page_frame_count = @ + 1,
                                   !.table[d][p] = NotPresent],
              ok |-> TRUE]

\* Only the used flag is cleared: entries and their frames stay.
paging_free_page_directory(m, d) ==
    IF d \in Directories
    THEN [memory |-> [m EXCEPT !.page_directory_used[d] = FALSE], ok |-> TRUE]
    ELSE [memory |-> m, ok |-> FALSE]

-----------------------------------------------------------------------------
(* The manager on its own, under a kernel that maps user pages only into    *)
(* directories it holds and frees only pages it mapped.                     *)

Held == AllDirectories \ UnusedDirectories(memory)

CreateDirectory == memory' = paging_create_new_page_directory(memory).memory

AllocateFrame == \E d \in Held, p \in Pages \ {KernelPage} :
    memory' = paging_allocate_user_page_frame(memory, d, p).memory

FreeFrame == \E d \in Held, p \in Pages :
    /\ memory.table[d][p] # 0
    /\ memory' = paging_free_user_page_frame(memory, d, p).memory

FreeDirectory == \E d \in Held \ {KernelDirectory} :
    memory' = paging_free_page_directory(memory, d).memory

PagingNext == CreateDirectory \/ AllocateFrame \/ FreeFrame \/ FreeDirectory

PagingSpec == PagingInit /\ [][PagingNext]_memory

-----------------------------------------------------------------------------
\* The counter that paging_allocate_check trusts, against the map.
CountExact(m) == m.free_page_frame_count = Cardinality(FreeFrames(m))

\* Frame 0 is the kernel's; an entry of a user frame is the only one, and the
\* map knows.
Private(m) ==
    /\ m.page_frame_map[0]
    /\ \A d \in AllDirectories, p \in Pages :
          m.table[d][p] > 0 =>
             /\ m.page_frame_map[m.table[d][p]]
             /\ \A e \in AllDirectories, q \in Pages :
                   m.table[e][q] = m.table[d][p] => e = d /\ q = p

\* The manager's state has its type, and the counter is no more than there
\* are frames: paging_free_user_page_frame never counts one frame twice.
PagingTypeOK ==
    memory \in Memory /\ memory.free_page_frame_count \in 0 .. FrameCount

\* The counter that paging_allocate_check trusts is the number of frames the
\* allocator will still find: allocation, release, failed allocation and
\* release of an absent page all keep the two in step.
FreeCountExact == CountExact(memory)

\* No two entries, of one directory or of two, map the same user frame, and a
\* mapped frame is never handed out again: a process cannot see another's
\* memory, nor the kernel's frame 0 through a user mapping.
FramesPrivate == Private(memory)
=============================================================================
