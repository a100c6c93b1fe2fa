------------------------------ MODULE Process -------------------------------
(***************************************************************************)
(* Boot, process creation and destruction, and the round-robin scheduler:  *)
(* kernel.c, process.c, scheduler.c, the timer and syscalls 10 and 11 of    *)
(* interrupt.c, over the paging manager of module Paging.                   *)
(*                                                                         *)
(* Every handler enters through an interrupt gate, so IF is clear until the *)
(* iret and a handler is one step; the interleaving is that of timer ticks  *)
(* with the system calls of whatever program owns the CPU.                  *)
(*                                                                         *)
(* Directories are never released, so the directory a process was created  *)
(* with names the process for ever; cpu is the process whose registers are *)
(* loaded, cr3 the directory in force.  A context is that pair.             *)
(***************************************************************************)
EXTENDS Paging, Sequences

CONSTANTS
    ProcessCountMax,   \* PROCESS_COUNT_MAX
    FrameCountMax,     \* PROCESS_PAGE_FRAME_COUNT_MAX
    CounterModulus,    \* 2^32, the width of active_process_count
    Sizes,             \* page counts (executable + stack) programs ask for
    Entries,           \* pages programs ask to be loaded at
    AlwaysReadable,    \* TRUE: exec names only files read() can deliver
    CarefulKills       \* TRUE: kill names a live process other than the
                       \* caller and init, and no program returns from main

ASSUME ProcessConstants ==
    /\ ProcessCountMax \in Nat \ {0}
    /\ FrameCountMax \in Nat
    /\ CounterModulus \in Nat /\ CounterModulus > ProcessCountMax
    /\ Sizes \subseteq Nat
    /\ Entries \subseteq Pages
    /\ AlwaysReadable \in BOOLEAN
    /\ CarefulKills \in BOOLEAN

VARIABLES
    state,                  \* metadata.state of each _process_list slot
    pid,                    \* metadata.pid
    context,                \* context
    used_process,
    active_process_count,
    running_process_idx,
    cpu,                    \* process whose registers the CPU holds
    cr3,
    phase,                  \* how far kernel_setup has come
    fault                   \* an access that ends the run of the kernel

process_list == <<state, pid, context>>
manager == <<used_process, active_process_count>>
vars == <<memory, process_list, manager, running_process_idx,
          cpu, cr3, phase, fault>>

Slots == 0 .. ProcessCountMax - 1
States == {"KILLED", "RUNNING", "READY"}
Kernel == KernelDirectory                   \* cpu before any process
Contexts == [regs : Directories \cup {Kernel, NULL},
             dir  : AllDirectories \cup {NULL}]
ZeroContext == [regs |-> NULL, dir |-> NULL]    \* memset, or .bss

Init ==
    /\ PagingInit
    /\ state = [i \in Slots |-> "KILLED"]
    /\ pid = [i \in Slots |-> 0]
    /\ context = [i \in Slots |-> ZeroContext]
    /\ used_process = [i \in Slots |-> FALSE]
    /\ active_process_count = 0
    /\ running_process_idx = 0
    /\ cpu = Kernel
    /\ cr3 = KernelDirectory
    /\ phase = "map_page_0"
    /\ fault = "none"

-----------------------------------------------------------------------------
(* process_create_user_process.  Each early exit is an operator of its own; *)
(* the guards repeat the order of the checks.                               *)

FreeSlots == {i \in Slots : ~used_process[i]}

Admitted(entry, needed) ==
    /\ active_process_count < ProcessCountMax
    /\ entry < KernelPage
    /\ paging_allocate_check(memory, needed)
    /\ needed <= FrameCountMax

\* MAX_PROCESS_EXCEEDED, INVALID_ENTRYPOINT, NOT_ENOUGH_MEMORY
CreateRefused(entry, needed) ==
    /\ ~Admitted(entry, needed)
    /\ UNCHANGED <<memory, process_list, manager, cr3, fault>>

\* The directory and the two frames, taken in this order.
NewDirectory == paging_create_new_page_directory(memory)
WithEntry(entry) ==
    paging_allocate_user_page_frame(NewDirectory.memory, NewDirectory.dir, entry)
\* Mutants: the stack mapped at the entry page; no frame for the stack.
StackAtEntry(entry) ==
    paging_allocate_user_page_frame(WithEntry(entry).memory,
                                    NewDirectory.dir, entry)
StackForgotten(entry) == WithEntry(entry)
WithStack(entry) ==
    paging_allocate_user_page_frame(WithEntry(entry).memory,
                                    NewDirectory.dir, StackPage)
Allocated(entry) == WithEntry(entry).frame # 0 /\ WithStack(entry).frame # 0

\* paging_create_new_page_directory returned NULL and is written through.
CreateThroughNull(entry, needed) ==
    /\ Admitted(entry, needed)
    /\ NewDirectory.dir = NULL
    /\ fault' = "null_directory"
    /\ UNCHANGED <<memory, process_list, manager, cr3>>

\* PAGING_ALLOC_FAILURE: what was allocated stays allocated.
CreateUnallocated(entry, needed) ==
    /\ Admitted(entry, needed)
    /\ NewDirectory.dir # NULL
    /\ ~Allocated(entry)
    /\ memory' = WithStack(entry).memory
    /\ UNCHANGED <<process_list, manager, cr3, fault>>

\* FS_READ_FAILURE: the new directory stays in CR3.
CreateUnreadable(entry, needed) ==
    /\ Admitted(entry, needed)
    /\ NewDirectory.dir # NULL
    /\ Allocated(entry)
    /\ ~AlwaysReadable
    /\ memory' = WithStack(entry).memory
    /\ cr3' = NewDirectory.dir
    /\ UNCHANGED <<process_list, manager, fault>>

\* process_list_get_inactive_index found no slot: _process_list[-1].
CreateBeforeList(entry, needed) ==
    /\ Admitted(entry, needed)
    /\ NewDirectory.dir # NULL
    /\ Allocated(entry)
    /\ FreeSlots = {}
    /\ memory' = WithStack(entry).memory
    /\ fault' = "list_underflow"
    /\ UNCHANGED <<process_list, manager, cr3>>

CreateReady(entry, needed) ==
    /\ Admitted(entry, needed)
    /\ NewDirectory.dir # NULL
    /\ Allocated(entry)
    /\ FreeSlots # {}
    /\ LET i == Min(FreeSlots)
           d == NewDirectory.dir
       IN  /\ used_process' = [used_process EXCEPT ![i] = TRUE]
           /\ context' = [context EXCEPT ![i] = [regs |-> d, dir |-> d]]
           /\ pid' = [pid EXCEPT ![i] = i]
           /\ state' = [state EXCEPT ![i] = "READY"]
    /\ active_process_count' = (active_process_count + 1) % CounterModulus
    /\ memory' = WithStack(entry).memory
    /\ UNCHANGED <<cr3, fault>>

process_create_user_process(entry, needed) ==
    \/ CreateRefused(entry, needed)
    \/ CreateThroughNull(entry, needed)
    \/ CreateUnallocated(entry, needed)
    \/ CreateUnreadable(entry, needed)
    \/ CreateBeforeList(entry, needed)
    \/ CreateReady(entry, needed)

\* process_destroy looks a slot up by metadata.pid, which is 0 in every slot
\* that holds no process.
Matching(p) == {i \in Slots : pid[i] = p}

\* Mutants: used_process left set; a counter that does not wrap.
DestroyKeepsSlot(p) ==
    IF Matching(p) = {} THEN UNCHANGED <<process_list, manager>>
    ELSE LET i == Min(Matching(p)) IN
         /\ state' = [state EXCEPT ![i] = "KILLED"]
         /\ pid' = [pid EXCEPT ![i] = 0]
         /\ context' = [context EXCEPT ![i] = ZeroContext]
         /\ active_process_count' = (active_process_count - 1) % CounterModulus
         /\ UNCHANGED used_process
DestroyWithoutWrap(p) ==
    IF Matching(p) = {} THEN UNCHANGED <<process_list, manager>>
    ELSE LET i == Min(Matching(p)) IN
         /\ state' = [state EXCEPT ![i] = "KILLED"]
         /\ pid' = [pid EXCEPT ![i] = 0]
         /\ context' = [context EXCEPT ![i] = ZeroContext]
         /\ used_process' = [used_process EXCEPT ![p] = FALSE]
         /\ active_process_count' = active_process_count - 1

process_destroy(p) ==
    IF Matching(p) = {} THEN UNCHANGED <<process_list, manager>>
    ELSE LET i == Min(Matching(p)) IN
         /\ state' = [state EXCEPT ![i] = "KILLED"]
         /\ pid' = [pid EXCEPT ![i] = 0]
         /\ context' = [context EXCEPT ![i] = ZeroContext]
         /\ used_process' = [used_process EXCEPT ![p] = FALSE]
         /\ active_process_count' = (active_process_count - 1) % CounterModulus

-----------------------------------------------------------------------------
(* The scheduler.                                                           *)

\* (k + running_process_idx) % PROCESS_COUNT_MAX, for k < PROCESS_COUNT_MAX
SlotAt(k) == IF running_process_idx + k < ProcessCountMax
             THEN running_process_idx + k
             ELSE running_process_idx + k - ProcessCountMax

\* Mutants: any slot but a RUNNING one; the search one slot short.
NotRunningDistances ==
    {k \in 1 .. ProcessCountMax - 1 : state[SlotAt(k)] # "RUNNING"}
ShortDistances ==
    {k \in 1 .. ProcessCountMax - 2 : state[SlotAt(k)] = "READY"}
ReadyDistances == {k \in 1 .. ProcessCountMax - 1 : state[SlotAt(k)] = "READY"}

\* Mutant: the search starts from slot 0 every time.
LowestReady == LET ready == {i \in Slots : state[i] = "READY"}
               IN  IF ready = {} THEN 0 ELSE Min(ready)
\* Slot 0 when the search finds nothing.
Pilihan == IF ReadyDistances = {} THEN 0 ELSE SlotAt(Min(ReadyDistances))

scheduler_switch_to_next_process(contexts) ==
    LET next == Pilihan IN
    /\ state' = [[state EXCEPT ![running_process_idx] = "READY"]
                     EXCEPT ![next] = "RUNNING"]
    /\ running_process_idx' = next
    /\ context' = contexts
    /\ cr3' = contexts[next].dir
    /\ cpu' = contexts[next].regs
    /\ fault' = IF contexts[next].dir = NULL THEN "zero_context" ELSE fault

RunningSlots == {i \in Slots : state[i] = "RUNNING"}

\* Mutants: CR3 read after the switch; the registers stored in the control
\* block of the next process.
SavedAfterSwitch ==
    IF RunningSlots = {} THEN context
    ELSE [context EXCEPT ![Min(RunningSlots)] =
             [regs |-> cpu, dir |-> context[Pilihan].dir]]
SavedInNext ==
    IF RunningSlots = {} THEN context
    ELSE [context EXCEPT ![Pilihan] = [regs |-> cpu, dir |-> cr3]]

\* Without a RUNNING slot the store goes through NULL, into page 0.
ContextSaved ==
    IF RunningSlots = {} THEN context
    ELSE [context EXCEPT ![Min(RunningSlots)] = [regs |-> cpu, dir |-> cr3]]

-----------------------------------------------------------------------------
(* kernel_setup, from the first allocation on.                              *)

MapPage0 ==
    /\ phase = "map_page_0"
    /\ memory' = paging_allocate_user_page_frame(memory, KernelDirectory,
                                                 ZeroPage).memory
    /\ phase' = "create_init"
    /\ UNCHANGED <<process_list, manager, running_process_idx, cpu, cr3, fault>>

\* The return code of the creation is not looked at.
CreateInit ==
    /\ phase = "create_init"
    /\ process_create_user_process(ZeroPage, 2)
    /\ phase' = "scheduler_init"
    /\ UNCHANGED <<running_process_idx, cpu>>

\* Counts from 0 although the init process exists.
scheduler_init ==
    /\ phase = "scheduler_init"
    /\ fault = "none"
    /\ active_process_count' = 0
    /\ running_process_idx' = 0
    /\ phase' = "first_switch"
    /\ UNCHANGED <<memory, process_list, used_process, cpu, cr3, fault>>

FirstSwitch ==
    /\ phase = "first_switch"
    /\ scheduler_switch_to_next_process(context)
    /\ phase' = "run"
    /\ UNCHANGED <<memory, pid, manager>>

-----------------------------------------------------------------------------
(* The timer, and the system calls of the program on the CPU.  A program    *)
(* whose own directory is not in CR3 executes nothing: it faults for ever.  *)

Running == phase = "run" /\ fault = "none"
Executing == Running /\ cpu = cr3

TimerTick ==
    /\ Running
    /\ scheduler_switch_to_next_process(ContextSaved)
    /\ UNCHANGED <<memory, pid, manager, phase>>

Exec ==
    /\ Executing
    /\ \E entry \in Entries, needed \in Sizes :
          process_create_user_process(entry, needed)
    /\ UNCHANGED <<running_process_idx, cpu, phase>>

Careful(p) == CarefulKills => /\ p \in Slots \ {0}
                              /\ used_process[p]
                              /\ p # running_process_idx

\* The argument of kill: the pid is the product of the digits.
Digits == 0 .. 9
Numerals == {<<a>> : a \in Digits} \cup (Digits \X Digits)
ParsedPid(w) == IF Len(w) = 1 THEN w[1] ELSE w[1] * w[2]

Kill ==
    /\ Executing
    /\ \E w \in Numerals : Careful(ParsedPid(w)) /\ process_destroy(ParsedPid(w))
    /\ UNCHANGED <<memory, running_process_idx, cpu, cr3, phase, fault>>

\* crt0.s: main's return value, 0, becomes the pid of system call 10.
ReturnFromMain ==
    /\ Executing
    /\ ~CarefulKills
    /\ process_destroy(0)
    /\ UNCHANGED <<memory, running_process_idx, cpu, cr3, phase, fault>>

Next == \/ MapPage0 \/ CreateInit \/ scheduler_init \/ FirstSwitch
        \/ TimerTick \/ Exec \/ Kill \/ ReturnFromMain

\* The boot code runs by itself and the PIT keeps firing; programs owe the
\* kernel nothing.
Fairness == WF_vars(MapPage0 \/ CreateInit \/ scheduler_init \/ FirstSwitch)
            /\ WF_vars(TimerTick)

Spec == Init /\ [][Next]_vars
FairSpec == Spec /\ Fairness

-----------------------------------------------------------------------------
(* Properties.                                                              *)

ProcessTypeOK ==
    /\ PagingTypeOK
    /\ state \in [Slots -> States]
    /\ pid \in [Slots -> Slots]
    /\ context \in [Slots -> Contexts]
    /\ used_process \in [Slots -> BOOLEAN]
    /\ active_process_count \in 0 .. CounterModulus - 1
    /\ running_process_idx \in Slots
    /\ cpu \in Directories \cup {Kernel, NULL}
    /\ cr3 \in AllDirectories \cup {NULL}
    /\ phase \in {"map_page_0", "create_init", "scheduler_init",
                  "first_switch", "run"}
    /\ fault \in {"none", "zero_context", "list_underflow", "null_directory"}

\* Once the scheduler runs, exactly one slot is RUNNING, it is the one the
\* scheduler will resume searching from, and the CPU executes that slot's
\* process in that process's own directory: nothing a tick saves can land in
\* another process's control block.
RunningOwnsCpu ==
    phase = "run" =>
        /\ RunningSlots = {running_process_idx}
        /\ cpu = cr3
        /\ context[running_process_idx].dir = cr3

\* Every context the scheduler may load belongs to one process only and holds
\* that process's registers and directory together, whatever ticks, creations
\* and kills came between its suspension and its resumption.
ContextsOwned ==
    \A i \in Slots : used_process[i] =>
        /\ context[i].regs = context[i].dir
        /\ context[i].dir \in Directories \ UnusedDirectories(memory)
        /\ \A j \in Slots \ {i} :
              used_process[j] => context[j].dir # context[i].dir

\* The three records of which slots hold a process agree: used_process, the
\* control blocks, and (less init, which scheduler_init forgets) the counter.
ProcessTableConsistent ==
    /\ \A i \in Slots :
          IF used_process[i] THEN state[i] # "KILLED" /\ pid[i] = i
          ELSE state[i] = "KILLED" /\ pid[i] = 0 /\ context[i] = ZeroContext
    /\ phase \in {"first_switch", "run"} =>
          active_process_count
              = Cardinality({i \in Slots : used_process[i]}) - 1

\* Every process has a stack of its own to be resumed on: its stack page is
\* mapped in the directory of its context, to a frame other than the kernel's.
EveryProcessHasStack ==
    \A i \in Slots : used_process[i] =>
        context[i].dir \in Directories
            /\ memory.table[context[i].dir][StackPage] > 0

\* The kernel never switches to a context no process wrote, never stores
\* before the process list and never maps through a null directory.
NoFault == fault = "none"

\* Between steps the three pools a creation draws from are in proportion: as
\* long as one frame is free there are two, and a directory and a slot, so an
\* admitted creation can neither stop half-way nor run past a list.
PoolsBalanced ==
    phase = "run" /\ memory.free_page_frame_count > 0 =>
        /\ memory.free_page_frame_count > 1
        /\ UnusedDirectories(memory) # {}
        /\ FreeSlots # {}

\* kill ends the process whose number was typed.  (It ends another one as soon as the
\* number has two digits.)
KillReadsNumber ==
    \A w \in Numerals :
        ParsedPid(w) = IF Len(w) = 1 THEN w[1] ELSE 10 * w[1] + w[2]

\* A killed slot comes back to life only as a process created anew, in a
\* directory that no earlier process had: no stale context is ever resumed.
KilledStaysDead ==
    [][\A i \in Slots : state[i] = "KILLED" /\ state'[i] # "KILLED" =>
          /\ state'[i] = "READY"
          /\ context'[i].dir \in UnusedDirectories(memory)]_vars

\* How many candidates the search examines up to and including slot k.
Distance(k) == IF k > running_process_idx THEN k - running_process_idx
               ELSE k - running_process_idx + ProcessCountMax

\* Each tick brings every READY slot closer to the CPU or onto it, so none
\* waits for more than PROCESS_COUNT_MAX ticks, whatever is created or killed.
RoundRobin ==
    [][TimerTick => \A k \in Slots : state[k] = "READY" =>
          state'[k] = "RUNNING" \/ Distance(k)' < Distance(k)]_vars

\* Every process that waits for the CPU gets it, unless it is killed first.
NoStarvation ==
    \A k \in Slots : (phase = "run" /\ state[k] = "READY")
                         ~> (state[k] # "READY")

-----------------------------------------------------------------------------
(* What the comments say and the code does not do.                          *)

\* process.h: destroying a process releases its page directory.
DestroyReleasesDirectory ==
    [][\A i \in Slots : used_process[i] /\ ~used_process'[i] =>
          context[i].dir \in UnusedDirectories(memory)']_vars

\* process.h: a context has what the task needs to be resumed later, its
\* registers together with the directory they belong to.
SavedContextsResumable ==
    \A i \in Slots : state[i] = "READY" => context[i].regs = context[i].dir

\* scheduler.c: when a context is saved there is a current running process to
\* save it to.
TickFindsRunningProcess == phase = "run" => RunningSlots # {}

\* crt0.s: system call 10 after main is the exit of the program that made it.
ExitEndsCaller ==
    [][ReturnFromMain => state'[running_process_idx] = "KILLED"]_vars
=============================================================================
