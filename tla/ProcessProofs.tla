--------------------------- MODULE ProcessProofs ----------------------------
(***************************************************************************)
(* Theorems about the paging manager and about the process manager and the *)
(* scheduler over it, for any number of processes, frames, directories and *)
(* pages.                                                                  *)
(*                                                                         *)
(* Of the paging manager: type correctness, frame privacy and exactness of *)
(* the free counter.  PagingInv says that the manager is Sound, and it is  *)
(* inductive.  Each routine has a lemma saying that it keeps Sound, so     *)
(* that the proofs about process creation, which calls three of them in a  *)
(* row, can cite them.                                                     *)
(*                                                                         *)
(* Of processes: the same under everything the kernel does and the bound   *)
(* on a process's wait for the CPU, whatever programs execute and kill;    *)
(* and, for programs that kill and execute with care, every other          *)
(* invariant of the table, the contexts, the pools and the CPU.            *)
(***************************************************************************)
EXTENDS Process, FiniteSetTheorems, TLAPS

-----------------------------------------------------------------------------
(* The paging manager.                                                      *)

Sound(m) == m \in Memory /\ CountExact(m) /\ Private(m)
PagingInv == Sound(memory)

\* The least element Min(S) chooses exists in every non-empty set of naturals.
LEMMA MinOfNaturals ==
    ASSUME NEW S \in SUBSET Nat, S # {}
    PROVE  Min(S) \in S /\ \A x \in S : Min(S) <= x
<1>1. PICK x \in S : \A y \in S : ~(<<y, x>> \in OpToRel(<, Nat))
  BY NatLessThanWellFounded, WFMin
<1>2. \A y \in S : x <= y
  <2>1. \A y \in S : y < x => <<y, x>> \in OpToRel(<, Nat)
    BY DEF OpToRel
  <2>2. \A y \in S : ~(y < x)
    BY <1>1, <2>1, Zenon
  <2> QED
    BY <2>2
<1>3. \E z \in S : \A y \in S : z <= y
  BY <1>2
<1> QED
  BY <1>3 DEF Min

\* The frames are finitely many, and the free ones are among them.
LEMMA FreeFramesFinite ==
    ASSUME NEW m
    PROVE  /\ FreeFrames(m) \in SUBSET Frames
           /\ FreeFrames(m) \in SUBSET Nat
           /\ IsFiniteSet(FreeFrames(m))
           /\ Cardinality(FreeFrames(m)) \in 0 .. FrameCount
<1>1. FreeFrames(m) \in SUBSET Frames /\ FreeFrames(m) \in SUBSET Nat
  BY PagingConstants DEF FreeFrames, Frames
<1>2. IsFiniteSet(Frames) /\ Cardinality(Frames) = FrameCount
  <2>1. IsFiniteSet(0 .. FrameCount - 1)
        /\ Cardinality(0 .. FrameCount - 1)
             = IF 0 > FrameCount - 1 THEN 0 ELSE FrameCount - 1 - 0 + 1
    BY FS_Interval, PagingConstants
  <2> QED
    BY <2>1, PagingConstants DEF Frames
<1>3. /\ IsFiniteSet(FreeFrames(m))
      /\ Cardinality(FreeFrames(m)) <= Cardinality(Frames)
  BY <1>1, <1>2, FS_Subset
<1>4. Cardinality(FreeFrames(m)) \in Nat
  BY <1>3, FS_CardinalityType
<1> QED
  BY <1>1, <1>2, <1>3, <1>4, PagingConstants

\* The boot image of the manager is sound: all frames but the kernel's free.
LEMMA InitSound == PagingInit => Sound(memory)
<1> SUFFICES ASSUME PagingInit PROVE Sound(memory)
  OBVIOUS
<1>1. memory \in Memory
  BY PagingConstants
     DEF PagingInit, Memory, Frames, Directories, AllDirectories, KernelTable,
         EmptyTable, KernelDirectory, NotPresent
<1>2. /\ memory.page_frame_map = [f \in Frames |-> f = 0]
      /\ memory.free_page_frame_count = FrameCount - 1
  BY DEF PagingInit
<1>3. 0 \in Frames /\ \A f \in Frames : memory.page_frame_map[f] <=> f = 0
  <2>1. 0 \in Frames
    BY PagingConstants DEF Frames
  <2>2. ASSUME NEW f \in Frames PROVE memory.page_frame_map[f] = (f = 0)
    BY <1>2, Zenon
  <2> QED
    BY <2>1, <2>2, Zenon
<1>4. CountExact(memory)
  <2>1. FreeFrames(memory) = {f \in Frames : f # 0}
    BY <1>3 DEF FreeFrames
  <2>2. FreeFrames(memory) = 1 .. FrameCount - 1
    BY <2>1, PagingConstants DEF Frames
  <2>3. Cardinality(1 .. FrameCount - 1)
          = IF 1 > FrameCount - 1 THEN 0 ELSE FrameCount - 1 - 1 + 1
    BY FS_Interval, PagingConstants
  <2> QED
    BY <1>2, <2>2, <2>3, PagingConstants DEF CountExact
<1>5. Private(memory)
  <2>1. \A d \in AllDirectories, p \in Pages : memory.table[d][p] \in {0, NotPresent}
    BY DEF PagingInit, KernelTable, EmptyTable
  <2>2. \A d \in AllDirectories, p \in Pages : ~(memory.table[d][p] > 0)
    BY <2>1 DEF NotPresent
  <2> QED
    BY <1>3, <2>2 DEF Private
<1> QED
  BY <1>1, <1>4, <1>5 DEF Sound

-----------------------------------------------------------------------------
\* paging_create_new_page_directory: the directory returned was unused, is in
\* use afterwards and maps the kernel only; everything else stays.
LEMMA CreateSound ==
    ASSUME NEW m, Sound(m)
    PROVE  LET r == paging_create_new_page_directory(m)
           IN  /\ Sound(r.memory)
               /\ r.dir \in Directories \cup {NULL}
               /\ r.dir # NULL => r.dir \in UnusedDirectories(m)
<1> DEFINE r == paging_create_new_page_directory(m)
           d == Min(UnusedDirectories(m))
<1>1. CASE UnusedDirectories(m) = {}
  BY <1>1 DEF paging_create_new_page_directory
<1>2. CASE UnusedDirectories(m) # {}
  <2>1. d \in UnusedDirectories(m) /\ d \in Directories
    <3>1. UnusedDirectories(m) \in SUBSET Nat
      BY PagingConstants DEF UnusedDirectories, Directories
    <3> QED
      BY <1>2, <3>1, MinOfNaturals DEF UnusedDirectories
  <2>2. /\ r.memory = [m EXCEPT !.page_directory_used[d] = TRUE,
                                !.table[d] = KernelTable]
        /\ r.dir = d
    BY <1>2 DEF paging_create_new_page_directory
  <2>3. d \in AllDirectories /\ d # NULL /\ 0 \in Frames
    BY <2>1, PagingConstants DEF Directories, AllDirectories, NULL, Frames
  <2>4. m \in Memory
    BY DEF Sound
  <2>5. KernelTable \in [Pages -> Frames \cup {NotPresent}]
    BY <2>3 DEF KernelTable
  <2>6. r.memory \in Memory
    <3>1. [m.page_directory_used EXCEPT ![d] = TRUE] \in [Directories -> BOOLEAN]
      BY <2>1, <2>4 DEF Memory
    <3>2. [m.table EXCEPT ![d] = KernelTable]
            \in [AllDirectories -> [Pages -> Frames \cup {NotPresent}]]
      BY <2>3, <2>4, <2>5 DEF Memory
    <3>3. r.memory = [m EXCEPT
              !.page_directory_used = [m.page_directory_used EXCEPT ![d] = TRUE],
              !.table = [m.table EXCEPT ![d] = KernelTable]]
      BY <2>2, <2>4 DEF Memory
    <3> HIDE DEF r
    <3> QED
      BY <2>4, <3>1, <3>2, <3>3 DEF Memory
  <2>7. /\ r.memory.page_frame_map = m.page_frame_map
        /\ r.memory.free_page_frame_count = m.free_page_frame_count
        /\ r.memory.table = [m.table EXCEPT ![d] = KernelTable]
    BY <2>2, <2>4 DEF Memory
  <2>8. CountExact(r.memory)
    BY <2>7 DEF Sound, CountExact, FreeFrames
  <2>9. \A e \in AllDirectories, p \in Pages :
            \/ r.memory.table[e][p] = m.table[e][p]
            \/ ~(r.memory.table[e][p] > 0)
    BY <2>3, <2>4, <2>7 DEF Memory, KernelTable, NotPresent
  <2>10. Private(r.memory)
    BY <2>7, <2>9 DEF Sound, Private
  <2> QED
    BY <2>1, <2>2, <2>3, <2>6, <2>8, <2>10 DEF Sound
<1> QED
  BY <1>1, <1>2

\* paging_allocate_user_page_frame: the frame handed out was free and is not
\* the kernel's.  The entry may have held another frame, which is then lost.
LEMMA AllocateSound ==
    ASSUME NEW m, Sound(m), NEW d \in AllDirectories, NEW p \in Pages
    PROVE  Sound(paging_allocate_user_page_frame(m, d, p).memory)
<1> DEFINE r == paging_allocate_user_page_frame(m, d, p)
           f == Min(FreeFrames(m))
<1>1. CASE FreeFrames(m) = {}
  BY <1>1 DEF paging_allocate_user_page_frame
<1>2. CASE FreeFrames(m) # {}
  <2>1. f \in FreeFrames(m) /\ f \in Frames /\ f \in Nat
    BY <1>2, FreeFramesFinite, MinOfNaturals
  <2>2. m \in Memory /\ r.memory = [m EXCEPT !.page_frame_map[f] = TRUE,
                                              !.free_page_frame_count = @ - 1,
                                              !.table[d][p] = f]
    BY <1>2 DEF Sound, paging_allocate_user_page_frame
  <2>3. /\ r.memory.page_frame_map = [m.page_frame_map EXCEPT ![f] = TRUE]
        /\ r.memory.free_page_frame_count = m.free_page_frame_count - 1
        /\ r.memory.table = [m.table EXCEPT ![d][p] = f]
    BY <2>2 DEF Memory
  <2>4. r.memory \in Memory
    <3>1. [m.page_frame_map EXCEPT ![f] = TRUE] \in [Frames -> BOOLEAN]
      BY <2>1, <2>2 DEF Memory
    <3>2. [m.table EXCEPT ![d][p] = f]
            \in [AllDirectories -> [Pages -> Frames \cup {NotPresent}]]
      BY <2>1, <2>2 DEF Memory
    <3>3. m.free_page_frame_count - 1 \in Int
      BY <2>2 DEF Memory
    <3>4. r.memory = [m EXCEPT
              !.page_frame_map = [m.page_frame_map EXCEPT ![f] = TRUE],
              !.free_page_frame_count = m.free_page_frame_count - 1,
              !.table = [m.table EXCEPT ![d][p] = f]]
      BY <2>2 DEF Memory
    <3> HIDE DEF r, f
    <3> QED
      BY <2>2, <3>1, <3>2, <3>3, <3>4 DEF Memory
  <2>5. CountExact(r.memory)
    <3>1. FreeFrames(r.memory) = FreeFrames(m) \ {f}
      BY <2>1, <2>2, <2>3 DEF FreeFrames, Memory
    <3>2. Cardinality(FreeFrames(m) \ {f}) = Cardinality(FreeFrames(m)) - 1
      <4>1. IsFiniteSet(FreeFrames(m))
        BY FreeFramesFinite
      <4> HIDE DEF f
      <4> QED
        BY <2>1, <4>1, FS_RemoveElement
    <3> QED
      BY <2>3, <3>1, <3>2 DEF Sound, CountExact
  <2>6. ~m.page_frame_map[f] /\ f # 0
    BY <2>1 DEF FreeFrames, Sound, Private
  <2>7. \A e \in AllDirectories, q \in Pages : m.table[e][q] # f
    BY <2>1, <2>6 DEF Sound, Private
  <2>8. \A e \in AllDirectories, q \in Pages :
            r.memory.table[e][q] = IF e = d /\ q = p THEN f ELSE m.table[e][q]
    BY <2>2, <2>3 DEF Memory
  <2>9. \A g \in Frames : r.memory.page_frame_map[g]
                              <=> g = f \/ m.page_frame_map[g]
    BY <2>1, <2>2, <2>3 DEF Memory
  <2>10. Private(r.memory)
    <3>1. r.memory.page_frame_map[0]
      BY <2>9, PagingConstants DEF Sound, Private, Frames
    <3>2. ASSUME NEW e \in AllDirectories, NEW q \in Pages,
                 r.memory.table[e][q] > 0
          PROVE  /\ r.memory.page_frame_map[r.memory.table[e][q]]
                 /\ \A e2 \in AllDirectories, q2 \in Pages :
                       r.memory.table[e2][q2] = r.memory.table[e][q]
                          => e2 = e /\ q2 = q
      <4>1. r.memory.table[e][q] \in Frames
        BY <2>4, <3>2 DEF Memory, NotPresent
      <4>2. CASE e = d /\ q = p
        BY <2>1, <2>7, <2>8, <2>9, <4>2
      <4>3. CASE ~(e = d /\ q = p)
        <5>1. r.memory.table[e][q] = m.table[e][q] /\ m.table[e][q] > 0
          BY <2>8, <3>2, <4>3
        <5>2. /\ m.page_frame_map[m.table[e][q]]
              /\ \A e2 \in AllDirectories, q2 \in Pages :
                    m.table[e2][q2] = m.table[e][q] => e2 = e /\ q2 = q
          BY <5>1 DEF Sound, Private
        <5> QED
          BY <2>7, <2>8, <2>9, <4>1, <5>1, <5>2
      <4> QED
        BY <4>2, <4>3
    <3> QED
      BY <3>1, <3>2 DEF Private
  <2> QED
    BY <2>4, <2>5, <2>10 DEF Sound
<1> QED
  BY <1>1, <1>2

\* What paging_create_new_page_directory changes: one directory, unused before,
\* is in use; no frame is drawn and no other directory's entries move.
LEMMA CreateEffect ==
    ASSUME NEW m, m \in Memory, UnusedDirectories(m) # {}
    PROVE  LET r == paging_create_new_page_directory(m)
           IN  /\ r.dir \in UnusedDirectories(m) /\ r.dir # NULL
               /\ r.memory.page_frame_map = m.page_frame_map
               /\ r.memory.free_page_frame_count = m.free_page_frame_count
               /\ UnusedDirectories(r.memory) = UnusedDirectories(m) \ {r.dir}
               /\ \A e \in AllDirectories \ {r.dir} :
                     r.memory.table[e] = m.table[e]
<1> DEFINE r == paging_create_new_page_directory(m)
           d == Min(UnusedDirectories(m))
<1>1. d \in UnusedDirectories(m) /\ d \in Directories
  <2>1. UnusedDirectories(m) \in SUBSET Nat
    BY PagingConstants DEF UnusedDirectories, Directories
  <2> QED
    BY <2>1, MinOfNaturals DEF UnusedDirectories
<1>2. /\ r.memory = [m EXCEPT !.page_directory_used[d] = TRUE,
                              !.table[d] = KernelTable]
      /\ r.dir = d
  BY DEF paging_create_new_page_directory
<1>3. d # NULL /\ d \in AllDirectories
  BY <1>1, PagingConstants DEF Directories, AllDirectories, NULL
<1>4. /\ r.memory.page_frame_map = m.page_frame_map
      /\ r.memory.free_page_frame_count = m.free_page_frame_count
      /\ r.memory.page_directory_used = [m.page_directory_used EXCEPT ![d] = TRUE]
      /\ r.memory.table = [m.table EXCEPT ![d] = KernelTable]
  BY <1>2 DEF Memory
<1> HIDE DEF r, d
<1>5. UnusedDirectories(r.memory) = UnusedDirectories(m) \ {d}
  BY <1>1, <1>4 DEF UnusedDirectories, Memory
<1>6. \A e \in AllDirectories \ {d} : r.memory.table[e] = m.table[e]
  BY <1>3, <1>4 DEF Memory
<1> QED
  BY <1>1, <1>2, <1>3, <1>4, <1>5, <1>6 DEF r

\* What paging_allocate_user_page_frame changes while a frame is free: the
\* pool shrinks by one, the one entry maps a frame other than the kernel's,
\* and the directories in use are the same.
LEMMA AllocateEffect ==
    ASSUME NEW m, Sound(m), FreeFrames(m) # {},
           NEW d \in AllDirectories, NEW p \in Pages
    PROVE  LET r == paging_allocate_user_page_frame(m, d, p)
           IN  /\ r.frame \in Frames /\ r.frame > 0
               /\ r.memory.free_page_frame_count = m.free_page_frame_count - 1
               /\ UnusedDirectories(r.memory) = UnusedDirectories(m)
               /\ r.memory.table[d][p] = r.frame
               /\ \A e \in AllDirectories \ {d} :
                     r.memory.table[e] = m.table[e]
<1> DEFINE r == paging_allocate_user_page_frame(m, d, p)
           f == Min(FreeFrames(m))
<1>1. f \in FreeFrames(m) /\ f \in Frames /\ f \in Nat /\ f # 0
  <2>1. f \in FreeFrames(m) /\ f \in Frames /\ f \in Nat
    BY FreeFramesFinite, MinOfNaturals
  <2> QED
    BY <2>1 DEF FreeFrames, Sound, Private
<1>2. m \in Memory /\ r.frame = f
      /\ r.memory = [m EXCEPT !.page_frame_map[f] = TRUE,
                              !.free_page_frame_count = @ - 1,
                              !.table[d][p] = f]
  BY DEF Sound, paging_allocate_user_page_frame
<1>3. /\ r.memory.page_directory_used = m.page_directory_used
      /\ r.memory.free_page_frame_count = m.free_page_frame_count - 1
      /\ r.memory.table = [m.table EXCEPT ![d][p] = f]
  BY <1>2 DEF Memory
<1> HIDE DEF r, f
<1>4. UnusedDirectories(r.memory) = UnusedDirectories(m)
  BY <1>3 DEF UnusedDirectories
<1>5. /\ r.memory.table[d][p] = f
      /\ \A e \in AllDirectories \ {d} : r.memory.table[e] = m.table[e]
  BY <1>2, <1>3 DEF Memory
<1> QED
  BY <1>1, <1>2, <1>3, <1>4, <1>5 DEF r

\* paging_free_user_page_frame on an entry that does not map the kernel's
\* frame: only that entry mapped the frame, so nothing still maps it.
LEMMA FreeSound ==
    ASSUME NEW m, Sound(m), NEW d \in AllDirectories, NEW p \in Pages,
           m.table[d][p] # 0
    PROVE  Sound(paging_free_user_page_frame(m, d, p).memory)
<1> DEFINE r == paging_free_user_page_frame(m, d, p)
           f == m.table[d][p]
<1>1. CASE f = NotPresent
  BY <1>1 DEF paging_free_user_page_frame
<1>2. CASE f # NotPresent
  <2>1. m \in Memory /\ f \in Frames /\ f > 0 /\ m.page_frame_map[f]
    BY <1>2, PagingConstants DEF Sound, Memory, Private, Frames
  <2>2. r.memory = [m EXCEPT !.page_frame_map[f] = FALSE,
                             !.free_page_frame_count = @ + 1,
                             !.table[d][p] = NotPresent]
    BY <1>2 DEF paging_free_user_page_frame
  <2>3. /\ r.memory.page_frame_map = [m.page_frame_map EXCEPT ![f] = FALSE]
        /\ r.memory.free_page_frame_count = m.free_page_frame_count + 1
        /\ r.memory.table = [m.table EXCEPT ![d][p] = NotPresent]
    BY <2>1, <2>2 DEF Memory
  <2>4. r.memory \in Memory
    <3>1. [m.page_frame_map EXCEPT ![f] = FALSE] \in [Frames -> BOOLEAN]
      BY <2>1 DEF Memory
    <3>2. [m.table EXCEPT ![d][p] = NotPresent]
            \in [AllDirectories -> [Pages -> Frames \cup {NotPresent}]]
      BY <2>1 DEF Memory
    <3>3. m.free_page_frame_count + 1 \in Int
      BY <2>1 DEF Memory
    <3>4. r.memory = [m EXCEPT
              !.page_frame_map = [m.page_frame_map EXCEPT ![f] = FALSE],
              !.free_page_frame_count = m.free_page_frame_count + 1,
              !.table = [m.table EXCEPT ![d][p] = NotPresent]]
      BY <2>1, <2>2 DEF Memory
    <3> HIDE DEF r, f
    <3> QED
      BY <2>1, <3>1, <3>2, <3>3, <3>4 DEF Memory
  <2>5. CountExact(r.memory)
    <3>1. FreeFrames(r.memory) = FreeFrames(m) \cup {f} /\ f \notin FreeFrames(m)
      BY <2>1, <2>3 DEF FreeFrames, Memory
    <3>2. IsFiniteSet(FreeFrames(m)) /\ Cardinality(FreeFrames(m)) \in Nat
      BY FreeFramesFinite, PagingConstants
    <3> HIDE DEF f
    <3>3. Cardinality(FreeFrames(m) \cup {f}) = Cardinality(FreeFrames(m)) + 1
      BY <3>1, <3>2, FS_AddElement
    <3> QED
      BY <2>3, <3>1, <3>3 DEF Sound, CountExact
  <2>6. \A e \in AllDirectories, q \in Pages :
            r.memory.table[e][q]
                = IF e = d /\ q = p THEN NotPresent ELSE m.table[e][q]
    BY <2>1, <2>3 DEF Memory
  <2>7. \A g \in Frames : r.memory.page_frame_map[g]
                              <=> g # f /\ m.page_frame_map[g]
    BY <2>1, <2>3 DEF Memory
  <2>8. Private(r.memory)
    <3>1. r.memory.page_frame_map[0]
      BY <2>1, <2>7, PagingConstants DEF Sound, Private, Frames
    <3>2. ASSUME NEW e \in AllDirectories, NEW q \in Pages,
                 r.memory.table[e][q] > 0
          PROVE  /\ r.memory.page_frame_map[r.memory.table[e][q]]
                 /\ \A e2 \in AllDirectories, q2 \in Pages :
                       r.memory.table[e2][q2] = r.memory.table[e][q]
                          => e2 = e /\ q2 = q
      <4>1. /\ ~(e = d /\ q = p)
            /\ r.memory.table[e][q] = m.table[e][q] /\ m.table[e][q] > 0
        BY <2>6, <3>2 DEF NotPresent
      <4>2. /\ m.table[e][q] \in Frames /\ m.page_frame_map[m.table[e][q]]
            /\ \A e2 \in AllDirectories, q2 \in Pages :
                  m.table[e2][q2] = m.table[e][q] => e2 = e /\ q2 = q
        BY <2>1, <4>1 DEF Sound, Private, Memory, NotPresent
      <4>3. m.table[e][q] # f
        BY <4>1, <4>2
      <4> QED
        BY <2>6, <2>7, <4>1, <4>2, <4>3 DEF NotPresent
    <3> QED
      BY <3>1, <3>2 DEF Private
  <2> QED
    BY <2>4, <2>5, <2>8 DEF Sound
<1> QED
  BY <1>1, <1>2

\* paging_free_page_directory touches no frame and no entry.
LEMMA FreeDirectorySound ==
    ASSUME NEW m, Sound(m), NEW d \in AllDirectories
    PROVE  Sound(paging_free_page_directory(m, d).memory)
<1> DEFINE r == paging_free_page_directory(m, d)
<1>1. CASE d \notin Directories
  BY <1>1 DEF paging_free_page_directory
<1>2. CASE d \in Directories
  <2>1. m \in Memory /\ r.memory = [m EXCEPT !.page_directory_used[d] = FALSE]
    BY <1>2 DEF Sound, paging_free_page_directory
  <2>2. /\ r.memory.page_frame_map = m.page_frame_map
        /\ r.memory.free_page_frame_count = m.free_page_frame_count
        /\ r.memory.table = m.table
    BY <1>2, <2>1 DEF Memory
  <2>3. r.memory \in Memory
    <3>1. [m.page_directory_used EXCEPT ![d] = FALSE] \in [Directories -> BOOLEAN]
      BY <1>2, <2>1 DEF Memory
    <3>2. r.memory = [m EXCEPT
              !.page_directory_used = [m.page_directory_used EXCEPT ![d] = FALSE]]
      BY <2>1 DEF Memory
    <3> HIDE DEF r
    <3> QED
      BY <2>1, <3>1, <3>2 DEF Memory
  <2> QED
    BY <2>2, <2>3 DEF Sound, CountExact, FreeFrames, Private
<1> QED
  BY <1>1, <1>2

-----------------------------------------------------------------------------
\* Sound is inductive: one step per routine, each by its lemma.
LEMMA PagingStep == PagingInv /\ [PagingNext]_memory => PagingInv'
<1> SUFFICES ASSUME Sound(memory), [PagingNext]_memory PROVE Sound(memory')
  BY DEF PagingInv
<1>0. Held \subseteq AllDirectories
  BY DEF Held
<1>1. CASE CreateDirectory
  BY <1>1, CreateSound DEF CreateDirectory
<1>2. CASE AllocateFrame
  BY <1>0, <1>2, AllocateSound DEF AllocateFrame
<1>3. CASE FreeFrame
  BY <1>0, <1>3, FreeSound DEF FreeFrame
<1>4. CASE FreeDirectory
  BY <1>0, <1>4, FreeDirectorySound DEF FreeDirectory
<1>5. CASE UNCHANGED memory
  BY <1>5
<1> QED
  BY <1>1, <1>2, <1>3, <1>4, <1>5 DEF PagingNext

\* What Sound means for the properties the runs check.
LEMMA SoundImplies ==
    Sound(memory) => PagingTypeOK /\ FreeCountExact /\ FramesPrivate
<1> SUFFICES ASSUME Sound(memory)
             PROVE  PagingTypeOK /\ FreeCountExact /\ FramesPrivate
  OBVIOUS
<1>1. memory.free_page_frame_count \in 0 .. FrameCount
  BY FreeFramesFinite DEF Sound, CountExact
<1> QED
  BY <1>1 DEF Sound, PagingTypeOK, FreeCountExact, FramesPrivate

LEMMA PagingInvariant == PagingSpec => []PagingInv
<1>1. PagingInit => PagingInv
  BY InitSound DEF PagingInv
<1> QED
  BY <1>1, PagingStep, PTL DEF PagingSpec

\* paging.c keeps its state well typed, its counter within the frames there
\* are, for every sequence of the four routines.
THEOREM PagingTypeCorrect == PagingSpec => []PagingTypeOK
<1>1. PagingInv => PagingTypeOK
  BY SoundImplies DEF PagingInv
<1> QED
  BY <1>1, PagingInvariant, PTL

\* The free counter that paging_allocate_check reads is exact.
THEOREM PagingCountExact == PagingSpec => []FreeCountExact
<1>1. PagingInv => FreeCountExact
  BY SoundImplies DEF PagingInv
<1> QED
  BY <1>1, PagingInvariant, PTL

\* No user frame is ever mapped twice, and frame 0 stays the kernel's.
THEOREM PagingFramesPrivate == PagingSpec => []FramesPrivate
<1>1. PagingInv => FramesPrivate
  BY SoundImplies DEF PagingInv
<1> QED
  BY <1>1, PagingInvariant, PTL

-----------------------------------------------------------------------------
(* Processes.                                                               *)

\* Types of the variables Process adds to Paging; with PagingInv, inductive.
TablesTyped ==
    /\ state \in [Slots -> States]
    /\ pid \in [Slots -> Slots]
    /\ context \in [Slots -> Contexts]
    /\ used_process \in [Slots -> BOOLEAN]
    /\ active_process_count \in 0 .. CounterModulus - 1

CpuTyped ==
    /\ running_process_idx \in Slots
    /\ cpu \in Directories \cup {Kernel, NULL}
    /\ cr3 \in AllDirectories \cup {NULL}

ControlTyped ==
    /\ phase \in {"map_page_0", "create_init", "scheduler_init",
                  "first_switch", "run"}
    /\ fault \in {"none", "zero_context", "list_underflow", "null_directory"}

ProcessInv == PagingInv /\ TablesTyped /\ CpuTyped /\ ControlTyped

\* Every slot is a natural number, and slot 0 exists.
LEMMA SlotFacts == Slots \in SUBSET Nat /\ 0 \in Slots
  BY ProcessConstants DEF Slots

LEMMA ZeroContextTyped == ZeroContext \in Contexts
  BY DEF ZeroContext, Contexts

\* The counter stays within its width.
LEMMA CounterWraps ==
    ASSUME NEW n \in Int
    PROVE  n % CounterModulus \in 0 .. CounterModulus - 1
  BY ProcessConstants

-----------------------------------------------------------------------------
\* process_create_user_process allocates through three routines of Paging.
LEMMA CreationSound ==
    ASSUME PagingInv, NewDirectory.dir # NULL, NEW entry \in Pages
    PROVE  /\ NewDirectory.dir \in Directories
           /\ NewDirectory.dir \in UnusedDirectories(memory)
           /\ Sound(WithStack(entry).memory)
<1>1. /\ Sound(NewDirectory.memory)
      /\ NewDirectory.dir \in Directories
      /\ NewDirectory.dir \in UnusedDirectories(memory)
  BY CreateSound DEF PagingInv, NewDirectory
<1>2. NewDirectory.dir \in AllDirectories /\ StackPage \in Pages
  BY <1>1, PagingConstants DEF Directories, AllDirectories
<1>3. Sound(WithEntry(entry).memory)
  BY <1>1, <1>2, AllocateSound DEF WithEntry
<1>4. Sound(WithStack(entry).memory)
  BY <1>2, <1>3, AllocateSound DEF WithStack
<1> QED
  BY <1>1, <1>4

\* Whatever becomes of a creation, manager, tables and CR3 stay well typed.
LEMMA CreateTyped ==
    ASSUME ProcessInv, NEW entry \in Pages, NEW needed,
           process_create_user_process(entry, needed)
    PROVE  /\ PagingInv'
           /\ TablesTyped'
           /\ cr3' \in AllDirectories \cup {NULL}
           /\ fault' \in {"none", "zero_context", "list_underflow", "null_directory"}
<1> USE DEF ProcessInv
<1>0. Directories \subseteq AllDirectories
  BY PagingConstants DEF Directories, AllDirectories
<1>1. CASE CreateRefused(entry, needed)
  BY <1>1 DEF CreateRefused, PagingInv, TablesTyped, CpuTyped, ControlTyped,
              process_list, manager
<1>2. CASE CreateThroughNull(entry, needed)
  BY <1>2 DEF CreateThroughNull, PagingInv, TablesTyped, CpuTyped, ControlTyped,
              process_list, manager
<1>3. CASE CreateUnallocated(entry, needed)
  BY <1>3, CreationSound
     DEF CreateUnallocated, PagingInv, TablesTyped, CpuTyped, ControlTyped,
         process_list, manager
<1>4. CASE CreateUnreadable(entry, needed)
  BY <1>0, <1>4, CreationSound
     DEF CreateUnreadable, PagingInv, TablesTyped, CpuTyped, ControlTyped,
         process_list, manager
<1>5. CASE CreateBeforeList(entry, needed)
  BY <1>5, CreationSound
     DEF CreateBeforeList, PagingInv, TablesTyped, CpuTyped, ControlTyped,
         process_list, manager
<1>6. CASE CreateReady(entry, needed)
  <2> DEFINE i == Min(FreeSlots)
             d == NewDirectory.dir
  <2>1. d \in Directories /\ Sound(WithStack(entry).memory)
    BY <1>6, CreationSound DEF CreateReady
  <2>2. i \in Slots
    <3>1. FreeSlots \in SUBSET Nat /\ FreeSlots # {}
      BY <1>6, SlotFacts DEF CreateReady, FreeSlots
    <3> QED
      BY <3>1, MinOfNaturals DEF FreeSlots
  <2>3. [regs |-> d, dir |-> d] \in Contexts
    BY <1>0, <2>1 DEF Contexts
  <2>4. active_process_count' \in 0 .. CounterModulus - 1
    <3>1. active_process_count + 1 \in Int
      BY DEF TablesTyped
    <3> QED
      BY <1>6, <3>1, CounterWraps DEF CreateReady
  <2>5. /\ used_process' = [used_process EXCEPT ![i] = TRUE]
        /\ context' = [context EXCEPT ![i] = [regs |-> d, dir |-> d]]
        /\ pid' = [pid EXCEPT ![i] = i]
        /\ state' = [state EXCEPT ![i] = "READY"]
        /\ memory' = WithStack(entry).memory
        /\ cr3' = cr3 /\ fault' = fault
    BY <1>6 DEF CreateReady
  <2> HIDE DEF i, d
  <2>6. TablesTyped'
    BY <2>2, <2>3, <2>4, <2>5 DEF TablesTyped, States
  <2> QED
    BY <2>1, <2>5, <2>6 DEF PagingInv, CpuTyped, ControlTyped
<1> QED
  BY <1>1, <1>2, <1>3, <1>4, <1>5, <1>6 DEF process_create_user_process

\* process_destroy keeps the tables well typed, a counter below zero included.
LEMMA DestroyTyped ==
    ASSUME TablesTyped, NEW p, process_destroy(p)
    PROVE  TablesTyped'
<1>1. CASE Matching(p) = {}
  BY <1>1 DEF process_destroy, TablesTyped, process_list, manager
<1>2. CASE Matching(p) # {}
  <2> DEFINE i == Min(Matching(p))
  <2>1. i \in Slots
    <3>1. Matching(p) \in SUBSET Nat
      BY SlotFacts DEF Matching
    <3> QED
      BY <1>2, <3>1, MinOfNaturals DEF Matching
  <2>2. active_process_count' \in 0 .. CounterModulus - 1
    <3>1. active_process_count - 1 \in Int
      BY DEF TablesTyped
    <3> QED
      BY <1>2, <3>1, CounterWraps DEF process_destroy
  <2>3. /\ state' = [state EXCEPT ![i] = "KILLED"]
        /\ pid' = [pid EXCEPT ![i] = 0]
        /\ context' = [context EXCEPT ![i] = ZeroContext]
        /\ used_process' = [used_process EXCEPT ![p] = FALSE]
    BY <1>2 DEF process_destroy
  <2> HIDE DEF i
  <2> QED
    BY <2>1, <2>2, <2>3, SlotFacts, ZeroContextTyped DEF TablesTyped, States
<1> QED
  BY <1>1, <1>2

-----------------------------------------------------------------------------
\* The scheduler's search stays within the list.
LEMMA PilihanTyped ==
    ASSUME running_process_idx \in Slots
    PROVE  Pilihan \in Slots
<1>1. CASE ReadyDistances = {}
  BY <1>1, SlotFacts DEF Pilihan
<1>2. CASE ReadyDistances # {}
  <2>1. ReadyDistances \in SUBSET Nat
    BY ProcessConstants DEF ReadyDistances
  <2>2. Min(ReadyDistances) \in 1 .. ProcessCountMax - 1
    BY <1>2, <2>1, MinOfNaturals DEF ReadyDistances
  <2>3. \A k \in 1 .. ProcessCountMax - 1 : SlotAt(k) \in Slots
    BY ProcessConstants DEF SlotAt, Slots
  <2> QED
    BY <1>2, <2>2, <2>3 DEF Pilihan
<1> QED
  BY <1>1, <1>2

\* Saving keeps contexts well typed: registers and directory are taken from
\* the CPU as they are.
LEMMA SaveTyped ==
    ASSUME TablesTyped, CpuTyped
    PROVE  ContextSaved \in [Slots -> Contexts]
<1>1. CASE RunningSlots = {}
  BY <1>1 DEF ContextSaved, TablesTyped
<1>2. CASE RunningSlots # {}
  <2>1. Min(RunningSlots) \in Slots
    <3>1. RunningSlots \in SUBSET Nat
      BY SlotFacts DEF RunningSlots
    <3> QED
      BY <1>2, <3>1, MinOfNaturals DEF RunningSlots
  <2>2. [regs |-> cpu, dir |-> cr3] \in Contexts
    BY DEF CpuTyped, Contexts
  <2> QED
    BY <1>2, <2>1, <2>2 DEF ContextSaved, TablesTyped
<1> QED
  BY <1>1, <1>2

\* A switch to the next process, from whatever contexts there are.
LEMMA SwitchTyped ==
    ASSUME TablesTyped, CpuTyped, ControlTyped,
           NEW contexts \in [Slots -> Contexts],
           scheduler_switch_to_next_process(contexts), UNCHANGED <<pid, manager>>
    PROVE  /\ TablesTyped' /\ CpuTyped'
           /\ fault' \in {"none", "zero_context", "list_underflow", "null_directory"}
<1> DEFINE next == Pilihan
<1>1. next \in Slots /\ running_process_idx \in Slots
  BY PilihanTyped DEF CpuTyped
<1>2. /\ state' = [[state EXCEPT ![running_process_idx] = "READY"]
                       EXCEPT ![next] = "RUNNING"]
      /\ running_process_idx' = next
      /\ context' = contexts
      /\ cr3' = contexts[next].dir
      /\ cpu' = contexts[next].regs
      /\ fault' = IF contexts[next].dir = NULL THEN "zero_context" ELSE fault
  BY DEF scheduler_switch_to_next_process
<1> HIDE DEF next
<1>3. contexts[next] \in Contexts
  BY <1>1
<1>4. state' \in [Slots -> States]
  BY <1>1, <1>2 DEF TablesTyped, States
<1>5. TablesTyped'
  BY <1>2, <1>4 DEF TablesTyped, manager
<1>6. CpuTyped'
  BY <1>1, <1>2, <1>3 DEF CpuTyped, Contexts
<1> QED
  BY <1>2, <1>5, <1>6 DEF ControlTyped

-----------------------------------------------------------------------------
LEMMA InitTyped == Init => ProcessInv
<1> SUFFICES ASSUME Init PROVE ProcessInv
  OBVIOUS
<1>1. PagingInv
  BY InitSound DEF Init, PagingInv
<1>2. TablesTyped
  BY SlotFacts, ZeroContextTyped, ProcessConstants DEF Init, TablesTyped, States
<1>3. CpuTyped
  BY SlotFacts, PagingConstants
     DEF Init, CpuTyped, Kernel, KernelDirectory, AllDirectories
<1>4. ControlTyped
  BY DEF Init, ControlTyped
<1> QED
  BY <1>1, <1>2, <1>3, <1>4 DEF ProcessInv

\* ProcessInv is inductive: one step per action.
LEMMA ProcessStep == ProcessInv /\ [Next]_vars => ProcessInv'
<1> SUFFICES ASSUME ProcessInv, [Next]_vars PROVE ProcessInv'
  OBVIOUS
<1> USE DEF ProcessInv
<1>1. CASE MapPage0
  <2>1. PagingInv'
    <3>1. KernelDirectory \in AllDirectories /\ ZeroPage \in Pages
      BY PagingConstants DEF KernelDirectory, AllDirectories
    <3> QED
      BY <1>1, <3>1, AllocateSound DEF MapPage0, PagingInv
  <2>2. TablesTyped' /\ CpuTyped' /\ ControlTyped'
    BY <1>1 DEF MapPage0, TablesTyped, CpuTyped, ControlTyped, process_list, manager
  <2> QED
    BY <2>1, <2>2
<1>2. CASE CreateInit
  <2>1. ZeroPage \in Pages
    BY PagingConstants
  <2>2. /\ PagingInv' /\ TablesTyped'
        /\ cr3' \in AllDirectories \cup {NULL}
        /\ fault' \in {"none", "zero_context", "list_underflow", "null_directory"}
    BY <1>2, <2>1, CreateTyped DEF CreateInit
  <2> QED
    BY <1>2, <2>2 DEF CreateInit, CpuTyped, ControlTyped
<1>3. CASE scheduler_init
  BY <1>3, SlotFacts, ProcessConstants
     DEF scheduler_init, PagingInv, TablesTyped, CpuTyped, ControlTyped, process_list
<1>4. CASE FirstSwitch
  <2>1. context \in [Slots -> Contexts]
    BY DEF TablesTyped
  <2>2. /\ TablesTyped' /\ CpuTyped'
        /\ fault' \in {"none", "zero_context", "list_underflow", "null_directory"}
    BY <1>4, <2>1, SwitchTyped DEF FirstSwitch
  <2> QED
    BY <1>4, <2>2 DEF FirstSwitch, PagingInv, ControlTyped
<1>5. CASE TimerTick
  <2>1. /\ TablesTyped' /\ CpuTyped'
        /\ fault' \in {"none", "zero_context", "list_underflow", "null_directory"}
    BY <1>5, SaveTyped, SwitchTyped DEF TimerTick
  <2> QED
    BY <1>5, <2>1 DEF TimerTick, PagingInv, ControlTyped
<1>6. CASE Exec
  <2>1. PICK entry \in Entries, needed \in Sizes :
            process_create_user_process(entry, needed)
    BY <1>6 DEF Exec
  <2>2. entry \in Pages
    BY ProcessConstants
  <2>3. /\ PagingInv' /\ TablesTyped'
        /\ cr3' \in AllDirectories \cup {NULL}
        /\ fault' \in {"none", "zero_context", "list_underflow", "null_directory"}
    BY <2>1, <2>2, CreateTyped
  <2> QED
    BY <1>6, <2>3 DEF Exec, CpuTyped, ControlTyped
<1>7. CASE Kill
  <2>1. TablesTyped'
    BY <1>7, DestroyTyped DEF Kill
  <2> QED
    BY <1>7, <2>1 DEF Kill, PagingInv, CpuTyped, ControlTyped
<1>8. CASE ReturnFromMain
  <2>1. TablesTyped'
    BY <1>8, SlotFacts, DestroyTyped DEF ReturnFromMain
  <2> QED
    BY <1>8, <2>1 DEF ReturnFromMain, PagingInv, CpuTyped, ControlTyped
<1>9. CASE UNCHANGED vars
  BY <1>9 DEF vars, PagingInv, TablesTyped, CpuTyped, ControlTyped,
              process_list, manager
<1> QED
  BY <1>1, <1>2, <1>3, <1>4, <1>5, <1>6, <1>7, <1>8, <1>9 DEF Next

LEMMA ProcessInvariant == Spec => []ProcessInv
<1> QED
  BY InitTyped, ProcessStep, PTL DEF Spec

-----------------------------------------------------------------------------
\* The process manager, the scheduler and the paging manager keep their state
\* well typed for ever, after failed creations and kills of anything included.
THEOREM ProcessTypeCorrect == Spec => []ProcessTypeOK
<1>1. ProcessInv => ProcessTypeOK
  BY SoundImplies
     DEF ProcessInv, PagingInv, TablesTyped, CpuTyped, ControlTyped, ProcessTypeOK
<1> QED
  BY <1>1, ProcessInvariant, PTL

\* Whatever programs create, kill and fail to create, no user frame is mapped
\* twice and none is mapped over the kernel's.
THEOREM ProcessesFramesPrivate == Spec => []FramesPrivate
<1>1. ProcessInv => FramesPrivate
  BY SoundImplies DEF ProcessInv, PagingInv
<1> QED
  BY <1>1, ProcessInvariant, PTL

\* The counter the admission check reads is exact at every system call.
THEOREM ProcessesCountExact == Spec => []FreeCountExact
<1>1. ProcessInv => FreeCountExact
  BY SoundImplies DEF ProcessInv, PagingInv
<1> QED
  BY <1>1, ProcessInvariant, PTL

-----------------------------------------------------------------------------
(* Round robin.                                                             *)

\* A slot other than the current one is a candidate of the search, at its
\* distance; the current one is further away than any candidate.
LEMMA DistanceFacts ==
    ASSUME running_process_idx \in Slots, NEW k \in Slots
    PROVE  /\ Distance(k) \in 1 .. ProcessCountMax
           /\ k = running_process_idx => Distance(k) = ProcessCountMax
           /\ k # running_process_idx => /\ Distance(k) \in 1 .. ProcessCountMax - 1
                                         /\ SlotAt(Distance(k)) = k
  BY ProcessConstants DEF Distance, SlotAt, Slots

\* After a tick the search starts at the slot it found: each slot between is
\* as much closer as the search went.
LEMMA DistanceShrinks ==
    ASSUME running_process_idx \in Slots, NEW k \in Slots,
           NEW delta \in 1 .. ProcessCountMax - 1, delta < Distance(k),
           running_process_idx' = SlotAt(delta), k # SlotAt(delta)
    PROVE  Distance(k)' < Distance(k)
  BY ProcessConstants DEF Distance, SlotAt, Slots

\* The search stops no later than at a READY slot.
LEMMA SearchStops ==
    ASSUME ProcessInv, NEW k \in Slots, state[k] = "READY",
           k # running_process_idx
    PROVE  \E delta \in 1 .. ProcessCountMax - 1 :
              Pilihan = SlotAt(delta) /\ delta <= Distance(k)
<1>1. /\ Distance(k) \in 1 .. ProcessCountMax - 1
      /\ SlotAt(Distance(k)) = k
  BY DistanceFacts DEF ProcessInv, CpuTyped
<1>2. Distance(k) \in ReadyDistances /\ ReadyDistances \in SUBSET Nat
  BY <1>1, ProcessConstants DEF ReadyDistances
<1>3. Min(ReadyDistances) \in ReadyDistances /\ Min(ReadyDistances) <= Distance(k)
  BY <1>2, MinOfNaturals
<1>4. Pilihan = SlotAt(Min(ReadyDistances))
  BY <1>2 DEF Pilihan
<1>5. Min(ReadyDistances) \in 1 .. ProcessCountMax - 1
  BY <1>3 DEF ReadyDistances
<1> QED
  BY <1>3, <1>4, <1>5

\* One tick from a reachable state.
LEMMA TickAdvances ==
    ASSUME ProcessInv, TimerTick, NEW k \in Slots, state[k] = "READY"
    PROVE  state'[k] = "RUNNING" \/ Distance(k)' < Distance(k)
<1> DEFINE next == Pilihan
<1>1. /\ running_process_idx \in Slots /\ next \in Slots
      /\ state \in [Slots -> States]
  BY PilihanTyped DEF ProcessInv, CpuTyped, TablesTyped
<1>2. /\ state' = [[state EXCEPT ![running_process_idx] = "READY"]
                       EXCEPT ![next] = "RUNNING"]
      /\ running_process_idx' = next
  BY DEF TimerTick, scheduler_switch_to_next_process
<1>3. CASE k = next
  BY <1>1, <1>2, <1>3
<1>4. CASE k # next /\ k = running_process_idx
  <2>1. Distance(k) = ProcessCountMax
    BY <1>1, <1>4, DistanceFacts
  <2>2. Distance(k)' < ProcessCountMax
    BY <1>1, <1>2, <1>4, ProcessConstants DEF Distance, Slots
  <2> QED
    BY <2>1, <2>2
<1>5. CASE k # next /\ k # running_process_idx
  <2>1. PICK delta \in 1 .. ProcessCountMax - 1 :
            next = SlotAt(delta) /\ delta <= Distance(k)
    BY <1>5, SearchStops
  <2>2. SlotAt(Distance(k)) = k /\ Distance(k) \in Int
    BY <1>1, <1>5, DistanceFacts
  <2>3. delta < Distance(k)
    BY <1>5, <2>1, <2>2
  <2> QED
    BY <1>1, <1>2, <1>5, <2>1, <2>3, DistanceShrinks
<1> QED
  BY <1>3, <1>4, <1>5

\* No READY process waits for more than PROCESS_COUNT_MAX ticks: each tick
\* brings it closer to the CPU, however many processes there are and whatever
\* they do in between.
THEOREM TicksAreRoundRobin == Spec => RoundRobin
<1>1. ProcessInv /\ [Next]_vars =>
        [TimerTick => \A k \in Slots : state[k] = "READY" =>
            state'[k] = "RUNNING" \/ Distance(k)' < Distance(k)]_vars
  BY TickAdvances
<1> QED
  BY <1>1, ProcessInvariant, PTL DEF Spec, RoundRobin

-----------------------------------------------------------------------------
(* Careful programs: a shell that kills only live processes other than      *)
(* itself and init, and executes only files that can be read, for any       *)
(* number of frames, directories and slots in the proportion the kernel's   *)
(* constants have.                                                          *)
(*                                                                          *)
(* None of the invariants the runs check is inductive.  CarefulInv adds     *)
(* what they lean on: the balance of the pools, which makes every admitted  *)
(* creation succeed; the state of the table at each step of the boot; and   *)
(* that init, to which the scheduler falls back, lives for ever.            *)

\* What is assumed.  Of the caller: careful kills and readable files; a size
\* counts at least the stack's page.  Of the machine: past the kernel's frame
\* and the frame of page 0 there are two frames for each of n processes, and
\* no fewer directories and slots than processes (n is 15, of 32 frames, 32
\* directories and 16 slots); init is admitted.
CarefulKernel ==
    /\ CarefulKills
    /\ AlwaysReadable
    /\ 0 \notin Sizes
    /\ FrameCountMax >= 2
    /\ ZeroPage < KernelPage
    /\ \E n \in 1 .. FrameCount : /\ FrameCount = 2 * n + 2
                                 /\ n <= DirectoryCount
                                 /\ n <= ProcessCountMax

UsedSlots == {i \in Slots : used_process[i]}
UsedDirectories == Directories \ UnusedDirectories(memory)

\* Two frames leave the pool with each directory; slots come back, directories
\* do not.
Balance ==
    /\ memory.free_page_frame_count + 2 * Cardinality(UsedDirectories)
         = FrameCount - (IF phase = "map_page_0" THEN 1 ELSE 2)
    /\ Cardinality(UsedSlots) <= Cardinality(UsedDirectories)

\* The table before and after init is created, up to the first switch.
BootStage ==
    /\ phase \in {"map_page_0", "create_init"} =>
          UsedDirectories = {} /\ UsedSlots = {} /\ active_process_count = 0
    /\ phase \in {"scheduler_init", "first_switch"} =>
          UsedSlots = {0} /\ state[0] = "READY"
    /\ phase = "first_switch" => running_process_idx = 0
    /\ phase = "run" => used_process[0]

CarefulInv ==
    /\ ProcessInv
    /\ Balance
    /\ BootStage
    /\ RunningOwnsCpu
    /\ ContextsOwned
    /\ ProcessTableConsistent
    /\ EveryProcessHasStack
    /\ NoFault
-----------------------------------------------------------------------------
(* The pools.                                                               *)

\* Directories and slots are finitely many, and so are those in use.
LEMMA UsedFinite ==
    /\ IsFiniteSet(Directories) /\ Cardinality(Directories) = DirectoryCount
    /\ IsFiniteSet(Slots) /\ Cardinality(Slots) = ProcessCountMax
    /\ IsFiniteSet(UsedDirectories) /\ Cardinality(UsedDirectories) \in Nat
    /\ IsFiniteSet(UsedSlots) /\ Cardinality(UsedSlots) \in Nat
<1>1. IsFiniteSet(Directories) /\ Cardinality(Directories) = DirectoryCount
  <2>1. IsFiniteSet(0 .. DirectoryCount - 1)
        /\ Cardinality(0 .. DirectoryCount - 1)
             = IF 0 > DirectoryCount - 1 THEN 0 ELSE DirectoryCount - 1 - 0 + 1
    BY FS_Interval, PagingConstants
  <2> QED
    BY <2>1, PagingConstants DEF Directories
<1>2. IsFiniteSet(Slots) /\ Cardinality(Slots) = ProcessCountMax
  <2>1. IsFiniteSet(0 .. ProcessCountMax - 1)
        /\ Cardinality(0 .. ProcessCountMax - 1)
             = IF 0 > ProcessCountMax - 1 THEN 0 ELSE ProcessCountMax - 1 - 0 + 1
    BY FS_Interval, ProcessConstants
  <2> QED
    BY <2>1, ProcessConstants DEF Slots
<1>3. IsFiniteSet(UsedDirectories)
  BY <1>1, FS_Subset DEF UsedDirectories
<1>4. IsFiniteSet(UsedSlots)
  BY <1>2, FS_Subset DEF UsedSlots
<1> QED
  BY <1>1, <1>2, <1>3, <1>4, FS_CardinalityType

\* The pools are in proportion: a free frame means two free frames, an unused
\* directory and a free slot.
LEMMA PoolsInProportion ==
    ASSUME CarefulKernel, PagingInv, Balance, phase # "map_page_0",
           memory.free_page_frame_count > 0
    PROVE  /\ memory.free_page_frame_count > 1
           /\ UnusedDirectories(memory) # {}
           /\ FreeSlots # {}
<1>1. PICK n \in 1 .. FrameCount : /\ FrameCount = 2 * n + 2
                                   /\ n <= DirectoryCount
                                   /\ n <= ProcessCountMax
  BY DEF CarefulKernel
<1> DEFINE dirs == Cardinality(UsedDirectories)
           slots == Cardinality(UsedSlots)
<1>2. /\ memory.free_page_frame_count + 2 * dirs = FrameCount - 2
      /\ slots <= dirs
      /\ memory.free_page_frame_count \in Int
  BY DEF Balance, PagingInv, Sound, Memory
<1>3. dirs \in Nat /\ slots \in Nat
  BY UsedFinite
<1>4. /\ Cardinality(Directories) = DirectoryCount
      /\ Cardinality(Slots) = ProcessCountMax
  BY UsedFinite
<1> HIDE DEF dirs, slots
<1>5. memory.free_page_frame_count = 2 * (n - dirs)
  BY <1>1, <1>2, <1>3
<1>6. dirs < n /\ memory.free_page_frame_count > 1
  BY <1>1, <1>3, <1>5
<1>7. dirs < DirectoryCount /\ slots < ProcessCountMax
  BY <1>1, <1>2, <1>3, <1>6, PagingConstants, ProcessConstants
<1>8. UnusedDirectories(memory) # {}
  <2>1. UnusedDirectories(memory) = {} => UsedDirectories = Directories
    BY DEF UsedDirectories
  <2> QED
    BY <1>4, <1>7, <2>1, PagingConstants DEF dirs
<1>9. FreeSlots # {}
  <2>1. FreeSlots = {} => UsedSlots = Slots
    BY DEF UsedSlots, FreeSlots
  <2> QED
    BY <1>4, <1>7, <2>1, ProcessConstants DEF slots
<1> QED
  BY <1>6, <1>8, <1>9

\* process_create_user_process, given a directory and two frames: it takes
\* exactly these, maps the stack, and leaves the other directories alone.
LEMMA DrawsTwoFrames ==
    ASSUME PagingInv, UnusedDirectories(memory) # {},
           memory.free_page_frame_count > 1, NEW entry \in Pages
    PROVE  LET d == NewDirectory.dir
               m == WithStack(entry).memory
           IN  /\ d \in UnusedDirectories(memory) /\ d # NULL
               /\ Allocated(entry)
               /\ m.free_page_frame_count = memory.free_page_frame_count - 2
               /\ UnusedDirectories(m) = UnusedDirectories(memory) \ {d}
               /\ m.table[d][StackPage] > 0
               /\ \A e \in AllDirectories \ {d} : m.table[e] = memory.table[e]
<1> DEFINE d == NewDirectory.dir
           m1 == NewDirectory.memory
           m2 == WithEntry(entry).memory
           m3 == WithStack(entry).memory
<1>1. /\ d \in UnusedDirectories(memory) /\ d # NULL
      /\ m1.free_page_frame_count = memory.free_page_frame_count
      /\ UnusedDirectories(m1) = UnusedDirectories(memory) \ {d}
      /\ \A e \in AllDirectories \ {d} : m1.table[e] = memory.table[e]
      /\ Sound(m1)
  BY CreateEffect, CreateSound DEF PagingInv, Sound, NewDirectory
<1>2. d \in AllDirectories /\ StackPage \in Pages
  BY <1>1, PagingConstants DEF UnusedDirectories, Directories, AllDirectories
<1>3. ASSUME NEW m, Sound(m), m.free_page_frame_count > 0
      PROVE  FreeFrames(m) # {}
  BY <1>3, FS_EmptySet DEF Sound, CountExact
<1>4. FreeFrames(m1) # {}
  BY <1>1, <1>3 DEF PagingInv, Sound, Memory
<1>5. /\ WithEntry(entry).frame > 0
      /\ m2.free_page_frame_count = m1.free_page_frame_count - 1
      /\ UnusedDirectories(m2) = UnusedDirectories(m1)
      /\ \A e \in AllDirectories \ {d} : m2.table[e] = m1.table[e]
      /\ Sound(m2)
  <2>1. PICK m : m = m1
    OBVIOUS
  <2>2. Sound(m) /\ FreeFrames(m) # {}
    BY <1>1, <1>4, <2>1
  <2>3. WithEntry(entry) = paging_allocate_user_page_frame(m, d, entry)
    BY <2>1 DEF WithEntry
  <2> HIDE DEF d
  <2>4. Sound(paging_allocate_user_page_frame(m, d, entry).memory)
    BY <1>2, <2>2, AllocateSound
  <2>5. LET r == paging_allocate_user_page_frame(m, d, entry)
        IN  /\ r.frame > 0
            /\ r.memory.free_page_frame_count = m.free_page_frame_count - 1
            /\ UnusedDirectories(r.memory) = UnusedDirectories(m)
            /\ \A e \in AllDirectories \ {d} : r.memory.table[e] = m.table[e]
    BY <1>2, <2>2, AllocateEffect
  <2> QED
    BY <2>1, <2>3, <2>4, <2>5
<1>6. FreeFrames(m2) # {}
  <2>1. m2.free_page_frame_count > 0
    BY <1>1, <1>5 DEF PagingInv, Sound, Memory
  <2> QED
    BY <1>3, <1>5, <2>1
<1>7. /\ WithStack(entry).frame > 0
      /\ m3.free_page_frame_count = m2.free_page_frame_count - 1
      /\ UnusedDirectories(m3) = UnusedDirectories(m2)
      /\ m3.table[d][StackPage] = WithStack(entry).frame
      /\ \A e \in AllDirectories \ {d} : m3.table[e] = m2.table[e]
  <2>1. PICK m : m = WithEntry(entry).memory
    OBVIOUS
  <2>2. Sound(m) /\ FreeFrames(m) # {}
    BY <1>5, <1>6, <2>1
  <2>3. WithStack(entry) = paging_allocate_user_page_frame(m, d, StackPage)
    BY <2>1 DEF WithStack
  <2> HIDE DEF d
  <2>4. LET r == paging_allocate_user_page_frame(m, d, StackPage)
        IN  /\ r.frame > 0
            /\ r.memory.free_page_frame_count = m.free_page_frame_count - 1
            /\ UnusedDirectories(r.memory) = UnusedDirectories(m)
            /\ r.memory.table[d][StackPage] = r.frame
            /\ \A e \in AllDirectories \ {d} : r.memory.table[e] = m.table[e]
    BY <1>2, <2>2, AllocateEffect
  <2> QED
    BY <2>1, <2>3, <2>4
<1>8. m3.free_page_frame_count = memory.free_page_frame_count - 2
  BY <1>1, <1>5, <1>7 DEF PagingInv, Sound, Memory
<1>9. Allocated(entry)
  BY <1>5, <1>7 DEF Allocated
<1> QED
  BY <1>1, <1>5, <1>7, <1>8, <1>9
-----------------------------------------------------------------------------
(* Creation.                                                                *)

\* The first half of ProcessTableConsistent.
SlotsAgree ==
    \A i \in Slots :
        IF used_process[i] THEN state[i] # "KILLED" /\ pid[i] = i
        ELSE state[i] = "KILLED" /\ pid[i] = 0 /\ context[i] = ZeroContext

\* No creation stops half-way: it is refused before it takes anything, or it
\* ends with a READY process.
LEMMA CreationAllOrNothing ==
    ASSUME CarefulKernel, PagingInv, Balance, phase # "map_page_0",
           NEW entry \in Pages, NEW needed, needed # 0,
           process_create_user_process(entry, needed)
    PROVE  \/ CreateRefused(entry, needed)
           \/ /\ CreateReady(entry, needed)
              /\ memory.free_page_frame_count > 1
              /\ UnusedDirectories(memory) # {}
<1>1. ASSUME Admitted(entry, needed)
      PROVE  /\ memory.free_page_frame_count > 1
             /\ UnusedDirectories(memory) # {}
             /\ FreeSlots # {}
  <2>1. memory.free_page_frame_count > 0
    BY <1>1 DEF Admitted, paging_allocate_check, PagingInv, Sound, Memory
  <2> QED
    BY <2>1, PoolsInProportion
<1>2. Admitted(entry, needed) => NewDirectory.dir # NULL /\ Allocated(entry)
  BY <1>1, DrawsTwoFrames
<1>3. AlwaysReadable
  BY DEF CarefulKernel
<1>4. ~CreateThroughNull(entry, needed)
  BY <1>2 DEF CreateThroughNull
<1>5. ~CreateUnallocated(entry, needed)
  BY <1>2 DEF CreateUnallocated
<1>6. ~CreateUnreadable(entry, needed)
  BY <1>3 DEF CreateUnreadable
<1>7. ~CreateBeforeList(entry, needed)
  BY <1>1 DEF CreateBeforeList
<1>8. CreateReady(entry, needed) => Admitted(entry, needed)
  BY DEF CreateReady
<1> QED
  BY <1>1, <1>4, <1>5, <1>6, <1>7, <1>8 DEF process_create_user_process

\* What a successful creation does to the table and the pools: one free slot
\* becomes a READY process with a directory that no process ever had.
LEMMA ReadyEffect ==
    ASSUME ProcessInv, Balance, ContextsOwned, EveryProcessHasStack, SlotsAgree,
           phase # "map_page_0", phase' # "map_page_0",
           memory.free_page_frame_count > 1, UnusedDirectories(memory) # {},
           NEW entry \in Pages, NEW needed, CreateReady(entry, needed)
    PROVE  /\ Balance' /\ ContextsOwned' /\ EveryProcessHasStack' /\ SlotsAgree'
           /\ Cardinality(UsedSlots)' = Cardinality(UsedSlots) + 1
           /\ active_process_count'
                = (active_process_count + 1) % CounterModulus
           /\ \E i \in FreeSlots :
                 /\ \A k \in FreeSlots : i <= k
                 /\ UsedSlots' = UsedSlots \cup {i}
                 /\ state' = [state EXCEPT ![i] = "READY"]
                 /\ \A j \in Slots \ {i} : context'[j] = context[j]
                 /\ context'[i].dir \in UnusedDirectories(memory)
<1> DEFINE i == Min(FreeSlots)
           d == NewDirectory.dir
<1>1. FreeSlots \in SUBSET Nat /\ FreeSlots # {}
  BY SlotFacts DEF CreateReady, FreeSlots
<1>2. i \in FreeSlots /\ i \in Slots /\ \A k \in FreeSlots : i <= k
  BY <1>1, MinOfNaturals DEF FreeSlots
<1>3. /\ d \in UnusedDirectories(memory)
      /\ memory'.free_page_frame_count = memory.free_page_frame_count - 2
      /\ UnusedDirectories(memory') = UnusedDirectories(memory) \ {d}
      /\ memory'.table[d][StackPage] > 0
      /\ \A e \in AllDirectories \ {d} : memory'.table[e] = memory.table[e]
  BY DrawsTwoFrames DEF CreateReady, ProcessInv
<1>4. /\ used_process' = [used_process EXCEPT ![i] = TRUE]
      /\ context' = [context EXCEPT ![i] = [regs |-> d, dir |-> d]]
      /\ pid' = [pid EXCEPT ![i] = i]
      /\ state' = [state EXCEPT ![i] = "READY"]
      /\ active_process_count' = (active_process_count + 1) % CounterModulus
  BY DEF CreateReady
<1> HIDE DEF i, d
<1>5. /\ ~used_process[i] /\ used_process'[i]
      /\ state'[i] = "READY" /\ pid'[i] = i
      /\ context'[i] = [regs |-> d, dir |-> d]
      /\ \A j \in Slots \ {i} : /\ used_process'[j] = used_process[j]
                                /\ context'[j] = context[j]
                                /\ pid'[j] = pid[j]
                                /\ state'[j] = state[j]
  BY <1>2, <1>4 DEF ProcessInv, TablesTyped, FreeSlots
<1>6. d \in Directories /\ d \in AllDirectories
  BY <1>3, PagingConstants DEF UnusedDirectories, Directories, AllDirectories
<1>7. /\ UsedSlots' = UsedSlots \cup {i}
      /\ Cardinality(UsedSlots)' = Cardinality(UsedSlots) + 1
  <2>1. UsedSlots' = UsedSlots \cup {i} /\ i \notin UsedSlots
    BY <1>2, <1>5 DEF UsedSlots
  <2> QED
    BY <2>1, UsedFinite, FS_AddElement
<1>8. Cardinality(UsedDirectories)' = Cardinality(UsedDirectories) + 1
  <2>1. UsedDirectories' = UsedDirectories \cup {d} /\ d \notin UsedDirectories
    BY <1>3, <1>6 DEF UsedDirectories
  <2> QED
    BY <2>1, UsedFinite, FS_AddElement
<1>9. Balance'
  BY <1>3, <1>7, <1>8, UsedFinite, PagingConstants
     DEF Balance, ProcessInv, PagingInv, Sound, Memory
<1>10. \A j \in Slots \ {i} : used_process[j] =>
           /\ context[j].dir \in Directories \ UnusedDirectories(memory)
           /\ context[j].dir \in AllDirectories \ {d}
  BY <1>3, PagingConstants DEF ContextsOwned, Directories, AllDirectories
<1>11. ContextsOwned'
  <2> SUFFICES ASSUME NEW j \in Slots, used_process'[j]
               PROVE  /\ context'[j].regs = context'[j].dir
                      /\ context'[j].dir \in Directories \ UnusedDirectories(memory')
                      /\ \A k \in Slots \ {j} :
                            used_process'[k] => context'[k].dir # context'[j].dir
    BY DEF ContextsOwned
  <2>1. CASE j = i
    BY <1>3, <1>5, <1>6, <1>10, <2>1
  <2>2. CASE j # i
    BY <1>3, <1>5, <1>10, <2>2 DEF ContextsOwned
  <2> QED
    BY <2>1, <2>2
<1>12. EveryProcessHasStack'
  <2> SUFFICES ASSUME NEW j \in Slots, used_process'[j]
               PROVE  /\ context'[j].dir \in Directories
                      /\ memory'.table[context'[j].dir][StackPage] > 0
    BY DEF EveryProcessHasStack
  <2>1. CASE j = i
    BY <1>3, <1>5, <1>6, <2>1
  <2>2. CASE j # i
    BY <1>3, <1>5, <1>10, <2>2 DEF EveryProcessHasStack
  <2> QED
    BY <2>1, <2>2
<1>13. SlotsAgree'
  BY <1>2, <1>5 DEF SlotsAgree
<1>14. /\ \A k \in FreeSlots : i <= k
       /\ UsedSlots' = UsedSlots \cup {i}
       /\ state' = [state EXCEPT ![i] = "READY"]
       /\ \A j \in Slots \ {i} : context'[j] = context[j]
       /\ context'[i].dir \in UnusedDirectories(memory)
  BY <1>2, <1>3, <1>4, <1>5, <1>7
<1> QED
  BY <1>2, <1>4, <1>7, <1>9, <1>11, <1>12, <1>13, <1>14
-----------------------------------------------------------------------------
(* Switching.                                                               *)

\* A counter within its width does not wrap.
LEMMA CounterFits ==
    ASSUME NEW n \in 0 .. CounterModulus - 1
    PROVE  n % CounterModulus = n
  BY ProcessConstants

\* The switch loads a process, whole: the search ends at a READY slot or at
\* init's, and afterwards that slot alone is RUNNING.
LEMMA SwitchLoadsProcess ==
    ASSUME TablesTyped, SlotsAgree, ContextsOwned,
           running_process_idx \in Slots,
           used_process[0], used_process[running_process_idx],
           RunningSlots \subseteq {running_process_idx},
           scheduler_switch_to_next_process(context), UNCHANGED <<pid, manager>>
    PROVE  /\ SlotsAgree'
           /\ RunningSlots' = {running_process_idx'}
           /\ cpu' = cr3' /\ context'[running_process_idx'].dir = cr3'
           /\ context' = context /\ fault' = fault
           /\ \A i \in Slots : state[i] = "KILLED" => state'[i] = "KILLED"
<1> DEFINE next == Pilihan
<1>1. next \in Slots /\ used_process[next]
  <2>1. next \in Slots
    BY PilihanTyped
  <2>2. CASE ReadyDistances = {}
    BY <2>1, <2>2 DEF Pilihan
  <2>3. CASE ReadyDistances # {}
    <3>1. ReadyDistances \in SUBSET Nat
      BY ProcessConstants DEF ReadyDistances
    <3>2. Min(ReadyDistances) \in ReadyDistances
      BY <2>3, <3>1, MinOfNaturals
    <3>3. state[next] = "READY"
      BY <2>3, <3>2 DEF ReadyDistances, Pilihan
    <3> QED
      BY <2>1, <3>3 DEF SlotsAgree
  <2> QED
    BY <2>1, <2>2, <2>3
<1>2. /\ state' = [[state EXCEPT ![running_process_idx] = "READY"]
                       EXCEPT ![next] = "RUNNING"]
      /\ running_process_idx' = next
      /\ context' = context
      /\ cr3' = context[next].dir
      /\ cpu' = context[next].regs
      /\ fault' = IF context[next].dir = NULL THEN "zero_context" ELSE fault
      /\ used_process' = used_process /\ pid' = pid
  BY DEF scheduler_switch_to_next_process, manager
<1> HIDE DEF next
<1>3. \A i \in Slots : state'[i] = IF i = next THEN "RUNNING"
                                   ELSE IF i = running_process_idx THEN "READY"
                                   ELSE state[i]
  BY <1>1, <1>2 DEF TablesTyped
<1>4. SlotsAgree'
  <2> SUFFICES ASSUME NEW i \in Slots
               PROVE  IF used_process[i] THEN state'[i] # "KILLED" /\ pid[i] = i
                      ELSE state'[i] = "KILLED" /\ pid[i] = 0
                               /\ context[i] = ZeroContext
    BY <1>2 DEF SlotsAgree
  <2>1. CASE i \in {next, running_process_idx}
    BY <1>1, <1>3, <2>1 DEF SlotsAgree
  <2>2. CASE i \notin {next, running_process_idx}
    BY <1>3, <2>2 DEF SlotsAgree
  <2> QED
    BY <2>1, <2>2
<1>5. RunningSlots' = {next}
  BY <1>1, <1>3 DEF RunningSlots
<1>6. context[next].regs = context[next].dir /\ context[next].dir # NULL
  BY <1>1, PagingConstants DEF ContextsOwned, Directories, NULL
<1>7. \A i \in Slots : state[i] = "KILLED" => state'[i] = "KILLED"
  BY <1>1, <1>3 DEF SlotsAgree
<1> QED
  BY <1>2, <1>4, <1>5, <1>6, <1>7

\* A tick stores what the control block of the running process already holds.
LEMMA SaveIsIdle ==
    ASSUME TablesTyped, CpuTyped, ContextsOwned, RunningOwnsCpu, phase = "run",
           used_process[running_process_idx]
    PROVE  ContextSaved = context
<1>1. /\ RunningSlots = {running_process_idx} /\ cpu = cr3
      /\ context[running_process_idx].dir = cr3
      /\ running_process_idx \in Slots
  BY DEF RunningOwnsCpu, CpuTyped
<1>2. context[running_process_idx] = [regs |-> cpu, dir |-> cr3]
  BY <1>1 DEF TablesTyped, Contexts, ContextsOwned
<1>3. Min(RunningSlots) = running_process_idx
  <2>1. RunningSlots \in SUBSET Nat /\ RunningSlots # {}
    BY <1>1, SlotFacts
  <2> QED
    BY <1>1, <2>1, MinOfNaturals
<1> QED
  BY <1>1, <1>2, <1>3 DEF ContextSaved, TablesTyped

-----------------------------------------------------------------------------
(* Destruction.                                                             *)

\* A careful kill finds the slot of the process it names, and only that slot
\* changes.
LEMMA KillEffect ==
    ASSUME ProcessInv, Balance, ContextsOwned, EveryProcessHasStack, SlotsAgree,
           used_process[0], phase' = phase, memory' = memory,
           active_process_count = Cardinality(UsedSlots) - 1,
           NEW p \in Slots \ {0}, used_process[p], process_destroy(p)
    PROVE  /\ Balance' /\ ContextsOwned' /\ EveryProcessHasStack' /\ SlotsAgree'
           /\ active_process_count' = Cardinality(UsedSlots)' - 1
           /\ used_process'[0]
           /\ state' = [state EXCEPT ![p] = "KILLED"]
           /\ \A j \in Slots \ {p} : context'[j] = context[j]
<1>1. Matching(p) = {p}
  BY DEF Matching, SlotsAgree
<1>2. Min(Matching(p)) = p
  BY <1>1, SlotFacts, MinOfNaturals
<1>3. /\ state' = [state EXCEPT ![p] = "KILLED"]
      /\ pid' = [pid EXCEPT ![p] = 0]
      /\ context' = [context EXCEPT ![p] = ZeroContext]
      /\ used_process' = [used_process EXCEPT ![p] = FALSE]
      /\ active_process_count' = (active_process_count - 1) % CounterModulus
  BY <1>1, <1>2 DEF process_destroy
<1>4. /\ ~used_process'[p] /\ state'[p] = "KILLED" /\ pid'[p] = 0
      /\ context'[p] = ZeroContext
      /\ \A j \in Slots \ {p} : /\ used_process'[j] = used_process[j]
                                /\ context'[j] = context[j]
                                /\ pid'[j] = pid[j]
                                /\ state'[j] = state[j]
  BY <1>3 DEF ProcessInv, TablesTyped
<1>5. /\ UsedSlots' = UsedSlots \ {p} /\ 0 \in UsedSlots'
      /\ Cardinality(UsedSlots)' = Cardinality(UsedSlots) - 1
      /\ Cardinality(UsedSlots)' \in Nat \ {0}
  <2>1. UsedSlots' = UsedSlots \ {p} /\ p \in UsedSlots /\ 0 \in UsedSlots'
    BY <1>4, SlotFacts DEF UsedSlots
  <2>2. /\ Cardinality(UsedSlots)' = Cardinality(UsedSlots) - 1
        /\ IsFiniteSet(UsedSlots')
    BY <2>1, UsedFinite, FS_RemoveElement
  <2>3. Cardinality(UsedSlots)' # 0 /\ Cardinality(UsedSlots)' \in Nat
    BY <2>1, <2>2, FS_EmptySet, FS_CardinalityType
  <2> QED
    BY <2>1, <2>2, <2>3
<1>6. active_process_count' = Cardinality(UsedSlots)' - 1
  <2>1. active_process_count - 1 \in 0 .. CounterModulus - 1
    BY <1>5, UsedFinite, ProcessConstants DEF ProcessInv, TablesTyped
  <2> QED
    BY <1>3, <1>5, <2>1, CounterFits
<1>7. Balance'
  <2>1. UsedDirectories' = UsedDirectories
    BY DEF UsedDirectories
  <2> QED
    BY <1>5, <2>1, UsedFinite DEF Balance
<1>8. ContextsOwned' /\ EveryProcessHasStack' /\ SlotsAgree'
  BY <1>4 DEF ContextsOwned, EveryProcessHasStack, SlotsAgree
<1> QED
  BY <1>3, <1>4, <1>5, <1>6, <1>7, <1>8, SlotFacts DEF UsedSlots
-----------------------------------------------------------------------------
(* CarefulInv is inductive.                                                 *)

LEMMA CarefulInit == CarefulKernel /\ Init => CarefulInv
<1> SUFFICES ASSUME CarefulKernel, Init PROVE CarefulInv
  OBVIOUS
<1>1. ProcessInv
  BY InitTyped
<1>2. \A i \in Slots : /\ ~used_process[i] /\ state[i] = "KILLED" /\ pid[i] = 0
                       /\ context[i] = ZeroContext
  BY DEF Init
<1>3. /\ active_process_count = 0 /\ phase = "map_page_0" /\ fault = "none"
      /\ memory.free_page_frame_count = FrameCount - 1
      /\ memory.page_directory_used = [d \in Directories |-> FALSE]
  BY DEF Init, PagingInit
<1>4. UsedDirectories = {} /\ UsedSlots = {}
  BY <1>2, <1>3 DEF UsedDirectories, UnusedDirectories, UsedSlots
<1>5. Balance
  BY <1>3, <1>4, FS_EmptySet, PagingConstants DEF Balance
<1>6. BootStage
  BY <1>3, <1>4 DEF BootStage
<1>7. RunningOwnsCpu /\ ContextsOwned /\ EveryProcessHasStack /\ NoFault
  BY <1>2, <1>3 DEF RunningOwnsCpu, ContextsOwned, EveryProcessHasStack, NoFault
<1>8. ProcessTableConsistent
  BY <1>2, <1>3 DEF ProcessTableConsistent
<1> QED
  BY <1>1, <1>5, <1>6, <1>7, <1>8 DEF CarefulInv

\* MapPage0 takes a frame while the table is still empty.
LEMMA MapPage0Careful ==
    ASSUME CarefulKernel, CarefulInv, MapPage0
    PROVE  CarefulInv'
<1>1. ProcessInv'
  BY ProcessStep DEF CarefulInv, Next
<1>2. /\ UsedDirectories = {} /\ UsedSlots = {} /\ active_process_count = 0
      /\ memory.free_page_frame_count = FrameCount - 1
      /\ phase = "map_page_0" /\ phase' = "create_init"
      /\ Sound(memory) /\ memory.free_page_frame_count \in Int
  BY FS_EmptySet, UsedFinite, PagingConstants
     DEF MapPage0, CarefulInv, BootStage, Balance, ProcessInv, PagingInv, Sound, Memory
<1>3. FreeFrames(memory) # {}
  <2>1. memory.free_page_frame_count > 0
    BY <1>2 DEF CarefulKernel
  <2> QED
    BY <1>2, <2>1, FS_EmptySet DEF Sound, CountExact
<1>4. /\ memory'.free_page_frame_count = FrameCount - 2
      /\ UnusedDirectories(memory') = UnusedDirectories(memory)
  <2>1. KernelDirectory \in AllDirectories /\ ZeroPage \in Pages
    BY PagingConstants DEF KernelDirectory, AllDirectories
  <2> QED
    BY <1>2, <1>3, <2>1, AllocateEffect, PagingConstants DEF MapPage0
<1>5. UsedDirectories' = {} /\ UsedSlots' = {}
  BY <1>2, <1>4 DEF UsedDirectories, UsedSlots, MapPage0, manager
<1>6. Balance'
  BY <1>2, <1>4, <1>5, FS_EmptySet, PagingConstants DEF Balance
<1>7. BootStage'
  BY <1>2, <1>5 DEF BootStage, MapPage0, manager
<1>8. ContextsOwned' /\ EveryProcessHasStack'
  BY <1>5 DEF UsedSlots, ContextsOwned, EveryProcessHasStack
<1>9. RunningOwnsCpu' /\ ProcessTableConsistent' /\ NoFault'
  BY <1>2 DEF MapPage0, CarefulInv, RunningOwnsCpu, ProcessTableConsistent, NoFault,
              process_list, manager
<1> QED
  BY <1>1, <1>6, <1>7, <1>8, <1>9 DEF CarefulInv

\* CreateInit is admitted and makes slot 0 the READY process init.
LEMMA CreateInitCareful ==
    ASSUME CarefulKernel, CarefulInv, CreateInit
    PROVE  /\ CarefulInv'
           /\ \A i \in Slots : state[i] = "KILLED" /\ state'[i] # "KILLED" =>
                 /\ state'[i] = "READY"
                 /\ context'[i].dir \in UnusedDirectories(memory)
<1>1. ProcessInv'
  BY ProcessStep DEF CarefulInv, Next
<1>2. /\ phase = "create_init" /\ phase' = "scheduler_init"
      /\ process_create_user_process(ZeroPage, 2)
      /\ UsedDirectories = {} /\ UsedSlots = {} /\ active_process_count = 0
      /\ memory.free_page_frame_count = FrameCount - 2
      /\ ZeroPage \in Pages
  <2>1. /\ phase = "create_init" /\ phase' = "scheduler_init"
        /\ process_create_user_process(ZeroPage, 2)
    BY DEF CreateInit
  <2>2. UsedDirectories = {} /\ UsedSlots = {} /\ active_process_count = 0
    BY <2>1 DEF CarefulInv, BootStage
  <2>3. memory.free_page_frame_count = FrameCount - 2
    BY <2>1, <2>2, FS_EmptySet, PagingConstants
       DEF CarefulInv, Balance, ProcessInv, PagingInv, Sound, Memory
  <2> QED
    BY <2>1, <2>2, <2>3, PagingConstants
<1>3. Admitted(ZeroPage, 2)
  BY <1>2, ProcessConstants DEF CarefulKernel, Admitted, paging_allocate_check
<1>4. CreateReady(ZeroPage, 2) /\ memory.free_page_frame_count > 1
      /\ UnusedDirectories(memory) # {}
  BY <1>2, <1>3, CreationAllOrNothing DEF CarefulInv, ProcessInv, CreateRefused
<1>5. SlotsAgree
  BY DEF CarefulInv, ProcessTableConsistent, SlotsAgree
<1>6. /\ Balance' /\ ContextsOwned' /\ EveryProcessHasStack' /\ SlotsAgree'
      /\ \E i \in FreeSlots : /\ \A k \in FreeSlots : i <= k
                              /\ UsedSlots' = UsedSlots \cup {i}
                              /\ state' = [state EXCEPT ![i] = "READY"]
                              /\ context'[i].dir \in UnusedDirectories(memory)
  BY <1>2, <1>4, <1>5, ReadyEffect DEF CarefulInv
<1>7. /\ UsedSlots' = {0} /\ state'[0] = "READY"
      /\ \A i \in Slots \ {0} : state'[i] = state[i]
      /\ context'[0].dir \in UnusedDirectories(memory)
  <2>1. 0 \in FreeSlots /\ FreeSlots \in SUBSET Nat
    BY <1>2, SlotFacts DEF UsedSlots, FreeSlots
  <2>2. PICK i \in FreeSlots : /\ \A k \in FreeSlots : i <= k
                               /\ UsedSlots' = UsedSlots \cup {i}
                               /\ state' = [state EXCEPT ![i] = "READY"]
                               /\ context'[i].dir \in UnusedDirectories(memory)
    BY <1>6
  <2>3. i = 0
    BY <2>1, <2>2
  <2> QED
    BY <1>2, <2>2, <2>3, SlotFacts DEF CarefulInv, ProcessInv, TablesTyped
<1>8. BootStage' /\ RunningOwnsCpu' /\ ProcessTableConsistent'
  BY <1>2, <1>6, <1>7 DEF BootStage, RunningOwnsCpu, ProcessTableConsistent, SlotsAgree
<1>9. NoFault'
  BY <1>4 DEF CarefulInv, NoFault, CreateReady
<1> QED
  BY <1>1, <1>6, <1>7, <1>8, <1>9 DEF CarefulInv
\* scheduler_init resets a counter that is off by one from then on.
LEMMA SchedulerInitCareful ==
    ASSUME CarefulInv, scheduler_init
    PROVE  CarefulInv'
<1>1. ProcessInv'
  BY ProcessStep DEF CarefulInv, Next
<1>2. /\ UsedSlots = {0} /\ state[0] = "READY"
      /\ phase = "scheduler_init" /\ phase' = "first_switch"
      /\ active_process_count' = 0 /\ running_process_idx' = 0
      /\ memory' = memory /\ state' = state /\ pid' = pid /\ context' = context
      /\ used_process' = used_process /\ fault' = fault
  BY DEF CarefulInv, BootStage, scheduler_init, process_list
<1>3. UsedSlots' = UsedSlots /\ UsedDirectories' = UsedDirectories
  BY <1>2 DEF UsedSlots, UsedDirectories
<1>4. Balance' /\ BootStage'
  BY <1>2, <1>3 DEF CarefulInv, Balance, BootStage
<1>5. ProcessTableConsistent'
  <2>1. Cardinality(UsedSlots') = 1
    BY <1>2, <1>3, FS_Singleton
  <2>2. SlotsAgree'
    BY <1>2 DEF CarefulInv, ProcessTableConsistent, SlotsAgree
  <2> QED
    BY <1>2, <2>1, <2>2 DEF ProcessTableConsistent, SlotsAgree, UsedSlots
<1>6. ContextsOwned' /\ EveryProcessHasStack' /\ RunningOwnsCpu' /\ NoFault'
  BY <1>2 DEF CarefulInv, ContextsOwned, EveryProcessHasStack, RunningOwnsCpu, NoFault
<1> QED
  BY <1>1, <1>4, <1>5, <1>6 DEF CarefulInv

\* The invariant at a step that only switches: the first one, and every tick.
LEMMA SwitchCareful ==
    ASSUME CarefulInv, ProcessInv', phase \in {"first_switch", "run"}, phase' = "run",
           used_process[0], used_process[running_process_idx],
           RunningSlots \subseteq {running_process_idx},
           scheduler_switch_to_next_process(context),
           UNCHANGED <<memory, pid, manager>>
    PROVE  /\ CarefulInv'
           /\ \A i \in Slots : state[i] = "KILLED" => state'[i] = "KILLED"
<1>1. SlotsAgree /\ active_process_count = Cardinality(UsedSlots) - 1
  BY DEF CarefulInv, ProcessTableConsistent, SlotsAgree, UsedSlots
<1>2. /\ SlotsAgree'
      /\ RunningSlots' = {running_process_idx'}
      /\ cpu' = cr3' /\ context'[running_process_idx'].dir = cr3'
      /\ context' = context /\ fault' = fault
      /\ \A i \in Slots : state[i] = "KILLED" => state'[i] = "KILLED"
  BY <1>1, SwitchLoadsProcess DEF CarefulInv, ProcessInv, CpuTyped
<1>3. /\ memory' = memory /\ used_process' = used_process
      /\ active_process_count' = active_process_count
      /\ UsedSlots' = UsedSlots /\ UsedDirectories' = UsedDirectories
  BY DEF manager, UsedSlots, UsedDirectories
<1>4. Balance' /\ BootStage'
  BY <1>3 DEF CarefulInv, Balance, BootStage
<1>5. ProcessTableConsistent'
  BY <1>1, <1>2, <1>3 DEF ProcessTableConsistent, SlotsAgree, UsedSlots
<1>6. RunningOwnsCpu'
  BY <1>2 DEF RunningOwnsCpu
<1>7. ContextsOwned' /\ EveryProcessHasStack' /\ NoFault'
  BY <1>2, <1>3 DEF CarefulInv, ContextsOwned, EveryProcessHasStack, NoFault
<1> QED
  BY <1>2, <1>4, <1>5, <1>6, <1>7 DEF CarefulInv

\* The first switch finds init READY and nothing RUNNING.
LEMMA FirstSwitchCareful ==
    ASSUME CarefulInv, FirstSwitch
    PROVE  /\ CarefulInv'
           /\ \A i \in Slots : state[i] = "KILLED" => state'[i] = "KILLED"
<1>1. ProcessInv'
  BY ProcessStep DEF CarefulInv, Next
<1>2. /\ UsedSlots = {0} /\ state[0] = "READY" /\ running_process_idx = 0
      /\ phase = "first_switch"
  BY DEF FirstSwitch, CarefulInv, BootStage
<1>3. used_process[0]
  BY <1>2 DEF UsedSlots
<1>4. RunningSlots = {}
  <2>1. \A i \in Slots : i # 0 => state[i] = "KILLED"
    BY <1>2 DEF CarefulInv, ProcessTableConsistent, UsedSlots
  <2> QED
    BY <1>2, <2>1 DEF RunningSlots
<1> QED
  BY <1>1, <1>2, <1>3, <1>4, SwitchCareful DEF FirstSwitch

\* A tick switches from the context that is already saved.
LEMMA TickCareful ==
    ASSUME CarefulInv, TimerTick
    PROVE  /\ CarefulInv'
           /\ \A i \in Slots : state[i] = "KILLED" => state'[i] = "KILLED"
<1>1. ProcessInv'
  BY ProcessStep DEF CarefulInv, Next
<1>2. /\ phase = "run" /\ phase' = "run" /\ used_process[0]
      /\ RunningSlots = {running_process_idx} /\ running_process_idx \in Slots
  BY DEF TimerTick, Running, CarefulInv, BootStage, RunningOwnsCpu, ProcessInv, CpuTyped
<1>3. used_process[running_process_idx]
  <2>1. state[running_process_idx] = "RUNNING"
    BY <1>2 DEF RunningSlots
  <2> QED
    BY <1>2, <2>1 DEF CarefulInv, ProcessTableConsistent
<1>4. ContextSaved = context
  BY <1>2, <1>3, SaveIsIdle DEF CarefulInv, ProcessInv
<1> QED
  BY <1>1, <1>2, <1>3, <1>4, SwitchCareful DEF TimerTick

\* A program executes another: refused, or one process more.
LEMMA ExecCareful ==
    ASSUME CarefulKernel, CarefulInv, Exec
    PROVE  /\ CarefulInv'
           /\ \A i \in Slots : state[i] = "KILLED" /\ state'[i] # "KILLED" =>
                 /\ state'[i] = "READY"
                 /\ context'[i].dir \in UnusedDirectories(memory)
<1>1. ProcessInv'
  BY ProcessStep DEF CarefulInv, Next
<1>2. PICK entry \in Entries, needed \in Sizes :
          process_create_user_process(entry, needed)
  BY DEF Exec
<1>3. /\ entry \in Pages /\ needed # 0
      /\ phase = "run" /\ phase' = "run"
      /\ running_process_idx' = running_process_idx /\ cpu' = cpu
  BY <1>2, ProcessConstants DEF CarefulKernel, Exec, Executing, Running
<1>4. SlotsAgree /\ active_process_count = Cardinality(UsedSlots) - 1
  BY <1>3 DEF CarefulInv, ProcessTableConsistent, SlotsAgree, UsedSlots
<1>5. CASE CreateRefused(entry, needed)
  <2>1. /\ memory' = memory /\ state' = state /\ pid' = pid /\ context' = context
        /\ used_process' = used_process /\ cr3' = cr3 /\ fault' = fault
        /\ active_process_count' = active_process_count
    BY <1>5 DEF CreateRefused, process_list, manager
  <2>2. /\ UsedSlots' = UsedSlots /\ UsedDirectories' = UsedDirectories
        /\ RunningSlots' = RunningSlots
    BY <2>1 DEF UsedSlots, UsedDirectories, RunningSlots
  <2>3. Balance' /\ BootStage' /\ RunningOwnsCpu'
    BY <1>3, <2>1, <2>2 DEF CarefulInv, Balance, BootStage, RunningOwnsCpu
  <2>4. ProcessTableConsistent'
    BY <1>3, <1>4, <2>1 DEF ProcessTableConsistent, SlotsAgree, UsedSlots
  <2>5. ContextsOwned' /\ EveryProcessHasStack' /\ NoFault'
    BY <2>1 DEF CarefulInv, ContextsOwned, EveryProcessHasStack, NoFault
  <2> QED
    BY <1>1, <2>1, <2>3, <2>4, <2>5 DEF CarefulInv
<1>6. CASE ~CreateRefused(entry, needed)
  <2>1. /\ CreateReady(entry, needed)
        /\ memory.free_page_frame_count > 1 /\ UnusedDirectories(memory) # {}
    BY <1>2, <1>3, <1>6, CreationAllOrNothing DEF CarefulInv, ProcessInv
  <2>2. /\ Balance' /\ ContextsOwned' /\ EveryProcessHasStack' /\ SlotsAgree'
        /\ Cardinality(UsedSlots)' = Cardinality(UsedSlots) + 1
        /\ active_process_count' = (active_process_count + 1) % CounterModulus
        /\ \E i \in FreeSlots :
              /\ UsedSlots' = UsedSlots \cup {i}
              /\ state' = [state EXCEPT ![i] = "READY"]
              /\ \A j \in Slots \ {i} : context'[j] = context[j]
              /\ context'[i].dir \in UnusedDirectories(memory)
    BY <1>3, <1>4, <2>1, ReadyEffect DEF CarefulInv
  <2>3. PICK i \in FreeSlots :
              /\ UsedSlots' = UsedSlots \cup {i}
              /\ state' = [state EXCEPT ![i] = "READY"]
              /\ \A j \in Slots \ {i} : context'[j] = context[j]
              /\ context'[i].dir \in UnusedDirectories(memory)
    BY <2>2
  <2>4. /\ i \in Slots /\ state[i] = "KILLED" /\ state'[i] = "READY"
        /\ \A j \in Slots \ {i} : state'[j] = state[j]
    BY <1>4, <2>3 DEF FreeSlots, SlotsAgree, CarefulInv, ProcessInv, TablesTyped
  <2>5. active_process_count' = Cardinality(UsedSlots)' - 1
    <3>1. active_process_count + 1 \in 0 .. CounterModulus - 1
      <4>1. active_process_count < ProcessCountMax
        BY <2>1 DEF CreateReady, Admitted
      <4> QED
        BY <4>1, ProcessConstants DEF CarefulInv, ProcessInv, TablesTyped
    <3> QED
      BY <1>4, <2>2, <3>1, CounterFits, UsedFinite
  <2>6. ProcessTableConsistent'
    BY <2>2, <2>5 DEF ProcessTableConsistent, SlotsAgree, UsedSlots
  <2>7. RunningOwnsCpu' /\ BootStage'
    <3>1. /\ cr3' = cr3 /\ RunningSlots = {running_process_idx} /\ cpu = cr3
          /\ context[running_process_idx].dir = cr3
      BY <1>3, <2>1 DEF CreateReady, CarefulInv, RunningOwnsCpu
    <3>2. RunningSlots' = RunningSlots
      BY <2>4 DEF RunningSlots
    <3>3. running_process_idx # i /\ running_process_idx \in Slots
      BY <2>4, <3>1 DEF RunningSlots
    <3>4. 0 \in UsedSlots'
      BY <1>3, <2>3, SlotFacts DEF CarefulInv, BootStage, UsedSlots
    <3> QED
      BY <1>3, <2>3, <3>1, <3>2, <3>3, <3>4 DEF RunningOwnsCpu, BootStage, UsedSlots
  <2>8. NoFault'
    BY <2>1 DEF CarefulInv, NoFault, CreateReady
  <2> QED
    BY <1>1, <2>2, <2>3, <2>4, <2>6, <2>7, <2>8 DEF CarefulInv
<1> QED
  BY <1>5, <1>6

\* A careful kill: one process less, and neither init nor the caller.
LEMMA KillCareful ==
    ASSUME CarefulKernel, CarefulInv, Kill
    PROVE  /\ CarefulInv'
           /\ \A i \in Slots : state[i] = "KILLED" => state'[i] = "KILLED"
<1>1. ProcessInv'
  BY ProcessStep DEF CarefulInv, Next
<1>2. PICK w \in Numerals : Careful(ParsedPid(w)) /\ process_destroy(ParsedPid(w))
  BY DEF Kill
<1> DEFINE p == ParsedPid(w)
<1>3. /\ p \in Slots \ {0} /\ used_process[p] /\ p # running_process_idx
      /\ process_destroy(p)
  BY <1>2 DEF Careful, CarefulKernel
<1> HIDE DEF p
<1>4. /\ phase = "run" /\ phase' = "run" /\ memory' = memory
      /\ running_process_idx' = running_process_idx /\ cpu' = cpu /\ cr3' = cr3
      /\ fault' = fault /\ used_process[0]
      /\ RunningSlots = {running_process_idx} /\ running_process_idx \in Slots
      /\ context[running_process_idx].dir = cr3 /\ cpu = cr3
  BY DEF Kill, Executing, Running, CarefulInv, BootStage, RunningOwnsCpu, ProcessInv,
         CpuTyped
<1>5. SlotsAgree /\ active_process_count = Cardinality(UsedSlots) - 1
  BY <1>4 DEF CarefulInv, ProcessTableConsistent, SlotsAgree, UsedSlots
<1>6. /\ Balance' /\ ContextsOwned' /\ EveryProcessHasStack' /\ SlotsAgree'
      /\ active_process_count' = Cardinality(UsedSlots)' - 1
      /\ used_process'[0]
      /\ state' = [state EXCEPT ![p] = "KILLED"]
      /\ \A j \in Slots \ {p} : context'[j] = context[j]
  BY <1>3, <1>4, <1>5, KillEffect DEF CarefulInv
<1>7. /\ state'[p] = "KILLED"
      /\ \A j \in Slots \ {p} : state'[j] = state[j]
  BY <1>3, <1>6 DEF CarefulInv, ProcessInv, TablesTyped
<1>8. RunningOwnsCpu'
  <2>1. RunningSlots' = RunningSlots
    BY <1>3, <1>4, <1>7 DEF RunningSlots
  <2> QED
    BY <1>3, <1>4, <1>6, <2>1 DEF RunningOwnsCpu
<1>9. ProcessTableConsistent' /\ BootStage' /\ NoFault'
  BY <1>4, <1>6 DEF ProcessTableConsistent, SlotsAgree, UsedSlots, BootStage,
                    CarefulInv, NoFault
<1> QED
  BY <1>1, <1>6, <1>7, <1>8, <1>9 DEF CarefulInv

\* CarefulInv is inductive, and no step revives a slot except by creation.
LEMMA CarefulStep ==
    ASSUME CarefulKernel, CarefulInv, [Next]_vars
    PROVE  /\ CarefulInv'
           /\ \A i \in Slots : state[i] = "KILLED" /\ state'[i] # "KILLED" =>
                 /\ state'[i] = "READY"
                 /\ context'[i].dir \in UnusedDirectories(memory)
<1>1. CASE MapPage0
  BY <1>1, MapPage0Careful DEF MapPage0, process_list
<1>2. CASE CreateInit
  BY <1>2, CreateInitCareful
<1>3. CASE scheduler_init
  BY <1>3, SchedulerInitCareful DEF scheduler_init, process_list
<1>4. CASE FirstSwitch
  BY <1>4, FirstSwitchCareful
<1>5. CASE TimerTick
  BY <1>5, TickCareful
<1>6. CASE Exec
  BY <1>6, ExecCareful
<1>7. CASE Kill
  BY <1>7, KillCareful
<1>8. CASE ReturnFromMain
  BY <1>8 DEF ReturnFromMain, CarefulKernel
<1>9. CASE UNCHANGED vars
  <2>1. UNCHANGED <<memory, state, pid, context, used_process, active_process_count,
                    running_process_idx, cpu, cr3, phase, fault>>
    BY <1>9 DEF vars, process_list, manager
  <2> QED
    BY <2>1 DEF CarefulInv, ProcessInv, PagingInv, TablesTyped, CpuTyped, ControlTyped,
                Balance, BootStage, UsedSlots, UsedDirectories, RunningOwnsCpu,
                RunningSlots, ContextsOwned, ProcessTableConsistent,
                EveryProcessHasStack, NoFault
<1> QED
  BY <1>1, <1>2, <1>3, <1>4, <1>5, <1>6, <1>7, <1>8, <1>9 DEF Next
LEMMA CarefulInvariant ==
    ASSUME CarefulKernel
    PROVE  Spec => []CarefulInv
<1>1. Init => CarefulInv
  BY CarefulInit
<1>2. CarefulInv /\ [Next]_vars => CarefulInv'
  BY CarefulStep
<1> QED
  BY <1>1, <1>2, PTL DEF Spec

-----------------------------------------------------------------------------
(* What the invariant gives.                                                *)

\* Whatever programs execute, kill and interrupt, once the scheduler runs one
\* slot is RUNNING, the CPU is in that slot's process and directory, and a
\* tick saves nothing into another process's control block.
THEOREM SchedulerOwnsCpu ==
    ASSUME CarefulKernel
    PROVE  Spec => []RunningOwnsCpu
<1>1. CarefulInv => RunningOwnsCpu
  BY DEF CarefulInv
<1> QED
  BY <1>1, CarefulInvariant, PTL

\* Every context that may be loaded is one process's, registers and directory
\* together, and no two processes ever share a directory.
THEOREM ContextsStayOwned ==
    ASSUME CarefulKernel
    PROVE  Spec => []ContextsOwned
<1>1. CarefulInv => ContextsOwned
  BY DEF CarefulInv
<1> QED
  BY <1>1, CarefulInvariant, PTL

\* used_process, the control blocks and the counter agree between any two
\* steps, init forgotten by the counter as it is.
THEOREM ProcessTableAgrees ==
    ASSUME CarefulKernel
    PROVE  Spec => []ProcessTableConsistent
<1>1. CarefulInv => ProcessTableConsistent
  BY DEF CarefulInv
<1> QED
  BY <1>1, CarefulInvariant, PTL

\* Every process keeps a stack frame of its own, even one that was loaded at
\* the stack's page.
THEOREM StacksStayMapped ==
    ASSUME CarefulKernel
    PROVE  Spec => []EveryProcessHasStack
<1>1. CarefulInv => EveryProcessHasStack
  BY DEF CarefulInv
<1> QED
  BY <1>1, CarefulInvariant, PTL

\* The kernel never switches to a context nobody wrote, never writes before
\* the process list and never through a null directory.
THEOREM KernelNeverFaults ==
    ASSUME CarefulKernel
    PROVE  Spec => []NoFault
<1>1. CarefulInv => NoFault
  BY DEF CarefulInv
<1> QED
  BY <1>1, CarefulInvariant, PTL

\* The check that asks for one frame where two are taken is enough: frames,
\* directories and slots run out together, so no creation stops half-way.
THEOREM PoolsStayBalanced ==
    ASSUME CarefulKernel
    PROVE  Spec => []PoolsBalanced
<1>1. CarefulInv => PoolsBalanced
  BY PoolsInProportion DEF CarefulInv, ProcessInv, PoolsBalanced
<1> QED
  BY <1>1, CarefulInvariant, PTL

\* No step revives a killed slot but a creation, which gives it a directory
\* no process had before.
THEOREM KilledNeverReturns ==
    ASSUME CarefulKernel
    PROVE  Spec => KilledStaysDead
<1>1. CarefulInv /\ [Next]_vars =>
        [\A i \in Slots : state[i] = "KILLED" /\ state'[i] # "KILLED" =>
            /\ state'[i] = "READY"
            /\ context'[i].dir \in UnusedDirectories(memory)]_vars
  BY CarefulStep
<1> QED
  BY <1>1, CarefulInvariant, PTL DEF Spec, KilledStaysDead
=============================================================================
