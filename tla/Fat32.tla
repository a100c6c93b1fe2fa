------------------------------- MODULE Fat32 --------------------------------
(***************************************************************************)
(* The FAT32 driver of fat32.c on a disk that keeps what has been written  *)
(* when the power goes.                                                     *)
(*                                                                         *)
(* The driver is linked twice: into the kernel and into the user shell,    *)
(* each copy with a driver_state of its own.  One call is in progress at a *)
(* time.  A call reads first and writes afterwards, so it is modelled as   *)
(* the step that reads and decides, leaving in pending the disks its       *)
(* writes will produce one after the other, and one DiskWrite step for     *)
(* each; PowerOff may come between any two.                                *)
(*                                                                         *)
(* Sizes are counted in clusters, a cluster of data is a token; dir_table_ *)
(* buf needs no variable, every call reads it again before use.            *)
(***************************************************************************)
EXTENDS Integers, FiniteSets, Sequences, SequencesExt

CONSTANTS
    ClusterMapSize,   \* CLUSTER_MAP_SIZE
    TableSize,        \* entries of a directory table
    Names, Exts, NoExt,
    Values,           \* what programs write into files
    MaxSize,          \* clusters of the largest file
    DirectoryMax,     \* bound on the directories below the root
    KernelDriver,
    UserDrivers,      \* copies of the driver in user programs
    Writers,          \* the copies through which files are written and deleted
    RoomChecked,      \* TRUE: no write when some but not enough room is left
    FreshDelete,      \* TRUE: no delete before the first read or write
    AtomicFormat,     \* TRUE: the power stays on while formatting
    EmptyDirsOnly,    \* TRUE: programs delete no directory that has entries
    MaxPowerOff       \* bound on power failures

ASSUME FatConstants ==
    /\ ClusterMapSize \in Nat /\ ClusterMapSize > 3
    /\ TableSize \in Nat /\ TableSize > 2
    /\ NoExt \in Exts
    /\ MaxSize \in Nat \ {0}
    /\ DirectoryMax \in Nat /\ DirectoryMax < ClusterMapSize /\ MaxPowerOff \in Nat
    /\ Writers \subseteq {KernelDriver} \cup UserDrivers
    /\ {RoomChecked, FreshDelete, AtomicFormat, EmptyDirsOnly} \subseteq BOOLEAN

VARIABLES
    disk,       \* boot sector, FAT and the clusters behind it
    cache,      \* driver_state.fat_table of each copy
    pending,    \* the disks the call in progress will still write
    power,      \* "on", "formatting" or "off"
    powerOffs   \* power failures so far

fatVars == <<disk, cache, pending, power, powerOffs>>

FAT_CLUSTER_NUMBER == 1
ROOT_CLUSTER_NUMBER == 2
EMPTY_ENTRY == 0
RESERVED == -1          \* CLUSTER_0_VALUE, CLUSTER_1_VALUE: no array index
END_OF_FILE == -2

Clusters == 0 .. ClusterMapSize - 1
Slots == 0 .. TableSize - 1
UserSlots == 2 .. TableSize - 1      \* after the entry itself and ".."
Drivers == {KernelDriver} \cup UserDrivers
DotDot == ".."
RootName == "root"
NoName == ""

Blank == [name |-> NoName, ext |-> NoExt, dir |-> FALSE, live |-> FALSE,
          cluster |-> 0, size |-> 0]
NoTable == [i \in Slots |-> Blank]
NoData == <<>>
ZeroFat == [c \in Clusters |-> EMPTY_ENTRY]
BlankDisk == [signed |-> FALSE, fat |-> ZeroFat,
              table |-> [c \in Clusters |-> NoTable],
              data |-> [c \in Clusters |-> NoData]]

\* Mutant: ".." always leads to the root.
ParentIsRoot(name, parent, junk) ==
    LET self == [name |-> name, ext |-> junk, dir |-> TRUE, live |-> TRUE,
                 cluster |-> 0, size |-> 0]
    IN  [i \in Slots |->
            CASE i = 0 -> self
              [] i = 1 -> [self EXCEPT !.name = DotDot,
                                       !.cluster = ROOT_CLUSTER_NUMBER]
              [] OTHER -> [Blank EXCEPT !.ext = junk]]

\* Entry 0 is the directory itself, entry 1 its parent, the others are marked
\* empty.  The routine sets no extension: junk is what the buffer held there.
init_directory_table(name, parent, junk) ==
    LET self == [name |-> name, ext |-> junk, dir |-> TRUE, live |-> TRUE,
                 cluster |-> 0, size |-> 0]
    IN  [i \in Slots |->
            CASE i = 0 -> self
              [] i = 1 -> [self EXCEPT !.name = DotDot, !.cluster = parent]
              [] OTHER -> [Blank EXCEPT !.ext = junk]]

\* Writing a cluster replaces whatever it held before.
WithTable(d, c, t) == [d EXCEPT !.table[c] = t, !.data[c] = NoData]
WithData(d, c, v) == [d EXCEPT !.table[c] = NoTable, !.data[c] = v]
WithFat(d, f) == [d EXCEPT !.fat = f]

-----------------------------------------------------------------------------
(* Power and formatting.                                                    *)

FormattedFat == [c \in Clusters |->
                    CASE c < ROOT_CLUSTER_NUMBER -> RESERVED
                      [] c = ROOT_CLUSTER_NUMBER -> END_OF_FILE
                      [] OTHER -> EMPTY_ENTRY]

\* Signature first, then the FAT, then the root directory.
create_fat32 ==
    LET signed == [disk EXCEPT !.signed = TRUE]
        mapped == WithFat(signed, FormattedFat)
    IN  <<signed, mapped,
          WithTable(mapped, ROOT_CLUSTER_NUMBER,
                    init_directory_table(RootName, ROOT_CLUSTER_NUMBER, NoExt))>>

is_empty_storage == ~disk.signed

\* Only the kernel's copy is ever initialised; the others start as .bss.
initialize_filesystem_fat32 ==
    /\ power = "off"
    /\ IF is_empty_storage
       THEN /\ pending' = create_fat32
            /\ cache' = [cache EXCEPT ![KernelDriver] = FormattedFat]
            /\ power' = "formatting"
       ELSE /\ cache' = [cache EXCEPT ![KernelDriver] = disk.fat]
            /\ power' = "on"
            /\ UNCHANGED pending
    /\ UNCHANGED <<disk, powerOffs>>

DiskWrite ==
    /\ pending # <<>>
    /\ disk' = Head(pending)
    /\ pending' = Tail(pending)
    /\ power' = IF Tail(pending) = <<>> THEN "on" ELSE power
    /\ UNCHANGED <<cache, powerOffs>>

PowerOff ==
    /\ power # "off"
    /\ AtomicFormat => power # "formatting"
    /\ powerOffs < MaxPowerOff
    /\ powerOffs' = powerOffs + 1
    /\ power' = "off"
    /\ pending' = <<>>
    /\ cache' = [d \in Drivers |-> ZeroFat]
    /\ UNCHANGED disk

-----------------------------------------------------------------------------
(* Chains and directories of a disk.                                        *)

\* The k-th value met by following the FAT from c: past the end mark, or a value
\* that is no index, nothing new is met.
At(fat, c, k) ==
    LET next == [v \in Clusters \cup {RESERVED, END_OF_FILE} |->
                    IF v \in Clusters THEN fat[v] ELSE v]
        at[j \in 0 .. ClusterMapSize] == IF j = 0 THEN c ELSE next[at[j-1]]
    IN  at[k]

\* What comes before the end mark, cut after as many steps as there are clusters.
Chain(fat, c) ==
    [k \in 1 .. Cardinality({j \in 0 .. ClusterMapSize : At(fat, c, j) # END_OF_FILE})
        |-> At(fat, c, k - 1)]

LiveEntries(d, c) == {d.table[c][i] : i \in {j \in UserSlots : d.table[c][j].live}}

IsDirectoryTable(d, c) == d.table[c][0].live /\ d.table[c][0].dir

Subdirectories(d, c) == {e.cluster : e \in {f \in LiveEntries(d, c) : f.dir}}

\* The directories a walk from the root can come to.
DirectoryClusters(d) ==
    IF ~d.signed \/ ~IsDirectoryTable(d, ROOT_CLUSTER_NUMBER) THEN {}
    ELSE LET within[k \in 0 .. ClusterMapSize] ==
                 IF k = 0 THEN {ROOT_CLUSTER_NUMBER}
                 ELSE UNION {{c} \cup Subdirectories(d, c) : c \in within[k-1]}
         IN  within[DirectoryMax + 1]

FreeClusters(fat) == {c \in Clusters : c > ROOT_CLUSTER_NUMBER /\ fat[c] = EMPTY_ENTRY}

-----------------------------------------------------------------------------
(* write.  A request of size 0 makes a directory.                           *)

Required(size) == IF size = 0 THEN 1 ELSE size

EmptySlots(table) == {i \in UserSlots : ~table[i].live}
Nth(S, k) == CHOOSE x \in S : Cardinality({y \in S : y < x}) = k - 1

\* Each empty slot goes once through the free clusters and adds all of them,
\* until enough are collected: with too few, the second empty slot adds the
\* same ones again.
SlotsTried(fat, size) ==
    LET free == Cardinality(FreeClusters(fat))
    IN  (Required(size) + free - 1) \div free

HasEntry(fat, table, size) ==
    /\ FreeClusters(fat) # {}
    /\ SlotsTried(fat, size) <= Cardinality(EmptySlots(table))

\* Mutant: the last empty slot instead of the first.
LastEmpty(fat, table, size) == Max(EmptySlots(table))

\* Mutant: the first slot whether it is empty or not.
FirstSlot(fat, table, size) == Min(UserSlots)

EntryNumber(fat, table, size) == Nth(EmptySlots(table), SlotsTried(fat, size))

ClusterNumbers(fat, size) ==
    LET free == FreeClusters(fat)
    IN  [k \in 1 .. Required(size) |-> Nth(free, ((k - 1) % Cardinality(free)) + 1)]

\* The last of the first k places of the sequence that hold cluster c.
LastUse(numbers, c, k) == Max({j \in 1 .. k : numbers[j] = c})

\* Mutant: the search for the name ends at the first empty slot.
ExistsBeforeEmpty(table, name, ext) ==
    \E i \in UserSlots : /\ table[i].live /\ table[i].name = name /\ table[i].ext = ext
                        /\ \A j \in EmptySlots(table) : i < j

Exists(table, name, ext) ==
    \E i \in UserSlots : table[i].live /\ table[i].name = name /\ table[i].ext = ext

\* The links from each collected cluster to the next; where a cluster was
\* collected twice the later assignment stands.
Linked(fat, numbers) ==
    [c \in Clusters |->
        IF c \notin Range(numbers) THEN fat[c]
        ELSE LET k == LastUse(numbers, c, Len(numbers))
             IN  IF k = Len(numbers) THEN END_OF_FILE ELSE numbers[k+1]]

\* extension and size of a directory's entry stay what the slot held before
NewEntry(old, name, ext, size, cluster) ==
    IF size = 0
    THEN [old EXCEPT !.live = TRUE, !.cluster = cluster, !.name = name, !.dir = TRUE]
    ELSE [name |-> name, ext |-> ext, dir |-> FALSE, live |-> TRUE,
          cluster |-> cluster, size |-> size]

\* The disk after the first k data clusters of the buffer were written.
DataWritten(k, numbers, buf) ==
    LET written == Range(SubSeq(numbers, 1, k)) IN
    [disk EXCEPT
        !.table = [c \in Clusters |-> IF c \in written THEN NoTable ELSE @[c]],
        !.data = [c \in Clusters |-> IF c \in written
                                     THEN buf[LastUse(numbers, c, k)] ELSE @[c]]]

\* Mutant: the entry first, then contents and FAT.
EntryFirst(parent, name, ext, size, buf) ==
    LET numbers == ClusterNumbers(disk.fat, size)
        slot == EntryNumber(disk.fat, disk.table[parent], size)
        entry == NewEntry(disk.table[parent][slot], name, ext, size, numbers[1])
        listed == WithTable(disk, parent, [disk.table[parent] EXCEPT ![slot] = entry])
        bodies == IF size = 0
                  THEN <<WithTable(listed, numbers[1],
                                   init_directory_table(name, parent, buf))>>
                  ELSE <<[listed EXCEPT !.data = DataWritten(size, numbers, buf).data]>>
    IN  <<listed>> \o bodies \o <<WithFat(Last(bodies), Linked(disk.fat, numbers))>>

\* The disks of a successful write: contents, then the FAT, then the entry.
\* buf is the data of a file, cluster by cluster, for a directory what the buffer
\* of its table held.
WriteDisks(parent, name, ext, size, buf) ==
    LET numbers == ClusterNumbers(disk.fat, size)
        slot == EntryNumber(disk.fat, disk.table[parent], size)
        bodies == IF size = 0
                  THEN <<WithTable(disk, numbers[1],
                                   init_directory_table(name, parent, buf))>>
                  ELSE [k \in 1 .. size |-> DataWritten(k, numbers, buf)]
        mapped == WithFat(Last(bodies), Linked(disk.fat, numbers))
        entry == NewEntry(disk.table[parent][slot], name, ext, size, numbers[1])
        table == [disk.table[parent] EXCEPT ![slot] = entry]
    IN  bodies \o <<mapped, WithTable(mapped, parent, table)>>

\* Return code of write; disk and FAT have just been read.
WriteResult(parent, name, ext, size) ==
    CASE ~IsDirectoryTable(disk, parent) -> 2
      [] IsDirectoryTable(disk, parent) /\ Exists(disk.table[parent], name, ext) -> 1
      [] OTHER -> IF HasEntry(disk.fat, disk.table[parent], size) THEN 0 ELSE -1

Idle == power = "on" /\ pending = <<>>

\* Room for the request, or none at all.
EnoughRoom(size) ==
    Cardinality(FreeClusters(disk.fat)) \in {0} \cup Required(size) .. ClusterMapSize

write(d, parent, name, ext, size, buf) ==
    /\ Idle
    /\ IF WriteResult(parent, name, ext, size) = 0
       THEN /\ cache' = [cache EXCEPT ![d] =
                            Linked(disk.fat, ClusterNumbers(disk.fat, size))]
            /\ pending' = WriteDisks(parent, name, ext, size, buf)
       ELSE /\ cache' = [cache EXCEPT ![d] = disk.fat]
            /\ UNCHANGED pending
    /\ UNCHANGED <<disk, power, powerOffs>>

-----------------------------------------------------------------------------
(* delete.  It reads the parent's table but not the FAT.                    *)

\* A directory matches by its name alone; the search includes "..".
Deletable(table, name, ext) ==
    {i \in Slots \ {0} : /\ table[i].live /\ table[i].name = name
                         /\ table[i].dir \/ table[i].ext = ext}

\* Mutant: only the first cluster is freed.
FreedFirst(fat, entry) == {entry.cluster}

\* The clusters of the first size steps, taken from the cached FAT.
Freed(fat, entry) ==
    IF entry.dir THEN {entry.cluster}
    ELSE {At(fat, entry.cluster, k) : k \in 0 .. entry.size - 1} \cap Clusters

Cleared(fat, cs) == [c \in Clusters |-> IF c \in cs THEN EMPTY_ENTRY ELSE fat[c]]

\* Mutant: the FAT first, then the entry.
DeleteFatFirst(d, parent, i) ==
    LET table == disk.table[parent]
        freed == WithFat(disk, Cleared(cache[d], Freed(cache[d], table[i])))
    IN  <<freed, WithTable(freed, parent, [table EXCEPT ![i].live = FALSE])>>

\* Entry first, then the FAT.
DeleteDisks(d, parent, i) ==
    LET table == disk.table[parent]
        unlisted == WithTable(disk, parent, [table EXCEPT ![i].live = FALSE])
    IN  <<unlisted, WithFat(unlisted, Cleared(cache[d], Freed(cache[d], table[i])))>>

\* Mutant: the cached FAT is not updated.
DeleteKeepsCache(d, parent, i) ==
    /\ pending' = DeleteDisks(d, parent, i)
    /\ UNCHANGED cache

DeleteEntry(d, parent, i) ==
    /\ pending' = DeleteDisks(d, parent, i)
    /\ cache' = [cache EXCEPT ![d] = Cleared(@, Freed(@, disk.table[parent][i]))]

\* Whether a directory is empty is looked up through a table that was never
\* read: the root's number (-1), entries (2) or none may be found there.
delete(d, parent, name, ext) ==
    /\ Idle
    /\ LET found == Deletable(disk.table[parent], name, ext) IN
       IF found = {} THEN UNCHANGED <<cache, pending>>
       ELSE \/ DeleteEntry(d, parent, Min(found))
            \/ disk.table[parent][Min(found)].dir /\ UNCHANGED <<cache, pending>>
    /\ UNCHANGED <<disk, power, powerOffs>>

-----------------------------------------------------------------------------
(* read.                                                                    *)

Valid(parent) == disk.table[parent][0].live

\* The data of each cluster of a chain; a value that is no cluster has none.
DataAlong(chain) ==
    [k \in 1 .. Len(chain) |->
        IF chain[k] \in Clusters THEN disk.data[chain[k]] ELSE NoData]

\* Slots read compares with; deleted entries are among them.
ReadMatches(table, name, ext) ==
    {i \in Slots : table[i].name = name /\ table[i].ext = ext}

\* Return code and, on success, the data clusters copied to the buffer.
ReadResult(parent, name, ext, size) ==
    LET found == ReadMatches(disk.table[parent], name, ext)
        e == disk.table[parent][Min(found)]
    IN  CASE ~Valid(parent) -> [code |-> -1, data |-> <<>>]
          [] Valid(parent) /\ found = {} -> [code |-> 2, data |-> <<>>]
          [] Valid(parent) /\ found # {} ->
                IF e.dir THEN [code |-> 1, data |-> <<>>]
                ELSE IF e.size > size THEN [code |-> -1, data |-> <<>>]
                ELSE [code |-> 0, data |-> DataAlong(Chain(disk.fat, e.cluster))]

\* Whatever it finds, read refreshes the FAT of its driver's copy, unless the
\* parent is no directory.
read(d, parent) ==
    /\ Idle
    /\ cache' = IF Valid(parent) THEN [cache EXCEPT ![d] = disk.fat] ELSE cache
    /\ UNCHANGED <<disk, pending, power, powerOffs>>

-----------------------------------------------------------------------------
(* The programs: any request on a directory they can walk to.               *)

Reach == DirectoryClusters(disk)
IsEmptyDirectory(c) == LiveEntries(disk, c) = {}

WriteFile == \E d \in Writers, parent \in Reach, name \in Names, ext \in Exts,
                size \in 1 .. MaxSize, value \in Values :
    /\ RoomChecked => EnoughRoom(size)
    /\ write(d, parent, name, ext, size, [k \in 1 .. size |-> <<value, k>>])

MakeDirectory == \E d \in Writers, parent \in Reach, name \in Names,
                    ext \in Exts, junk \in Exts :
    /\ Cardinality(Reach) <= DirectoryMax
    /\ write(d, parent, name, ext, 0, junk)

DeleteByName == \E d \in Writers, parent \in Reach, name \in Names, ext \in Exts :
    /\ FreshDelete => cache[d] # ZeroFat
    /\ EmptyDirsOnly => \A i \in Deletable(disk.table[parent], name, ext) :
                            disk.table[parent][i].dir
                               => IsEmptyDirectory(disk.table[parent][i].cluster)
    /\ delete(d, parent, name, ext)

ReadFile == \E d \in Drivers, parent \in Reach : read(d, parent)

FatInit ==
    /\ disk = BlankDisk
    /\ cache = [d \in Drivers |-> ZeroFat]
    /\ pending = <<>>
    /\ power = "off"
    /\ powerOffs = 0

FatNext == \/ initialize_filesystem_fat32 \/ DiskWrite \/ PowerOff
           \/ WriteFile \/ MakeDirectory \/ DeleteByName \/ ReadFile

FatSpec == FatInit /\ [][FatNext]_fatVars

-----------------------------------------------------------------------------
(* Properties.  Those of the disk hold of every disk the power may fail on. *)

\* Live entries of reachable directories, with their place.
Places == {p \in Reach \X UserSlots : disk.table[p[1]][p[2]].live}
EntryAt(p) == disk.table[p[1]][p[2]]
ChainOf(p) == Chain(disk.fat, EntryAt(p).cluster)

\* The chain of every entry ends, within user clusters, after as many clusters
\* as the entry is long, and no cluster is in two chains: whatever was written
\* or deleted and wherever the power failed.
ChainsSound ==
    \A p \in Places :
        /\ Len(ChainOf(p)) = Required(IF EntryAt(p).dir THEN 0 ELSE EntryAt(p).size)
        /\ Range(ChainOf(p)) \subseteq Clusters \ (0 .. ROOT_CLUSTER_NUMBER)
        /\ \A q \in Places \ {p} : Range(ChainOf(p)) \cap Range(ChainOf(q)) = {}

\* A directory entry leads to a directory that names the entry's directory as
\* its parent: the walk of the shell's cd and cd .. stays within the tree.
TreeSound ==
    \A p \in Places : EntryAt(p).dir =>
        /\ IsDirectoryTable(disk, EntryAt(p).cluster)
        /\ disk.table[EntryAt(p).cluster][1].cluster = p[1]

\* A file never comes to stand beside a live entry, file or directory, of its name
\* and extension, although the empty slot it takes may come before that entry's.
\* Of a new directory this cannot be said: the name is searched under an extension
\* that mkdir never set, and the entry keeps the one its slot held (FoldersUnique).
FilesEnterAlone ==
    [][\A p \in Places' \ Places, q \in Places :
          p[1] = q[1] /\ ~EntryAt(p)'.dir =>
              \/ EntryAt(q).name # EntryAt(p)'.name
              \/ EntryAt(q).ext # EntryAt(p)'.ext]_fatVars

\* A directory that stands, or stood, under the file's name and extension before it.
\* mkdir may have put it there after the file: it keeps the extension of its slot.
Hidden(p) ==
    \E i \in UserSlots : LET e == disk.table[p[1]][i] IN
        i < p[2] /\ e.dir /\ e.name = EntryAt(p).name /\ e.ext = EntryAt(p).ext

\* read compares deleted entries too, yet asked for a live file it delivers that
\* file's clusters: no other file, live or deleted, is found under its name.  Only
\* a directory can hide it, and then read says so.
\* (A file named like its own directory is found as entry 0 instead.)
ReadFindsFile ==
    \A p \in Places :
        ~EntryAt(p).dir /\ EntryAt(p).name # disk.table[p[1]][0].name =>
            LET answer == ReadResult(p[1], EntryAt(p).name, EntryAt(p).ext, MaxSize) IN
            \/ answer = [code |-> 0, data |-> DataAlong(ChainOf(p))]
            \/ answer.code = 1 /\ Hidden(p)

\* Between calls the FAT that a delete would write back is the disk's.
CacheCurrent ==
    Idle => \A d \in Writers : cache[d] # ZeroFat => cache[d] = disk.fat

\* As long as the power never failed, every cluster that is not free belongs
\* to the chain of some entry.
NothingLeaks ==
    Idle /\ powerOffs = 0 =>
        Clusters \ FreeClusters(disk.fat)
            = (0 .. ROOT_CLUSTER_NUMBER) \cup UNION {Range(ChainOf(p)) : p \in Places}

\* The entries as the shell sees them.
Stored(p) ==
    [parent |-> p[1], name |-> EntryAt(p).name, ext |-> EntryAt(p).ext,
     id |-> IF EntryAt(p).dir THEN EntryAt(p).cluster ELSE ROOT_CLUSTER_NUMBER,
     contents |-> IF EntryAt(p).dir THEN <<>> ELSE DataAlong(ChainOf(p))]

Promise == INSTANCE FileStore WITH
    Root <- ROOT_CLUSTER_NUMBER,
    DirectoryIds <- Clusters \ (0 .. ROOT_CLUSTER_NUMBER),
    Contents <- {[k \in 1 .. n |-> <<v, k>>] : n \in 1 .. MaxSize, v \in Values},
    store <- {Stored(p) : p \in Places}

\* The driver keeps the promise of FileStore, power failures included: a call
\* takes effect on the write of the parent's table and at no other.
ImplementsFileStore == Promise!StoreSpec

-----------------------------------------------------------------------------
(* What the comments say and the code does not do.                          *)

\* fat32.h: delete removes a file or an empty directory.
DeletesEmptyDirectories ==
    [][\A p \in Places : EntryAt(p).dir /\ p[1] \in Reach' /\ p \notin Places'
          => LiveEntries(disk, EntryAt(p).cluster) = {}]_fatVars

\* fat32.h: storage that carries the signature has been formatted, with a FAT
\* and a root directory; otherwise it is formatted at the next start.
SignedMeansFormatted == Idle => IsDirectoryTable(disk, ROOT_CLUSTER_NUMBER)

\* fat32.h: write returns 1 when the folder exists already.
FoldersUnique ==
    \A p, q \in Places :
        /\ p[1] = q[1] /\ EntryAt(p).dir /\ EntryAt(q).dir
        /\ EntryAt(p).name = EntryAt(q).name
        => p = q

Missing(parent, name, ext) ==
    \A i \in Slots : LET e == disk.table[parent][i]
                     IN  e.live => e.name # name \/ e.ext # ext

\* fat32.h: an entry without UATTR_NOT_EMPTY is empty, so read has nothing to
\* read under its name.
DeletedIsNotRead ==
    \A parent \in Reach, name \in Names, ext \in Exts :
        Missing(parent, name, ext) => ReadResult(parent, name, ext, MaxSize).code # 0
=============================================================================
