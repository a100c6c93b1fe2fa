---------------------------- MODULE ShellProofs -----------------------------
(***************************************************************************)
(* Theorems about the shell on the disk: whatever its commands write and   *)
(* delete and wherever the power fails, the chains and the tree stay        *)
(* sound, the prompt names a path to where the shell is, find prints that  *)
(* path, a copy changes nothing there was, and no command but rm, mv among  *)
(* the others, makes data disappear.                                        *)
(*                                                                         *)
(* Every step of a command is a read, a request or a deletion of the       *)
(* driver in a directory the walk came to; what these do to a disk is      *)
(* known from Fat32Proofs and FileStoreProofs.  What is shown here is that  *)
(* the walk comes to no other, through cp's recursion and through the       *)
(* stages of mv, from the user's typing to the deletion of the source.      *)
(***************************************************************************)
EXTENDS Shell, FileStoreProofs, SequenceTheorems

\* The disk and those the call in progress will still write.
AllDisks == {disk} \cup {pending[k] : k \in 1 .. Len(pending)}

\* The tables say where they are: the root leads up to itself, every other directory
\* has an entry of its own name and one for its parent, nothing is in cluster 0, which
\* the entry of its own name leads to, and names are names.
TablesHoused(d) ==
    \A c \in Clusters : IsDirectoryTable(d, c) =>
        d.table[c][0].cluster = 0 /\ d.table[c][1].live /\ d.table[c][1].dir
EntriesHoused(d) ==
    \A p \in LivePlaces(d) :
        /\ Entry(d, p).name \in Names
        /\ Entry(d, p).dir => d.table[Entry(d, p).cluster][0].name = Entry(d, p).name
Housed(d) ==
    /\ Walkable(d)
    /\ d.table[Root][1].cluster = Root
    /\ \A i \in Slots : ~d.table[0][i].live
    /\ TablesHoused(d) /\ EntriesHoused(d)
HousedInv == \A d \in AllDisks : Housed(d)

\* The shell stands in a directory, as long as the power stays and if it goes.
HomeInv == \A d \in AllDisks : currentDirectory \in DirectoryClusters(d)

\* Before the first boot every directory is listed, and the inserter has the disk for
\* itself; no formatting is ever needed.
Insertions == UNION {Range(image) : image \in Images}
PowerInv ==
    /\ inserts \in Seq(Insertions)
    /\ power \in {"on", "off"}
    /\ power = "off" => calls = <<>> /\ job = NoJob /\ currentDirectory = Root
    /\ inserts # <<>> =>
          power = "off" /\ \A c \in Clusters : IsDirectoryTable(disk, c) => c \in Reach

\* Where a walk can lead: directories, and cluster 0, where it ends.
Homes(d) == {0} \cup DirectoryClusters(d)

\* The calls that are in progress.
TypedPaths == [absolute : BOOLEAN, words : Seq(Words) \ {<<>>}]
NewPaths == {p \in TypedPaths : Last(p.words) \in Names}
Buffers == [1 .. CopySize -> Data]
HelperFrames == [call : {"cpHelper"}, src : TypedPaths, dst : NewPaths]
LoopFrames ==
    [call : {"loop"}, src : TypedPaths, dst : NewPaths, dir : Clusters, slot : Nat]
MkfileFrames(d) ==
    [call : {"mkfile"}, from : Homes(d), dst : NewPaths, isdir : BOOLEAN, data : Buffers]
CopyFrames(d) == HelperFrames \cup LoopFrames \cup MkfileFrames(d)

CallsInv ==
    /\ job.name \notin {"cp", "mv"} => calls = <<>>
    /\ job.name = "cp" => \A d \in AllDisks : calls \in Seq(CopyFrames(d))

\* The first live entry of that name in directory c.
FirstNamed(d, c, name, i) ==
    /\ i \in Slots /\ d.table[c][i].live /\ d.table[c][i].name = name
    /\ \A j \in Slots : j < i => ~d.table[c][j].live \/ d.table[c][j].name # name

\* g is a walk along the first n words of a path that finds a directory for each.
Finds(d, from, path, n, g) ==
    /\ g[0] = IF path.absolute THEN Root ELSE from
    /\ \A k \in 1 .. n : \E i \in Slots :
          /\ FirstNamed(d, g[k - 1], path.words[k], i)
          /\ d.table[g[k - 1]][i].dir /\ d.table[g[k - 1]][i].cluster = g[k]

\* The name to be removed is in the root, and directories of that name have none below.
Removable(d, src) ==
    /\ src \in TypedPaths /\ Last(src.words) \in Names
    /\ \E g \in [0 .. Len(src.words) - 1 -> Clusters] :
          Finds(d, Root, src, Len(src.words) - 1, g) /\ g[Len(src.words) - 1] = Root
    /\ \A i \in UserSlots :
          LET e == d.table[Root][i]
          IN  e.live /\ e.dir /\ e.name = Last(src.words) => Subdirectories(d, e.cluster) = {}

\* It is the name of a file that cp will find.
Copyable(d, src) ==
    \E i \in UserSlots : /\ FirstNamed(d, Root, Last(src.words), i)
                         /\ ~d.table[Root][i].dir /\ d.table[Root][i].ext = NoExt

\* The path leads to a new name, for which there is room.
Unnamed(d, c, name) ==
    \A j \in Slots : ~d.table[c][j].live \/ d.table[c][j].name # name
Vacant(d, dst) ==
    /\ dst \in NewPaths
    /\ \E g \in [0 .. Len(dst.words) - 1 -> Clusters] :
          /\ Finds(d, Root, dst, Len(dst.words) - 1, g)
          /\ LET c == g[Len(dst.words) - 1] IN
             /\ Unnamed(d, c, Last(dst.words)) /\ IsDirectoryTable(d, c)
             /\ HasEntry(d.fat, d.table[c], CopySize)

\* What mv does: it copies a file of the root to a new name, and removes it once that
\* is on its way.
Movable(src, dst) == Removable(disk, src) /\ Copyable(disk, src) /\ Vacant(disk, dst)
Moves(src, dst) ==
    \/ /\ calls = <<Helper(src, dst), Rm(src)>>
       /\ pending = <<>> /\ Movable(src, dst)
    \/ /\ calls[1].call = "mkfile"
       /\ LET data == calls[1].data
          IN  data \in Buffers /\ calls = <<Mkfile(Root, dst, FALSE, data), Rm(src)>>
       /\ pending = <<>> /\ Movable(src, dst)
    \/ /\ calls = <<Rm(src)>>
       /\ cache[ShellDriver] # ZeroFat
       /\ \A d \in AllDisks : Removable(d, src)

MoveInv ==
    job.name = "mv" /\ calls # <<>> =>
        currentDirectory = Root /\ \E src, dst \in Paths : Moves(src, dst)

\* A copy adds to the store, disk by disk.
CopyInv ==
    job.name = "cp" =>
        \A k \in 1 .. Len(pending) :
            StoreOf(IF k = 1 THEN disk ELSE pending[k - 1]) \subseteq StoreOf(pending[k])

ShellInv ==
    /\ FatTyped /\ CacheInv /\ SoundInv /\ HousedInv
    /\ HomeInv /\ PowerInv /\ CallsInv /\ MoveInv /\ CopyInv

\* What the theorems assume: the user is careful, the shell's copy of the driver is
\* the one that writes, and a walk is not cut short by the bound of the model.
ShellCareful ==
    /\ Careful /\ CarefulUser /\ ShellDriver \in Writers
    /\ ClusterMapSize - 3 <= DirectoryMax

-----------------------------------------------------------------------------
(* Directories of a disk.                                                   *)

\* Walks end by themselves: there are no more directories than clusters.
LEMMA AlwaysSettled ==
    ASSUME ClusterMapSize - 3 <= DirectoryMax,
           NEW d \in Disks, DiskSound(d), Walkable(d)
    PROVE  /\ Settled(d) /\ 0 \notin DirectoryClusters(d)
           /\ \A x \in FreeClusters(d.fat) : Cardinality(DirectoryClusters(d)) <= DirectoryMax
<1> DEFINE K == 2 .. ClusterMapSize - 1
           R == DirectoryClusters(d)
<1>1. /\ K \in SUBSET Clusters /\ ROOT_CLUSTER_NUMBER \in K /\ 0 \notin K
      /\ UserClusters \subseteq K /\ FreeClusters(d.fat) \subseteq K
  BY ClusterFacts DEF Clusters, UserClusters, FreeClusters, ROOT_CLUSTER_NUMBER
<1>2. Cardinality(K) = ClusterMapSize - 2
  <2>1. 2 \in Int /\ ClusterMapSize - 1 \in Int /\ 2 <= ClusterMapSize - 1
        /\ (ClusterMapSize - 1) - 2 + 1 = ClusterMapSize - 2
    BY ClusterFacts
  <2> QED
    BY <2>1, FS_Interval
<1>3. \A c \in K : Subdirectories(d, c) \subseteq K
  <2> SUFFICES ASSUME NEW c \in K, NEW x \in Subdirectories(d, c) PROVE x \in K
    OBVIOUS
  <2>1. c \in Clusters
    BY <1>1
  <2>2. PICK i \in UserSlots :
           d.table[c][i].live /\ d.table[c][i].dir /\ d.table[c][i].cluster = x
    BY <2>1, SubdirectoriesTyped
  <2>3. <<c, i>> \in LivePlaces(d) /\ Entry(d, <<c, i>>) = d.table[c][i]
    BY <2>1, <2>2, PlaceMade
  <2>4. x \in UserClusters
    BY <2>2, <2>3, ListedNotFree DEF DiskSound
  <2> QED
    BY <1>1, <2>4
<1>4. Cardinality(K) <= DirectoryMax + 1
  BY <1>2, FatConstants
<1> HIDE DEF K
<1>5. R \subseteq K /\ Settled(d)
  BY <1>1, <1>3, <1>4, WalkEnds
<1>6. ASSUME NEW x \in FreeClusters(d.fat) PROVE Cardinality(R) <= DirectoryMax
  <2>1. x \notin R
    BY ReachInUse
  <2>2. R \in SUBSET K /\ R # K
    BY <1>1, <1>5, <2>1
  <2>3. /\ Cardinality(K) \in Nat /\ Cardinality(R) <= Cardinality(K)
        /\ Cardinality(R) # Cardinality(K)
    BY <1>1, <2>2, ClustersFinite
  <2>4. Cardinality(R) \in Nat
    BY <1>1, <1>5, ClustersFinite
  <2> QED
    BY <1>4, <2>3, <2>4, FatConstants
<1> QED
  BY <1>1, <1>5, <1>6

\* The entries a directory has for itself and its parent.
HasSelf(d, c) ==
    /\ d.table[c][0].live /\ d.table[c][0].dir /\ d.table[c][0].cluster = 0
    /\ d.table[c][1].live /\ d.table[c][1].dir /\ d.table[c][1].name = DotDot
    /\ d.table[c][1].cluster \in DirectoryClusters(d)

\* What an entry of a directory says of the directory it leads to.
LeadsDown(d, c, x) ==
    /\ x \in DirectoryClusters(d) /\ x # Root /\ d.table[x][1].cluster = c

\* Every directory that is met has both, and its entries lead to such directories.
LEMMA HousedReach ==
    ASSUME NEW d \in Disks, DiskSound(d), Housed(d), Settled(d),
           NEW c \in DirectoryClusters(d)
    PROVE  /\ c \in Clusters /\ HasSelf(d, c)
           /\ \A i \in UserSlots : d.table[c][i].live =>
                 /\ d.table[c][i].name \in Names
                 /\ d.table[c][i].dir =>
                       /\ LeadsDown(d, c, d.table[c][i].cluster)
                       /\ d.table[d.table[c][i].cluster][0].name = d.table[c][i].name
           /\ c # Root => \E x \in DirectoryClusters(d), i \in UserSlots :
                 /\ d.table[x][i].live /\ d.table[x][i].dir /\ d.table[x][i].cluster = c
                 /\ d.table[c][1].cluster = x
<1> DEFINE R == DirectoryClusters(d)
<1>1. Walkable(d) /\ AllRooted(d) /\ ParentsNamed(d) /\ AllChained(d)
  BY DEF Housed, DiskSound
<1>2. R \subseteq Clusters /\ Root \in R
  BY <1>1, ReachThrough DEF Root
<1>3. ASSUME NEW x \in R, NEW i \in UserSlots, d.table[x][i].live
      PROVE  /\ d.table[x][i].name \in Names
             /\ d.table[x][i].dir =>
                   /\ LeadsDown(d, x, d.table[x][i].cluster)
                   /\ d.table[d.table[x][i].cluster][0].name = d.table[x][i].name
                   /\ IsDirectoryTable(d, d.table[x][i].cluster)
  <2> DEFINE p == <<x, i>>
             e == d.table[x][i]
  <2>1. p \in LivePlaces(d) /\ Entry(d, p) = e /\ p[1] = x
    BY <1>2, <1>3, PlaceMade
  <2>2. e.name \in Names
    BY <2>1 DEF Housed, EntriesHoused
  <2>3. ASSUME e.dir
        PROVE  /\ LeadsDown(d, x, e.cluster) /\ d.table[e.cluster][0].name = e.name
               /\ IsDirectoryTable(d, e.cluster)
    <3>1. IsDirectoryTable(d, e.cluster) /\ d.table[e.cluster][1].cluster = x
      BY <1>1, <2>1, <2>3 DEF AllRooted
    <3>2. d.table[e.cluster][0].name = e.name
      BY <2>1, <2>3 DEF Housed, EntriesHoused
    <3>3. e.cluster \in UserClusters
      BY <1>1, <2>1, ListedNotFree
    <3>4. e.cluster \in Subdirectories(d, x)
      BY <1>2, <1>3, <2>3, SubdirectoriesTyped
    <3>5. e.cluster \in R /\ e.cluster # Root
      BY <3>3, <3>4, ClusterFacts DEF Settled, Root
    <3> QED
      BY <3>1, <3>2, <3>5 DEF LeadsDown
  <2> QED
    BY <2>2, <2>3
<1>4. c # Root => \E x \in R, i \in UserSlots :
         /\ d.table[x][i].live /\ d.table[x][i].dir /\ d.table[x][i].cluster = c
         /\ d.table[c][1].cluster = x /\ IsDirectoryTable(d, c)
  <2> SUFFICES ASSUME c # Root
               PROVE  \E x \in R, i \in UserSlots :
         /\ d.table[x][i].live /\ d.table[x][i].dir /\ d.table[x][i].cluster = c
         /\ d.table[c][1].cluster = x /\ IsDirectoryTable(d, c)
    OBVIOUS
  <2>1. PICK x \in R : c \in Subdirectories(d, x)
    BY <1>1, ReachThrough DEF Root
  <2>2. PICK i \in UserSlots :
           d.table[x][i].live /\ d.table[x][i].dir /\ d.table[x][i].cluster = c
    BY <1>2, <2>1, SubdirectoriesTyped
  <2> QED
    BY <1>3, <2>2 DEF LeadsDown
<1>5. IsDirectoryTable(d, c) /\ d.table[c][1].cluster \in R
  <2>1. CASE c = Root
    BY <1>1, <1>2, <2>1 DEF Walkable, Housed, Root
  <2> QED
    BY <1>4, <2>1
<1>6. HasSelf(d, c)
  BY <1>1, <1>2, <1>5 DEF HasSelf, Housed, TablesHoused, ParentsNamed, IsDirectoryTable
<1> QED
  BY <1>2, <1>3, <1>4, <1>6

-----------------------------------------------------------------------------
(* What a write does to the directories.                                    *)

\* The table a write leaves in the clusters it takes: empty, and where it is a
\* directory's with the two entries it needs.
FreshTable(t) ==
    EmptyTable(t) /\ (t[0].live => t[0].cluster = 0 /\ t[1].live /\ t[1].dir)

\* What a write puts into the first cluster it takes is such a table.
LEMMA NewTableHoused ==
    ASSUME NEW parent \in Clusters, NEW name \in Names, NEW size \in 0 .. MaxSize, NEW buf,
           IsBuffer(size, buf)
    PROVE  LET t == NewTable(parent, name, size, buf)
           IN  FreshTable(t) /\ (size = 0 => SelfEntries(t, name, parent))
<1> DEFINE t == NewTable(parent, name, size, buf)
<1>1. CASE size = 0
  <2>1. t = init_directory_table(name, parent, buf) /\ buf \in Exts
    BY <1>1 DEF NewTable, IsBuffer
  <2> HIDE DEF t
  <2>2. (\A i \in UserSlots : ~t[i].live) /\ SelfEntries(t, name, parent)
    BY <2>1, NewTableFacts
  <2>3. FreshTable(t)
    BY <2>2 DEF FreshTable, EmptyTable, SelfEntries
  <2> QED
    BY <2>2, <2>3 DEF t
<1>2. CASE size # 0
  <2>1. t = NoTable
    BY <1>2 DEF NewTable
  <2> HIDE DEF t
  <2>2. FreshTable(t)
    BY <2>1, NoTableFacts, ClusterFacts DEF FreshTable, EmptyTable
  <2> QED
    BY <1>2, <2>2 DEF t
<1> QED
  BY <1>1, <1>2

\* Contents in free clusters disturb no directory.
LEMMA ContentsHoused ==
    ASSUME NEW d \in Disks, DiskSound(d), Housed(d), NEW w \in Disks, w.signed = d.signed,
           NEW t, FreshTable(t),
           \A c \in Clusters :
              w.table[c] = d.table[c] \/ (c \in FreeClusters(d.fat) /\ w.table[c] = t)
    PROVE  Housed(w)
<1>1. /\ Walkable(d) /\ d.table[Root][1].cluster = Root
      /\ \A i \in Slots : ~d.table[0][i].live
      /\ TablesHoused(d) /\ EntriesHoused(d) /\ AllChained(d)
  BY DEF Housed, DiskSound
<1>2. w.table[Root] = d.table[Root] /\ w.table[0] = d.table[0]
  BY ClusterFacts DEF FreeClusters, Root
<1>3. Walkable(w)
  BY <1>1, <1>2 DEF Walkable, IsDirectoryTable, Root
<1>4. TablesHoused(w)
  BY <1>1 DEF TablesHoused, FreshTable, IsDirectoryTable
<1>5. EntriesHoused(w)
  <2> SUFFICES ASSUME NEW p \in LivePlaces(w)
               PROVE  /\ Entry(w, p).name \in Names
                      /\ Entry(w, p).dir =>
                            w.table[Entry(w, p).cluster][0].name = Entry(w, p).name
    BY DEF EntriesHoused
  <2>1. p \in LivePlaces(d) /\ Entry(w, p) = Entry(d, p)
    BY ContentsPlaces DEF FreshTable
  <2>2. Entry(d, p).cluster \in Clusters /\ Entry(d, p).cluster \notin FreeClusters(d.fat)
    BY <1>1, <2>1, ListedNotFree
  <2>3. w.table[Entry(d, p).cluster] = d.table[Entry(d, p).cluster]
    BY <2>2
  <2> QED
    BY <1>1, <2>1, <2>3 DEF EntriesHoused
<1> QED
  BY <1>1, <1>2, <1>3, <1>4, <1>5 DEF Housed

\* Nor does a new entry: it leads to a directory of its name, if to any.
LEMMA EntryHoused ==
    ASSUME NEW d \in Disks, DiskSound(d), Housed(d), NEW w \in Disks, w.signed = d.signed,
           NEW r, NEW numbers, NEW parent, parent # 0, NEW slot, NEW entry, NEW t, NEW table,
           EntryAdded(d, w, r, numbers, parent, slot, entry, t, table),
           entry.name \in Names, FreshTable(t),
           entry.dir => SelfEntries(t, entry.name, parent)
    PROVE  Housed(w)
<1>1. /\ Walkable(d) /\ d.table[Root][1].cluster = Root
      /\ \A i \in Slots : ~d.table[0][i].live
      /\ TablesHoused(d) /\ EntriesHoused(d) /\ AllChained(d)
  BY DEF Housed, DiskSound
<1>2. /\ r \in 1 .. ClusterMapSize /\ numbers \in [1 .. r -> FreeClusters(d.fat)]
      /\ entry.cluster = numbers[1] /\ parent \notin FreeClusters(d.fat)
      /\ parent \in Clusters
      /\ \A c \in Clusters :
            w.table[c] = IF c = parent THEN table
                         ELSE IF c \in Range(numbers) THEN t ELSE d.table[c]
  BY DEF EntryAdded
<1>3. /\ Range(numbers) \subseteq FreeClusters(d.fat)
      /\ entry.cluster \in Range(numbers) /\ entry.cluster \in Clusters
  <2>1. 1 \in 1 .. r
    BY <1>2, FatConstants
  <2> QED
    BY <1>2, <2>1 DEF Range, FreeClusters
<1>4. EntryListed(d, w, parent, slot, entry, table)
  BY EntryPlaces
<1>5. ASSUME NEW c \in Clusters, c \notin FreeClusters(d.fat)
      PROVE  w.table[c][0] = d.table[c][0] /\ w.table[c][1] = d.table[c][1]
  BY <1>4, <1>5 DEF EntryListed
<1>6. \A c \in Clusters :
         \/ w.table[c] = t
         \/ w.table[c][0] = d.table[c][0] /\ w.table[c][1] = d.table[c][1]
  BY <1>2, <1>4 DEF EntryListed
<1>7. /\ w.table[Root][0] = d.table[Root][0] /\ w.table[Root][1] = d.table[Root][1]
      /\ w.table[0] = d.table[0]
  <2>1. /\ Root \in Clusters /\ Root \notin FreeClusters(d.fat)
        /\ 0 \in Clusters /\ 0 \notin FreeClusters(d.fat)
    BY ClusterFacts DEF FreeClusters, Root
  <2>2. w.table[0] = d.table[0]
    BY <1>4, <2>1 DEF EntryListed
  <2> QED
    BY <1>5, <2>1, <2>2
<1>8. Walkable(w)
  BY <1>1, <1>7 DEF Walkable, IsDirectoryTable, Root
<1>9. TablesHoused(w)
  BY <1>1, <1>6 DEF TablesHoused, FreshTable, IsDirectoryTable
<1>10. EntriesHoused(w)
  <2> SUFFICES ASSUME NEW p \in LivePlaces(w)
               PROVE  /\ Entry(w, p).name \in Names
                      /\ Entry(w, p).dir =>
                            w.table[Entry(w, p).cluster][0].name = Entry(w, p).name
    BY DEF EntriesHoused
  <2>1. CASE p = <<parent, slot>>
    <3>1. Entry(w, p) = entry
      BY <1>4, <2>1 DEF EntryListed
    <3>2. w.table[entry.cluster] = t
      BY <1>2, <1>3
    <3> QED
      BY <3>1, <3>2 DEF SelfEntries
  <2>2. CASE p # <<parent, slot>>
    <3>1. p \in LivePlaces(d) /\ Entry(w, p) = Entry(d, p)
      BY <1>4, <2>2 DEF EntryListed
    <3>2. Entry(d, p).cluster \in Clusters /\ Entry(d, p).cluster \notin FreeClusters(d.fat)
      BY <1>1, <3>1, ListedNotFree
    <3>3. w.table[Entry(d, p).cluster][0] = d.table[Entry(d, p).cluster][0]
      BY <1>5, <3>2
    <3> QED
      BY <1>1, <3>1, <3>3 DEF EntriesHoused
  <2> QED
    BY <2>1, <2>2
<1> QED
  BY <1>1, <1>7, <1>8, <1>9, <1>10 DEF Housed

\* Nor one less.
LEMMA RemovalHoused ==
    ASSUME NEW d \in Disks, DiskSound(d), Housed(d), NEW w \in Disks, w.signed = d.signed,
           NEW parent, NEW i, NEW table, EntryRemoved(d, w, parent, i, table)
    PROVE  Housed(w)
<1>1. /\ Walkable(d) /\ d.table[Root][1].cluster = Root
      /\ \A j \in Slots : ~d.table[0][j].live
      /\ TablesHoused(d) /\ EntriesHoused(d)
  BY DEF Housed
<1>2. /\ \A c \in Clusters :
            w.table[c][0] = d.table[c][0] /\ w.table[c][1] = d.table[c][1]
      /\ \A p \in LivePlaces(w) : p \in LivePlaces(d) /\ Entry(w, p) = Entry(d, p)
  <2>1. EntryUnlisted(d, w, parent, i, table)
    BY RemovalPlaces
  <2> QED
    BY <2>1 DEF EntryUnlisted
<1>3. Root \in Clusters /\ 0 \in Clusters /\ UserSlots \subseteq Slots
  BY ClusterFacts DEF Root
<1>4. Walkable(w) /\ w.table[Root][1].cluster = Root
  BY <1>1, <1>2, <1>3 DEF Walkable, IsDirectoryTable, Root
<1>5. w.table[0] = d.table[0]
  <2>1. /\ i \in UserSlots /\ d.table[parent][i].live
        /\ \A c \in Clusters : c # parent => w.table[c] = d.table[c]
    BY DEF EntryRemoved
  <2>2. parent # 0
    BY <1>1, <1>3, <2>1
  <2> QED
    BY <1>3, <2>1, <2>2
<1>6. TablesHoused(w)
  BY <1>1, <1>2 DEF TablesHoused, IsDirectoryTable
<1>7. EntriesHoused(w)
  <2> SUFFICES ASSUME NEW p \in LivePlaces(w)
               PROVE  /\ Entry(w, p).name \in Names
                      /\ Entry(w, p).dir =>
                            w.table[Entry(w, p).cluster][0].name = Entry(w, p).name
    BY DEF EntriesHoused
  <2>1. p \in LivePlaces(d) /\ Entry(w, p) = Entry(d, p) /\ Entry(d, p).cluster \in Clusters
    BY <1>2, PlaceFacts
  <2> QED
    BY <1>1, <1>2, <2>1 DEF EntriesHoused
<1> QED
  BY <1>1, <1>4, <1>5, <1>6, <1>7 DEF Housed

\* From disk d to disk w everything there was stays.
Keeps(d, w) ==
    /\ w \in Disks /\ DiskSound(w) /\ Housed(w)
    /\ DirectoryClusters(d) \subseteq DirectoryClusters(w)
    /\ StoreOf(d) \subseteq StoreOf(w)

\* Slot i of directory c is its first empty one, and has no live entry in front of it
\* or behind that is named like e, if that is a file.
Takes(d, c, i, e) ==
    /\ \A j \in UserSlots : j < i => d.table[c][j].live
    /\ ~e.dir => \A j \in UserSlots : d.table[c][j].live =>
          d.table[c][j].name # e.name \/ d.table[c][j].ext # e.ext

\* The tables of directories change in no more than one slot that was empty.
OnlyEnters(d, w, parent, slot, name, size) ==
    \A c \in DirectoryClusters(d), i \in Slots :
        \/ w.table[c][i] = d.table[c][i]
        \/ /\ c = parent /\ i = slot /\ ~d.table[c][i].live
           /\ w.table[c][i].name = name /\ (w.table[c][i].dir <=> size = 0)
           /\ Takes(d, c, i, w.table[c][i])

\* No directory's table is left but where the walk comes.
Lists(d, w) ==
    \A c \in Clusters :
        IsDirectoryTable(w, c) => IsDirectoryTable(d, c) \/ c \in DirectoryClusters(w)

\* The disks of a write: none loses anything, and only the last shows it.
WriteShows(writes, parent, slot, name, size) ==
    /\ writes \in Seq(Disks) /\ writes # <<>>
    /\ \A k \in 1 .. Len(writes) :
          Keeps(disk, writes[k]) /\ OnlyEnters(disk, writes[k], parent, slot, name, size)
    /\ \A k \in 1 .. Len(writes) - 1 : StoreOf(writes[k]) = StoreOf(disk)
    /\ Lists(disk, Last(writes))

\* All disks of a write that has room keep the directories where they were; only the
\* last lists the new entry.
LEMMA WriteKeeps ==
    ASSUME ClusterMapSize - 3 <= DirectoryMax, disk \in Disks, DiskSound(disk),
           Housed(disk), NEW parent \in Reach, NEW name, NEW ext,
           NEW size, NEW buf, Request(parent, name, ext, size, buf), NEW numbers, NEW slot,
           Placed(parent, name, ext, size, buf, numbers, slot),
           Required(size) <= Cardinality(FreeClusters(disk.fat))
    PROVE  WriteShows(WriteDisks(parent, name, ext, size, buf), parent, slot, name, size)
<1> DEFINE r == Required(size)
           writes == WriteDisks(parent, name, ext, size, buf)
           entry == NewEntry(disk.table[parent][slot], name, ext, size, numbers[1])
           t == NewTable(parent, name, size, buf)
           v == NewData(size, numbers, buf)
           table == [disk.table[parent] EXCEPT ![slot] = entry]
<1>1. Adds(writes, name, size, numbers, parent, slot, entry, t, v, table)
  BY WriteAdds
<1>2. \A k \in 1 .. Len(writes) : DiskSound(writes[k])
  BY WriteSound
<1>3. /\ name \in Names /\ size \in 0 .. MaxSize /\ IsBuffer(size, buf)
      /\ ~disk.table[parent][slot].live
      /\ parent \in Clusters /\ parent # 0
  <2>1. Settled(disk) /\ 0 \notin Reach
    BY AlwaysSettled DEF Housed, Reach
  <2> QED
    BY <2>1 DEF Request, Placed
<1>4. FreshTable(t) /\ (size = 0 => SelfEntries(t, name, parent))
  BY <1>3, NewTableHoused
<1>14. Takes(disk, parent, slot, entry)
  <2>1. size = 0 \/ EnoughRoom(size)
    <3>1. Cardinality(FreeClusters(disk.fat)) \in 0 .. ClusterMapSize
      <4>1. Cardinality(Clusters) = ClusterMapSize
        <5>1. 0 \in Int /\ ClusterMapSize - 1 \in Int /\ 0 <= ClusterMapSize - 1
              /\ (ClusterMapSize - 1) - 0 + 1 = ClusterMapSize
          BY FatConstants
        <5> QED
          BY <5>1, FS_Interval DEF Clusters
      <4>2. FreeClusters(disk.fat) \in SUBSET Clusters /\ Clusters \in SUBSET Clusters
        BY DEF FreeClusters
      <4> QED
        BY <4>1, <4>2, ClustersFinite, FatConstants
    <3>2. Required(size) \in Nat
      BY <1>3, FatConstants DEF Required
    <3> QED
      BY <3>1, <3>2, FatConstants DEF EnoughRoom
  <2>2. \A j \in UserSlots : j < slot => disk.table[parent][j].live
    BY <2>1, FirstEmptySlot
  <2>3. ~Exists(disk.table[parent], name, ext)
    BY DEF Placed
  <2>4. ~entry.dir => entry.name = name /\ entry.ext = ext
    <3>1. CASE size = 0
      <4>1. disk.table[parent][slot] \in Entries
        BY <1>3, ClusterFacts DEF Disks, Tables, Placed
      <4> QED
        BY <3>1, <4>1 DEF NewEntry, Entries
    <3>2. CASE size # 0
      BY <3>2 DEF NewEntry
    <3> QED
      BY <3>1, <3>2
  <2> HIDE DEF entry
  <2> QED
    BY <2>2, <2>3, <2>4 DEF Takes, Exists
<1> HIDE DEF r, writes, entry, t, v, table
<1>5. /\ Written(writes, numbers, t, v, parent, table) /\ disk.signed
      /\ Range(numbers) \subseteq FreeClusters(disk.fat)
      /\ \A c \in Clusters :
            c \notin FreeClusters(disk.fat) => Linked(disk.fat, numbers)[c] = disk.fat[c]
      /\ entry.name = name /\ (entry.dir <=> size = 0) /\ slot \in UserSlots
  BY <1>1 DEF Adds
<1>6. /\ writes \in Seq(Disks) /\ Len(writes) \in Nat /\ Len(writes) > 0
      /\ \A k \in 1 .. Len(writes) - 1 :
            Bodied(writes[k], Range(numbers), t) \/ Mapped(writes[k], numbers, t)
      /\ Tabled(writes[Len(writes)], numbers, t, v, parent, table)
  BY <1>5 DEF Written
<1>7. Settled(disk) /\ parent \in DirectoryClusters(disk) /\ DirectoryClusters(disk) # {}
  BY AlwaysSettled DEF Housed, Reach
<1>8. \A c \in DirectoryClusters(disk) : c \in Clusters /\ c \notin FreeClusters(disk.fat)
  BY ReachInUse
<1>9. ASSUME NEW k \in 1 .. Len(writes) - 1
      PROVE  /\ Keeps(disk, writes[k]) /\ StoreOf(writes[k]) = StoreOf(disk)
             /\ OnlyEnters(disk, writes[k], parent, slot, name, size)
  <2> DEFINE w == writes[k]
  <2>1. Bodied(w, Range(numbers), t) \/ Mapped(w, numbers, t)
    BY <1>6
  <2>2. DiskSound(w)
    BY <1>2, <1>6
  <2> HIDE DEF w
  <2>3. /\ w \in Disks /\ w.signed = disk.signed
        /\ \A c \in Clusters :
              w.table[c] = disk.table[c] \/ (c \in Range(numbers) /\ w.table[c] = t)
        /\ \A c \in Clusters : c \notin Range(numbers) => w.data[c] = disk.data[c]
        /\ w.fat = disk.fat \/ w.fat = Linked(disk.fat, numbers)
    BY <2>1 DEF Bodied, Mapped
  <2>4. \A c \in Clusters : c \notin FreeClusters(disk.fat) =>
           w.fat[c] = disk.fat[c] /\ w.table[c] = disk.table[c] /\ w.data[c] = disk.data[c]
    BY <1>5, <2>3
  <2>5. /\ StoreOf(w) = StoreOf(disk)
        /\ DirectoryClusters(w) = DirectoryClusters(disk)
    BY <1>7, <2>3, <2>4, ContentsStore
  <2>6. \A c \in Clusters :
           w.table[c] = disk.table[c] \/ (c \in FreeClusters(disk.fat) /\ w.table[c] = t)
    BY <1>5, <2>3
  <2>7. Housed(w)
    BY <1>4, <2>3, <2>6, ContentsHoused
  <2>8. OnlyEnters(disk, w, parent, slot, name, size)
    BY <1>8, <2>4 DEF OnlyEnters
  <2> QED
    BY <2>2, <2>3, <2>5, <2>7, <2>8 DEF Keeps, w
<1>10. /\ Keeps(disk, writes[Len(writes)])
       /\ OnlyEnters(disk, writes[Len(writes)], parent, slot, name, size)
       /\ Lists(disk, writes[Len(writes)])
  <2> DEFINE w == writes[Len(writes)]
  <2>1. Tabled(w, numbers, t, v, parent, table)
    BY <1>6
  <2>2. DiskSound(w)
    BY <1>2, <1>6
  <2>3. /\ EntryAdded(disk, w, r, numbers, parent, slot, entry, t, table)
    BY <1>1, <2>1 DEF Adds, r
  <2> HIDE DEF w
  <2>4. /\ w \in Disks /\ w.signed = disk.signed
        /\ \A c \in Clusters : c # parent /\ c \notin Range(numbers) =>
              w.data[c] = disk.data[c]
        /\ \A c \in Clusters :
              w.table[c] = IF c = parent THEN table
                           ELSE IF c \in Range(numbers) THEN t ELSE disk.table[c]
    BY <2>1 DEF Tabled
  <2>5. entry.dir => Cardinality(DirectoryClusters(disk)) <= DirectoryMax
    <3>1. numbers[1] \in FreeClusters(disk.fat)
      <4>1. 1 \in 1 .. r /\ numbers \in [1 .. r -> FreeClusters(disk.fat)]
        BY <2>3, FatConstants DEF EntryAdded
      <4> QED
        BY <4>1
    <3> QED
      BY <3>1, AlwaysSettled DEF Housed
  <2>6. Grown(disk, w, <<parent, slot>>, entry)
    BY <1>3, <1>7, <2>3, <2>4, <2>5, EntryReach
  <2>7. DirectoryClusters(disk) \subseteq DirectoryClusters(w)
    BY <2>6 DEF Grown
  <2>8. StoreOf(disk) \subseteq StoreOf(w)
    <3>1. /\ DiskSound(disk) /\ Settled(disk) /\ disk \in Disks /\ w \in Disks
          /\ parent \in DirectoryClusters(disk) /\ w.signed = disk.signed
          /\ EntryAdded(disk, w, r, numbers, parent, slot, entry, t, table)
          /\ ~disk.table[parent][slot].live
          /\ \A c \in Clusters : c # parent /\ c \notin Range(numbers) =>
                w.data[c] = disk.data[c]
      BY <1>3, <1>7, <2>3, <2>4
    <3>2. StoreOf(w) = StoreOf(disk) \cup {StoredOn(w, <<parent, slot>>)}
      BY <2>5, <3>1, EntryShows, SMTT(60)
    <3> QED
      BY <3>2
  <2>9. Housed(w)
    BY <1>3, <1>4, <1>5, <2>3, <2>4, EntryHoused
  <2>10. OnlyEnters(disk, w, parent, slot, name, size)
    <3>1. EntryListed(disk, w, parent, slot, entry, table)
      BY <2>3, <2>4, EntryPlaces
    <3>2. /\ \A c \in DirectoryClusters(disk) : c # parent => w.table[c] = disk.table[c]
          /\ \A i \in Slots :
                w.table[parent][i] = IF i = slot THEN entry ELSE disk.table[parent][i]
      BY <1>8, <3>1 DEF EntryListed
    <3> QED
      BY <1>3, <1>5, <1>14, <3>2 DEF OnlyEnters
  <2>11. Lists(disk, w)
    <3> SUFFICES ASSUME NEW c \in Clusters, IsDirectoryTable(w, c)
                 PROVE  IsDirectoryTable(disk, c) \/ c \in DirectoryClusters(w)
      BY DEF Lists
    <3>1. CASE c = parent
      BY <1>7, <2>7, <3>1
    <3>2. CASE c # parent /\ c \in Range(numbers)
      <4>1. w.table[c] = t
        BY <2>4, <3>2
      <4>2. t[0].live
        BY <4>1 DEF IsDirectoryTable
      <4>3. size = 0
        BY <4>2, NoTableFacts, ClusterFacts DEF t, NewTable
      <4>4. r = 1
        BY <4>3 DEF r, Required
      <4>5. c = entry.cluster
        <5>1. numbers \in [1 .. r -> FreeClusters(disk.fat)] /\ entry.cluster = numbers[1]
          BY <2>3 DEF EntryAdded
        <5>2. 1 .. r = {1}
          BY <4>4
        <5> QED
          BY <3>2, <5>1, <5>2 DEF Range
      <4> QED
        BY <1>5, <2>6, <4>3, <4>5 DEF Grown
    <3>3. CASE c # parent /\ c \notin Range(numbers)
      BY <2>4, <3>3 DEF IsDirectoryTable
    <3> QED
      BY <3>1, <3>2, <3>3
  <2> QED
    BY <2>2, <2>4, <2>7, <2>8, <2>9, <2>10, <2>11 DEF Keeps, w
<1>11. \A k \in 1 .. Len(writes) : k \in 1 .. Len(writes) - 1 \/ k = Len(writes)
  BY <1>6
<1>12. writes # <<>> /\ Last(writes) = writes[Len(writes)]
  BY <1>6 DEF Last
<1>13. WriteShows(writes, parent, slot, name, size)
  BY <1>6, <1>9, <1>10, <1>11, <1>12 DEF WriteShows
<1> QED
  BY <1>13 DEF writes

\* From disk d to disk w entries change in nothing but in that they may be deleted.
OnlyUnlists(d, w) ==
    \A c \in Clusters, i \in Slots :
        /\ w.table[c][i].name = d.table[c][i].name /\ w.table[c][i].ext = d.table[c][i].ext
        /\ w.table[c][i].dir = d.table[c][i].dir
        /\ w.table[c][i].live => d.table[c][i].live

\* The disks of a deletion: no directory is lost but the one that is removed.
DeleteShows(writes, parent, i) ==
    /\ writes \in Seq(Disks) /\ writes # <<>>
    /\ \A k \in 1 .. Len(writes) :
          /\ DiskSound(writes[k]) /\ Housed(writes[k]) /\ OnlyUnlists(disk, writes[k])
          /\ \A c \in Reach :
                \/ disk.table[parent][i].dir /\ disk.table[parent][i].cluster = c
                \/ c \in DirectoryClusters(writes[k])

\* All disks of a deletion are sound, and no directory but the deleted one is lost.
LEMMA DeleteKeeps ==
    ASSUME ClusterMapSize - 3 <= DirectoryMax, disk \in Disks, DiskSound(disk), Housed(disk),
           cache \in [Drivers -> Fats], NEW d \in Drivers, cache[d] = disk.fat,
           NEW parent \in Reach, NEW i \in UserSlots, disk.table[parent][i].live,
           disk.table[parent][i].dir => Subdirectories(disk, disk.table[parent][i].cluster) = {}
    PROVE  DeleteShows(DeleteDisks(d, parent, i), parent, i)
<1> DEFINE writes == DeleteDisks(d, parent, i)
           table == [disk.table[parent] EXCEPT ![i].live = FALSE]
           f == Cleared(cache[d], Freed(cache[d], disk.table[parent][i]))
<1>1. /\ parent \in Clusters /\ disk.signed /\ parent \in DirectoryClusters(disk)
      /\ i \in Slots /\ Settled(disk)
  BY ReachInUse, ClusterFacts, AlwaysSettled DEF Reach, Housed
<1>2. Removes(writes, parent, i, table)
  BY <1>1, DeleteRemoves
<1>3. \A k \in 1 .. Len(writes) : DiskSound(writes[k])
  BY <1>1, DeleteSound
<1>4. Unlists(writes, f, parent, table)
  BY <1>1, DeleteDisksFacts
<1> HIDE DEF writes, table, f
<1>5. writes \in Seq(Disks) /\ writes # <<>>
  <2>1. Len(<<>>) # 2
    OBVIOUS
  <2>2. writes \in Seq(Disks) /\ Len(writes) = 2
    BY <1>4 DEF Unlists
  <2> QED
    BY <2>1, <2>2, Zenon
<1>6. ASSUME NEW k \in 1 .. Len(writes)
      PROVE  /\ Housed(writes[k]) /\ OnlyUnlists(disk, writes[k])
             /\ \A c \in Reach :
                   \/ disk.table[parent][i].dir /\ disk.table[parent][i].cluster = c
                   \/ c \in DirectoryClusters(writes[k])
  <2> DEFINE w == writes[k]
  <2>1. /\ w \in Disks /\ w.signed = disk.signed
        /\ EntryRemoved(disk, w, parent, i, table)
    BY <1>2 DEF Removes
  <2> HIDE DEF w
  <2>2. Housed(w)
    BY <2>1, RemovalHoused
  <2>3. DirectoryClusters(w) =
           IF disk.table[parent][i].dir
           THEN DirectoryClusters(disk) \ {disk.table[parent][i].cluster}
           ELSE DirectoryClusters(disk)
    BY <1>1, <2>1, RemovalWalk
  <2>4. OnlyUnlists(disk, w)
    <3>1. /\ table = [disk.table[parent] EXCEPT ![i].live = FALSE]
          /\ \A c \in Clusters :
                w.table[c] = IF c = parent THEN table ELSE disk.table[c]
      BY <2>1 DEF EntryRemoved
    <3>2. disk.table[parent] \in Tables
      BY <1>1 DEF Disks
    <3>3. \A j \in Slots :
             /\ table[j].name = disk.table[parent][j].name
             /\ table[j].ext = disk.table[parent][j].ext
             /\ table[j].dir = disk.table[parent][j].dir
             /\ table[j].live => disk.table[parent][j].live
      BY <1>1, <3>1, <3>2, UnlistedSlots
    <3> QED
      BY <3>1, <3>3 DEF OnlyUnlists
  <2> QED
    BY <2>2, <2>3, <2>4 DEF Reach, w
<1>7. DeleteShows(writes, parent, i)
  BY <1>3, <1>5, <1>6 DEF DeleteShows
<1> QED
  BY <1>7 DEF writes

-----------------------------------------------------------------------------
(* Walking along a path.                                                    *)

\* Where a walk is, and whether it failed.
Positions == [code : {0, 2, 3}, dir : Clusters]

\* The entry that is looked up.
LEMMA FoundEntry ==
    ASSUME NEW c, NEW name
    PROVE  LET i == findDirEntryIndex(c, name)
           IN  \/ i = -1 /\ Unnamed(disk, c, name)
               \/ i # -1 /\ FirstNamed(disk, c, name, i)
<1> DEFINE found == {i \in Slots : disk.table[c][i].live /\ disk.table[c][i].name = name}
           i == findDirEntryIndex(c, name)
<1>1. CASE found = {}
  BY <1>1 DEF findDirEntryIndex, Unnamed
<1>2. CASE found # {}
  <2>1. found \in SUBSET Nat /\ i = Min(found)
    BY <1>2, ClusterFacts DEF Slots, findDirEntryIndex
  <2>2. i \in found /\ \A y \in found : i <= y
    <3> HIDE DEF found, i
    <3> QED
      BY <1>2, <2>1, MinFacts
  <2>3. i \in Nat /\ \A j \in Slots : j \in Nat
    BY <2>1, <2>2, ClusterFacts DEF Slots
  <2>4. \A j \in Slots : j < i => j \notin found
    BY <2>2, <2>3
  <2>5. i # -1
    BY <2>3
  <2> HIDE DEF i
  <2>6. FirstNamed(disk, c, name, i)
    BY <2>2, <2>4 DEF FirstNamed
  <2> QED
    BY <2>5, <2>6 DEF i
<1> QED
  BY <1>1, <1>2

\* One word further: the walk has failed already, fails, or goes on.
Enters(w, name, x) ==
    /\ x \in Positions
    /\ \/ w.code # 0 /\ x = w
       \/ /\ w.code = 0 /\ x = [code |-> 2, dir |-> w.dir]
          /\ Unnamed(disk, w.dir, name)
       \/ /\ w.code = 0
          /\ \E i \in Slots :
                /\ FirstNamed(disk, w.dir, name, i)
                /\ x = IF disk.table[w.dir][i].dir
                       THEN [code |-> 0, dir |-> disk.table[w.dir][i].cluster]
                       ELSE [code |-> 3, dir |-> w.dir]

\* A word leads to one of the cases of Enters.
LEMMA EnterCases ==
    ASSUME disk \in Disks, NEW w \in Positions, NEW name
    PROVE  Enters(w, name, Enter(w, name))
<1> DEFINE i == findDirEntryIndex(w.dir, name)
<1>1. PICK code \in {0, 2, 3}, c \in Clusters : w = [code |-> code, dir |-> c]
  BY DEF Positions
<1>2. w.code = code /\ w.dir = c
  BY <1>1
<1>3. \/ i = -1 /\ Unnamed(disk, c, name)
      \/ i # -1 /\ FirstNamed(disk, c, name, i)
  BY <1>2, FoundEntry
<1>4. i # -1 => disk.table[c][i].cluster \in Clusters /\ i \in Slots
  BY <1>3 DEF FirstNamed, Disks, Tables, Entries
<1> HIDE DEF i
<1>5. CASE code # 0
  <2>1. Enter(w, name) = w
    BY <1>2, <1>5 DEF Enter
  <2> QED
    BY <1>2, <1>5, <2>1 DEF Enters
<1>6. CASE code = 0 /\ i = -1
  <2>1. Enter(w, name) = [w EXCEPT !.code = 2]
    BY <1>2, <1>6 DEF Enter, i
  <2>2. Enter(w, name) = [code |-> 2, dir |-> c]
    BY <1>1, <2>1
  <2>3. [code |-> 2, dir |-> c] \in Positions
    BY DEF Positions
  <2> QED
    BY <1>2, <1>3, <1>6, <2>2, <2>3 DEF Enters
<1>7. CASE code = 0 /\ i # -1 /\ disk.table[c][i].dir
  <2>1. Enter(w, name) = [w EXCEPT !.dir = disk.table[c][i].cluster]
    BY <1>2, <1>7 DEF Enter, i
  <2>2. Enter(w, name) = [code |-> 0, dir |-> disk.table[c][i].cluster]
    BY <1>1, <1>7, <2>1
  <2>3. Enter(w, name) \in Positions
    BY <1>4, <1>7, <2>2 DEF Positions
  <2> QED
    BY <1>2, <1>3, <1>4, <1>7, <2>2, <2>3 DEF Enters
<1>8. CASE code = 0 /\ i # -1 /\ ~disk.table[c][i].dir
  <2>1. Enter(w, name) = [w EXCEPT !.code = 3]
    BY <1>2, <1>8 DEF Enter, i
  <2>2. Enter(w, name) = [code |-> 3, dir |-> c]
    BY <1>1, <2>1
  <2>3. [code |-> 3, dir |-> c] \in Positions
    BY DEF Positions
  <2> QED
    BY <1>2, <1>3, <1>4, <1>8, <2>2, <2>3 DEF Enters
<1> QED
  BY <1>5, <1>6, <1>7, <1>8

\* A walk goes word by word.
LEMMA WalkSteps ==
    ASSUME disk \in Disks, NEW from \in Clusters, NEW path \in TypedPaths
    PROVE  /\ Len(path.words) \in Nat /\ Len(path.words) > 0
           /\ Walk(from, path, 0) = [code |-> 0, dir |-> IF path.absolute THEN Root ELSE from]
           /\ \A k \in 0 .. Len(path.words) : Walk(from, path, k) \in Positions
           /\ \A k \in 1 .. Len(path.words) :
                 Enters(Walk(from, path, k - 1), path.words[k], Walk(from, path, k))
<1> DEFINE n == Len(path.words)
           start == [code |-> 0, dir |-> IF path.absolute THEN Root ELSE from]
           step == [w \in Positions |-> [k \in 1 .. n |-> Enter(w, path.words[k])]]
<1>1. n \in Nat /\ n > 0
  <2>1. \A s \in Seq(Words) : s # <<>> => Len(s) \in Nat /\ Len(s) > 0
    OBVIOUS
  <2>2. path.words \in Seq(Words) /\ path.words # <<>>
    BY DEF TypedPaths
  <2> QED
    BY <2>1, <2>2
<1>2. start \in Positions
  BY ClusterFacts DEF Positions, Root
<1>3. \A w \in Positions : \A name : Enter(w, name) \in Positions
  BY EnterCases DEF Enters
<1> HIDE DEF n, start
<1>4. step \in Steps(Positions, n)
  BY <1>3 DEF Steps
<1>5. \A w \in Positions, k \in 1 .. n : step[w][k] = Enter(w, path.words[k])
  OBVIOUS
<1> HIDE DEF step
<1>6. PICK g \in [0 .. n -> Positions] : Follows(g, start, step, n)
  BY <1>1, <1>2, <1>4, RecursionExists
<1>7. ASSUME NEW k \in 1 .. n PROVE g[k - 1] \in Positions /\ g[k] = Enter(g[k - 1], path.words[k])
  <2>1. g[k - 1] \in Positions
    BY <1>1
  <2> QED
    BY <1>5, <1>6, <2>1 DEF Follows
<1>8. g = [k \in 0 .. n |-> IF k = 0 THEN start ELSE Enter(g[k-1], path.words[k])]
  BY <1>1, <1>6, <1>7 DEF Follows
<1> DEFINE h == CHOOSE h : h = [k \in 0 .. n |->
                    IF k = 0 THEN start ELSE Enter(h[k-1], path.words[k])]
<1>9. h = [k \in 0 .. n |-> IF k = 0 THEN start ELSE Enter(h[k-1], path.words[k])]
  BY <1>8
<1>10. \A k : Walk(from, path, k) = h[k]
  BY DEF Walk, n, start
<1> HIDE DEF h
<1>11. Alike(g, h, n)
  <2>1. g[0] = h[0]
    BY <1>1, <1>6, <1>9 DEF Follows
  <2>2. ASSUME NEW k \in 1 .. n, g[k - 1] = h[k - 1] PROVE g[k] = h[k]
    <3>1. k \in 0 .. n /\ k # 0
      BY <1>1
    <3>2. h[k] = Enter(h[k - 1], path.words[k])
      BY <1>9, <3>1
    <3> QED
      BY <1>7, <2>2, <3>2
  <2> QED
    BY <2>1, <2>2 DEF Alike
<1>12. \A k \in 0 .. n : Walk(from, path, k) = g[k]
  BY <1>1, <1>10, <1>11, SameRecursion
<1>13. \A k \in 0 .. n : Walk(from, path, k) \in Positions
  BY <1>12
<1>14. Walk(from, path, 0) = start
  BY <1>1, <1>6, <1>12 DEF Follows
<1>15. ASSUME NEW k \in 1 .. n
       PROVE  Enters(Walk(from, path, k - 1), path.words[k], Walk(from, path, k))
  <2>1. k \in 0 .. n /\ k - 1 \in 0 .. n
    BY <1>1
  <2>2. Walk(from, path, k - 1) = g[k - 1] /\ Walk(from, path, k) = g[k]
    BY <1>12, <2>1
  <2> QED
    BY <1>7, <2>2, EnterCases
<1> QED
  BY <1>1, <1>13, <1>14, <1>15 DEF n, start

\* It stays where the entries of that name lead.
LEMMA EnterStays ==
    ASSUME NEW S, NEW w, w.dir \in S, NEW name, NEW x, Enters(w, name, x),
           \A i \in Slots :
              w.code = 0 /\ disk.table[w.dir][i].live /\ disk.table[w.dir][i].dir
              /\ disk.table[w.dir][i].name = name => disk.table[w.dir][i].cluster \in S
    PROVE  x.dir \in S
<1>1. CASE x = w
  BY <1>1
<1>2. CASE x = [code |-> 2, dir |-> w.dir]
  BY <1>2
<1>3. ASSUME w.code = 0, NEW i \in Slots, FirstNamed(disk, w.dir, name, i),
             x = IF disk.table[w.dir][i].dir
                 THEN [code |-> 0, dir |-> disk.table[w.dir][i].cluster]
                 ELSE [code |-> 3, dir |-> w.dir]
      PROVE  x.dir \in S
  <2>1. CASE disk.table[w.dir][i].dir
    <3>1. x.dir = disk.table[w.dir][i].cluster
      BY <1>3, <2>1
    <3> QED
      BY <1>3, <2>1, <3>1 DEF FirstNamed
  <2>2. CASE ~disk.table[w.dir][i].dir
    BY <1>3, <2>2
  <2> QED
    BY <2>1, <2>2
<1> QED
  BY <1>1, <1>2, <1>3 DEF Enters

\* Every entry of a directory leads to one or to nowhere, so walks do.
LEMMA WalkStays ==
    ASSUME ClusterMapSize - 3 <= DirectoryMax, disk \in Disks, DiskSound(disk), Housed(disk),
           NEW from \in Homes(disk), NEW path \in TypedPaths
    PROVE  \A k \in 0 .. Len(path.words) : Walk(from, path, k).dir \in Homes(disk)
<1> DEFINE n == Len(path.words)
           T == {k \in 0 .. n : Walk(from, path, k).dir \in Homes(disk)}
<1>1. Settled(disk) /\ Root \in Homes(disk) /\ Homes(disk) \subseteq Clusters
  BY AlwaysSettled, ReachThrough, ClusterFacts DEF Housed, Homes, Root
<1>2. /\ n \in Nat /\ n > 0
      /\ Walk(from, path, 0) = [code |-> 0, dir |-> IF path.absolute THEN Root ELSE from]
      /\ \A k \in 1 .. n :
            Enters(Walk(from, path, k - 1), path.words[k], Walk(from, path, k))
  BY <1>1, WalkSteps
<1> HIDE DEF n
<1>3. \A c \in Homes(disk), i \in Slots :
         disk.table[c][i].live /\ disk.table[c][i].dir =>
            disk.table[c][i].cluster \in Homes(disk)
  <2> SUFFICES ASSUME NEW c \in Homes(disk), NEW i \in Slots, disk.table[c][i].live,
                      disk.table[c][i].dir
               PROVE  disk.table[c][i].cluster \in Homes(disk)
    OBVIOUS
  <2>1. c \in DirectoryClusters(disk)
    BY DEF Homes, Housed
  <2>2. /\ disk.table[c][0].cluster = 0
        /\ disk.table[c][1].cluster \in DirectoryClusters(disk)
        /\ i \in UserSlots => disk.table[c][i].cluster \in DirectoryClusters(disk)
    BY <1>1, <2>1, HousedReach DEF HasSelf, LeadsDown
  <2>3. i = 0 \/ i = 1 \/ i \in UserSlots
    BY ClusterFacts DEF Slots, UserSlots
  <2> QED
    BY <2>2, <2>3 DEF Homes
<1>4. 0 \in T
  BY <1>1, <1>2
<1>5. ASSUME NEW k \in 0 .. n - 1, k \in T PROVE k + 1 \in T
  <2>1. k + 1 \in 1 .. n /\ (k + 1) - 1 = k /\ k + 1 \in 0 .. n
    BY <1>2
  <2>2. Enters(Walk(from, path, k), path.words[k + 1], Walk(from, path, k + 1))
    BY <1>2, <2>1
  <2>3. Walk(from, path, k).dir \in Homes(disk)
    BY <1>5
  <2>4. Walk(from, path, k + 1).dir \in Homes(disk)
    BY <1>3, <2>2, <2>3, EnterStays
  <2> QED
    BY <2>1, <2>4
<1>6. 0 .. n \subseteq T
  <2> HIDE DEF T
  <2> QED
    BY <1>2, <1>4, <1>5, IntervalInduction
<1> QED
  BY <1>6 DEF n

\* Who does not take an entry for the directory it is in always is in one.
LEMMA CarefulWalk ==
    ASSUME ClusterMapSize - 3 <= DirectoryMax, disk \in Disks, DiskSound(disk), Housed(disk),
           currentDirectory \in Reach, NEW path \in TypedPaths, CarefulPath(path)
    PROVE  \A k \in 0 .. Len(path.words) : Walk(currentDirectory, path, k).dir \in Reach
<1> DEFINE n == Len(path.words)
           at(k) == Walk(currentDirectory, path, k)
           T == {k \in 0 .. n : at(k).dir \in Reach}
<1>1. Settled(disk) /\ Root \in Reach /\ Reach \subseteq Clusters
  BY AlwaysSettled, ReachThrough DEF Housed, Reach, Root
<1>2. /\ n \in Nat /\ n > 0
      /\ at(0) = [code |-> 0, dir |-> IF path.absolute THEN Root ELSE currentDirectory]
      /\ \A k \in 1 .. n : Enters(at(k - 1), path.words[k], at(k))
  BY <1>1, WalkSteps
<1>3. \A k \in 1 .. n : at(k - 1).code = 0 => path.words[k] # disk.table[at(k - 1).dir][0].name
  BY DEF CarefulPath
<1> HIDE DEF n, at
<1>4. \A c \in Reach, i \in Slots :
         disk.table[c][i].live /\ disk.table[c][i].dir /\ i # 0 =>
            disk.table[c][i].cluster \in Reach
  <2> SUFFICES ASSUME NEW c \in Reach, NEW i \in Slots, disk.table[c][i].live,
                      disk.table[c][i].dir, i # 0
               PROVE  disk.table[c][i].cluster \in Reach
    OBVIOUS
  <2>1. c \in DirectoryClusters(disk)
    BY DEF Reach
  <2>2. /\ disk.table[c][1].cluster \in DirectoryClusters(disk)
        /\ i \in UserSlots => disk.table[c][i].cluster \in DirectoryClusters(disk)
    BY <1>1, <2>1, HousedReach DEF HasSelf, LeadsDown
  <2>3. i = 1 \/ i \in UserSlots
    BY ClusterFacts DEF Slots, UserSlots
  <2> QED
    BY <2>2, <2>3 DEF Reach
<1>5. 0 \in T
  BY <1>1, <1>2
<1>6. ASSUME NEW k \in 0 .. n - 1, k \in T PROVE k + 1 \in T
  <2>1. k + 1 \in 1 .. n /\ (k + 1) - 1 = k /\ k + 1 \in 0 .. n
    BY <1>2
  <2>2. /\ Enters(at(k), path.words[k + 1], at(k + 1))
        /\ at(k).code = 0 => path.words[k + 1] # disk.table[at(k).dir][0].name
    BY <1>2, <1>3, <2>1
  <2>3. at(k).dir \in Reach
    BY <1>6
  <2>4. at(k + 1).dir \in Reach
    <3>1. \A i \in Slots :
             at(k).code = 0 /\ disk.table[at(k).dir][i].live
             /\ disk.table[at(k).dir][i].dir /\ disk.table[at(k).dir][i].name = path.words[k + 1]
             => disk.table[at(k).dir][i].cluster \in Reach
      BY <1>4, <2>2, <2>3
    <3> QED
      BY <2>2, <2>3, <3>1, EnterStays
  <2> QED
    BY <2>1, <2>4
<1>7. 0 .. n \subseteq T
  <2> HIDE DEF T
  <2> QED
    BY <1>2, <1>5, <1>6, IntervalInduction
<1> QED
  BY <1>7 DEF n, at

\* cd walks along a path, or along all but its last word.
LEMMA CdWalks ==
    ASSUME NEW from, NEW path \in TypedPaths, NEW isdir
    PROVE  \E k \in 0 .. Len(path.words) : cd(from, path, isdir) = Walk(from, path, k)
<1>1. Len(path.words) \in Nat /\ Len(path.words) > 0
  <2>1. \A s \in Seq(Words) : s # <<>> => Len(s) \in Nat /\ Len(s) > 0
    OBVIOUS
  <2> QED
    BY <2>1 DEF TypedPaths
<1>2. Len(path.words) \in 0 .. Len(path.words) /\ Len(path.words) - 1 \in 0 .. Len(path.words)
  BY <1>1
<1> QED
  BY <1>2 DEF cd

\* A path of any kind ends in a directory, or in a cluster that held one.
LEMMA CdStays ==
    ASSUME ClusterMapSize - 3 <= DirectoryMax, disk \in Disks, DiskSound(disk), Housed(disk),
           NEW from \in Homes(disk), NEW path \in TypedPaths, NEW isdir
    PROVE  cd(from, path, isdir) \in Positions /\ cd(from, path, isdir).dir \in Homes(disk)
<1>1. from \in Clusters
  BY ReachThrough, ClusterFacts DEF Homes, Housed
<1> QED
  BY <1>1, CdWalks, WalkSteps, WalkStays

\* A careful path ends in a directory the root leads to.
LEMMA CarefulCd ==
    ASSUME ClusterMapSize - 3 <= DirectoryMax, disk \in Disks, DiskSound(disk), Housed(disk),
           currentDirectory \in Reach, NEW path \in TypedPaths, CarefulPath(path), NEW isdir
    PROVE  cd(currentDirectory, path, isdir).dir \in Reach
  BY CdWalks, CarefulWalk

-----------------------------------------------------------------------------
(* What the calls of the driver do to the disks.                            *)

DriverInv == FatTyped /\ CacheInv /\ SoundInv /\ HousedInv

\* Of the disk in particular.
LEMMA DriverFacts ==
    ASSUME ShellCareful, DriverInv
    PROVE  /\ disk \in Disks /\ pending \in Seq(Disks) /\ cache \in [Drivers -> Fats]
           /\ disk.fat \in Fats /\ DiskSound(disk) /\ Housed(disk) /\ Settled(disk)
           /\ Reach = DirectoryClusters(disk) /\ Reach \subseteq Clusters /\ Root \in Reach
           /\ 0 \notin Reach /\ disk.signed /\ ClusterMapSize - 3 <= DirectoryMax
           /\ ShellDriver \in Drivers /\ Writers \subseteq Drivers
           /\ \A d \in Writers : d = ShellDriver
           /\ \A c \in Homes(disk) : c = 0 \/ c \in Reach
           /\ Homes(disk) \subseteq Clusters /\ Reach \subseteq Homes(disk)
<1>1. /\ disk \in Disks /\ pending \in Seq(Disks) /\ cache \in [Drivers -> Fats]
      /\ DiskSound(disk) /\ Housed(disk) /\ ClusterMapSize - 3 <= DirectoryMax
      /\ ShellDriver \in Drivers /\ Writers \subseteq Drivers
      /\ \A d \in Writers : d = ShellDriver
  BY FatConstants, ShellConstants
     DEF DriverInv, FatTyped, SoundInv, HousedInv, AllDisks, ShellCareful, Careful,
         OneWriter, Drivers
<1>2. disk.fat \in Fats /\ Walkable(disk) /\ disk.signed
  BY <1>1 DEF Disks, Housed, Walkable
<1>3. Settled(disk) /\ 0 \notin Reach
  BY <1>1, <1>2, AlwaysSettled DEF Reach
<1>4. Reach \subseteq Clusters /\ Root \in Reach
  BY <1>1, <1>2, ReachThrough DEF Reach, Root
<1>5. Homes(disk) = {0} \cup Reach
  BY DEF Homes, Reach
<1> QED
  BY <1>1, <1>2, <1>3, <1>4, <1>5, ClusterFacts DEF Reach

\* Every one is housed if these are.
LEMMA DisksHoused ==
    HousedInv <=> Housed(disk) /\ \A k \in 1 .. Len(pending) : Housed(pending[k])
  BY DEF HousedInv, AllDisks

\* A call that is over leaves the disk and nothing to be written.
LEMMA IdleDisks ==
    ASSUME Idle
    PROVE  power = "on" /\ pending = <<>> /\ AllDisks = {disk} /\ FatToCome = disk.fat
<1>1. power = "on" /\ pending = <<>>
  BY DEF Idle
<1>2. \A k \in 1 .. Len(<<>>) : FALSE
  OBVIOUS
<1> QED
  BY <1>1, <1>2 DEF AllDisks, FatToCome

\* A read changes no disk.
LEMMA ReadStep ==
    ASSUME ShellCareful, DriverInv, NEW d \in Drivers, NEW parent, read(d, parent)
    PROVE  DriverInv' /\ Idle /\ disk' = disk /\ pending' = pending /\ power' = power
<1>1. /\ Idle /\ disk' = disk /\ pending' = pending /\ power' = power
      /\ cache' = [cache EXCEPT ![d] = disk.fat] \/ cache' = cache
  BY DEF read
<1>2. /\ disk.fat \in Fats /\ cache \in [Drivers -> Fats] /\ Writers \subseteq Drivers
      /\ FatToCome = disk.fat /\ power = "on"
  BY <1>1, DriverFacts, IdleDisks
<1>3. FatTyped'
  BY <1>1, <1>2 DEF DriverInv, FatTyped
<1>4. CacheInv'
  <2>1. FatToCome' = disk.fat
    BY <1>1, <1>2 DEF FatToCome
  <2>2. ASSUME NEW x \in Writers, cache'[x] # ZeroFat PROVE cache'[x] = disk.fat
    BY <1>1, <1>2, <2>2 DEF DriverInv, CacheInv
  <2> QED
    BY <1>1, <1>2, <2>1, <2>2 DEF CacheInv
<1>5. SoundInv' /\ HousedInv'
  BY <1>1 DEF DriverInv, SoundInv, HousedInv, AllDisks
<1> QED
  BY <1>1, <1>3, <1>4, <1>5 DEF DriverInv

\* A write of the shell refuses, or goes where the walk came to.
LEMMA WriteStep ==
    ASSUME ShellCareful, DriverInv, NEW parent \in Homes(disk), NEW name, NEW ext,
           NEW size, NEW buf, Request(parent, name, ext, size, buf), RoomOrNone(size),
           write(ShellDriver, parent, name, ext, size, buf)
    PROVE  /\ DriverInv' /\ Idle /\ disk' = disk /\ power' = power
           /\ \/ pending' = pending
              \/ \E slot : /\ parent \in Reach
                           /\ WriteShows(pending', parent, slot, name, size)
           /\ WriteResult(parent, name, ext, size) = 0 =>
                 pending' # <<>> /\ cache'[ShellDriver] # ZeroFat
<1>1. /\ disk \in Disks /\ cache \in [Drivers -> Fats] /\ disk.fat \in Fats
      /\ DiskSound(disk) /\ Housed(disk) /\ ClusterMapSize - 3 <= DirectoryMax
      /\ ShellDriver \in Drivers /\ \A d \in Writers : d = ShellDriver
      /\ parent = 0 \/ parent \in Reach
  BY DriverFacts
<1>2. /\ Idle /\ disk' = disk /\ power' = power
      /\ \/ pending' = pending /\ cache' = [cache EXCEPT ![ShellDriver] = disk.fat]
         \/ \E numbers, slot :
               /\ Placed(parent, name, ext, size, buf, numbers, slot)
               /\ pending' = WriteDisks(parent, name, ext, size, buf)
               /\ cache' = [cache EXCEPT ![ShellDriver] = Linked(disk.fat, numbers)]
  BY <1>1, WriteEffect
<1>3. power = "on" /\ pending = <<>> /\ FatToCome = disk.fat
  BY <1>2, IdleDisks
<1>4. CASE pending' = pending /\ cache' = [cache EXCEPT ![ShellDriver] = disk.fat]
  <2>1. FatTyped'
    BY <1>1, <1>2, <1>4 DEF DriverInv, FatTyped
  <2>2. FatToCome' = disk.fat
    BY <1>2, <1>3, <1>4 DEF FatToCome
  <2>3. CacheInv'
    BY <1>1, <1>2, <1>3, <1>4, <2>2 DEF CacheInv
  <2>4. SoundInv' /\ HousedInv'
    BY <1>2, <1>4 DEF DriverInv, SoundInv, HousedInv, AllDisks
  <2>5. WriteResult(parent, name, ext, size) # 0
    <3>1. ASSUME WriteResult(parent, name, ext, size) = 0 PROVE FALSE
      <4>1. pending' = WriteDisks(parent, name, ext, size, buf)
        BY <3>1 DEF write
      <4>2. \E numbers, slot : Placed(parent, name, ext, size, buf, numbers, slot)
        BY <1>1, <3>1, ResultPlaced
      <4>3. WriteDisks(parent, name, ext, size, buf) # <<>>
        BY <1>1, <4>2, PlacedWrites
      <4> QED
        BY <1>3, <1>4, <4>1, <4>3
    <3> QED
      BY <3>1
  <2> QED
    BY <1>2, <1>4, <2>1, <2>3, <2>4, <2>5 DEF DriverInv
<1>5. ASSUME NEW numbers, NEW slot, Placed(parent, name, ext, size, buf, numbers, slot),
             pending' = WriteDisks(parent, name, ext, size, buf),
             cache' = [cache EXCEPT ![ShellDriver] = Linked(disk.fat, numbers)]
      PROVE  /\ DriverInv' /\ parent \in Reach
             /\ WriteShows(pending', parent, slot, name, size)
             /\ pending' # <<>> /\ cache'[ShellDriver] # ZeroFat
  <2>1. parent \in Reach
    <3>1. disk.table[parent][0].live
      BY <1>5 DEF Placed, IsDirectoryTable
    <3> QED
      BY <1>1, <3>1, ClusterFacts DEF Housed
  <2>2. Required(size) <= Cardinality(FreeClusters(disk.fat)) /\ Required(size) \in Nat
        /\ Required(size) > 0 /\ FreeClusters(disk.fat) # {}
    <3>1. Required(size) \in Nat /\ Required(size) > 0 /\ 1 \in 1 .. Required(size)
      BY FatConstants DEF Required, Request
    <3>2. FreeClusters(disk.fat) # {}
      BY <1>5, <3>1 DEF Placed
    <3> QED
      BY <3>1, <3>2 DEF RoomOrNone
  <2>3. WriteShows(WriteDisks(parent, name, ext, size, buf), parent, slot, name, size)
    BY <1>1, <1>5, <2>1, <2>2, WriteKeeps
  <2>4. /\ pending' \in Seq(Disks) /\ pending' # <<>>
        /\ Last(pending').fat = Linked(disk.fat, numbers)
        /\ Linked(disk.fat, numbers) \in Fats
    BY <1>1, <1>5, PlacedWrites
  <2>5. FatTyped'
    BY <1>1, <1>2, <1>5, <2>4 DEF DriverInv, FatTyped
  <2>6. CacheInv'
    <3>1. FatToCome' = Linked(disk.fat, numbers)
      BY <2>4 DEF FatToCome
    <3>2. \A x \in Writers : cache'[x] = Linked(disk.fat, numbers)
      BY <1>1, <1>5
    <3> QED
      BY <1>2, <1>3, <2>4, <3>1, <3>2 DEF CacheInv
  <2>7. SoundInv' /\ HousedInv'
    <3>1. \A k \in 1 .. Len(pending') : DiskSound(pending'[k]) /\ Housed(pending'[k])
      BY <1>5, <2>3 DEF WriteShows, Keeps
    <3> QED
      BY <1>1, <1>2, <3>1 DEF SoundInv, HousedInv, AllDisks
  <2>8. cache'[ShellDriver] # ZeroFat
    <3> DEFINE r == Required(size)
    <3>1. numbers \in [1 .. r -> FreeClusters(disk.fat)] /\ numbers = ClusterNumbers(disk.fat, size)
          /\ size \in Nat
      BY <1>5, FatConstants DEF Placed, Request
    <3>2. \A j, k \in 1 .. r : numbers[j] = numbers[k] => j = k
      BY <1>1, <2>2, <3>1, ClusterNumbersFacts
    <3>3. Linked(disk.fat, numbers)[numbers[r]] = END_OF_FILE
      BY <1>1, <2>2, <3>1, <3>2, LinkedFacts
    <3>4. numbers[r] \in Clusters
      BY <2>2, <3>1 DEF FreeClusters
    <3>5. cache'[ShellDriver] = Linked(disk.fat, numbers)
      BY <1>1, <1>5
    <3> QED
      BY <3>3, <3>4, <3>5, ClusterFacts DEF ZeroFat
  <2> QED
    BY <1>5, <2>1, <2>3, <2>4, <2>5, <2>6, <2>7, <2>8 DEF DriverInv
<1> QED
  BY <1>2, <1>4, <1>5

\* A deletion of the shell removes an entry of a directory, which is none with others
\* below.
LEMMA DeleteStep ==
    ASSUME ShellCareful, DriverInv, Idle, cache[ShellDriver] # ZeroFat,
           NEW parent \in Reach, NEW i \in UserSlots, disk.table[parent][i].live,
           disk.table[parent][i].dir =>
              Subdirectories(disk, disk.table[parent][i].cluster) = {},
           DeleteEntry(ShellDriver, parent, i), UNCHANGED <<disk, power, powerOffs>>
    PROVE  DriverInv' /\ DeleteShows(pending', parent, i)
<1> DEFINE entry == disk.table[parent][i]
           f == Cleared(cache[ShellDriver], Freed(cache[ShellDriver], entry))
           table == [disk.table[parent] EXCEPT ![i].live = FALSE]
<1>1. /\ disk \in Disks /\ cache \in [Drivers -> Fats] /\ disk.fat \in Fats
      /\ DiskSound(disk) /\ Housed(disk) /\ ClusterMapSize - 3 <= DirectoryMax
      /\ ShellDriver \in Drivers /\ \A d \in Writers : d = ShellDriver
      /\ Reach \subseteq Clusters
  BY DriverFacts
<1>2. power = "on" /\ pending = <<>> /\ FatToCome = disk.fat
  BY IdleDisks
<1>3. cache[ShellDriver] = disk.fat
  BY <1>2 DEF DriverInv, CacheInv, ShellCareful
<1>4. pending' = DeleteDisks(ShellDriver, parent, i)
      /\ cache' = [cache EXCEPT ![ShellDriver] = f]
  BY <1>1 DEF DeleteEntry
<1>5. DeleteShows(DeleteDisks(ShellDriver, parent, i), parent, i)
  BY <1>1, <1>3, DeleteKeeps
<1>6. Unlists(DeleteDisks(ShellDriver, parent, i), f, parent, table)
  BY <1>1, ClusterFacts, DeleteDisksFacts
<1>7. f \in Fats
  BY <1>1, ClearedFacts
<1> HIDE DEF f, table, entry
<1>8. /\ pending' \in Seq(Disks) /\ pending' # <<>> /\ Len(pending') = 2
      /\ pending'[2].fat = f
      /\ \A k \in 1 .. Len(pending') : DiskSound(pending'[k]) /\ Housed(pending'[k])
  BY <1>4, <1>5, <1>6 DEF DeleteShows, Unlists
<1>9. FatTyped'
  BY <1>1, <1>4, <1>7, <1>8 DEF DriverInv, FatTyped
<1>10. CacheInv'
  <2>1. FatToCome' = f
    BY <1>8 DEF FatToCome, Last
  <2>2. \A x \in Writers : cache'[x] = f
    BY <1>1, <1>4
  <2> QED
    BY <1>2, <1>8, <2>1, <2>2 DEF CacheInv
<1>11. SoundInv' /\ HousedInv'
  BY <1>1, <1>8 DEF SoundInv, HousedInv, AllDisks
<1> QED
  BY <1>4, <1>5, <1>9, <1>10, <1>11 DEF DriverInv

\* A write of a disk, the power going and coming back lead to no disk that was not
\* to come; no formatting is needed.
LEMMA MachineStep ==
    ASSUME ShellCareful, DriverInv, DiskWrite \/ PowerOff \/ initialize_filesystem_fat32
    PROVE  /\ DriverInv' /\ AllDisks' \subseteq AllDisks
           /\ initialize_filesystem_fat32 => UNCHANGED <<disk, pending>> /\ power' = "on"
<1>1. /\ disk \in Disks /\ pending \in Seq(Disks) /\ disk.signed /\ Careful
      /\ ROOT_CLUSTER_NUMBER \in Clusters
  BY DriverFacts, ClusterFacts DEF ShellCareful
<1>2. FatNext
  BY DEF FatNext
<1>3. FatTyped' /\ CacheInv' /\ SoundInv'
  BY <1>1, <1>2, FatTypedStep, CacheInvStep, SoundInvStep DEF DriverInv, Careful
<1>4. AllDisks' \subseteq AllDisks
  <2>1. CASE DiskWrite
    <3>1. pending # <<>> /\ disk' = Head(pending) /\ pending' = Tail(pending)
      BY <2>1 DEF DiskWrite
    <3>2. \A s \in Seq(Disks) : s # <<>> =>
             /\ 1 \in 1 .. Len(s) /\ Head(s) = s[1]
             /\ \A k \in 1 .. Len(Tail(s)) : k + 1 \in 1 .. Len(s) /\ Tail(s)[k] = s[k + 1]
      OBVIOUS
    <3>3. disk' \in AllDisks
      BY <1>1, <3>1, <3>2 DEF AllDisks
    <3>4. \A k \in 1 .. Len(pending') : pending'[k] \in AllDisks
      BY <1>1, <3>1, <3>2 DEF AllDisks
    <3> QED
      BY <3>3, <3>4 DEF AllDisks
  <2>2. CASE PowerOff
    <3>1. disk' = disk /\ pending' = <<>>
      BY <2>2 DEF PowerOff
    <3>2. \A k \in 1 .. Len(<<>>) : FALSE
      OBVIOUS
    <3> QED
      BY <3>1, <3>2 DEF AllDisks
  <2>3. CASE initialize_filesystem_fat32
    <3>1. disk' = disk /\ pending' = pending
      BY <1>1, <2>3 DEF initialize_filesystem_fat32, is_empty_storage
    <3> QED
      BY <3>1 DEF AllDisks
  <2> QED
    BY <2>1, <2>2, <2>3
<1>5. HousedInv'
  BY <1>4 DEF DriverInv, HousedInv
<1>6. ASSUME initialize_filesystem_fat32 PROVE UNCHANGED <<disk, pending>> /\ power' = "on"
  BY <1>1, <1>6 DEF initialize_filesystem_fat32, is_empty_storage
<1> QED
  BY <1>3, <1>4, <1>5, <1>6 DEF DriverInv

\* An insertion is what was to be inserted.
LEMMA InsertionsTyped ==
    /\ \A image \in Images : image \in Seq(Insertions)
    /\ \A r \in Insertions :
          /\ IsInsertion(r) /\ r.size \in 0 .. MaxSize
          /\ Request(r.parent, r.name, NoExt, r.size, r.buf)
<1>1. ASSUME NEW image \in Images PROVE image \in Seq(Insertions)
  <2>1. image \in Seq(Range(image)) /\ Range(image) \subseteq Insertions
    BY ShellConstants DEF Insertions
  <2>2. \A S, T : S \subseteq T => Seq(S) \subseteq Seq(T)
    OBVIOUS
  <2> QED
    BY <2>1, <2>2
<1>2. ASSUME NEW r \in Insertions
      PROVE  IsInsertion(r) /\ Request(r.parent, r.name, NoExt, r.size, r.buf)
  <2>1. IsInsertion(r)
    BY ShellConstants DEF Insertions
  <2>2. /\ r.parent \in Clusters /\ r.name \in Names /\ r.size \in 0 .. MaxSize
        /\ r.buf \in IF r.size = 0 THEN Exts ELSE [1 .. r.size -> Values \X Nat]
    BY <2>1 DEF IsInsertion
  <2>3. IsBuffer(r.size, r.buf)
    <3>1. CASE r.size = 0
      BY <2>2, <3>1 DEF IsBuffer
    <3>2. CASE r.size # 0
      <4>1. r.buf \in [1 .. r.size -> Values \X Nat]
        BY <2>2, <3>2
      <4>2. r.buf \in [1 .. r.size -> Data]
        BY <4>1 DEF Data
      <4> QED
        BY <3>2, <4>2 DEF IsBuffer
    <3> QED
      BY <3>1, <3>2
  <2> QED
    BY <2>1, <2>2, <2>3, FatConstants DEF Request
<1> QED
  BY <1>1, <1>2 DEF IsInsertion

\* Room, as it is asked for.
LEMMA RoomEnough ==
    ASSUME disk \in Disks, NEW size \in Nat, size = 0 \/ EnoughRoom(size)
    PROVE  RoomOrNone(size)
<1>1. disk.fat \in Fats
  BY DEF Disks
<1>2. /\ Cardinality(FreeClusters(disk.fat)) \in Nat
      /\ Cardinality(FreeClusters(disk.fat)) = 0 <=> FreeClusters(disk.fat) = {}
  BY <1>1, FreeFacts
<1> QED
  BY <1>2, FatConstants DEF EnoughRoom, RoomOrNone, Required

\* The inserter leaves a sound disk on which every directory is listed.
LEMMA InsertStep ==
    ASSUME ShellCareful, DriverInv, PowerInv, Insert
    PROVE  /\ DriverInv' /\ pending = <<>> /\ pending' = <<>>
           /\ inserts' \in Seq(Insertions)
           /\ \A c \in Clusters : IsDirectoryTable(disk', c) => c \in Reach'
           /\ DirectoryClusters(disk) \subseteq DirectoryClusters(disk')
           /\ disk' = disk \/ \E parent, slot, name, size :
                 /\ OnlyEnters(disk, disk', parent, slot, name, size)
                 /\ StoreOf(disk) \subseteq StoreOf(disk')
<1>1. /\ disk \in Disks /\ DiskSound(disk) /\ Housed(disk)
      /\ ClusterMapSize - 3 <= DirectoryMax
      /\ Writers \subseteq Drivers /\ Reach = DirectoryClusters(disk) /\ RoomChecked
  BY DriverFacts DEF ShellCareful, Careful
<1>2. /\ inserts # <<>> /\ inserts' = Tail(inserts) /\ inserts \in Seq(Insertions)
      /\ UNCHANGED <<cache, pending, power, powerOffs>>
  BY DEF Insert, PowerInv
<1>3. /\ power = "off" /\ pending = <<>>
      /\ \A d \in Drivers : cache[d] = ZeroFat
      /\ \A c \in Clusters : IsDirectoryTable(disk, c) => c \in Reach
  BY <1>2 DEF PowerInv, DriverInv, CacheInv
<1>4. Head(inserts) \in Insertions /\ inserts' \in Seq(Insertions)
  BY <1>2
<1>5. PICK r \in Insertions : r = Head(inserts)
  BY <1>4
<1>6. /\ Request(r.parent, r.name, NoExt, r.size, r.buf) /\ r.size \in 0 .. MaxSize
      /\ EnoughRoom(r.size)
      /\ disk' = IF WriteResult(r.parent, r.name, NoExt, r.size) # 0 THEN disk
                 ELSE Last(WriteDisks(r.parent, r.name, NoExt, r.size, r.buf))
  BY <1>1, <1>5, InsertionsTyped DEF Insert
<1>7. /\ disk' \in Disks /\ DiskSound(disk') /\ Housed(disk')
      /\ \A c \in Clusters : IsDirectoryTable(disk', c) => c \in DirectoryClusters(disk')
      /\ DirectoryClusters(disk) \subseteq DirectoryClusters(disk')
      /\ disk' = disk \/ \E parent, slot, name, size :
            /\ OnlyEnters(disk, disk', parent, slot, name, size)
            /\ StoreOf(disk) \subseteq StoreOf(disk')
  <2>1. CASE WriteResult(r.parent, r.name, NoExt, r.size) # 0
    <3>1. disk' = disk
      BY <1>6, <2>1
    <3> QED
      BY <1>1, <1>3, <3>1
  <2>2. CASE WriteResult(r.parent, r.name, NoExt, r.size) = 0
    <3> DEFINE writes == WriteDisks(r.parent, r.name, NoExt, r.size, r.buf)
    <3>1. PICK numbers, slot : Placed(r.parent, r.name, NoExt, r.size, r.buf, numbers, slot)
      BY <1>1, <1>6, <2>2, ResultPlaced
    <3>2. r.parent \in Reach
      BY <1>3, <1>6, <3>1 DEF Placed, Request
    <3>3. Required(r.size) <= Cardinality(FreeClusters(disk.fat))
      <4>1. RoomOrNone(r.size)
        BY <1>1, <1>6, FatConstants, RoomEnough
      <4>2. 1 \in 1 .. Required(r.size)
        BY <1>6, FatConstants DEF Required
      <4>3. FreeClusters(disk.fat) # {}
        BY <3>1, <4>2 DEF Placed
      <4> QED
        BY <4>1, <4>3 DEF RoomOrNone
    <3>4. WriteShows(writes, r.parent, slot, r.name, r.size)
      BY <1>1, <1>6, <3>1, <3>2, <3>3, WriteKeeps
    <3>5. disk' = Last(writes)
      BY <1>6, <2>2
    <3> HIDE DEF writes
    <3>6. writes \in Seq(Disks) /\ writes # <<>>
      BY <3>4 DEF WriteShows
    <3>7. Len(writes) \in 1 .. Len(writes) /\ Last(writes) = writes[Len(writes)]
      BY <3>6 DEF Last
    <3>8. /\ Keeps(disk, disk') /\ Lists(disk, disk')
          /\ OnlyEnters(disk, disk', r.parent, slot, r.name, r.size)
      BY <3>4, <3>5, <3>7 DEF WriteShows
    <3> QED
      BY <1>1, <1>3, <3>8 DEF Keeps, Lists
  <2> QED
    BY <2>1, <2>2
<1>8. pending' = <<>>
  BY <1>2, <1>3
<1>9. FatTyped'
  BY <1>2, <1>7 DEF DriverInv, FatTyped
<1>10. CacheInv'
  BY <1>1, <1>2, <1>3 DEF CacheInv
<1>11. SoundInv' /\ HousedInv'
  <2>1. \A k \in 1 .. Len(<<>>) : FALSE
    OBVIOUS
  <2> QED
    BY <1>7, <1>8, <2>1 DEF SoundInv, HousedInv, AllDisks
<1> QED
  BY <1>3, <1>4, <1>7, <1>8, <1>9, <1>10, <1>11 DEF DriverInv, Reach

-----------------------------------------------------------------------------
(* What the commands do to the disks.                                       *)

\* Nothing is written, or an entry more.
Adding ==
    /\ DriverInv' /\ disk' = disk /\ power' = power
    /\ \/ pending' = pending
       \/ \E parent \in Reach : \E slot, name, size :
             WriteShows(pending', parent, slot, name, size)

\* Nothing is written, or an entry less, which does not lead to the current directory.
Removing ==
    /\ DriverInv' /\ disk' = disk /\ power' = power
    /\ \/ pending' = pending
       \/ \E parent \in Reach, i \in UserSlots :
             /\ DeleteShows(pending', parent, i)
             /\ disk.table[parent][i].dir => disk.table[parent][i].cluster # currentDirectory

\* What does not touch the driver's state.
LEMMA StillInv == DriverInv /\ UNCHANGED fatVars => DriverInv'
  BY DEF DriverInv, FatTyped, CacheInv, SoundInv, HousedInv, AllDisks, FatToCome, fatVars

\* A step that leaves the driver alone adds nothing.
LEMMA StillAdds ==
    ASSUME DriverInv, UNCHANGED fatVars
    PROVE  Adding
  BY StillInv DEF Adding, fatVars

\* A read changes no disk.
LEMMA ReadAdds ==
    ASSUME ShellCareful, DriverInv, NEW d \in Drivers, NEW parent, read(d, parent)
    PROVE  Adding
  BY ReadStep DEF Adding

\* The last word of a path is a word.
LEMMA LastWord ==
    ASSUME NEW path \in TypedPaths
    PROVE  /\ Len(path.words) \in Nat /\ Len(path.words) > 0
           /\ path.words \in Seq(Words)
           /\ Last(path.words) = path.words[Len(path.words)]
           /\ Last(path.words) \in Words
<1>1. path.words \in Seq(Words) /\ path.words # <<>>
  BY DEF TypedPaths
<1>2. \A s \in Seq(Words) : s # <<>> =>
         Len(s) \in Nat /\ Len(s) > 0 /\ s[Len(s)] \in Words
  OBVIOUS
<1> QED
  BY <1>1, <1>2 DEF Last

\* mkdir of a new name writes a directory, wherever the walk came to.
LEMMA MkdirStep ==
    ASSUME ShellCareful, DriverInv, currentDirectory \in Reach, NEW path \in NewPaths,
           mkdir(path)
    PROVE  Adding
<1> DEFINE w == cd(currentDirectory, path, FALSE)
<1>1. /\ disk \in Disks /\ DiskSound(disk) /\ Housed(disk)
      /\ ClusterMapSize - 3 <= DirectoryMax
      /\ currentDirectory \in Homes(disk) /\ Homes(disk) \subseteq Clusters
  BY DriverFacts
<1>2. path \in TypedPaths /\ Last(path.words) \in Names
  BY DEF NewPaths
<1>3. w.dir \in Homes(disk)
  BY <1>1, <1>2, CdStays
<1> HIDE DEF w
<1>4. CASE w.code # 0
  BY <1>4, StillAdds DEF mkdir, w
<1>5. ASSUME w.code = 0, NEW ext \in Exts, NEW junk \in Exts,
             write(ShellDriver, w.dir, Last(path.words), ext, 0, junk)
      PROVE  Adding
  <2>1. PICK parent \in Homes(disk) : parent = w.dir
    BY <1>3
  <2>2. PICK name \in Names : name = Last(path.words)
    BY <1>2
  <2>3. Request(parent, name, ext, 0, junk)
    BY <1>1, FatConstants DEF Request, IsBuffer
  <2>4. RoomOrNone(0)
    BY <1>1, RoomEnough
  <2>5. write(ShellDriver, parent, name, ext, 0, junk)
    BY <1>5, <2>1, <2>2
  <2> QED
    BY <2>3, <2>4, <2>5, WriteStep DEF Adding
<1> QED
  BY <1>4, <1>5 DEF mkdir, w

\* So does mkfile, a file.
LEMMA MkfileStep ==
    ASSUME ShellCareful, DriverInv, NEW f \in MkfileFrames(disk), mkfile(f)
    PROVE  /\ Adding
           /\ LET w == cd(f.from, f.dst, f.isdir)
              IN  w.code = 0 /\ WriteResult(w.dir, Last(f.dst.words), NoExt, CopySize) = 0 =>
                     /\ cache'[ShellDriver] # ZeroFat /\ w.dir \in Reach
                     /\ \E slot :
                           WriteShows(pending', w.dir, slot, Last(f.dst.words), CopySize)
<1> DEFINE w == cd(f.from, f.dst, f.isdir)
<1>1. /\ disk \in Disks /\ DiskSound(disk) /\ Housed(disk)
      /\ ClusterMapSize - 3 <= DirectoryMax /\ Homes(disk) \subseteq Clusters
      /\ RoomChecked
  BY DriverFacts DEF ShellCareful, Careful
<1>2. /\ f.from \in Homes(disk) /\ f.dst \in TypedPaths /\ Last(f.dst.words) \in Names
      /\ f.data \in Buffers
  BY DEF MkfileFrames, NewPaths
<1>3. w.dir \in Homes(disk)
  BY <1>1, <1>2, CdStays
<1> HIDE DEF w
<1>4. CASE w.code # 0
  BY <1>4, StillAdds DEF mkfile, w
<1>5. CASE w.code = 0
  <2>1. PICK parent \in Homes(disk) : parent = w.dir
    BY <1>3
  <2>2. PICK name \in Names : name = Last(f.dst.words)
    BY <1>2
  <2>3. Request(parent, name, NoExt, CopySize, f.data)
    BY <1>1, <1>2, FatConstants, ShellConstants DEF Request, IsBuffer, Buffers
  <2>4. write(ShellDriver, parent, name, NoExt, CopySize, f.data) /\ EnoughRoom(CopySize)
    BY <1>1, <1>5, <2>1, <2>2 DEF mkfile, w
  <2>5. RoomOrNone(CopySize)
    BY <1>1, <2>4, FatConstants, ShellConstants, RoomEnough
  <2>6. /\ Adding /\ Idle
        /\ pending' = pending \/ \E slot :
              parent \in Reach /\ WriteShows(pending', parent, slot, name, CopySize)
        /\ WriteResult(parent, name, NoExt, CopySize) = 0 =>
              pending' # <<>> /\ cache'[ShellDriver] # ZeroFat
    BY <2>3, <2>4, <2>5, WriteStep DEF Adding
  <2>7. pending = <<>>
    BY <2>6 DEF Idle
  <2> QED
    BY <2>1, <2>2, <2>6, <2>7 DEF w
<1> QED
  BY <1>4, <1>5 DEF w

\* rm of a name that is neither the parent's nor that of a directory with others below
\* or of the current one.
LEMMA RmStep ==
    ASSUME ShellCareful, DriverInv, Idle, cache[ShellDriver] # ZeroFat,
           currentDirectory \in Reach, NEW path \in TypedPaths,
           \A c \in Reach, i \in Slots \ {0} :
              /\ cd(currentDirectory, path, FALSE) = [code |-> 0, dir |-> c]
              /\ disk.table[c][i].live /\ disk.table[c][i].dir
              /\ disk.table[c][i].name = Last(path.words)
              => /\ i # 1 /\ disk.table[c][i].cluster # currentDirectory
                 /\ Subdirectories(disk, disk.table[c][i].cluster) = {},
           rm(path)
    PROVE  Removing
<1> DEFINE w == cd(currentDirectory, path, FALSE)
<1>1. /\ disk \in Disks /\ DiskSound(disk) /\ Housed(disk) /\ Settled(disk)
      /\ ClusterMapSize - 3 <= DirectoryMax
      /\ currentDirectory \in Homes(disk) /\ Homes(disk) \subseteq Clusters
      /\ \A c \in Homes(disk) : c = 0 \/ c \in Reach
      /\ Reach = DirectoryClusters(disk)
  BY DriverFacts
<1>2. w \in Positions /\ w.dir \in Homes(disk)
  BY <1>1, CdStays
<1> HIDE DEF w
<1>3. CASE UNCHANGED fatVars
  BY <1>3, StillInv DEF Removing, fatVars
<1>4. ASSUME w.code = 0, NEW ext \in Exts,
             delete(ShellDriver, w.dir, Last(path.words), ext)
      PROVE  Removing
  <2>1. PICK c \in Homes(disk) : c = w.dir
    BY <1>2
  <2> DEFINE found == Deletable(disk.table[c], Last(path.words), ext)
             i == Min(found)
  <2>2. /\ UNCHANGED <<disk, power, powerOffs>>
        /\ UNCHANGED <<cache, pending>> \/ (found # {} /\ DeleteEntry(ShellDriver, c, i))
    BY <1>4, <2>1 DEF delete
  <2>3. CASE UNCHANGED <<cache, pending>>
    BY <2>2, <2>3, StillInv DEF Removing, fatVars
  <2>4. CASE found # {} /\ DeleteEntry(ShellDriver, c, i)
    <3>1. i \in found
      <4>1. found \in SUBSET Nat
        BY ClusterFacts DEF Deletable, Slots
      <4> HIDE DEF found
      <4> QED
        BY <2>4, <4>1, MinFacts
    <3> HIDE DEF i
    <3>2. /\ i \in Slots \ {0} /\ disk.table[c][i].live
          /\ disk.table[c][i].name = Last(path.words)
      BY <3>1 DEF Deletable
    <3>3. c \in Reach
      BY <1>1, <3>2 DEF Housed
    <3>4. w = [code |-> 0, dir |-> c]
      BY <1>2, <1>4, <2>1 DEF Positions
    <3>5. disk.table[c][i].dir =>
             /\ i # 1 /\ disk.table[c][i].cluster # currentDirectory
             /\ Subdirectories(disk, disk.table[c][i].cluster) = {}
      BY <3>2, <3>3, <3>4 DEF w
    <3>6. i \in UserSlots
      <4>1. disk.table[c][1].dir
        BY <1>1, <3>3, HousedReach DEF HasSelf
      <4>2. i # 1
        BY <3>5, <4>1
      <4> QED
        BY <3>2, <4>2, ClusterFacts DEF Slots, UserSlots
    <3>7. DriverInv' /\ DeleteShows(pending', c, i)
      BY <2>2, <2>4, <3>2, <3>3, <3>5, <3>6, DeleteStep
    <3> QED
      BY <2>2, <3>3, <3>5, <3>6, <3>7 DEF Removing
  <2> QED
    BY <2>2, <2>3, <2>4
<1> QED
  BY <1>3, <1>4 DEF rm, w

-----------------------------------------------------------------------------
(* The stages of mv.                                                        *)

\* No two entries are the first of a name.
LEMMA FirstUnique ==
    ASSUME NEW d, NEW c, NEW name, NEW i, FirstNamed(d, c, name, i)
    PROVE  /\ ~Unnamed(d, c, name)
           /\ \A j : FirstNamed(d, c, name, j) => j = i
<1>1. ~Unnamed(d, c, name)
  BY DEF FirstNamed, Unnamed
<1>2. ASSUME NEW j, FirstNamed(d, c, name, j) PROVE j = i
  <2>1. i \in Nat /\ j \in Nat
    BY <1>2, ClusterFacts DEF FirstNamed, Slots
  <2>2. ~(i < j) /\ ~(j < i)
    BY <1>2 DEF FirstNamed
  <2> QED
    BY <2>1, <2>2
<1> QED
  BY <1>1, <1>2

\* A walk that has not failed has found a directory for every word.
LEMMA WalkFinds ==
    ASSUME disk \in Disks, NEW from \in Clusters, NEW path \in TypedPaths,
           NEW n \in 0 .. Len(path.words), Walk(from, path, n).code = 0
    PROVE  \E g \in [0 .. n -> Clusters] :
              Finds(disk, from, path, n, g) /\ g[n] = Walk(from, path, n).dir
<1> DEFINE at(k) == Walk(from, path, k)
           T == {j \in 0 .. n : at(n - j).code = 0}
           g == [k \in 0 .. n |-> at(k).dir]
<1>1. /\ Len(path.words) \in Nat
      /\ at(0) = [code |-> 0, dir |-> IF path.absolute THEN Root ELSE from]
      /\ \A k \in 0 .. Len(path.words) : at(k) \in Positions
      /\ \A k \in 1 .. Len(path.words) : Enters(at(k - 1), path.words[k], at(k))
  BY WalkSteps
<1>2. n \in Nat /\ n <= Len(path.words) /\ at(n).code = 0
  BY <1>1
<1> HIDE DEF at
<1>3. 0 \in T
  BY <1>2
<1>4. ASSUME NEW j \in 0 .. n - 1, j \in T PROVE j + 1 \in T
  <2>1. /\ n - j \in 1 .. Len(path.words) /\ (n - j) - 1 = n - (j + 1)
        /\ j + 1 \in 0 .. n
    BY <1>1, <1>2
  <2>2. Enters(at(n - (j + 1)), path.words[n - j], at(n - j)) /\ at(n - j).code = 0
    BY <1>1, <1>4, <2>1
  <2>3. at(n - (j + 1)).code = 0
    BY <2>2 DEF Enters
  <2> QED
    BY <2>1, <2>3
<1>5. ASSUME NEW k \in 0 .. n PROVE at(k).code = 0
  <2>1. 0 .. n \subseteq T
    <3> HIDE DEF T
    <3> QED
      BY <1>2, <1>3, <1>4, IntervalInduction
  <2>2. PICK j \in Int : j = n - k
    BY <1>2
  <2>3. j \in 0 .. n /\ n - j = k
    BY <1>2, <2>2
  <2>4. \A m \in T : at(n - m).code = 0
    OBVIOUS
  <2> HIDE DEF T
  <2> QED
    BY <2>1, <2>3, <2>4
<1>6. g \in [0 .. n -> Clusters]
  BY <1>1, <1>2 DEF Positions
<1>7. \A k \in 0 .. n : g[k] = at(k).dir
  OBVIOUS
<1> HIDE DEF g, T
<1>8. ASSUME NEW k \in 1 .. n
      PROVE  \E i \in Slots :
                /\ FirstNamed(disk, g[k - 1], path.words[k], i)
                /\ disk.table[g[k - 1]][i].dir /\ disk.table[g[k - 1]][i].cluster = g[k]
  <2>1. k \in 0 .. n /\ k - 1 \in 0 .. n /\ k \in 1 .. Len(path.words)
    BY <1>1, <1>2
  <2>2. /\ g[k - 1] = at(k - 1).dir /\ g[k] = at(k).dir
        /\ at(k - 1).code = 0 /\ at(k).code = 0
        /\ Enters(at(k - 1), path.words[k], at(k))
    BY <1>1, <1>5, <1>7, <2>1
  <2>3. at(k) # [code |-> 2, dir |-> at(k - 1).dir] /\ at(k) # [code |-> 3, dir |-> at(k - 1).dir]
    BY <2>2
  <2>4. PICK i \in Slots :
           /\ FirstNamed(disk, at(k - 1).dir, path.words[k], i)
           /\ at(k) = IF disk.table[at(k - 1).dir][i].dir
                      THEN [code |-> 0, dir |-> disk.table[at(k - 1).dir][i].cluster]
                      ELSE [code |-> 3, dir |-> at(k - 1).dir]
    BY <2>2, <2>3 DEF Enters
  <2>5. disk.table[at(k - 1).dir][i].dir
    BY <2>3, <2>4
  <2>6. at(k).dir = disk.table[at(k - 1).dir][i].cluster
    BY <2>4, <2>5
  <2> QED
    BY <2>2, <2>4, <2>5, <2>6
<1>9. g[0] = IF path.absolute THEN Root ELSE from
  BY <1>1, <1>2, <1>7
<1>10. Finds(disk, from, path, n, g) /\ g[n] = at(n).dir
  BY <1>2, <1>7, <1>8, <1>9 DEF Finds
<1> QED
  BY <1>6, <1>10 DEF at

\* And conversely.
LEMMA FindsWalk ==
    ASSUME disk \in Disks, NEW from \in Clusters, NEW path \in TypedPaths,
           NEW n \in 0 .. Len(path.words), NEW g, Finds(disk, from, path, n, g)
    PROVE  \A k \in 0 .. n : Walk(from, path, k) = [code |-> 0, dir |-> g[k]]
<1> DEFINE at(k) == Walk(from, path, k)
           T == {k \in 0 .. n : at(k) = [code |-> 0, dir |-> g[k]]}
<1>1. /\ Len(path.words) \in Nat
      /\ at(0) = [code |-> 0, dir |-> IF path.absolute THEN Root ELSE from]
      /\ \A k \in 1 .. Len(path.words) : Enters(at(k - 1), path.words[k], at(k))
  BY WalkSteps
<1>2. n \in Nat /\ n <= Len(path.words)
  BY <1>1
<1> HIDE DEF at
<1>3. 0 \in T
  BY <1>1, <1>2 DEF Finds
<1>4. ASSUME NEW k \in 0 .. n - 1, k \in T PROVE k + 1 \in T
  <2>1. /\ k + 1 \in 1 .. n /\ (k + 1) - 1 = k /\ k + 1 \in 0 .. n
        /\ k + 1 \in 1 .. Len(path.words)
    BY <1>1, <1>2
  <2>2. at(k) = [code |-> 0, dir |-> g[k]]
    BY <1>4
  <2>3. at(k).code = 0 /\ at(k).dir = g[k]
    BY <2>2
  <2>4. Enters(at(k), path.words[k + 1], at(k + 1))
    BY <1>1, <2>1
  <2>5. PICK i \in Slots :
           /\ FirstNamed(disk, g[k], path.words[k + 1], i)
           /\ disk.table[g[k]][i].dir /\ disk.table[g[k]][i].cluster = g[k + 1]
    BY <2>1 DEF Finds
  <2>6. /\ ~Unnamed(disk, g[k], path.words[k + 1])
        /\ \A j : FirstNamed(disk, g[k], path.words[k + 1], j) => j = i
    BY <2>5, FirstUnique
  <2>7. at(k + 1) = [code |-> 0, dir |-> g[k + 1]]
    BY <2>3, <2>4, <2>5, <2>6 DEF Enters
  <2> QED
    BY <2>1, <2>7
<1>5. 0 .. n \subseteq T
  <2> HIDE DEF T
  <2> QED
    BY <1>2, <1>3, <1>4, IntervalInduction
<1> QED
  BY <1>5 DEF at

\* A file that is entered under a name that leads nowhere changes no walk, and nothing
\* about the directories of any name.
LEMMA RemovableKept ==
    ASSUME ShellCareful, DriverInv, NEW src, Removable(disk, src), NEW w,
           NEW parent \in Reach, NEW slot, NEW name, NEW size, size # 0,
           OnlyEnters(disk, w, parent, slot, name, size), Unnamed(disk, parent, name),
           w \in Disks
    PROVE  Removable(w, src)
<1> DEFINE n == Len(src.words) - 1
<1>1. /\ disk \in Disks /\ DiskSound(disk) /\ Housed(disk) /\ Settled(disk)
      /\ ClusterMapSize - 3 <= DirectoryMax /\ Root \in Reach
      /\ Reach \subseteq Clusters /\ Reach = DirectoryClusters(disk)
      /\ Root \in Homes(disk) /\ \A c \in Homes(disk) : c = 0 \/ c \in Reach
  BY DriverFacts
<1>2. /\ src \in TypedPaths /\ Last(src.words) \in Names
      /\ \A i \in UserSlots :
            LET e == disk.table[Root][i]
            IN  e.live /\ e.dir /\ e.name = Last(src.words) =>
                   Subdirectories(disk, e.cluster) = {}
  BY DEF Removable
<1>3. PICK g \in [0 .. n -> Clusters] : Finds(disk, Root, src, n, g) /\ g[n] = Root
  BY DEF Removable
<1>4. Len(src.words) \in Nat /\ n \in 0 .. Len(src.words) /\ n \in Nat
  BY <1>2, LastWord
<1>5. \A k \in 0 .. n : Walk(Root, src, k) = [code |-> 0, dir |-> g[k]]
  BY <1>1, <1>2, <1>3, <1>4, FindsWalk
<1>6. \A k \in 0 .. n : g[k] \in Homes(disk)
  <2> SUFFICES ASSUME NEW k \in 0 .. n PROVE g[k] \in Homes(disk)
    OBVIOUS
  <2>1. Walk(Root, src, k).dir \in Homes(disk)
    BY <1>1, <1>2, <1>4, WalkStays
  <2>2. Walk(Root, src, k).dir = g[k]
    BY <1>5
  <2> QED
    BY <2>1, <2>2
<1>7. \A c \in Reach, i \in Slots :
         \/ w.table[c][i] = disk.table[c][i]
         \/ /\ c = parent /\ ~disk.table[c][i].live
            /\ w.table[c][i].name = name /\ ~w.table[c][i].dir
  BY <1>1 DEF OnlyEnters
<1> HIDE DEF n
<1>8. ASSUME NEW k \in 1 .. n
      PROVE  \E i \in Slots :
                /\ FirstNamed(w, g[k - 1], src.words[k], i)
                /\ w.table[g[k - 1]][i].dir /\ w.table[g[k - 1]][i].cluster = g[k]
  <2>1. PICK i \in Slots :
           /\ FirstNamed(disk, g[k - 1], src.words[k], i)
           /\ disk.table[g[k - 1]][i].dir /\ disk.table[g[k - 1]][i].cluster = g[k]
    BY <1>3 DEF Finds
  <2>2. g[k - 1] \in Reach
    <3>1. k - 1 \in 0 .. n /\ disk.table[g[k - 1]][i].live
      BY <1>4, <2>1 DEF FirstNamed
    <3>2. PICK c \in Homes(disk) : c = g[k - 1]
      BY <1>6, <3>1
    <3>3. ~disk.table[0][i].live
      BY <1>1 DEF Housed
    <3>4. c # 0
      BY <3>1, <3>2, <3>3
    <3> QED
      BY <1>1, <3>2, <3>4
  <2>3. PICK c \in Reach : c = g[k - 1]
    BY <2>2
  <2>4. FirstNamed(disk, c, src.words[k], i) /\ disk.table[c][i].dir
    BY <2>1, <2>3
  <2>5. c = parent => src.words[k] # name
    BY <2>4 DEF FirstNamed, Unnamed
  <2>6. \A j \in Slots : j < i => ~disk.table[c][j].live \/ disk.table[c][j].name # src.words[k]
    BY <2>4 DEF FirstNamed
  <2>7. disk.table[c][i].live
    BY <2>4 DEF FirstNamed
  <2>8. w.table[c][i] = disk.table[c][i]
    BY <1>7, <2>7
  <2>9. \A j \in Slots : j < i => ~w.table[c][j].live \/ w.table[c][j].name # src.words[k]
    BY <1>7, <2>5, <2>6
  <2>10. FirstNamed(w, c, src.words[k], i)
    BY <2>4, <2>8, <2>9 DEF FirstNamed
  <2> QED
    BY <2>1, <2>3, <2>8, <2>10
<1>9. Finds(w, Root, src, n, g)
  BY <1>3, <1>8 DEF Finds
<1>10. ASSUME NEW i \in UserSlots, w.table[Root][i].live, w.table[Root][i].dir,
              w.table[Root][i].name = Last(src.words)
       PROVE  Subdirectories(w, w.table[Root][i].cluster) = {}
  <2>1. w.table[Root][i] = disk.table[Root][i]
    BY <1>1, <1>7, <1>10, ClusterFacts
  <2>2. PICK x \in Clusters : x = disk.table[Root][i].cluster
    <3>1. disk.table[Root] \in Tables /\ i \in Slots
      BY <1>1, ClusterFacts DEF Disks, Root
    <3>2. disk.table[Root][i] \in Entries
      BY <3>1 DEF Tables
    <3> QED
      BY <3>2 DEF Entries
  <2>3. x \in Reach
    BY <1>1, <1>10, <2>1, <2>2, HousedReach DEF LeadsDown
  <2>4. Subdirectories(disk, x) = {}
    BY <1>2, <1>10, <2>1, <2>2
  <2>5. ASSUME NEW y \in Subdirectories(w, x) PROVE FALSE
    <3>1. PICK j \in UserSlots :
             w.table[x][j].live /\ w.table[x][j].dir /\ w.table[x][j].cluster = y
      BY SubdirectoriesTyped
    <3>2. w.table[x][j] = disk.table[x][j]
      BY <1>7, <2>3, <3>1, ClusterFacts
    <3>3. y \in Subdirectories(disk, x)
      BY <1>1, <3>1, <3>2, SubdirectoriesTyped
    <3> QED
      BY <2>4, <3>3
  <2> QED
    BY <2>1, <2>2, <2>5
<1> QED
  BY <1>2, <1>3, <1>9, <1>10 DEF Removable, n

-----------------------------------------------------------------------------
(* What the commands leave of the invariant.                                *)

\* The buffer of a copy holds data, found or not.
LEMMA CopyBufferTyped ==
    ASSUME disk \in Disks, NEW name
    PROVE  Buffer(name) \in Buffers
<1> DEFINE r == ReadResult(Root, name, NoExt, CopySize)
<1>1. NoData \in Data
  BY DEF Data
<1>2. ASSUME r.code = 0, NEW k \in 1 .. CopySize, k <= Len(r.data) PROVE r.data[k] \in Data
  <2> DEFINE e == disk.table[Root][Min(ReadMatches(disk.table[Root], name, NoExt))]
             chain == Chain(disk.fat, e.cluster)
             S == {j \in 0 .. ClusterMapSize : At(disk.fat, e.cluster, j) # END_OF_FILE}
  <2>1. r = [code |-> 0, data |-> DataAlong(chain)]
    BY <1>2 DEF ReadResult
  <2>2. r.data = DataAlong(chain)
    BY <2>1
  <2> HIDE DEF r, e
  <2>3. Cardinality(S) \in Nat
    <3>1. IsFiniteSet(0 .. ClusterMapSize)
      BY FatConstants, FS_Interval
    <3>2. S \in SUBSET (0 .. ClusterMapSize)
      OBVIOUS
    <3> HIDE DEF S
    <3> QED
      BY <3>1, <3>2, FS_Subset, FS_CardinalityType
  <2>4. PICK n \in Nat : n = Cardinality(S)
    BY <2>3
  <2>5. chain = [i \in 1 .. n |-> At(disk.fat, e.cluster, i - 1)]
    BY <2>4 DEF Chain
  <2> HIDE DEF S, chain
  <2>6. Len(chain) = n
    BY <2>5
  <2>7. r.data = [i \in 1 .. n |->
                     IF chain[i] \in Clusters THEN disk.data[chain[i]] ELSE NoData]
    BY <2>2, <2>6 DEF DataAlong
  <2>8. Len(r.data) = n
    BY <2>7
  <2>9. k \in 1 .. n
    BY <1>2, <2>8, ShellConstants
  <2>10. r.data[k] = IF chain[k] \in Clusters THEN disk.data[chain[k]] ELSE NoData
    BY <2>7, <2>9
  <2> QED
    BY <1>1, <2>10 DEF Disks
<1> HIDE DEF r
<1>3. Buffer(name) = [k \in 1 .. CopySize |->
                         IF r.code = 0 /\ k <= Len(r.data) THEN r.data[k] ELSE NoData]
  BY DEF Buffer, r
<1> QED
  BY <1>1, <1>2, <1>3 DEF Buffers

\* Sequences over more elements.
LEMMA SeqGrows == \A S, T : S \subseteq T => Seq(S) \subseteq Seq(T)
  BY SMT

\* Calls that are right on a disk are so on one with more directories.
LEMMA FramesGrow ==
    ASSUME NEW d, NEW w, DirectoryClusters(d) \subseteq DirectoryClusters(w),
           NEW c \in Seq(CopyFrames(d))
    PROVE  c \in Seq(CopyFrames(w))
<1>1. Homes(d) \subseteq Homes(w)
  BY DEF Homes
<1>2. MkfileFrames(d) \subseteq MkfileFrames(w)
  BY <1>1 DEF MkfileFrames
<1>3. CopyFrames(d) \subseteq CopyFrames(w)
  BY <1>2 DEF CopyFrames
<1> QED
  BY <1>3, SeqGrows

\* Where an entry more is written there are no fewer directories, and more is stored
\* from disk to disk.
LEMMA AddingDisks ==
    ASSUME ShellCareful, DriverInv, Idle, Adding
    PROVE  /\ \A d \in AllDisks' : Reach \subseteq DirectoryClusters(d)
           /\ \A k \in 1 .. Len(pending') :
                 StoreOf(IF k = 1 THEN disk ELSE pending'[k - 1]) \subseteq StoreOf(pending'[k])
<1>1. disk' = disk /\ Reach = DirectoryClusters(disk) /\ pending = <<>> /\ Len(<<>>) = 0
  BY DriverFacts, IdleDisks DEF Adding
<1>2. AllDisks' = {disk} \cup {pending'[k] : k \in 1 .. Len(pending')}
  BY <1>1 DEF AllDisks
<1>3. CASE pending' = pending
  BY <1>1, <1>2, <1>3
<1>4. ASSUME NEW parent \in Reach, NEW slot, NEW name, NEW size,
             WriteShows(pending', parent, slot, name, size)
      PROVE  /\ \A d \in AllDisks' : Reach \subseteq DirectoryClusters(d)
             /\ \A k \in 1 .. Len(pending') :
                   StoreOf(IF k = 1 THEN disk ELSE pending'[k - 1])
                      \subseteq StoreOf(pending'[k])
  <2>1. PICK writes \in Seq(Disks) : writes = pending'
    BY <1>4 DEF WriteShows
  <2>2. /\ Len(writes) \in Nat
        /\ \A k \in 1 .. Len(writes) : Keeps(disk, writes[k])
        /\ \A k \in 1 .. Len(writes) - 1 : StoreOf(writes[k]) = StoreOf(disk)
    BY <1>4, <2>1 DEF WriteShows
  <2>3. \A k \in 1 .. Len(writes) :
           /\ DirectoryClusters(disk) \subseteq DirectoryClusters(writes[k])
           /\ StoreOf(disk) \subseteq StoreOf(writes[k])
    BY <2>2 DEF Keeps
  <2>4. \A d \in AllDisks' : Reach \subseteq DirectoryClusters(d)
    BY <1>1, <1>2, <2>1, <2>3
  <2>5. ASSUME NEW k \in 1 .. Len(writes)
        PROVE  StoreOf(IF k = 1 THEN disk ELSE writes[k - 1]) \subseteq StoreOf(writes[k])
    <3>1. CASE k = 1
      BY <2>3, <3>1
    <3>2. CASE k # 1
      <4>1. k - 1 \in 1 .. Len(writes) - 1
        BY <2>2, <3>2
      <4> QED
        BY <2>2, <2>3, <3>2, <4>1
    <3> QED
      BY <3>1, <3>2
  <2> QED
    BY <2>1, <2>4, <2>5
<1> QED
  BY <1>3, <1>4 DEF Adding

\* And where one less is written the shell's directory stays.
LEMMA RemovingDisks ==
    ASSUME ShellCareful, DriverInv, Idle, currentDirectory \in Reach, Removing
    PROVE  \A d \in AllDisks' : currentDirectory \in DirectoryClusters(d)
<1>1. disk' = disk /\ Reach = DirectoryClusters(disk) /\ pending = <<>> /\ Len(<<>>) = 0
  BY DriverFacts, IdleDisks DEF Removing
<1>2. AllDisks' = {disk} \cup {pending'[k] : k \in 1 .. Len(pending')}
  BY <1>1 DEF AllDisks
<1>3. CASE pending' = pending
  BY <1>1, <1>2, <1>3
<1>4. ASSUME NEW parent \in Reach, NEW i \in UserSlots, DeleteShows(pending', parent, i),
             disk.table[parent][i].dir => disk.table[parent][i].cluster # currentDirectory
      PROVE  \A d \in AllDisks' : currentDirectory \in DirectoryClusters(d)
  BY <1>1, <1>2, <1>4 DEF DeleteShows
<1> QED
  BY <1>3, <1>4 DEF Removing

-----------------------------------------------------------------------------
(* The calls of cp.                                                         *)

\* A path with a name after it leads to a new name.
LEMMA AppendTyped ==
    ASSUME NEW path \in TypedPaths, NEW name \in Names
    PROVE  append(path, name) \in NewPaths
<1>1. PICK words \in Seq(Words) : words = path.words
  BY DEF TypedPaths
<1>2. name \in Words
  BY DEF Words
<1>3. /\ Append(words, name) \in Seq(Words) /\ Len(Append(words, name)) = Len(words) + 1
      /\ Append(words, name)[Len(words) + 1] = name /\ Len(words) \in Nat
  BY <1>2
<1>4. Append(words, name) # <<>>
  <2>1. Len(<<>>) = 0
    OBVIOUS
  <2> QED
    BY <1>3, <2>1
<1>5. append(path, name) = [absolute |-> path.absolute, words |-> Append(words, name)]
  BY <1>1 DEF append, TypedPaths
<1>6. Last(Append(words, name)) = name
  BY <1>3 DEF Last
<1> HIDE DEF append
<1>7. append(path, name) \in TypedPaths
  BY <1>3, <1>4, <1>5 DEF TypedPaths
<1>8. append(path, name).words = Append(words, name)
  BY <1>5
<1> QED
  BY <1>6, <1>7, <1>8 DEF NewPaths

\* One call more, or one less.
LEMMA PushCall ==
    ASSUME NEW S, NEW x \in S, NEW s \in Seq(S)
    PROVE  <<x>> \o s \in Seq(S)
  BY SMT
\* The call that has ended goes.
LEMMA PopCall ==
    ASSUME NEW S, NEW s \in Seq(S), s # <<>>
    PROVE  Head(s) \in S /\ Tail(s) \in Seq(S)
  BY SMT

\* cpHelper goes on to the loop over a directory, or to mkfile for a file.
LEMMA HelperCall ==
    ASSUME ShellCareful, DriverInv, currentDirectory \in Reach, NEW f \in HelperFrames,
           NEW rest \in Seq(CopyFrames(disk)), cpHelper(f, rest)
    PROVE  Adding /\ calls' \in Seq(CopyFrames(disk))
<1> DEFINE w == cd(currentDirectory, f.src, TRUE)
           v == cd(currentDirectory, f.src, FALSE)
           from == IF v.code = 0 THEN v.dir ELSE currentDirectory
<1>1. f.src \in TypedPaths /\ f.dst \in NewPaths
  BY DEF HelperFrames
<1>2. /\ disk \in Disks /\ DiskSound(disk) /\ Housed(disk)
      /\ ClusterMapSize - 3 <= DirectoryMax /\ Homes(disk) \subseteq Clusters
      /\ currentDirectory \in Homes(disk) /\ KernelDriver \in Drivers
  BY DriverFacts DEF Drivers
<1>3. w.dir \in Homes(disk) /\ v.dir \in Homes(disk) /\ w.code \in {0, 2, 3}
  BY <1>1, <1>2, CdStays DEF Positions
<1>4. \/ w.code = 0 /\ calls' = <<Loop(f.src, f.dst, w.dir, 2)>> \o rest /\ UNCHANGED fatVars
      \/ w.code = 3 /\ CopyFile(f, rest)
      \/ w.code = 2 /\ calls' = rest /\ UNCHANGED fatVars
  <2> HIDE DEF v, from
  <2> QED
    BY DEF cpHelper
<1> HIDE DEF w
<1>5. CASE w.code = 0
  <2>1. calls' = <<Loop(f.src, f.dst, w.dir, 2)>> \o rest /\ UNCHANGED fatVars
    BY <1>5, <1>4
  <2>2. Loop(f.src, f.dst, w.dir, 2) \in CopyFrames(disk)
    BY <1>1, <1>2, <1>3 DEF Loop, CopyFrames, LoopFrames
  <2> QED
    BY <2>1, <2>2, PushCall, StillAdds
<1>6. CASE w.code = 3
  <2>1. CopyFile(f, rest)
    BY <1>6, <1>4
  <2>2. CASE calls' = rest /\ UNCHANGED fatVars
    BY <2>2, StillAdds
  <2>3. ASSUME NEW isdir \in BOOLEAN, NEW name, read(KernelDriver, Root),
               calls' = <<Mkfile(from, f.dst, isdir, Buffer(name))>> \o rest
        PROVE  Adding /\ calls' \in Seq(CopyFrames(disk))
    <3>1. from \in Homes(disk)
      BY <1>2, <1>3
    <3> HIDE DEF from
    <3>2. Buffer(name) \in Buffers
      BY <1>2, CopyBufferTyped
    <3>3. Mkfile(from, f.dst, isdir, Buffer(name)) \in MkfileFrames(disk)
      BY <1>1, <3>1, <3>2 DEF Mkfile, MkfileFrames
    <3>4. Mkfile(from, f.dst, isdir, Buffer(name)) \in CopyFrames(disk)
      BY <3>3 DEF CopyFrames
    <3> QED
      BY <1>2, <2>3, <3>4, PushCall, ReadAdds
  <2> QED
    BY <2>1, <2>2, <2>3 DEF CopyFile
<1>7. CASE w.code = 2
  BY <1>7, <1>4, StillAdds
<1> QED
  BY <1>4, <1>5, <1>6, <1>7

\* The loop goes on to a directory's copy or to a file's, one entry after the other.
LEMMA LoopCall ==
    ASSUME ShellCareful, DriverInv, currentDirectory \in Reach, NEW f \in LoopFrames,
           NEW rest \in Seq(CopyFrames(disk)), CopyEntries(f, rest)
    PROVE  Adding /\ calls' \in Seq(CopyFrames(disk))
<1>1. /\ f.src \in TypedPaths /\ f.dst \in NewPaths /\ f.dir \in Clusters
      /\ f.dst \in TypedPaths
  BY DEF LoopFrames, NewPaths
<1>2. /\ disk \in Disks /\ Housed(disk) /\ currentDirectory \in Homes(disk)
      /\ KernelDriver \in Drivers
  BY DriverFacts DEF Drivers
<1>3. CASE calls' = rest /\ UNCHANGED fatVars
  BY <1>3, StillAdds
<1>4. CASE Due(f) # {}
  <2> DEFINE i == Min(Due(f))
             e == disk.table[f.dir][i]
             loop == Loop(f.src, f.dst, f.dir, i + 1)
             more == <<loop>> \o rest
  <2>1. i \in Due(f)
    <3>1. Due(f) \in SUBSET Nat
      BY ClusterFacts DEF Due, UserSlots, Slots
    <3> QED
      BY <1>4, <3>1, MinFacts
  <2>2. CopyEntry(f, e, more)
    BY <1>4 DEF CopyEntries
  <2> HIDE DEF i
  <2>3. i \in UserSlots /\ e.live
    BY <2>1 DEF Due
  <2>4. PICK slot \in UserSlots : slot = i
    BY <2>3
  <2>5. e.name \in Names
    <3>1. <<f.dir, i>> \in LivePlaces(disk) /\ Entry(disk, <<f.dir, i>>) = e
      BY <1>1, <1>2, <2>3, PlaceMade
    <3> QED
      BY <1>2, <3>1 DEF Housed, EntriesHoused
  <2> HIDE DEF e
  <2>6. more \in Seq(CopyFrames(disk))
    <3>1. i + 1 \in Nat
      BY <2>3, ClusterFacts DEF UserSlots, Slots
    <3>2. loop \in CopyFrames(disk)
      BY <1>1, <3>1 DEF Loop, CopyFrames, LoopFrames
    <3> HIDE DEF loop
    <3> QED
      BY <3>2, PushCall
  <2> HIDE DEF more
  <2>7. append(f.src, e.name) \in TypedPaths /\ append(f.dst, e.name) \in NewPaths
    BY <1>1, <2>5, AppendTyped DEF NewPaths
  <2>8. CASE e.dir
    <3> DEFINE call == Helper(append(f.src, e.name), append(f.dst, e.name))
    <3>1. calls' = <<call>> \o more /\ mkdir(append(f.dst, e.name))
      BY <2>2, <2>8 DEF CopyEntry
    <3>2. call \in CopyFrames(disk)
      BY <2>7 DEF Helper, CopyFrames, HelperFrames
    <3> HIDE DEF call
    <3>3. calls' \in Seq(CopyFrames(disk))
      BY <2>6, <3>1, <3>2, PushCall
    <3>4. Adding
      BY <2>7, <3>1, MkdirStep
    <3> QED
      BY <3>3, <3>4
  <2>9. CASE ~e.dir
    <3> DEFINE call == Mkfile(currentDirectory, f.dst, TRUE, Buffer(e.name))
    <3>1. calls' = <<call>> \o more /\ read(KernelDriver, Root)
      BY <2>2, <2>9 DEF CopyEntry
    <3>2. call \in CopyFrames(disk)
      <4>1. Buffer(e.name) \in Buffers
        BY <1>2, CopyBufferTyped
      <4>2. call \in MkfileFrames(disk)
        BY <1>1, <1>2, <4>1 DEF Mkfile, MkfileFrames
      <4> QED
        BY <4>2 DEF CopyFrames
    <3> HIDE DEF call
    <3>3. calls' \in Seq(CopyFrames(disk))
      BY <2>6, <3>1, <3>2, PushCall
    <3>4. Adding
      BY <1>2, <3>1, ReadAdds
    <3> QED
      BY <3>3, <3>4
  <2> QED
    BY <2>8, <2>9
<1> QED
  BY <1>3, <1>4 DEF CopyEntries

\* What a call of cp does to the disks, and the calls it leaves.
LEMMA CopyCall ==
    ASSUME ShellCareful, DriverInv, currentDirectory \in Reach,
           calls \in Seq(CopyFrames(disk)), Call
    PROVE  Adding /\ calls' \in Seq(CopyFrames(disk))
<1> DEFINE f == Head(calls)
           rest == Tail(calls)
<1>1. calls # <<>>
  BY DEF Call
<1>2. f \in CopyFrames(disk) /\ rest \in Seq(CopyFrames(disk))
  BY <1>1, PopCall
<1>3. /\ f \in HelperFrames => f.call = "cpHelper"
      /\ f \in LoopFrames => f.call = "loop"
      /\ f \in MkfileFrames(disk) => f.call = "mkfile"
  BY DEF HelperFrames, LoopFrames, MkfileFrames
<1>4. \/ f.call = "cpHelper" /\ cpHelper(f, rest)
      \/ f.call = "loop" /\ CopyEntries(f, rest)
      \/ f.call = "mkfile" /\ mkfile(f) /\ calls' = rest
      \/ f.call = "rm"
  BY DEF Call
<1> HIDE DEF f, rest
<1>5. CASE f \in HelperFrames
  BY <1>2, <1>3, <1>4, <1>5, HelperCall
<1>6. CASE f \in LoopFrames
  BY <1>2, <1>3, <1>4, <1>6, LoopCall
<1>7. CASE f \in MkfileFrames(disk)
  BY <1>2, <1>3, <1>4, <1>7, MkfileStep
<1> QED
  BY <1>2, <1>5, <1>6, <1>7 DEF CopyFrames

-----------------------------------------------------------------------------
(* The calls of mv.                                                         *)

\* cd along all words of a path or all but the last.
LEMMA CdLengths ==
    ASSUME NEW from, NEW path \in TypedPaths
    PROVE  /\ cd(from, path, TRUE) = Walk(from, path, Len(path.words))
           /\ cd(from, path, FALSE) = Walk(from, path, Len(path.words) - 1)
           /\ Len(path.words) \in Nat /\ Len(path.words) - 1 \in 0 .. Len(path.words)
           /\ Len(path.words) - 1 \in 0 .. Len(path.words) - 1
           /\ Len(path.words) \in 1 .. Len(path.words)
           /\ Last(path.words) = path.words[Len(path.words)]
  BY LastWord DEF cd

\* The last word is looked up in the directory the others lead to.
LEMMA LastEnters ==
    ASSUME disk \in Disks, NEW from \in Clusters, NEW path \in TypedPaths
    PROVE  Enters(cd(from, path, FALSE), Last(path.words), cd(from, path, TRUE))
  BY CdLengths, WalkSteps

\* What mv asks for before it starts is what its calls need.
LEMMA MovableStart ==
    ASSUME ShellCareful, DriverInv, currentDirectory = Root,
           NEW src \in TypedPaths, NEW dst \in TypedPaths,
           FitsBuffer(src), NewTarget(dst), CarefulRm(src)
    PROVE  Movable(src, dst)
<1>1. /\ disk \in Disks /\ DiskSound(disk) /\ Housed(disk) /\ Settled(disk)
      /\ ClusterMapSize - 3 <= DirectoryMax /\ Root \in Reach
      /\ Reach \subseteq Clusters /\ Reach = DirectoryClusters(disk)
      /\ Root \in Homes(disk) /\ \A c \in Homes(disk) : c = 0 \/ c \in Reach
      /\ Root \in Clusters
  BY DriverFacts DEF Root
<1>2. /\ cd(Root, src, TRUE).code = 3 /\ cd(Root, src, FALSE) = [code |-> 0, dir |-> Root]
      /\ \A e \in LiveEntries(disk, Root) :
            ~e.dir /\ e.name = Last(src.words) => e.ext = NoExt /\ e.size <= CopySize
  BY DEF FitsBuffer
<1>3. cd(Root, src, FALSE).code = 0 /\ cd(Root, src, FALSE).dir = Root
  <2>1. PICK w : w = cd(Root, src, FALSE)
    OBVIOUS
  <2>2. w = [code |-> 0, dir |-> Root]
    BY <1>2, <2>1
  <2>3. w.code = 0 /\ w.dir = Root
    BY <2>2
  <2> QED
    BY <2>1, <2>3
<1>4. PICK i \in Slots :
         FirstNamed(disk, Root, Last(src.words), i) /\ ~disk.table[Root][i].dir
  <2>1. Enters(cd(Root, src, FALSE), Last(src.words), cd(Root, src, TRUE))
    BY <1>1, LastEnters
  <2>2. PICK x : x = cd(Root, src, TRUE)
    OBVIOUS
  <2>3. Enters([code |-> 0, dir |-> Root], Last(src.words), x) /\ x.code = 3
    BY <1>2, <2>1, <2>2
  <2> QED
    BY <2>3 DEF Enters
<1>5. i \in UserSlots /\ disk.table[Root][i].live /\ disk.table[Root][i].name = Last(src.words)
  <2>1. disk.table[Root][0].dir /\ disk.table[Root][1].dir
    BY <1>1, HousedReach DEF HasSelf
  <2>2. i # 0 /\ i # 1
    BY <1>4, <2>1
  <2> QED
    BY <1>4, <2>2, ClusterFacts DEF FirstNamed, Slots, UserSlots
<1>6. Last(src.words) \in Names
  BY <1>1, <1>5, HousedReach
<1>7. Copyable(disk, src)
  <2>1. disk.table[Root][i] \in LiveEntries(disk, Root)
    BY <1>5 DEF LiveEntries
  <2>2. disk.table[Root][i].ext = NoExt
    BY <1>2, <1>4, <1>5, <2>1
  <2> QED
    BY <1>4, <1>5, <2>2 DEF Copyable
<1>8. Removable(disk, src)
  <2>1. \E g \in [0 .. Len(src.words) - 1 -> Clusters] :
           Finds(disk, Root, src, Len(src.words) - 1, g) /\ g[Len(src.words) - 1] = Root
    <3>1. PICK n \in 0 .. Len(src.words) : n = Len(src.words) - 1
      BY CdLengths
    <3>2. Walk(Root, src, n).code = 0 /\ Walk(Root, src, n).dir = Root
      BY <1>3, <3>1, CdLengths
    <3> QED
      BY <1>1, <3>1, <3>2, WalkFinds
  <2>2. ASSUME NEW j \in UserSlots, disk.table[Root][j].live, disk.table[Root][j].dir,
               disk.table[Root][j].name = Last(src.words)
        PROVE  Subdirectories(disk, disk.table[Root][j].cluster) = {}
    <3>1. j \in Slots \ {0}
      BY ClusterFacts DEF UserSlots, Slots
    <3>2. IsEmptyDirectory(disk.table[Root][j].cluster)
      BY <1>3, <2>2, <3>1 DEF CarefulRm
    <3> QED
      BY <3>2 DEF IsEmptyDirectory, Subdirectories
  <2> QED
    BY <1>6, <2>1, <2>2 DEF Removable
<1>9. Vacant(disk, dst)
  <2> DEFINE w == cd(Root, dst, FALSE)
             i0 == findDirEntryIndex(w.dir, Last(dst.words))
  <2>1. w.code = 0 /\ i0 = -1 /\ WriteResult(w.dir, Last(dst.words), NoExt, CopySize) = 0
    BY DEF NewTarget
  <2>2. w.dir \in Homes(disk)
    BY <1>1, CdStays
  <2>3. PICK g \in [0 .. Len(dst.words) - 1 -> Clusters] :
           Finds(disk, Root, dst, Len(dst.words) - 1, g) /\ g[Len(dst.words) - 1] = w.dir
    BY <1>1, <2>1, CdLengths, WalkFinds
  <2> HIDE DEF w
  <2>4. Unnamed(disk, w.dir, Last(dst.words))
    BY <2>1, FoundEntry
  <2> HIDE DEF i0
  <2>5. /\ IsDirectoryTable(disk, w.dir)
        /\ HasEntry(disk.fat, disk.table[w.dir], CopySize)
    BY <2>1 DEF WriteResult
  <2>6. w.dir \in Reach
    <3>1. ~disk.table[0][0].live
      BY <1>1, ClusterFacts DEF Housed
    <3> QED
      BY <1>1, <2>2, <2>5, <3>1 DEF IsDirectoryTable
  <2>7. Last(dst.words) \in Names
    <3>1. disk.table[w.dir][1].live /\ disk.table[w.dir][1].name = DotDot
      BY <1>1, <2>6, HousedReach DEF HasSelf
    <3>2. Last(dst.words) # DotDot
      BY <2>4, <3>1, ClusterFacts DEF Unnamed
    <3> QED
      BY <3>2, LastWord DEF Words
  <2> QED
    BY <2>3, <2>4, <2>5, <2>7 DEF Vacant, NewPaths
<1> QED
  BY <1>7, <1>8, <1>9 DEF Movable

\* What can be removed is in the root.
LEMMA RemovableIn ==
    ASSUME ShellCareful, DriverInv, NEW src, Removable(disk, src)
    PROVE  /\ src \in TypedPaths /\ Last(src.words) \in Names
           /\ cd(Root, src, FALSE) = [code |-> 0, dir |-> Root]
<1>1. disk \in Disks /\ Root \in Clusters
  BY DriverFacts
<1>2. src \in TypedPaths /\ Last(src.words) \in Names
  BY DEF Removable
<1>3. PICK g \in [0 .. Len(src.words) - 1 -> Clusters] :
         Finds(disk, Root, src, Len(src.words) - 1, g) /\ g[Len(src.words) - 1] = Root
  BY DEF Removable
<1>4. PICK n \in 0 .. Len(src.words) : n = Len(src.words) - 1 /\ n \in 0 .. n
  BY <1>2, CdLengths
<1>5. Walk(Root, src, n) = [code |-> 0, dir |-> Root]
  BY <1>1, <1>2, <1>3, <1>4, FindsWalk
<1> QED
  BY <1>2, <1>4, <1>5, CdLengths

\* Where the paths lead that mv was given.
LEMMA MovablePaths ==
    ASSUME ShellCareful, DriverInv, NEW src, NEW dst, Movable(src, dst)
    PROVE  /\ src \in TypedPaths /\ Last(src.words) \in Names
           /\ dst \in NewPaths /\ dst \in TypedPaths
           /\ cd(Root, src, TRUE) = [code |-> 3, dir |-> Root]
           /\ cd(Root, src, FALSE) = [code |-> 0, dir |-> Root]
           /\ cd(Root, dst, TRUE).code = 2
           /\ \E c \in Clusters :
                 /\ cd(Root, dst, FALSE) = [code |-> 0, dir |-> c]
                 /\ Unnamed(disk, c, Last(dst.words)) /\ IsDirectoryTable(disk, c)
                 /\ HasEntry(disk.fat, disk.table[c], CopySize)
<1>1. disk \in Disks /\ Root \in Clusters
  BY DriverFacts
<1>2. /\ src \in TypedPaths /\ Last(src.words) \in Names
      /\ dst \in NewPaths /\ dst \in TypedPaths
  BY DEF Movable, Removable, Vacant, NewPaths
<1>4. cd(Root, src, FALSE) = [code |-> 0, dir |-> Root]
  BY RemovableIn DEF Movable
<1>5. PICK i \in UserSlots :
         FirstNamed(disk, Root, Last(src.words), i) /\ ~disk.table[Root][i].dir
  BY DEF Movable, Copyable
<1>6. cd(Root, src, TRUE) = [code |-> 3, dir |-> Root]
  <2>1. PICK x : x = cd(Root, src, TRUE)
    OBVIOUS
  <2>2. Enters([code |-> 0, dir |-> Root], Last(src.words), x)
    BY <1>1, <1>2, <1>4, <2>1, LastEnters
  <2>3. /\ ~Unnamed(disk, Root, Last(src.words))
        /\ \A j : FirstNamed(disk, Root, Last(src.words), j) => j = i
    BY <1>5, FirstUnique
  <2>4. x = [code |-> 3, dir |-> Root]
    BY <1>5, <2>2, <2>3 DEF Enters
  <2> QED
    BY <2>1, <2>4
<1>7. PICK h \in [0 .. Len(dst.words) - 1 -> Clusters] :
         /\ Finds(disk, Root, dst, Len(dst.words) - 1, h)
         /\ LET c == h[Len(dst.words) - 1] IN
            /\ Unnamed(disk, c, Last(dst.words)) /\ IsDirectoryTable(disk, c)
            /\ HasEntry(disk.fat, disk.table[c], CopySize)
  BY DEF Movable, Vacant
<1>8. PICK c \in Clusters : c = h[Len(dst.words) - 1]
  <2>1. Len(dst.words) - 1 \in 0 .. Len(dst.words) - 1
    BY <1>2, CdLengths
  <2> QED
    BY <1>7, <2>1
<1>9. cd(Root, dst, FALSE) = [code |-> 0, dir |-> c]
  <2>1. PICK n \in 0 .. Len(dst.words) : n = Len(dst.words) - 1 /\ n \in 0 .. n
    BY <1>2, CdLengths
  <2>2. Walk(Root, dst, n) = [code |-> 0, dir |-> c]
    <3>1. Finds(disk, Root, dst, n, h) /\ h[n] = c
      BY <1>7, <1>8, <2>1
    <3>2. \A k \in 0 .. n : Walk(Root, dst, k) = [code |-> 0, dir |-> h[k]]
      BY <1>1, <1>2, <3>1, FindsWalk
    <3> QED
      BY <2>1, <3>1, <3>2
  <2> QED
    BY <1>2, <2>1, <2>2, CdLengths
<1>10. Unnamed(disk, c, Last(dst.words))
  BY <1>7, <1>8
<1>11. cd(Root, dst, TRUE).code = 2
  <2>1. PICK x : x = cd(Root, dst, TRUE)
    OBVIOUS
  <2>2. Enters([code |-> 0, dir |-> c], Last(dst.words), x)
    BY <1>1, <1>2, <1>9, <2>1, LastEnters
  <2>3. x = [code |-> 2, dir |-> c]
    BY <1>10, <2>2 DEF Enters, FirstNamed, Unnamed
  <2>4. x.code = 2
    BY <2>3
  <2> QED
    BY <2>1, <2>4
<1> QED
  BY <1>2, <1>4, <1>6, <1>7, <1>8, <1>9, <1>11

\* One call and then another.
LEMMA TwoCalls ==
    ASSUME NEW S, NEW x \in S, NEW y \in S
    PROVE  <<x>> \o <<y>> = <<x, y>>
<1>1. \A s, t \in Seq(S) : Len(s) = 1 /\ Len(t) = 1 =>
         /\ s \o t \in Seq(S) /\ Len(s \o t) = 2
         /\ (s \o t)[1] = s[1] /\ (s \o t)[2] = t[1]
  BY ConcatProperties
<1>2. ASSUME NEW p \in Seq(S), NEW q \in Seq(S),
             Len(p) = 2, Len(q) = 2, p[1] = q[1], p[2] = q[2]
      PROVE  p = q
  <2>1. Len(p) = Len(q) /\ \A i \in 1 .. Len(p) : p[i] = q[i]
    BY <1>2
  <2> QED
    BY <2>1, SeqEqual
<1>3. /\ <<x>> \in Seq(S) /\ Len(<<x>>) = 1 /\ <<x>>[1] = x
      /\ <<y>> \in Seq(S) /\ Len(<<y>>) = 1 /\ <<y>>[1] = y
  OBVIOUS
<1>4. <<x, y>> \in Seq(S) /\ Len(<<x, y>>) = 2 /\ <<x, y>>[1] = x /\ <<x, y>>[2] = y
  OBVIOUS
<1>5. /\ <<x>> \o <<y>> \in Seq(S) /\ Len(<<x>> \o <<y>>) = 2
      /\ (<<x>> \o <<y>>)[1] = x /\ (<<x>> \o <<y>>)[2] = y
  BY <1>1, <1>3, Zenon
<1> QED
  BY <1>2, <1>4, <1>5, Zenon

\* The first call finds the file, and that there is no directory of the new name.
LEMMA MoveHelper ==
    ASSUME ShellCareful, DriverInv, currentDirectory = Root, NEW src, NEW dst,
           Movable(src, dst), calls = <<Helper(src, dst), Rm(src)>>, Call
    PROVE  /\ DriverInv' /\ disk' = disk /\ pending' = pending /\ power' = power
           /\ \E data \in Buffers :
                 /\ data = Buffer(BaseName(Last(src.words)))
                 /\ calls' = <<Mkfile(Root, dst, FALSE, data), Rm(src)>>
<1> DEFINE f == Helper(src, dst)
           rest == <<Rm(src)>>
           name == BaseName(Last(src.words))
<1>1. Head(calls) = f /\ Tail(calls) = rest /\ f.call = "cpHelper"
  BY DEF Helper
<1>2. f.src = src /\ f.dst = dst
  BY DEF Helper
<1> HIDE DEF f
<1>3. cpHelper(f, rest)
  BY <1>1 DEF Call
<1> HIDE DEF rest
<1>4. /\ cd(Root, src, TRUE) = [code |-> 3, dir |-> Root]
      /\ cd(Root, src, FALSE) = [code |-> 0, dir |-> Root]
      /\ cd(Root, dst, TRUE).code = 2
  BY MovablePaths
<1>5. CopyFile(f, rest)
  <2>1. PICK w : w = cd(Root, src, TRUE) /\ w = [code |-> 3, dir |-> Root]
    BY <1>4
  <2>2. w = [code |-> 3, dir |-> Root]
    BY <2>1
  <2>3. w.code # 0 /\ w.code # 2
    BY <2>2
  <2> QED
    BY <1>2, <1>3, <2>1, <2>3 DEF cpHelper
<1>6. PICK i \in UserSlots :
         /\ FirstNamed(disk, Root, Last(src.words), i)
         /\ ~disk.table[Root][i].dir /\ disk.table[Root][i].ext = NoExt
  BY DEF Movable, Copyable
<1>7. /\ read(KernelDriver, Root)
      /\ calls' = <<Mkfile(Root, dst, FALSE, Buffer(name))>> \o rest
  <2>1. PICK w : w = cd(Root, src, FALSE) /\ w = [code |-> 0, dir |-> Root]
    BY <1>4
  <2>2. w.code = 0 /\ w.dir = Root
    <3>1. w = [code |-> 0, dir |-> Root]
      BY <2>1
    <3> QED
      BY <3>1
  <2>3. \E j \in UserSlots : LET e == disk.table[w.dir][j] IN
           e.live /\ ~e.dir /\ e.ext = NoExt /\ e.name = Last(f.src.words)
    BY <1>2, <1>6, <2>2 DEF FirstNamed
  <2>4. (cd(Root, dst, TRUE).code = 0) = FALSE
    <3>1. \A n : n = 2 => n # 0
      OBVIOUS
    <3>2. cd(Root, dst, TRUE).code # 0
      BY <1>4, <3>1
    <3> QED
      BY <3>2
  <2>5. /\ read(KernelDriver, Root)
        /\ calls' = <<Mkfile(Root, dst, cd(Root, dst, TRUE).code = 0, Buffer(name))>> \o rest
    BY <1>2, <1>5, <2>1, <2>2, <2>3 DEF CopyFile
  <2> QED
    BY <2>4, <2>5
<1>8. Buffer(name) \in Buffers
  BY DriverFacts, CopyBufferTyped
<1>9. calls' = <<Mkfile(Root, dst, FALSE, Buffer(name)), Rm(src)>>
  <2>1. ASSUME NEW x, NEW y PROVE <<x>> \o <<y>> = <<x, y>>
    <3>1. x \in {x, y} /\ y \in {x, y}
      OBVIOUS
    <3> QED
      BY <3>1, TwoCalls
  <2> QED
    BY <1>7, <2>1 DEF rest
<1>10. DriverInv' /\ disk' = disk /\ pending' = pending /\ power' = power
  BY <1>7, ReadStep DEF Drivers
<1> QED
  BY <1>8, <1>9, <1>10 DEF name

\* The second writes the copy, and whatever disk that leaves the source can be
\* removed from.
LEMMA MoveMkfile ==
    ASSUME ShellCareful, DriverInv, Idle, NEW src, NEW dst, Movable(src, dst),
           NEW data \in Buffers, calls = <<Mkfile(Root, dst, FALSE, data), Rm(src)>>, Call
    PROVE  /\ Adding /\ calls' = <<Rm(src)>> /\ cache'[ShellDriver] # ZeroFat
           /\ \A d \in AllDisks' : Removable(d, src)
<1> DEFINE f == Mkfile(Root, dst, FALSE, data)
<1>1. Head(calls) = f /\ Tail(calls) = <<Rm(src)>>
  OBVIOUS
<1>2. /\ f.from = Root /\ f.dst = dst /\ f.isdir = FALSE /\ f.data = data
      /\ f.call = "mkfile"
  BY DEF Mkfile
<1>3. Root \in Homes(disk) /\ dst \in NewPaths /\ Removable(disk, src)
  BY DriverFacts, MovablePaths DEF Movable
<1>4. f \in MkfileFrames(disk)
  BY <1>3 DEF Mkfile, MkfileFrames
<1> HIDE DEF f
<1>5. mkfile(f) /\ calls' = <<Rm(src)>>
  BY <1>1, <1>2 DEF Call
<1>6. PICK c \in Clusters :
         /\ cd(Root, dst, FALSE) = [code |-> 0, dir |-> c]
         /\ Unnamed(disk, c, Last(dst.words)) /\ IsDirectoryTable(disk, c)
         /\ HasEntry(disk.fat, disk.table[c], CopySize)
  BY MovablePaths
<1>7. WriteResult(c, Last(dst.words), NoExt, CopySize) = 0
  <2>1. ~Exists(disk.table[c], Last(dst.words), NoExt)
    BY <1>6, ClusterFacts DEF Exists, Unnamed, UserSlots, Slots
  <2> QED
    BY <1>6, <2>1 DEF WriteResult
<1>8. /\ Adding /\ cache'[ShellDriver] # ZeroFat /\ c \in Reach
      /\ \E slot : WriteShows(pending', c, slot, Last(dst.words), CopySize)
  <2>1. PICK w : w = cd(f.from, f.dst, f.isdir) /\ w = [code |-> 0, dir |-> c]
    BY <1>2, <1>6
  <2>2. w.code = 0 /\ w.dir = c
    BY <2>1
  <2> QED
    BY <1>2, <1>4, <1>5, <1>7, <2>1, <2>2, MkfileStep
<1>9. PICK slot : WriteShows(pending', c, slot, Last(dst.words), CopySize)
  BY <1>8
<1>10. ASSUME NEW k \in 1 .. Len(pending') PROVE Removable(pending'[k], src)
  <2>1. PICK w : w = pending'[k]
    OBVIOUS
  <2>2. Keeps(disk, w) /\ OnlyEnters(disk, w, c, slot, Last(dst.words), CopySize)
    BY <1>9, <2>1 DEF WriteShows
  <2>3. w \in Disks /\ CopySize # 0
    BY <2>2, ShellConstants DEF Keeps
  <2> QED
    BY <1>3, <1>6, <1>8, <2>1, <2>2, <2>3, RemovableKept
<1>11. AllDisks' = {disk} \cup {pending'[k] : k \in 1 .. Len(pending')}
  BY <1>8 DEF AllDisks, Adding
<1> QED
  BY <1>3, <1>5, <1>8, <1>10, <1>11

\* The last removes the source, and nothing that leads to a directory in use.
LEMMA MoveRemove ==
    ASSUME ShellCareful, DriverInv, Idle, currentDirectory = Root, NEW src,
           Removable(disk, src), cache[ShellDriver] # ZeroFat, calls = <<Rm(src)>>, Call
    PROVE  Removing /\ calls' = <<>>
<1>1. Head(calls) = Rm(src) /\ Tail(calls) = <<>>
  OBVIOUS
<1>2. Rm(src).call = "rm" /\ Rm(src).path = src
  BY DEF Rm
<1>3. rm(src) /\ calls' = <<>>
  BY <1>1, <1>2 DEF Call
<1>4. /\ disk \in Disks /\ DiskSound(disk) /\ Housed(disk) /\ Settled(disk)
      /\ Root \in Reach /\ Reach = DirectoryClusters(disk) /\ Root \in Clusters
  BY DriverFacts
<1>5. src \in TypedPaths /\ Last(src.words) \in Names
  BY RemovableIn
<1>6. cd(Root, src, FALSE) = [code |-> 0, dir |-> Root]
  BY RemovableIn
<1>7. ASSUME NEW c \in Reach, NEW i \in Slots \ {0},
             cd(currentDirectory, src, FALSE) = [code |-> 0, dir |-> c],
             disk.table[c][i].live, disk.table[c][i].dir,
             disk.table[c][i].name = Last(src.words)
      PROVE  /\ i # 1 /\ disk.table[c][i].cluster # currentDirectory
             /\ Subdirectories(disk, disk.table[c][i].cluster) = {}
  <2>1. c = Root
    <3>1. [code |-> 0, dir |-> c].dir = [code |-> 0, dir |-> Root].dir
      BY <1>6, <1>7
    <3> QED
      BY <3>1
  <2>2. i # 1
    <3>1. disk.table[Root][1].name = DotDot
      BY <1>4, HousedReach DEF HasSelf
    <3>2. DotDot \notin Names
      BY DEF ShellCareful, Careful
    <3> QED
      BY <1>5, <1>7, <2>1, <3>1, <3>2
  <2>3. i \in UserSlots
    BY <2>2, ClusterFacts DEF Slots, UserSlots
  <2>4. disk.table[Root][i].cluster # Root
    BY <1>4, <1>7, <2>1, <2>3, HousedReach DEF LeadsDown
  <2>5. Subdirectories(disk, disk.table[Root][i].cluster) = {}
    BY <1>7, <2>1, <2>3 DEF Removable
  <2> QED
    BY <2>1, <2>2, <2>4, <2>5
<1>8. Removing
  BY <1>3, <1>4, <1>5, <1>7, RmStep
<1> QED
  BY <1>3, <1>8

-----------------------------------------------------------------------------
(* The invariant, command by command.                                       *)

\* What a command finds.
LEMMA ShellFacts ==
    ASSUME ShellCareful, ShellInv
    PROVE  /\ DriverInv /\ currentDirectory \in Reach /\ disk \in AllDisks
           /\ Idle => inserts = <<>> /\ power = "on"
           /\ job = NoJob => calls = <<>>
           /\ Paths \subseteq TypedPaths
<1>1. DriverInv /\ disk \in AllDisks
  BY DEF ShellInv, DriverInv, AllDisks
<1>2. currentDirectory \in Reach
  BY <1>1 DEF ShellInv, HomeInv, Reach
<1>3. Idle => inserts = <<>> /\ power = "on"
  BY DEF ShellInv, PowerInv, Idle
<1>4. job = NoJob => calls = <<>>
  BY DEF ShellInv, CallsInv, NoJob
<1> QED
  BY <1>1, <1>2, <1>3, <1>4, ShellConstants DEF TypedPaths

\* A step that adds keeps the driver's part, the shell's directory and the copy's.
LEMMA AddingKeeps ==
    ASSUME ShellCareful, ShellInv, Idle, Adding, currentDirectory' \in Reach,
           inserts' = inserts
    PROVE  DriverInv' /\ HomeInv' /\ PowerInv' /\ CopyInv'
<1>1. DriverInv /\ inserts = <<>> /\ power = "on"
  BY ShellFacts
<1>2. /\ \A d \in AllDisks' : Reach \subseteq DirectoryClusters(d)
      /\ \A k \in 1 .. Len(pending') :
            StoreOf(IF k = 1 THEN disk ELSE pending'[k - 1]) \subseteq StoreOf(pending'[k])
  BY <1>1, AddingDisks
<1>3. DriverInv' /\ disk' = disk /\ power' = "on"
  BY <1>1 DEF Adding
<1>4. PowerInv'
  BY <1>1, <1>3 DEF ShellInv, PowerInv
<1> QED
  BY <1>2, <1>3, <1>4 DEF HomeInv, CopyInv

\* So does one that removes, if it is not the copy's.
LEMMA RemovingKeeps ==
    ASSUME ShellCareful, ShellInv, Idle, Removing, currentDirectory' = currentDirectory,
           inserts' = inserts, job'.name # "cp"
    PROVE  DriverInv' /\ HomeInv' /\ PowerInv' /\ CopyInv'
<1>1. DriverInv /\ inserts = <<>> /\ power = "on" /\ currentDirectory \in Reach
  BY ShellFacts
<1>2. \A d \in AllDisks' : currentDirectory \in DirectoryClusters(d)
  BY <1>1, RemovingDisks
<1>3. DriverInv' /\ disk' = disk /\ power' = "on"
  BY <1>1 DEF Removing
<1>4. PowerInv'
  BY <1>1, <1>3 DEF ShellInv, PowerInv
<1> QED
  BY <1>2, <1>3, <1>4 DEF HomeInv, CopyInv

\* A command of one step leaves no calls.
LEMMA ShortCommand ==
    ASSUME DriverInv', HomeInv', PowerInv', CopyInv', calls' = <<>>, job'.name # "cp"
    PROVE  ShellInv'
<1>1. CallsInv' /\ MoveInv'
  BY DEF CallsInv, MoveInv
<1> QED
  BY <1>1 DEF ShellInv, DriverInv

\* The shell moves where a careful path leads.
LEMMA CdKeeps ==
    ASSUME ShellCareful, ShellInv, CdCommand
    PROVE  ShellInv' /\ Idle /\ Adding
<1>1. DriverInv /\ currentDirectory \in Reach /\ Paths \subseteq TypedPaths
  BY ShellFacts
<1>2. PICK path \in Paths :
         /\ Type("cd", {}) /\ CarefulPath(path) /\ UNCHANGED <<fatVars, calls>>
         /\ currentDirectory' = LET w == cd(currentDirectory, path, TRUE)
                                IN  IF w.code = 0 THEN w.dir ELSE currentDirectory
  BY DEF CdCommand, ShellCareful
<1>3. Idle /\ job = NoJob /\ job'.name = "cd" /\ inserts' = inserts
  BY <1>2 DEF Type
<1>4. Adding /\ calls' = <<>>
  BY <1>1, <1>2, <1>3, ShellFacts, StillAdds
<1>5. currentDirectory' \in Reach
  <2>1. cd(currentDirectory, path, TRUE).dir \in Reach
    BY <1>1, <1>2, DriverFacts, CarefulCd
  <2> QED
    BY <1>1, <1>2, <2>1
<1>6. DriverInv' /\ HomeInv' /\ PowerInv' /\ CopyInv'
  BY <1>3, <1>4, <1>5, AddingKeeps
<1> QED
  BY <1>3, <1>4, <1>6, ShortCommand

\* A new directory adds its entry, last of all writes.
LEMMA MkdirKeeps ==
    ASSUME ShellCareful, ShellInv, MkdirCommand
    PROVE  ShellInv' /\ Idle /\ Adding
<1>1. DriverInv /\ currentDirectory \in Reach /\ Paths \subseteq TypedPaths
  BY ShellFacts
<1>2. PICK path \in Paths :
         /\ Type("mkdir", {}) /\ Last(path.words) \in Names /\ mkdir(path)
         /\ UNCHANGED <<currentDirectory, calls>>
  BY DEF MkdirCommand, ShellCareful
<1>3. Idle /\ job = NoJob /\ job'.name = "mkdir" /\ inserts' = inserts
  BY <1>2 DEF Type
<1>4. path \in NewPaths
  BY <1>1, <1>2 DEF NewPaths
<1>5. Adding /\ calls' = <<>> /\ currentDirectory' \in Reach
  BY <1>1, <1>2, <1>3, <1>4, ShellFacts, MkdirStep
<1>6. DriverInv' /\ HomeInv' /\ PowerInv' /\ CopyInv'
  BY <1>3, <1>5, AddingKeeps
<1> QED
  BY <1>3, <1>5, <1>6, ShortCommand

\* A careful user's rm is one that keeps the shell's directory and what is below.
LEMMA RmKeeps ==
    ASSUME ShellCareful, ShellInv, RmCommand
    PROVE  ShellInv' /\ Idle /\ Removing
<1>1. DriverInv /\ currentDirectory \in Reach /\ Paths \subseteq TypedPaths
  BY ShellFacts
<1>2. PICK path \in Paths :
         /\ Type("rm", {}) /\ cache[ShellDriver] # ZeroFat /\ CarefulRm(path) /\ rm(path)
         /\ UNCHANGED <<currentDirectory, calls>>
  BY DEF RmCommand, ShellCareful, Careful
<1>3. Idle /\ job = NoJob /\ job'.name = "rm" /\ inserts' = inserts
  BY <1>2 DEF Type
<1>4. ASSUME NEW c \in Reach, NEW i \in Slots \ {0},
             cd(currentDirectory, path, FALSE) = [code |-> 0, dir |-> c],
             disk.table[c][i].live, disk.table[c][i].dir,
             disk.table[c][i].name = Last(path.words)
      PROVE  /\ i # 1 /\ disk.table[c][i].cluster # currentDirectory
             /\ Subdirectories(disk, disk.table[c][i].cluster) = {}
  <2>1. PICK w : w = cd(currentDirectory, path, FALSE)
    OBVIOUS
  <2>2. w = [code |-> 0, dir |-> c]
    BY <1>4, <2>1
  <2>3. w.code = 0 /\ w.dir = c
    BY <2>2
  <2>4. /\ i # 1 /\ IsEmptyDirectory(disk.table[c][i].cluster)
        /\ disk.table[c][i].cluster # currentDirectory
    BY <1>2, <1>4, <2>1, <2>3 DEF CarefulRm
  <2> QED
    BY <2>4 DEF IsEmptyDirectory, Subdirectories
<1>5. path \in TypedPaths
  BY <1>1
<1>6. Removing
  BY <1>1, <1>2, <1>3, <1>4, <1>5, RmStep
<1>7. calls' = <<>>
  BY <1>2, <1>3, ShellFacts
<1>8. DriverInv' /\ HomeInv' /\ PowerInv' /\ CopyInv'
  BY <1>2, <1>3, <1>6, RemovingKeeps
<1> QED
  BY <1>3, <1>6, <1>7, <1>8, ShortCommand

\* cat and exec write nothing, and leave the shell where a careful path leads.
LEMMA OpenKeeps ==
    ASSUME ShellCareful, ShellInv, OpenCommand
    PROVE  ShellInv' /\ Idle /\ Adding
<1>1. DriverInv /\ currentDirectory \in Reach /\ Paths \subseteq TypedPaths
  BY ShellFacts
<1>2. PICK path \in Paths, d \in {ShellDriver, KernelDriver} :
         LET w == cd(currentDirectory, path, FALSE)
             i == findDirEntryIndex(w.dir, BaseName(Last(path.words)))
         IN  /\ Type(IF d = ShellDriver THEN "cat" ELSE "exec", {})
             /\ CarefulPath(path)
             /\ read(d, w.dir) \/ UNCHANGED fatVars
             /\ currentDirectory' \in {w.dir, currentDirectory}
             /\ UNCHANGED calls
  BY DEF OpenCommand, ShellCareful
<1>3. /\ Idle /\ job = NoJob /\ inserts' = inserts
      /\ job'.name = IF d = ShellDriver THEN "cat" ELSE "exec"
  BY <1>2 DEF Type
<1>4. job'.name # "cp"
  BY <1>3
<1>5. Adding /\ calls' = <<>>
  BY <1>1, <1>2, <1>3, ShellFacts, StillAdds, ReadAdds, ShellConstants DEF Drivers
<1>6. currentDirectory' \in Reach
  <2>1. cd(currentDirectory, path, FALSE).dir \in Reach
    BY <1>1, <1>2, DriverFacts, CarefulCd
  <2> QED
    BY <1>1, <1>2, <2>1
<1>7. DriverInv' /\ HomeInv' /\ PowerInv' /\ CopyInv'
  BY <1>3, <1>5, <1>6, AddingKeeps
<1> QED
  BY <1>3, <1>4, <1>5, <1>7, ShortCommand

\* cp starts with one call.
LEMMA CpKeeps ==
    ASSUME ShellCareful, ShellInv, CpCommand
    PROVE  ShellInv' /\ Idle /\ Adding
<1>1. DriverInv /\ currentDirectory \in Reach /\ Paths \subseteq TypedPaths
  BY ShellFacts
<1>2. PICK src \in Paths, dst \in Paths :
         /\ Type("cp", Expected(src, dst)) /\ CarefulTarget(src, dst)
         /\ cp(src, dst, <<>>)
  BY DEF CpCommand, ShellCareful
<1>3. Idle /\ job = NoJob /\ job'.name = "cp" /\ inserts' = inserts
  BY <1>2 DEF Type
<1>4. src \in TypedPaths /\ dst \in NewPaths
  BY <1>1, <1>2 DEF NewPaths, CarefulTarget
<1>5. /\ mkdir(dst) \/ UNCHANGED fatVars
      /\ calls' = <<Helper(src, dst)>> \o <<>>
      /\ currentDirectory' = currentDirectory
  BY <1>2 DEF cp
<1>6. Adding
  BY <1>1, <1>4, <1>5, MkdirStep, StillAdds
<1>7. ASSUME NEW d PROVE calls' \in Seq(CopyFrames(d))
  <2>1. Helper(src, dst) \in CopyFrames(d)
    BY <1>4 DEF Helper, CopyFrames, HelperFrames
  <2>2. <<>> \in Seq(CopyFrames(d))
    OBVIOUS
  <2> QED
    BY <1>5, <2>1, <2>2, PushCall
<1>8. CallsInv' /\ MoveInv'
  BY <1>3, <1>7 DEF CallsInv, MoveInv
<1>9. DriverInv' /\ HomeInv' /\ PowerInv' /\ CopyInv'
  BY <1>1, <1>3, <1>5, <1>6, AddingKeeps
<1> QED
  BY <1>3, <1>6, <1>8, <1>9 DEF ShellInv, DriverInv

\* mv with two.
LEMMA MvKeeps ==
    ASSUME ShellCareful, ShellInv, MvCommand
    PROVE  ShellInv' /\ Idle /\ Adding
<1>1. DriverInv /\ currentDirectory \in Reach /\ Paths \subseteq TypedPaths
  BY ShellFacts
<1>2. PICK src \in Paths, dst \in Paths :
         /\ Type("mv", {})
         /\ \/ /\ currentDirectory = Root /\ FitsBuffer(src) /\ NewTarget(dst)
               /\ CarefulRm(src) /\ CopyThenRemove(src, dst)
            \/ UNCHANGED <<fatVars, currentDirectory, calls>>
  BY DEF MvCommand, ShellCareful
<1>3. Idle /\ job = NoJob /\ job'.name = "mv" /\ inserts' = inserts /\ calls = <<>>
  BY <1>2, ShellFacts DEF Type
<1>4. CASE UNCHANGED <<fatVars, currentDirectory, calls>>
  <2>1. Adding
    BY <1>1, <1>4, StillAdds
  <2>2. DriverInv' /\ HomeInv' /\ PowerInv' /\ CopyInv'
    BY <1>1, <1>3, <1>4, <2>1, AddingKeeps
  <2> QED
    BY <1>3, <1>4, <2>1, <2>2, ShortCommand
<1>5. CASE /\ currentDirectory = Root /\ FitsBuffer(src) /\ NewTarget(dst)
           /\ CarefulRm(src) /\ CopyThenRemove(src, dst)
  <2>1. src \in TypedPaths /\ dst \in TypedPaths
    BY <1>1
  <2>2. Movable(src, dst)
    BY <1>1, <1>5, <2>1, MovableStart
  <2>3. cd(currentDirectory, src, TRUE).code # 0
    <3>1. cd(currentDirectory, src, TRUE).code = 3
      BY <1>5 DEF FitsBuffer
    <3>2. \A n : n = 3 => n # 0
      OBVIOUS
    <3> QED
      BY <3>1, <3>2
  <2>4. /\ UNCHANGED fatVars /\ currentDirectory' = currentDirectory
        /\ calls' = <<Helper(src, dst)>> \o <<Rm(src)>>
    BY <1>5, <2>3 DEF CopyThenRemove, cp
  <2>5. calls' = <<Helper(src, dst), Rm(src)>>
    <3>1. \A x, y : x \in {x, y} /\ y \in {x, y}
      OBVIOUS
    <3> QED
      BY <2>4, <3>1, TwoCalls
  <2>6. Adding
    BY <1>1, <2>4, StillAdds
  <2>7. DriverInv' /\ HomeInv' /\ PowerInv' /\ CopyInv'
    BY <1>1, <1>3, <2>4, <2>6, AddingKeeps
  <2>8. pending' = <<>> /\ disk' = disk
    BY <1>3, <2>4 DEF fatVars, Idle
  <2>9. Moves(src, dst)'
    BY <2>2, <2>5, <2>8 DEF Moves, Movable
  <2>10. MoveInv' /\ CallsInv'
    BY <1>3, <1>5, <2>4, <2>9 DEF MoveInv, CallsInv
  <2> QED
    BY <1>3, <2>6, <2>7, <2>10 DEF ShellInv, DriverInv
<1> QED
  BY <1>2, <1>4, <1>5

\* The calls of cp and mv, one by one.
LEMMA CallKeeps ==
    ASSUME ShellCareful, ShellInv, Call
    PROVE  ShellInv' /\ Idle /\ (Adding \/ Removing)
<1>1. DriverInv /\ currentDirectory \in Reach /\ Paths \subseteq TypedPaths /\ disk \in AllDisks
  BY ShellFacts
<1>2. /\ Idle /\ calls # <<>>
      /\ currentDirectory' = currentDirectory /\ job' = job /\ inserts' = inserts
  BY DEF Call
<1>3. job.name \in {"cp", "mv"}
  BY <1>2 DEF ShellInv, CallsInv
<1>4. CASE job.name = "cp"
  <2>1. calls \in Seq(CopyFrames(disk))
    BY <1>1, <1>4 DEF ShellInv, CallsInv
  <2>2. Adding /\ calls' \in Seq(CopyFrames(disk))
    BY <1>1, <2>1, CopyCall
  <2>3. DriverInv' /\ HomeInv' /\ PowerInv' /\ CopyInv'
    BY <1>1, <1>2, <2>2, AddingKeeps
  <2>4. ASSUME NEW d \in AllDisks' PROVE calls' \in Seq(CopyFrames(d))
    <3>1. DirectoryClusters(disk) \subseteq DirectoryClusters(d)
      BY <1>1, <1>2, <2>2, AddingDisks DEF Reach
    <3> QED
      BY <2>2, <3>1, FramesGrow
  <2>5. CallsInv' /\ MoveInv'
    BY <1>2, <1>4, <2>4 DEF CallsInv, MoveInv
  <2> QED
    BY <1>2, <2>2, <2>3, <2>5 DEF ShellInv, DriverInv
<1>5. CASE job.name = "mv"
  <2>1. PICK src \in Paths, dst \in Paths : currentDirectory = Root /\ Moves(src, dst)
    BY <1>2, <1>5 DEF ShellInv, MoveInv
  <2>2. CallsInv'
    BY <1>2, <1>5 DEF CallsInv
  <2>3. CASE calls = <<Helper(src, dst), Rm(src)>> /\ Movable(src, dst)
    <3>1. /\ DriverInv' /\ disk' = disk /\ pending' = pending /\ power' = power
          /\ \E data \in Buffers : calls' = <<Mkfile(Root, dst, FALSE, data), Rm(src)>>
      BY <1>1, <2>1, <2>3, MoveHelper
    <3>7. Adding
      BY <3>1 DEF Adding
    <3>2. DriverInv' /\ HomeInv' /\ PowerInv' /\ CopyInv'
      BY <1>1, <1>2, <3>7, AddingKeeps
    <3>3. PICK data \in Buffers : calls' = <<Mkfile(Root, dst, FALSE, data), Rm(src)>>
      BY <3>1
    <3>4. calls'[1].data = data /\ calls'[1].call = "mkfile"
      BY <3>3 DEF Mkfile
    <3>5. Moves(src, dst)'
      BY <1>2, <2>3, <3>1, <3>3, <3>4 DEF Moves, Movable, Idle
    <3>6. MoveInv'
      BY <1>2, <2>1, <3>5 DEF MoveInv
    <3> QED
      BY <1>2, <2>2, <3>2, <3>6, <3>7 DEF ShellInv, DriverInv
  <2>4. ASSUME NEW data \in Buffers, calls = <<Mkfile(Root, dst, FALSE, data), Rm(src)>>,
               Movable(src, dst)
        PROVE  ShellInv' /\ Adding
    <3>1. /\ Adding /\ calls' = <<Rm(src)>> /\ cache'[ShellDriver] # ZeroFat
          /\ \A d \in AllDisks' : Removable(d, src)
      BY <1>1, <1>2, <2>4, MoveMkfile
    <3>2. DriverInv' /\ HomeInv' /\ PowerInv' /\ CopyInv'
      BY <1>1, <1>2, <3>1, AddingKeeps
    <3>3. Moves(src, dst)'
      BY <3>1 DEF Moves
    <3>4. MoveInv'
      BY <1>2, <2>1, <3>3 DEF MoveInv
    <3> QED
      BY <2>2, <3>1, <3>2, <3>4 DEF ShellInv, DriverInv
  <2>5. CASE /\ calls = <<Rm(src)>> /\ cache[ShellDriver] # ZeroFat
             /\ \A d \in AllDisks : Removable(d, src)
    <3>1. Removing /\ calls' = <<>>
      BY <1>1, <1>2, <2>1, <2>5, MoveRemove
    <3>2. DriverInv' /\ HomeInv' /\ PowerInv' /\ CopyInv'
      BY <1>2, <1>5, <3>1, RemovingKeeps
    <3> QED
      BY <1>2, <1>5, <3>1, <3>2, ShortCommand
  <2> QED
    BY <1>2, <2>1, <2>3, <2>4, <2>5 DEF Moves
<1> QED
  BY <1>3, <1>4, <1>5

\* Between two commands there is nothing to write and nothing to call.
LEMMA ReturnKeeps ==
    ASSUME ShellCareful, ShellInv, Return
    PROVE  ShellInv' /\ Idle /\ Adding
<1>1. DriverInv /\ currentDirectory \in Reach
  BY ShellFacts
<1>2. /\ Idle /\ calls' = <<>> /\ job' = NoJob /\ inserts' = inserts
      /\ currentDirectory' = currentDirectory /\ UNCHANGED fatVars
  BY DEF Return
<1>3. Adding
  BY <1>1, <1>2, StillAdds
<1>4. DriverInv' /\ HomeInv' /\ PowerInv' /\ CopyInv'
  BY <1>1, <1>2, <1>3, AddingKeeps
<1>5. job'.name # "cp"
  BY <1>2 DEF NoJob
<1> QED
  BY <1>2, <1>3, <1>4, <1>5, ShortCommand

\* A run of the inserter is a whole write on a disk nobody uses.
LEMMA InsertKeeps ==
    ASSUME ShellCareful, ShellInv, Insert
    PROVE  ShellInv'
<1>1. DriverInv /\ PowerInv
  BY ShellFacts DEF ShellInv
<1>2. /\ DriverInv' /\ pending' = <<>> /\ inserts' \in Seq(Insertions)
      /\ \A c \in Clusters : IsDirectoryTable(disk', c) => c \in Reach'
  BY <1>1, InsertStep
<1>3. inserts # <<>> /\ UNCHANGED <<power, currentDirectory, calls, job>>
  BY DEF Insert
<1>4. /\ power = "off" /\ calls = <<>> /\ job = NoJob /\ currentDirectory = Root
  BY <1>1, <1>3 DEF PowerInv
<1>5. PowerInv'
  BY <1>2, <1>3, <1>4 DEF PowerInv
<1>6. AllDisks' = {disk'} /\ CopyInv'
  <2>1. \A k \in 1 .. Len(<<>>) : FALSE
    OBVIOUS
  <2> QED
    BY <1>2, <2>1 DEF AllDisks, CopyInv
<1>7. HomeInv'
  <2>1. Housed(disk') /\ disk' \in Disks
    BY <1>2, <1>6 DEF DriverInv, HousedInv, FatTyped
  <2>2. Root \in DirectoryClusters(disk')
    BY <2>1, ReachThrough DEF Housed, Root
  <2> QED
    BY <1>3, <1>4, <1>6, <2>2 DEF HomeInv
<1>8. calls' = <<>> /\ job'.name # "cp"
  BY <1>3, <1>4 DEF NoJob
<1> QED
  BY <1>2, <1>5, <1>6, <1>7, <1>8, ShortCommand

\* A boot finds the disk formatted and writes nothing.
LEMMA BootKeeps ==
    ASSUME ShellCareful, ShellInv, Boot
    PROVE  ShellInv'
<1>1. DriverInv /\ PowerInv /\ HomeInv
  BY ShellFacts DEF ShellInv
<1>2. /\ inserts = <<>> /\ power = "off" /\ initialize_filesystem_fat32
      /\ UNCHANGED <<currentDirectory, calls, job, inserts>>
  BY DEF Boot, initialize_filesystem_fat32, shellVars
<1>3. /\ DriverInv' /\ AllDisks' \subseteq AllDisks /\ pending' = pending /\ power' = "on"
  BY <1>1, <1>2, MachineStep
<1>4. calls = <<>> /\ job = NoJob
  BY <1>1, <1>2 DEF PowerInv
<1>5. PowerInv' /\ HomeInv'
  BY <1>1, <1>2, <1>3 DEF PowerInv, HomeInv
<1>6. calls' = <<>> /\ job'.name # "cp"
  BY <1>2, <1>4 DEF NoJob
<1>7. CopyInv'
  BY <1>6 DEF CopyInv
<1> QED
  BY <1>3, <1>5, <1>6, <1>7, ShortCommand

\* What is left to be written still adds, and mv's source may still be removed.
LEMMA WriteKeepsInv ==
    ASSUME ShellCareful, ShellInv, Write
    PROVE  ShellInv'
<1>1. DriverInv /\ pending \in Seq(Disks) /\ power \in {"on", "off"}
  BY ShellFacts, DriverFacts DEF ShellInv, PowerInv
<1>2. /\ DiskWrite /\ UNCHANGED <<currentDirectory, calls, job, inserts>>
  BY DEF Write, shellVars
<1>3. /\ pending # <<>> /\ disk' = Head(pending) /\ pending' = Tail(pending)
      /\ cache' = cache /\ (power' = "on" \/ power' = power)
  BY <1>2 DEF DiskWrite
<1>4. DriverInv' /\ AllDisks' \subseteq AllDisks
  BY <1>1, <1>2, MachineStep
<1>5. HomeInv'
  BY <1>2, <1>4 DEF ShellInv, HomeInv
<1>6. PowerInv'
  <2>1. power = "on" /\ inserts = <<>>
    BY <1>1, <1>3 DEF ShellInv, PowerInv, CacheInv
  <2> QED
    BY <1>2, <1>3, <2>1 DEF ShellInv, PowerInv
<1>7. CallsInv'
  BY <1>2, <1>4 DEF ShellInv, CallsInv
<1>8. MoveInv'
  <2> SUFFICES ASSUME job.name = "mv", calls # <<>>
               PROVE  MoveInv'
    BY <1>2 DEF MoveInv
  <2>1. PICK src \in Paths, dst \in Paths : currentDirectory = Root /\ Moves(src, dst)
    BY DEF ShellInv, MoveInv
  <2>2. /\ calls = <<Rm(src)>> /\ cache[ShellDriver] # ZeroFat
        /\ \A d \in AllDisks : Removable(d, src)
    BY <1>3, <2>1 DEF Moves
  <2>3. Moves(src, dst)'
    BY <1>2, <1>3, <1>4, <2>2 DEF Moves
  <2> QED
    BY <1>2, <2>1, <2>3 DEF MoveInv
<1>9. CopyInv'
  <2> SUFFICES ASSUME job.name = "cp", NEW k \in 1 .. Len(pending')
               PROVE  StoreOf(IF k = 1 THEN disk' ELSE pending'[k - 1])
                         \subseteq StoreOf(pending'[k])
    BY <1>2 DEF CopyInv
  <2>1. \A s \in Seq(Disks) : s # <<>> =>
           /\ Head(s) = s[1]
           /\ \A j \in 1 .. Len(Tail(s)) : /\ j + 1 \in 1 .. Len(s) /\ Tail(s)[j] = s[j + 1]
                                           /\ j # 1 => Tail(s)[j - 1] = s[j]
    OBVIOUS
  <2>2. PICK j \in Nat : j = k + 1
    OBVIOUS
  <2>3. /\ j \in 1 .. Len(pending) /\ j # 1 /\ j - 1 = k /\ pending'[k] = pending[j]
        /\ (IF k = 1 THEN disk' ELSE pending'[k - 1]) = pending[k]
    BY <1>1, <1>3, <2>1, <2>2
  <2>4. StoreOf(pending[j - 1]) \subseteq StoreOf(pending[j])
    BY <2>3 DEF ShellInv, CopyInv
  <2> QED
    BY <2>3, <2>4
<1> QED
  BY <1>4, <1>5, <1>6, <1>7, <1>8, <1>9 DEF ShellInv, DriverInv

\* A power failure leaves one of the disks on the way, and the shell starts in the root.
LEMMA CrashKeeps ==
    ASSUME ShellCareful, ShellInv, Crash
    PROVE  ShellInv'
<1>1. DriverInv /\ PowerInv
  BY ShellFacts DEF ShellInv
<1>2. /\ PowerOff /\ currentDirectory' = Root /\ calls' = <<>> /\ job' = NoJob
      /\ inserts' = inserts /\ power # "off" /\ power' = "off" /\ disk' = disk
      /\ pending' = <<>>
  BY DEF Crash, PowerOff
<1>3. DriverInv' /\ AllDisks' \subseteq AllDisks
  BY <1>1, <1>2, MachineStep
<1>4. inserts = <<>>
  BY <1>1, <1>2 DEF PowerInv
<1>5. PowerInv'
  BY <1>1, <1>2, <1>4 DEF PowerInv
<1>6. AllDisks' = {disk}
  <2>1. \A k \in 1 .. Len(<<>>) : FALSE
    OBVIOUS
  <2> QED
    BY <1>2, <2>1 DEF AllDisks
<1>7. HomeInv'
  BY <1>1, <1>2, <1>6, DriverFacts DEF HomeInv
<1>8. job'.name # "cp"
  BY <1>2 DEF NoJob
<1>9. CopyInv'
  BY <1>8 DEF CopyInv
<1> QED
  BY <1>2, <1>3, <1>5, <1>7, <1>8, <1>9, ShortCommand

\* Nor does a step that leaves everything alone.
LEMMA StutterKeeps ==
    ASSUME ShellInv, UNCHANGED vars
    PROVE  ShellInv'
<1>1. /\ UNCHANGED fatVars
      /\ UNCHANGED <<disk, cache, pending, power>>
      /\ UNCHANGED <<currentDirectory, calls, job, inserts>>
  BY DEF vars, fatVars, shellVars
<1>2. DriverInv'
  BY <1>1, StillInv DEF ShellInv, DriverInv
<1>3. AllDisks' = AllDisks /\ Reach' = Reach
  BY <1>1 DEF AllDisks, Reach
<1>4. HomeInv' /\ PowerInv'
  BY <1>1, <1>3 DEF ShellInv, HomeInv, PowerInv
<1>5. CallsInv'
  BY <1>1, <1>3 DEF ShellInv, CallsInv
<1>6. \A src, dst : Moves(src, dst) => Moves(src, dst)'
  BY <1>1, <1>3 DEF Moves, Movable
<1>7. MoveInv'
  BY <1>1, <1>6 DEF ShellInv, MoveInv
<1>8. CopyInv'
  BY <1>1 DEF ShellInv, CopyInv
<1> QED
  BY <1>2, <1>4, <1>5, <1>7, <1>8 DEF ShellInv, DriverInv

\* Every step keeps the invariant.
LEMMA ShellInvStep ==
    ASSUME ShellCareful, ShellInv, [Next]_vars
    PROVE  ShellInv'
  BY CdKeeps, MkdirKeeps, RmKeeps, OpenKeeps, CpKeeps, MvKeeps, CallKeeps, ReturnKeeps,
     InsertKeeps, BootKeeps, WriteKeepsInv, CrashKeeps, StutterKeeps DEF Next

\* The disk the inserter formats: a root and nothing in it.
LEMMA FormattedDiskHoused ==
    LET d == FormattedDisk
    IN  /\ d \in Disks /\ DiskSound(d) /\ Housed(d)
        /\ \A c \in Clusters : IsDirectoryTable(d, c) => c = Root
<1> DEFINE t == init_directory_table(RootName, Root, NoExt)
<1>1. /\ Root \in Clusters /\ NoExt \in Exts /\ Root # 0
      /\ BlankDisk \in Disks /\ BlankDisk.table \in [Clusters -> Tables]
      /\ \A c \in Clusters : BlankDisk.table[c] = NoTable
  BY BlankDiskTyped, ClusterFacts, FatConstants
     DEF BlankDisk, Root, ROOT_CLUSTER_NUMBER, Disks
<1>2. /\ t \in Tables /\ (\A i \in UserSlots : ~t[i].live)
      /\ SelfEntries(t, RootName, Root)
  BY <1>1, NewTableFacts
<1> HIDE DEF t
<1>3. FormattedFat \in Fats
  BY ClusterFacts DEF FormattedFat, Fats
<1>4. PICK d \in Disks : d = FormattedDisk
  BY <1>1, <1>2, <1>3 DEF FormattedDisk, Disks, t
<1>5. /\ d.signed
      /\ \A c \in Clusters : d.table[c] = IF c = Root THEN t ELSE NoTable
  BY <1>1, <1>4 DEF FormattedDisk, Disks, t
<1>6. \A c \in Clusters :
         /\ \A i \in UserSlots : ~d.table[c][i].live
         /\ IsDirectoryTable(d, c) => c = Root
         /\ d.table[c][1].live => d.table[c][1].name = DotDot
  BY <1>2, <1>5, NoTableFacts, ClusterFacts DEF SelfEntries, IsDirectoryTable
<1>7. LivePlaces(d) = {}
  BY <1>6 DEF LivePlaces
<1>8. DiskSound(d)
  BY <1>6, <1>7
     DEF DiskSound, AllChained, AllApart, AllRooted, ParentsNamed, UnsignedIsEmpty
<1>9. d.table[Root] = t /\ d.table[0] = NoTable
  BY <1>1, <1>5, ClusterFacts
<1>10. Walkable(d) /\ d.table[Root][1].cluster = Root
  BY <1>2, <1>5, <1>9 DEF Walkable, IsDirectoryTable, SelfEntries, Root
<1>11. \A i \in Slots : ~d.table[0][i].live
  BY <1>9, NoTableFacts
<1>12. TablesHoused(d) /\ EntriesHoused(d)
  BY <1>2, <1>6, <1>7, <1>9 DEF TablesHoused, EntriesHoused, SelfEntries
<1> QED
  BY <1>4, <1>6, <1>8, <1>10, <1>11, <1>12 DEF Housed

\* The shell has not been started, and there is nothing but the inserter's list.
LEMMA ShellInvInit ==
    ASSUME Init
    PROVE  ShellInv
<1>1. /\ disk = FormattedDisk /\ cache = [d \in Drivers |-> ZeroFat] /\ pending = <<>>
      /\ power = "off" /\ currentDirectory = Root /\ calls = <<>> /\ job = NoJob
      /\ inserts \in Images
  BY DEF Init
<1>2. /\ disk \in Disks /\ DiskSound(disk) /\ Housed(disk)
      /\ \A c \in Clusters : IsDirectoryTable(disk, c) => c = Root
  BY <1>1, FormattedDiskHoused
<1>3. (\A k \in 1 .. Len(pending) : FALSE) /\ AllDisks = {disk}
  <2>1. \A k \in 1 .. Len(<<>>) : FALSE
    OBVIOUS
  <2> QED
    BY <1>1, <2>1 DEF AllDisks
<1>4. Root \in DirectoryClusters(disk) /\ Root \in Reach
  BY <1>2, ReachThrough DEF Housed, Root, Reach
<1>5. FatTyped
  BY <1>1, <1>2, ZeroFatTyped DEF FatTyped
<1>6. CacheInv
  BY <1>1, FatConstants DEF CacheInv, Drivers
<1>7. SoundInv /\ HousedInv /\ HomeInv
  BY <1>1, <1>2, <1>3, <1>4 DEF SoundInv, HousedInv, HomeInv
<1>8. PowerInv
  BY <1>1, <1>2, <1>4, InsertionsTyped DEF PowerInv
<1>9. CallsInv /\ MoveInv /\ CopyInv
  BY <1>1 DEF CallsInv, MoveInv, CopyInv, NoJob
<1> QED
  BY <1>5, <1>6, <1>7, <1>8, <1>9 DEF ShellInv

-----------------------------------------------------------------------------
(* Theorems.                                                                *)

\* The invariant of careful users.
THEOREM ShellAlways ==
    ASSUME ShellCareful
    PROVE  Spec => []ShellInv
<1>1. Init => ShellInv
  BY ShellInvInit
<1>2. ShellInv /\ [Next]_vars => ShellInv'
  BY ShellInvStep
<1> QED
  BY <1>1, <1>2, PTL DEF Spec

\* Whatever the commands write and delete, through cp's recursion and mv's stages and
\* wherever the power fails, every chain ends and no cluster is in two.
THEOREM ShellChains ==
    ASSUME ShellCareful
    PROVE  Spec => []ChainsSound
<1>1. ShellInv => ChainsSound
  BY SoundChains DEF ShellInv
<1> QED
  BY <1>1, ShellAlways, PTL

\* So directories lead back to where they are listed.
THEOREM ShellTree ==
    ASSUME ShellCareful
    PROVE  Spec => []TreeSound
<1>1. ShellInv => TreeSound
  BY SoundTree DEF ShellInv
<1> QED
  BY <1>1, ShellAlways, PTL

\* A disk changes when it is written, and before the first boot.
LEMMA DiskChanges ==
    ASSUME Next
    PROVE  disk' = disk \/ Insert \/ Write
<1>1. ASSUME Boot PROVE disk' = disk
  BY <1>1 DEF Boot, initialize_filesystem_fat32
<1>2. ASSUME Crash PROVE disk' = disk
  BY <1>2 DEF Crash, PowerOff
<1>3. ASSUME NEW path, mkdir(path) PROVE disk' = disk
  BY <1>3 DEF mkdir, write, fatVars
<1>4. ASSUME NEW path, rm(path) PROVE disk' = disk
  BY <1>4 DEF rm, delete, fatVars
<1>5. ASSUME CdCommand \/ MkdirCommand \/ RmCommand \/ Return PROVE disk' = disk
  BY <1>3, <1>4, <1>5 DEF CdCommand, MkdirCommand, RmCommand, Return, fatVars
<1>6. ASSUME OpenCommand PROVE disk' = disk
  BY <1>6 DEF OpenCommand, read, fatVars
<1>7. ASSUME NEW src, NEW dst, NEW rest, cp(src, dst, rest) PROVE disk' = disk
  BY <1>3, <1>7 DEF cp, fatVars
<1>8. ASSUME CpCommand \/ MvCommand PROVE disk' = disk
  <2>1. CASE CpCommand
    BY <1>7, <2>1 DEF CpCommand
  <2>2. CASE MvCommand
    <3>1. \/ \E src, dst \in Paths : CopyThenRemove(src, dst)
          \/ UNCHANGED <<fatVars, currentDirectory, calls>>
      BY <2>2, Zenon DEF MvCommand
    <3> QED
      BY <1>7, <3>1 DEF CopyThenRemove, fatVars
  <2> QED
    BY <1>8, <2>1, <2>2
<1>9. ASSUME NEW f, NEW rest, cpHelper(f, rest) PROVE disk' = disk
  <2>1. CopyFile(f, rest) \/ UNCHANGED fatVars
    BY <1>9, Zenon DEF cpHelper
  <2>2. CopyFile(f, rest) => read(KernelDriver, Root) \/ UNCHANGED fatVars
    BY Zenon DEF CopyFile
  <2> QED
    BY <2>1, <2>2 DEF read, fatVars
<1>10. ASSUME NEW f, NEW rest, CopyEntries(f, rest) PROVE disk' = disk
  BY <1>3, <1>10 DEF CopyEntries, CopyEntry, read, fatVars
<1>11. ASSUME NEW f, mkfile(f) PROVE disk' = disk
  BY <1>11 DEF mkfile, write, fatVars
<1>12. ASSUME Call PROVE disk' = disk
  BY <1>4, <1>9, <1>10, <1>11, <1>12 DEF Call
<1> QED
  BY <1>1, <1>2, <1>5, <1>6, <1>8, <1>12 DEF Next

\* A copy changes no entry there was, in any directory and at whichever of its writes
\* the power fails.
THEOREM CopyAdds ==
    ASSUME ShellCareful
    PROVE  Spec => CopyOnlyAdds
<1>1. ShellInv /\ [Next]_vars =>
         [job.name = "cp" => {Stored(p) : p \in Places} \subseteq {Stored(p) : p \in Places}']_disk
  <2> SUFFICES ASSUME ShellInv, [Next]_vars, disk' # disk, job.name = "cp"
               PROVE  StoreOf(disk) \subseteq StoreOf(disk')
    BY StoreIsStored
  <2>1. Insert \/ Write
    BY DiskChanges DEF vars, fatVars
  <2>2. ~Insert
    BY DEF Insert, ShellInv, PowerInv, NoJob
  <2>3. pending \in Seq(Disks) /\ pending # <<>> /\ disk' = Head(pending)
    BY <2>1, <2>2 DEF Write, DiskWrite, ShellInv, FatTyped
  <2>4. 1 \in 1 .. Len(pending) /\ disk' = pending[1]
    BY <2>3
  <2> QED
    BY <2>4 DEF ShellInv, CopyInv
<1> QED
  BY <1>1, ShellAlways, PTL DEF Spec, CopyOnlyAdds

-----------------------------------------------------------------------------
(* The data.                                                                *)

\* What is read through the entry at a place, and through all entries.
DataAt(d, p) == Range(StoredOn(d, p).contents)
DataIn(d) == UNION {DataAt(d, p) : p \in PlacesOf(d)}

\* No slot before that of a file carries the file's name and extension, be it empty
\* by now, but a directory's.
TableFiled(t) ==
    \A i, j \in UserSlots :
        /\ i < j /\ t[j].live /\ ~t[j].dir
        /\ t[i].name = t[j].name /\ t[i].ext = t[j].ext
        => t[i].dir
FiledInv == \A d \in AllDisks : TableFiled(d.table[Root])

\* From disk to disk no command but rm loses data.
GrowInv ==
    job.name # "rm" =>
        \A k \in 1 .. Len(pending) :
            DataIn(IF k = 1 THEN disk ELSE pending[k - 1]) \subseteq DataIn(pending[k])

\* The entries of the root that rm may find under a name: what the files among them
\* hold is in a buffer, or elsewhere on the disk; the directories are empty.
Named(d, name) == {p \in PlacesOf(d) : p[1] = Root /\ Entry(d, p).name = name}
Carries(d, name, buf) ==
    \A p \in Named(d, name) : DataAt(d, p) \subseteq Range(buf)
Covered(d, name) ==
    \A p \in Named(d, name) :
        \E q \in PlacesOf(d) : q # p /\ DataAt(d, p) \subseteq DataAt(d, q)
EmptyDirs(d, name) ==
    \A p \in Named(d, name) :
        Entry(d, p).dir => LiveEntries(d, Entry(d, p).cluster) = {}

\* What mv is about to remove is in the buffer that it is about to write, and once
\* that is on its way, will be on the disk a second time.
Saved(name) ==
    LET f == calls[1] IN
    /\ f.call = "cpHelper" => Carries(disk, name, Buffer(name)) /\ EmptyDirs(disk, name)
    /\ f.call = "mkfile" => Carries(disk, name, f.data) /\ EmptyDirs(disk, name)
    /\ f.call = "rm" => Covered(DiskToCome, name) /\ EmptyDirs(DiskToCome, name)
SavedInv ==
    job.name = "mv" /\ calls # <<>> =>
        \E src, dst \in Paths : Moves(src, dst) /\ Saved(Last(src.words))

DataInv == FiledInv /\ GrowInv /\ SavedInv

\* What the shell calls the data of a disk is what is read through its entries.
LEMMA StoredIsData == StoredData = DataIn(disk) /\ StoredData' = DataIn(disk')
<1> DEFINE Along(d) == UNION {Range(DataOn(d, Chain(d.fat, Entry(d, p).cluster))) :
                                 p \in {q \in PlacesOf(d) : ~Entry(d, q).dir}}
<1>1. StoredData = Along(disk) /\ StoredData' = Along(disk')
  BY DEF StoredData, PlacesOf, DataOn, Entry, Places, Reach, EntryAt, ChainOf, DataAlong
<1>2. ASSUME NEW d PROVE DataIn(d) = Along(d)
  <2>1. Range(<<>>) = {}
    <3>1. DOMAIN <<>> = {}
      OBVIOUS
    <3> QED
      BY <3>1 DEF Range
  <2>2. ASSUME NEW p \in PlacesOf(d)
        PROVE  /\ Entry(d, p).dir => DataAt(d, p) = {}
               /\ ~Entry(d, p).dir =>
                     DataAt(d, p) = Range(DataOn(d, Chain(d.fat, Entry(d, p).cluster)))
    BY <2>1 DEF DataAt, StoredOn
  <2>3. ASSUME NEW x \in DataIn(d) PROVE x \in Along(d)
    BY <2>2, <2>3 DEF DataIn
  <2>4. ASSUME NEW x \in Along(d) PROVE x \in DataIn(d)
    BY <2>2, <2>4 DEF DataIn
  <2> QED
    BY <2>3, <2>4
<1> QED
  BY <1>1, <1>2

\* The data of an entry is that of the disk.
LEMMA DataOfPlaces ==
    ASSUME NEW d, NEW x
    PROVE  x \in DataIn(d) <=> \E p \in PlacesOf(d) : x \in DataAt(d, p)
  BY DEF DataIn

\* Where more is stored there is more data.
LEMMA DataGrows ==
    ASSUME NEW d, NEW w, StoreOf(d) \subseteq StoreOf(w)
    PROVE  DataIn(d) \subseteq DataIn(w)
<1> SUFFICES ASSUME NEW x, x \in DataIn(d) PROVE x \in DataIn(w)
  OBVIOUS
<1>1. PICK p \in PlacesOf(d) : x \in DataAt(d, p)
  BY DataOfPlaces
<1>2. PICK q \in PlacesOf(w) : StoredOn(w, q) = StoredOn(d, p)
  BY DEF StoreOf
<1> QED
  BY <1>1, <1>2, DataOfPlaces DEF DataAt

\* And where all places but one are left with what is stored there, and the data of that
\* one is at others, no less.
LEMMA DataLeft ==
    ASSUME NEW d, NEW w, NEW old, PlacesOf(d) \ {old} \subseteq PlacesOf(w),
           \A p \in PlacesOf(d) \ {old} : StoredOn(w, p) = StoredOn(d, p),
           \A x \in DataAt(d, old) : \E q \in PlacesOf(d) \ {old} : x \in DataAt(d, q)
    PROVE  DataIn(d) \subseteq DataIn(w)
<1> SUFFICES ASSUME NEW x, x \in DataIn(d) PROVE x \in DataIn(w)
  OBVIOUS
<1>1. PICK p \in PlacesOf(d) \ {old} : x \in DataAt(d, p)
  BY DataOfPlaces
<1> QED
  BY <1>1, DataOfPlaces DEF DataAt

\* A new entry is not behind one of its name, unless that is a directory's.
LEMMA FiledEntered ==
    ASSUME NEW d, NEW w, Root \in DirectoryClusters(d), TableFiled(d.table[Root]),
           NEW parent, NEW slot, NEW name, NEW size,
           OnlyEnters(d, w, parent, slot, name, size)
    PROVE  TableFiled(w.table[Root])
<1>1. \A i \in UserSlots : w.table[Root][i] = d.table[Root][i]
                           \/ (i = slot /\ Takes(d, Root, i, w.table[Root][i]))
  BY ClusterFacts DEF OnlyEnters
<1> SUFFICES ASSUME NEW i \in UserSlots, NEW j \in UserSlots, i < j,
                    w.table[Root][j].live, ~w.table[Root][j].dir,
                    w.table[Root][i].name = w.table[Root][j].name,
                    w.table[Root][i].ext = w.table[Root][j].ext
             PROVE  w.table[Root][i].dir
  BY DEF TableFiled
<1>2. i # j
  BY FatConstants DEF UserSlots
<1>3. CASE w.table[Root][i] = d.table[Root][i] /\ w.table[Root][j] = d.table[Root][j]
  BY <1>3 DEF TableFiled
<1>4. CASE j = slot /\ Takes(d, Root, j, w.table[Root][j])
  <2>1. w.table[Root][i] = d.table[Root][i]
    BY <1>1, <1>2, <1>4
  <2> QED
    BY <1>4, <2>1 DEF Takes
<1>5. CASE i = slot /\ Takes(d, Root, i, w.table[Root][i])
  <2>1. w.table[Root][j] = d.table[Root][j]
    BY <1>1, <1>2, <1>5
  <2> QED
    BY <1>5, <2>1 DEF Takes
<1> QED
  BY <1>1, <1>3, <1>4, <1>5

\* A deletion moves nothing.
LEMMA FiledUnlisted ==
    ASSUME NEW d, NEW w, TableFiled(d.table[Root]), OnlyUnlists(d, w)
    PROVE  TableFiled(w.table[Root])
<1>1. Root \in Clusters /\ UserSlots \subseteq Slots
  BY ClusterFacts DEF Root
<1> QED
  BY <1>1 DEF TableFiled, OnlyUnlists

\* The first live entry that rm finds in the root is one of the name.
LEMMA RemovedNamed ==
    ASSUME ShellCareful, DriverInv, NEW name \in Names, NEW ext,
           Deletable(disk.table[Root], name, ext) # {}
    PROVE  LET i == Min(Deletable(disk.table[Root], name, ext))
           IN  i \in UserSlots /\ <<Root, i>> \in Named(disk, name)
<1> DEFINE found == Deletable(disk.table[Root], name, ext)
           i == Min(found)
<1>1. /\ disk \in Disks /\ DiskSound(disk) /\ Housed(disk) /\ Settled(disk)
      /\ Root \in DirectoryClusters(disk)
  BY DriverFacts
<1>2. i \in found
  <2>1. found \in SUBSET Nat
    BY ClusterFacts DEF Deletable, Slots
  <2> HIDE DEF found
  <2> QED
    BY <2>1, MinFacts DEF found
<1> HIDE DEF i
<1>3. i \in Slots \ {0} /\ disk.table[Root][i].live /\ disk.table[Root][i].name = name
  BY <1>2 DEF Deletable
<1>4. i # 1
  <2>1. disk.table[Root][1].name = DotDot
    BY <1>1, HousedReach DEF HasSelf
  <2>2. DotDot \notin Names
    BY DEF ShellCareful, Careful
  <2> QED
    BY <1>3, <2>1, <2>2
<1>5. i \in UserSlots
  BY <1>3, <1>4, ClusterFacts DEF Slots, UserSlots
<1>6. <<Root, i>> \in PlacesOf(disk) /\ Entry(disk, <<Root, i>>).name = name
  BY <1>1, <1>3, <1>5, PlacesOfFacts DEF Entry
<1> QED
  BY <1>5, <1>6 DEF Named, i

\* The disks of that deletion have all the data there was.
LEMMA RemovedSaved ==
    ASSUME ShellCareful, DriverInv, Idle, cache[ShellDriver] # ZeroFat, NEW name,
           Covered(disk, name), EmptyDirs(disk, name), NEW i \in UserSlots,
           <<Root, i>> \in Named(disk, name), NEW writes,
           writes = DeleteDisks(ShellDriver, Root, i)
    PROVE  \A k \in 1 .. Len(writes) :
              DataIn(IF k = 1 THEN disk ELSE writes[k - 1]) \subseteq DataIn(writes[k])
<1> DEFINE old == <<Root, i>>
           table == [disk.table[Root] EXCEPT ![i].live = FALSE]
<1>1. /\ disk \in Disks /\ cache \in [Drivers -> Fats] /\ DiskSound(disk) /\ Settled(disk)
      /\ ShellDriver \in Drivers /\ Root \in DirectoryClusters(disk) /\ Root \in Clusters
  BY DriverFacts
<1>2. cache[ShellDriver] = disk.fat
  BY IdleDisks DEF DriverInv, CacheInv, ShellCareful
<1>3. /\ old \in PlacesOf(disk) /\ Entry(disk, old) = disk.table[Root][i]
      /\ disk.table[Root][i].live
  BY DEF Named, PlacesOf, Entry
<1>4. Removes(writes, Root, i, table)
  BY <1>1, <1>2, <1>3, DeleteRemoves
<1>5. disk.table[Root][i].dir => LiveEntries(disk, disk.table[Root][i].cluster) = {}
  BY <1>3 DEF EmptyDirs
<1> HIDE DEF table
<1>6. ASSUME NEW k \in 1 .. Len(writes)
      PROVE  /\ PlacesOf(writes[k]) = PlacesOf(disk) \ {old}
             /\ \A p \in PlacesOf(disk) \ {old} : StoredOn(writes[k], p) = StoredOn(disk, p)
  <2> DEFINE w == writes[k]
  <2>1. /\ w \in Disks /\ w.signed = disk.signed
        /\ EntryRemoved(disk, w, Root, i, table)
        /\ \A c \in Clusters : c # Root => w.data[c] = disk.data[c]
    BY <1>4 DEF Removes
  <2> HIDE DEF w
  <2>2. /\ PlacesOf(w) = PlacesOf(disk) \ {<<Root, i>>}
        /\ \A p \in PlacesOf(w) : StoredOn(w, p) = StoredOn(disk, p)
    BY <1>1, <1>5, <2>1, RemovalStored
  <2> QED
    BY <2>2 DEF w
<1>7. \A x \in DataAt(disk, old) : \E q \in PlacesOf(disk) \ {old} : x \in DataAt(disk, q)
  BY DEF Covered
<1> HIDE DEF old
<1>8. ASSUME NEW k \in 1 .. Len(writes) PROVE DataIn(disk) \subseteq DataIn(writes[k])
  BY <1>6, <1>7, DataLeft
<1>9. Len(writes) = 2
  BY <1>4 DEF Removes
<1>10. DataIn(writes[1]) \subseteq DataIn(writes[2])
  <2>1. /\ PlacesOf(writes[1]) = PlacesOf(writes[2])
        /\ \A p \in PlacesOf(writes[1]) : DataAt(writes[1], p) = DataAt(writes[2], p)
    BY <1>6, <1>9 DEF DataAt
  <2> QED
    BY <2>1 DEF DataIn
<1> SUFFICES ASSUME NEW k \in 1 .. Len(writes)
             PROVE  DataIn(IF k = 1 THEN disk ELSE writes[k - 1]) \subseteq DataIn(writes[k])
  OBVIOUS
<1>11. k = 1 \/ k = 2
  BY <1>9
<1>12. CASE k = 1
  BY <1>8, <1>12
<1>13. CASE k = 2
  BY <1>10, <1>13
<1> QED
  BY <1>11, <1>12, <1>13

\* So mv loses nothing when it removes its source.
LEMMA MoveRemoves ==
    ASSUME ShellCareful, DriverInv, Idle, currentDirectory = Root, NEW src,
           Removable(disk, src), cache[ShellDriver] # ZeroFat, calls = <<Rm(src)>>, Call,
           Covered(disk, Last(src.words)), EmptyDirs(disk, Last(src.words))
    PROVE  \A k \in 1 .. Len(pending') :
              DataIn(IF k = 1 THEN disk ELSE pending'[k - 1]) \subseteq DataIn(pending'[k])
<1>1. Head(calls) = Rm(src)
  OBVIOUS
<1>2. Rm(src).call = "rm" /\ Rm(src).path = src
  BY DEF Rm
<1>3. rm(src)
  BY <1>1, <1>2 DEF Call
<1>4. pending = <<>>
  BY IdleDisks
<1>5. PICK name \in Names : name = Last(src.words)
  BY RemovableIn
<1>6. CASE pending' = pending
  <2>1. \A k \in 1 .. Len(<<>>) : FALSE
    OBVIOUS
  <2> QED
    BY <1>4, <1>6, <2>1
<1>7. CASE pending' # pending
  <2>1. PICK w : w = cd(Root, src, FALSE) /\ w = [code |-> 0, dir |-> Root]
    BY RemovableIn
  <2>2. w.dir = Root
    <3>1. w = [code |-> 0, dir |-> Root]
      BY <2>1
    <3> QED
      BY <3>1
  <2>3. PICK ext \in Exts : delete(ShellDriver, Root, name, ext)
    BY <1>3, <1>5, <1>7, <2>1, <2>2 DEF rm, fatVars
  <2>4. /\ Deletable(disk.table[Root], name, ext) # {}
        /\ DeleteEntry(ShellDriver, Root, Min(Deletable(disk.table[Root], name, ext)))
    BY <1>7, <2>3 DEF delete
  <2>5. PICK i \in UserSlots : i = Min(Deletable(disk.table[Root], name, ext))
                               /\ <<Root, i>> \in Named(disk, name)
    BY <2>4, RemovedNamed
  <2>6. pending' = DeleteDisks(ShellDriver, Root, i)
    BY <2>4, <2>5 DEF DeleteEntry
  <2>7. Covered(disk, name) /\ EmptyDirs(disk, name)
    BY <1>5
  <2> QED
    BY <2>5, <2>6, <2>7, RemovedSaved
<1> QED
  BY <1>6, <1>7

\* A directory has no data.
LEMMA DirectoryData ==
    ASSUME NEW d, NEW p, Entry(d, p).dir
    PROVE  DataAt(d, p) = {}
<1>1. DOMAIN <<>> = {}
  OBVIOUS
<1> QED
  BY <1>1 DEF DataAt, StoredOn, Range

\* What read finds by a name without extension is the file, if it finds one.
LEMMA FileRead ==
    ASSUME ShellCareful, DriverInv, TableFiled(disk.table[Root]), NEW name,
           ReadResult(Root, name, NoExt, CopySize).code = 0, NEW j \in UserSlots,
           disk.table[Root][j].live, ~disk.table[Root][j].dir,
           disk.table[Root][j].name = name, disk.table[Root][j].ext = NoExt
    PROVE  ReadResult(Root, name, NoExt, CopySize)
              = [code |-> 0, data |-> DataAlong(Chain(disk.fat, disk.table[Root][j].cluster))]
<1> DEFINE t == disk.table[Root]
           found == ReadMatches(t, name, NoExt)
<1>1. /\ disk \in Disks /\ DiskSound(disk) /\ Housed(disk) /\ Settled(disk)
      /\ Root \in DirectoryClusters(disk)
  BY DriverFacts
<1>2. t[0].dir /\ t[1].dir
  BY <1>1, HousedReach DEF HasSelf
<1>3. j \in found /\ found \in SUBSET Nat
  BY ClusterFacts DEF ReadMatches, Slots
<1>4. /\ ~t[Min(found)].dir
      /\ ReadResult(Root, name, NoExt, CopySize)
            = [code |-> 0, data |-> DataAlong(Chain(disk.fat, t[Min(found)].cluster))]
  <2> DEFINE r == ReadResult(Root, name, NoExt, CopySize)
             e == t[Min(found)]
  <2>1. r = CASE ~Valid(Root) -> [code |-> -1, data |-> <<>>]
              [] Valid(Root) /\ found = {} -> [code |-> 2, data |-> <<>>]
              [] Valid(Root) /\ found # {} ->
                    IF e.dir THEN [code |-> 1, data |-> <<>>]
                    ELSE IF e.size > CopySize THEN [code |-> -1, data |-> <<>>]
                    ELSE [code |-> 0, data |-> DataAlong(Chain(disk.fat, e.cluster))]
    BY DEF ReadResult
  <2>2. r.code = 0 /\ found # {}
    BY <1>3
  <2> HIDE DEF r, e, found
  <2>3. ~e.dir /\ r = [code |-> 0, data |-> DataAlong(Chain(disk.fat, e.cluster))]
    BY <2>1, <2>2
  <2> QED
    BY <2>3 DEF r, e
<1>5. Min(found) \in found /\ Min(found) <= j
  <2> HIDE DEF found
  <2> QED
    BY <1>3, MinFacts
<1>6. PICK m \in found : m = Min(found) /\ ~t[m].dir
  BY <1>4, <1>5
<1>7. m \in Slots /\ t[m].name = name /\ t[m].ext = NoExt
  BY DEF ReadMatches
<1>8. m \in UserSlots
  BY <1>2, <1>6, <1>7, ClusterFacts DEF Slots, UserSlots
<1>9. ~(m < j)
  BY <1>6, <1>7, <1>8 DEF TableFiled
<1>10. m = j
  <2>1. m \in Nat /\ j \in Nat /\ m <= j
    BY <1>3, <1>5, <1>6
  <2> QED
    BY <1>9, <2>1
<1> QED
  BY <1>4, <1>6, <1>10

\* A file that fits is in cp's buffer as a whole.
LEMMA BufferHolds ==
    ASSUME ShellCareful, DriverInv, TableFiled(disk.table[Root]), currentDirectory = Root,
           NEW src, FitsBuffer(src), CarefulRm(src), NEW name, name = Last(src.words)
    PROVE  Carries(disk, name, Buffer(name)) /\ EmptyDirs(disk, name)
<1> DEFINE r == ReadResult(Root, name, NoExt, CopySize)
<1>1. /\ disk \in Disks /\ DiskSound(disk) /\ disk.fat \in Fats /\ AllChained(disk)
      /\ Root \in DirectoryClusters(disk)
  BY DriverFacts DEF DiskSound
<1>2. /\ \A e \in LiveEntries(disk, Root) :
            ~e.dir /\ e.name = name => e.ext = NoExt /\ e.size <= CopySize
      /\ r.code = 0
  BY DEF FitsBuffer
<1>3. PICK w : w = cd(Root, src, FALSE) /\ w.code = 0 /\ w.dir = Root
  <2>1. PICK x : x = cd(Root, src, FALSE)
    OBVIOUS
  <2>2. x = [code |-> 0, dir |-> Root]
    BY <2>1 DEF FitsBuffer
  <2>3. x.code = 0 /\ x.dir = Root
    BY <2>2
  <2> QED
    BY <2>1, <2>3
<1>4. ASSUME NEW p \in Named(disk, name)
      PROVE  /\ p \in LivePlaces(disk) /\ p[2] \in UserSlots
             /\ Entry(disk, p) = disk.table[Root][p[2]]
             /\ disk.table[Root][p[2]].live /\ disk.table[Root][p[2]].name = name
  <2>1. p \in PlacesOf(disk) /\ p[1] = Root /\ Entry(disk, p).name = name
    BY DEF Named
  <2>2. /\ p \in LivePlaces(disk) /\ p[2] \in UserSlots
        /\ Entry(disk, p) = disk.table[p[1]][p[2]] /\ disk.table[p[1]][p[2]].live
    BY <1>1, <2>1, PlacesOfFacts DEF PlacesOf
  <2> QED
    BY <2>1, <2>2
<1>5. EmptyDirs(disk, name)
  <2> SUFFICES ASSUME NEW p \in Named(disk, name), Entry(disk, p).dir
               PROVE  LiveEntries(disk, Entry(disk, p).cluster) = {}
    BY DEF EmptyDirs
  <2>1. p[2] \in Slots \ {0}
    BY <1>4, ClusterFacts DEF UserSlots, Slots
  <2>2. IsEmptyDirectory(disk.table[Root][p[2]].cluster)
    <3>1. PICK i \in Slots \ {0} : i = p[2]
      BY <2>1
    <3>2. disk.table[Root][i].live /\ disk.table[Root][i].dir /\ disk.table[Root][i].name = name
      BY <1>4, <3>1
    <3>3. cd(currentDirectory, src, FALSE) = w
      BY <1>3
    <3>4. IsEmptyDirectory(disk.table[Root][i].cluster)
      BY <1>3, <3>2, <3>3 DEF CarefulRm
    <3> QED
      BY <3>1, <3>4
  <2> QED
    BY <1>4, <2>2 DEF IsEmptyDirectory
<1>6. Carries(disk, name, Buffer(name))
  <2> SUFFICES ASSUME NEW p \in Named(disk, name)
               PROVE  DataAt(disk, p) \subseteq Range(Buffer(name))
    BY DEF Carries
  <2>1. CASE Entry(disk, p).dir
    BY <2>1, DirectoryData
  <2>2. CASE ~Entry(disk, p).dir
    <3> DEFINE e == Entry(disk, p)
               chain == Chain(disk.fat, e.cluster)
    <3>1. /\ e = disk.table[Root][p[2]] /\ e.live /\ e.name = name /\ p[2] \in UserSlots
          /\ p \in LivePlaces(disk)
      BY <1>4
    <3>2. e.ext = NoExt /\ e.size <= CopySize
      <4>1. e \in LiveEntries(disk, Root)
        BY <3>1 DEF LiveEntries
      <4> QED
        BY <1>2, <2>2, <3>1, <4>1
    <3>3. e \in Entries /\ e.cluster \in Clusters /\ Chained(disk.fat, e)
      BY <1>1, <3>1, PlaceFacts DEF AllChained
    <3> HIDE DEF e
    <3>4. r = [code |-> 0, data |-> DataAlong(chain)]
      BY <1>2, <2>2, <3>1, <3>2, FileRead DEF e
    <3>5. Len(chain) = ChainLength(e)
      BY <1>1, <3>3, ChainFacts
    <3>6. Len(chain) \in 1 .. CopySize
      <4>1. e.size \in Nat
        BY <3>3, FatConstants DEF Entries
      <4> QED
        BY <2>2, <3>2, <3>5, <4>1, ShellConstants, FatConstants DEF ChainLength, Required, e
    <3> HIDE DEF chain, r
    <3>7. PICK n \in 1 .. CopySize : n = Len(chain)
      BY <3>6
    <3>8. PICK data : data = DataAlong(chain) /\ data = [k \in 1 .. n |->
             IF chain[k] \in Clusters THEN disk.data[chain[k]] ELSE NoData]
      BY <3>7 DEF DataAlong
    <3>9. n \in Nat /\ Len(data) = n /\ DOMAIN data = 1 .. n
      BY <3>8, ShellConstants, FatConstants
    <3>10. r.code = 0 /\ r.data = data
      BY <3>4, <3>8
    <3>11. Buffer(name) = [k \in 1 .. CopySize |-> IF k <= n THEN data[k] ELSE NoData]
      BY <3>9, <3>10 DEF Buffer, r
    <3>12. StoredOn(disk, p).contents = data
      BY <2>2, <3>7, <3>8 DEF StoredOn, DataOn, e, chain
    <3>13. ASSUME NEW k \in 1 .. n PROVE data[k] \in Range(Buffer(name))
      <4>1. k \in 1 .. CopySize /\ k <= n
        BY <3>9, ShellConstants, FatConstants
      <4>2. Buffer(name)[k] = data[k] /\ k \in DOMAIN Buffer(name)
        BY <3>11, <4>1
      <4> QED
        BY <4>2 DEF Range
    <3> QED
      BY <3>9, <3>12, <3>13 DEF DataAt, Range
  <2> QED
    BY <2>1, <2>2
<1> QED
  BY <1>5, <1>6

\* A file that was written is on the last disk with its data, and all the others with
\* theirs.
LEMMA FileWritten ==
    ASSUME ShellCareful, DriverInv, NEW parent \in Reach, NEW name, NEW ext,
           NEW size \in 1 .. MaxSize, NEW buf, Request(parent, name, ext, size, buf),
           NEW numbers, NEW slot, Placed(parent, name, ext, size, buf, numbers, slot),
           Required(size) <= Cardinality(FreeClusters(disk.fat)),
           NEW w, w = Last(WriteDisks(parent, name, ext, size, buf))
    PROVE  LET new == <<parent, slot>> IN
           /\ PlacesOf(w) = PlacesOf(disk) \cup {new} /\ new \notin PlacesOf(disk)
           /\ Entry(w, new).name = name /\ ~Entry(w, new).dir
           /\ \A p \in PlacesOf(disk) :
                 Entry(w, p) = Entry(disk, p) /\ StoredOn(w, p) = StoredOn(disk, p)
           /\ DataAt(w, new) = Range(buf)
<1> DEFINE r == Required(size)
           new == <<parent, slot>>
           writes == WriteDisks(parent, name, ext, size, buf)
           entry == NewEntry(disk.table[parent][slot], name, ext, size, numbers[1])
           t == NewTable(parent, name, size, buf)
           v == NewData(size, numbers, buf)
           table == [disk.table[parent] EXCEPT ![slot] = entry]
<1>1. /\ disk \in Disks /\ DiskSound(disk) /\ Settled(disk)
      /\ parent \in DirectoryClusters(disk)
  BY DriverFacts
<1>2. Adds(writes, name, size, numbers, parent, slot, entry, t, v, table)
  BY <1>1, WriteAdds
<1>3. ~disk.table[parent][slot].live /\ size # 0 /\ size \in 0 .. MaxSize
  BY FatConstants DEF Placed
<1>4. w = Last(writes)
  OBVIOUS
<1>5. v = NewData(size, numbers, buf) /\ r = Required(size)
  OBVIOUS
<1> HIDE DEF r, writes, entry, t, v, table
<1>6. /\ Tabled(w, numbers, t, v, parent, table)
      /\ EntryAdded(disk, w, r, numbers, parent, slot, entry, t, table)
      /\ entry.name = name /\ ~entry.dir /\ entry.size = size
      /\ \A j, k \in 1 .. r : numbers[j] = numbers[k] => j = k
  <2>1. Tabled(w, numbers, t, v, parent, table)
    BY <1>2, <1>4 DEF Adds, Written, Last
  <2> QED
    BY <1>2, <1>3, <1>5, <2>1 DEF Adds
<1>7. /\ w \in Disks /\ w.signed = disk.signed
      /\ \A c \in Clusters : c # parent /\ c \notin Range(numbers) => w.data[c] = disk.data[c]
      /\ Filled(disk, w, parent, numbers, v)
  BY <1>6 DEF Tabled, Filled
<1>8. /\ PlacesOf(w) = PlacesOf(disk) \cup {new}
      /\ new \notin PlacesOf(disk) /\ Entry(w, new) = entry
      /\ \A p \in PlacesOf(disk) :
            Entry(w, p) = Entry(disk, p) /\ StoredOn(w, p) = StoredOn(disk, p)
  <2>1. entry.dir => Cardinality(DirectoryClusters(disk)) <= DirectoryMax
    BY <1>6
  <2> QED
    BY <1>1, <1>3, <1>6, <1>7, <2>1, EntryShows
<1>9. DiskSound(w) /\ Spells(w, entry.cluster, size, buf)
  BY <1>1, <1>3, <1>5, <1>6, <1>7, EntryData
<1> HIDE DEF new
<1>10. StoredOn(w, new).contents = [k \in 1 .. size |-> buf[k]]
  <2>1. new \in LivePlaces(w)
    BY <1>7, <1>8, PlacesOfFacts
  <2>2. Chained(w.fat, Entry(w, new))
    BY <1>9, <2>1 DEF DiskSound, AllChained
  <2> QED
    BY <1>6, <1>7, <1>8, <1>9, <2>1, <2>2, FileContents
<1>11. DataAt(w, new) = Range(buf)
  <2>1. buf \in [1 .. size -> Data]
    BY <1>3 DEF Request, IsBuffer
  <2> QED
    BY <1>10, <2>1 DEF DataAt, Range
<1> QED
  BY <1>6, <1>8, <1>11 DEF new

\* So what a buffer carries is on the disk a second time when the buffer is written
\* elsewhere.
LEMMA CopySaves ==
    ASSUME ShellCareful, DriverInv, NEW parent \in Reach, NEW name, NEW ext,
           NEW size \in 1 .. MaxSize, NEW buf, Request(parent, name, ext, size, buf),
           NEW numbers, NEW slot, Placed(parent, name, ext, size, buf, numbers, slot),
           Required(size) <= Cardinality(FreeClusters(disk.fat)),
           NEW w, w = Last(WriteDisks(parent, name, ext, size, buf)),
           NEW old, parent = Root => name # old,
           Carries(disk, old, buf), EmptyDirs(disk, old),
           \A p \in Named(disk, old) : Entry(disk, p).dir => Entry(disk, p).cluster # parent,
           NEW place, OnlyEnters(disk, w, parent, place, name, size)
    PROVE  Covered(w, old) /\ EmptyDirs(w, old)
<1> DEFINE new == <<parent, slot>>
<1>1. /\ PlacesOf(w) = PlacesOf(disk) \cup {new} /\ new \notin PlacesOf(disk)
      /\ Entry(w, new).name = name /\ ~Entry(w, new).dir
      /\ \A p \in PlacesOf(disk) :
            Entry(w, p) = Entry(disk, p) /\ StoredOn(w, p) = StoredOn(disk, p)
      /\ DataAt(w, new) = Range(buf)
  BY FileWritten
<1>2. new[1] = parent
  OBVIOUS
<1> HIDE DEF new
<1>3. ASSUME NEW p \in Named(w, old)
      PROVE  /\ p \in Named(disk, old) /\ p # new /\ Entry(w, p) = Entry(disk, p)
             /\ DataAt(w, p) = DataAt(disk, p)
  <2>1. p # new
    BY <1>1, <1>2 DEF Named
  <2>2. p \in PlacesOf(disk)
    BY <1>1, <2>1 DEF Named
  <2> QED
    BY <1>1, <2>1, <2>2 DEF Named, DataAt
<1>4. Covered(w, old)
  <2> SUFFICES ASSUME NEW p \in Named(w, old)
               PROVE  \E q \in PlacesOf(w) : q # p /\ DataAt(w, p) \subseteq DataAt(w, q)
    BY DEF Covered
  <2>1. DataAt(w, p) \subseteq DataAt(w, new)
    BY <1>1, <1>3 DEF Carries
  <2> QED
    BY <1>1, <1>3, <2>1
<1>5. EmptyDirs(w, old)
  <2> SUFFICES ASSUME NEW p \in Named(w, old), Entry(w, p).dir
               PROVE  LiveEntries(w, Entry(w, p).cluster) = {}
    BY DEF EmptyDirs
  <2>1. p \in Named(disk, old) /\ Entry(w, p) = Entry(disk, p) /\ Entry(disk, p).dir
    BY <1>3
  <2>2. PICK x : x = Entry(disk, p).cluster
    OBVIOUS
  <2>3. LiveEntries(disk, x) = {} /\ x # parent
    BY <2>1, <2>2 DEF EmptyDirs
  <2>4. x \in DirectoryClusters(disk)
    <3>1. /\ disk \in Disks /\ DiskSound(disk) /\ Housed(disk) /\ Settled(disk)
      BY DriverFacts
    <3>2. /\ p[1] \in DirectoryClusters(disk) /\ p[2] \in UserSlots
          /\ Entry(disk, p) = disk.table[p[1]][p[2]] /\ Entry(disk, p).live
      BY <2>1, <3>1, PlacesOfFacts DEF Named, PlacesOf
    <3> QED
      BY <2>1, <2>2, <3>1, <3>2, HousedReach DEF LeadsDown
  <2>5. \A i \in UserSlots : w.table[x][i] = disk.table[x][i]
    BY <2>3, <2>4, ClusterFacts DEF OnlyEnters
  <2>6. LiveEntries(w, x) = LiveEntries(disk, x)
    BY <2>5 DEF LiveEntries
  <2> QED
    BY <2>1, <2>2, <2>3, <2>6
<1> QED
  BY <1>4, <1>5

\* The target of a move is in no empty directory named like its source: the walk would
\* have to pass through the root by that name, where a file comes first.
LEMMA NotInside ==
    ASSUME ShellCareful, DriverInv, NEW src, NEW dst, Movable(src, dst), NEW c,
           cd(Root, dst, FALSE) = [code |-> 0, dir |-> c],
           NEW p \in Named(disk, Last(src.words)), Entry(disk, p).dir,
           LiveEntries(disk, Entry(disk, p).cluster) = {}
    PROVE  Entry(disk, p).cluster # c
<1> DEFINE name == Last(src.words)
<1>1. /\ disk \in Disks /\ DiskSound(disk) /\ Housed(disk) /\ Settled(disk)
      /\ ClusterMapSize - 3 <= DirectoryMax /\ Root \in Clusters
      /\ Reach = DirectoryClusters(disk) /\ Root \in Homes(disk) /\ 0 \notin Reach
      /\ \A b \in Homes(disk) : b = 0 \/ b \in Reach
  BY DriverFacts DEF Root
<1>2. PICK x : x = Entry(disk, p).cluster
  OBVIOUS
<1> SUFFICES ASSUME c = x PROVE FALSE
  BY <1>2
<1>3. /\ p[2] \in UserSlots /\ p[1] = Root /\ Entry(disk, p) = disk.table[Root][p[2]]
      /\ Entry(disk, p).live /\ Entry(disk, p).name = name
  BY <1>1, PlacesOfFacts DEF Named, PlacesOf
<1>4. /\ x \in Reach /\ x # Root /\ disk.table[x][1].cluster = Root
      /\ disk.table[x][0].name = name
  <2>1. Root \in DirectoryClusters(disk)
    BY <1>1, DriverFacts
  <2>2. PICK i \in UserSlots : i = p[2]
    BY <1>3
  <2>3. /\ disk.table[Root][i].live /\ disk.table[Root][i].dir
        /\ disk.table[Root][i].cluster = x /\ disk.table[Root][i].name = name
    BY <1>2, <1>3, <2>2
  <2> QED
    BY <1>1, <2>1, <2>3, HousedReach DEF LeadsDown
<1>5. \A i \in UserSlots : ~disk.table[x][i].live
  BY <1>2 DEF LiveEntries
<1>6. PICK f \in UserSlots : FirstNamed(disk, Root, name, f) /\ ~disk.table[Root][f].dir
  BY DEF Movable, Copyable
<1>7. /\ dst \in TypedPaths
       /\ \E h : Finds(disk, Root, dst, Len(dst.words) - 1, h)
  BY DEF Movable, Vacant, NewPaths
<1>8. PICK n \in 0 .. Len(dst.words) :
         /\ n = Len(dst.words) - 1 /\ n \in Nat /\ n \in 0 .. n
         /\ cd(Root, dst, FALSE) = Walk(Root, dst, n)
  <2>1. PICK m : m = Len(dst.words) - 1
    OBVIOUS
  <2>2. /\ m \in 0 .. Len(dst.words) /\ cd(Root, dst, FALSE) = Walk(Root, dst, m)
        /\ Len(dst.words) \in Nat
    BY <1>7, <2>1, CdLengths
  <2>3. m \in Nat /\ m \in 0 .. m
    BY <2>2
  <2> QED
    BY <2>1, <2>2, <2>3
<1>9. PICK g : Finds(disk, Root, dst, n, g)
  BY <1>8, <1>7
<1>10. \A k \in 0 .. n : Walk(Root, dst, k) = [code |-> 0, dir |-> g[k]]
  BY <1>1, <1>8, <1>9, <1>7, FindsWalk
<1>11. \A k \in 0 .. n : g[k] \in Homes(disk)
  <2> SUFFICES ASSUME NEW k \in 0 .. n PROVE g[k] \in Homes(disk)
    OBVIOUS
  <2>1. Walk(Root, dst, k).dir \in Homes(disk)
    BY <1>1, <1>8, <1>7, WalkStays
  <2>2. Walk(Root, dst, k).dir = g[k]
    BY <1>10
  <2> QED
    BY <2>1, <2>2
<1>12. g[n] = x
  <2>1. PICK y : y = Walk(Root, dst, n)
    OBVIOUS
  <2>2. y = [code |-> 0, dir |-> g[n]] /\ y = [code |-> 0, dir |-> x]
    BY <1>8, <1>10, <2>1
  <2>3. y.dir = g[n] /\ y.dir = x
    BY <2>2
  <2> QED
    BY <2>3
<1>13. n # 0
  BY <1>4, <1>9, <1>12 DEF Finds
<1>14. n \in 1 .. n /\ n - 1 \in 0 .. n
  <2>1. n \in Nat
    BY <1>8
  <2> QED
    BY <1>13, <2>1
<1>15. PICK b \in Homes(disk) : b = g[n - 1]
  BY <1>11, <1>14
<1>16. PICK i \in Slots :
          /\ FirstNamed(disk, b, dst.words[n], i)
          /\ disk.table[b][i].dir /\ disk.table[b][i].cluster = x
  BY <1>9, <1>12, <1>14, <1>15 DEF Finds
<1>17. b \in Reach
  BY <1>1, <1>16 DEF Housed, FirstNamed
<1>18. i # 0
  BY <1>1, <1>4, <1>16, <1>17, HousedReach DEF HasSelf
<1>19. CASE i = 1
  <2>1. b # Root
    BY <1>1, <1>4, <1>16, <1>19 DEF Housed
  <2>2. PICK y \in Reach, j \in UserSlots :
           disk.table[y][j].live /\ disk.table[b][1].cluster = y
    BY <1>1, <1>17, <2>1, HousedReach
  <2> QED
    BY <1>5, <1>16, <1>19, <2>2
<1>20. CASE i # 1
  <2>1. i \in UserSlots
    BY <1>18, <1>20, ClusterFacts DEF Slots, UserSlots
  <2>2. disk.table[x][1].cluster = b /\ disk.table[b][i].name = name
    BY <1>1, <1>4, <1>16, <1>17, <2>1, HousedReach DEF LeadsDown, FirstNamed
  <2>3. b = Root /\ FirstNamed(disk, Root, name, i)
    BY <1>4, <1>16, <2>2 DEF FirstNamed
  <2>4. i = f
    BY <1>6, <2>3, FirstUnique
  <2> QED
    BY <1>6, <1>16, <2>3, <2>4
<1> QED
  BY <1>19, <1>20

\* When mv has written its copy, what it will remove is on the disk twice.
LEMMA MoveWrites ==
    ASSUME ShellCareful, DriverInv, Idle, NEW src, NEW dst, Movable(src, dst),
           NEW data \in Buffers, calls = <<Mkfile(Root, dst, FALSE, data), Rm(src)>>, Call,
           NEW old, old = Last(src.words), Carries(disk, old, data), EmptyDirs(disk, old)
    PROVE  pending' # <<>> /\ Covered(Last(pending'), old) /\ EmptyDirs(Last(pending'), old)
<1> DEFINE f == Mkfile(Root, dst, FALSE, data)
<1>1. Head(calls) = f
  OBVIOUS
<1>2. /\ f.from = Root /\ f.dst = dst /\ f.isdir = FALSE /\ f.data = data
      /\ f.call = "mkfile"
  BY DEF Mkfile
<1> HIDE DEF f
<1>3. mkfile(f)
  BY <1>1, <1>2 DEF Call
<1>4. PICK c \in Clusters :
         /\ cd(Root, dst, FALSE) = [code |-> 0, dir |-> c]
         /\ Unnamed(disk, c, Last(dst.words)) /\ IsDirectoryTable(disk, c)
         /\ HasEntry(disk.fat, disk.table[c], CopySize)
  BY MovablePaths
<1>5. PICK name \in Names : name = Last(dst.words)
  BY MovablePaths DEF NewPaths
<1>6. WriteResult(c, name, NoExt, CopySize) = 0
  <2>1. ~Exists(disk.table[c], name, NoExt)
    BY <1>4, <1>5, ClusterFacts DEF Exists, Unnamed, UserSlots, Slots
  <2> QED
    BY <1>4, <2>1 DEF WriteResult
<1>7. write(ShellDriver, c, name, NoExt, CopySize, data) /\ EnoughRoom(CopySize)
  <2>1. PICK w : w = cd(f.from, f.dst, f.isdir) /\ w = [code |-> 0, dir |-> c]
    BY <1>2, <1>4
  <2>2. w.code = 0 /\ w.dir = c
    <3>1. w = [code |-> 0, dir |-> c]
      BY <2>1
    <3> QED
      BY <3>1
  <2> QED
    BY <1>2, <1>3, <1>5, <2>1, <2>2 DEF mkfile, ShellCareful, Careful
<1>8. pending' = WriteDisks(c, name, NoExt, CopySize, data)
  BY <1>6, <1>7 DEF write
<1>9. /\ disk \in Disks /\ DiskSound(disk) /\ Housed(disk)
      /\ ClusterMapSize - 3 <= DirectoryMax
  BY DriverFacts
<1>10. /\ Request(c, name, NoExt, CopySize, data)
       /\ CopySize \in 1 .. MaxSize /\ CopySize \in Nat
  BY FatConstants, ShellConstants DEF Request, IsBuffer, Buffers
<1>11. PICK numbers, slot : Placed(c, name, NoExt, CopySize, data, numbers, slot)
  BY <1>6, <1>9, <1>10, ResultPlaced
<1>12. Required(CopySize) <= Cardinality(FreeClusters(disk.fat))
  <2>1. RoomOrNone(CopySize)
    BY <1>7, <1>9, <1>10, RoomEnough
  <2>2. 1 \in 1 .. Required(CopySize)
    BY <1>10, FatConstants DEF Required
  <2>3. FreeClusters(disk.fat) # {}
    BY <1>11, <2>2 DEF Placed
  <2> QED
    BY <2>1, <2>3 DEF RoomOrNone
<1>13. c \in Reach
  <2>1. c \in Homes(disk)
    <3>1. PICK w : w = cd(Root, dst, FALSE)
      OBVIOUS
    <3>2. w.dir \in Homes(disk)
      BY <1>9, <3>1, CdStays, DriverFacts, MovablePaths
    <3>3. w = [code |-> 0, dir |-> c]
      BY <1>4, <3>1
    <3>4. w.dir = c
      BY <3>3
    <3> QED
      BY <3>2, <3>4
  <2>2. c # 0
    BY <1>4, <1>9, ClusterFacts DEF Housed, IsDirectoryTable
  <2> QED
    BY <2>1, <2>2, DriverFacts
<1>14. WriteShows(pending', c, slot, name, CopySize)
  BY <1>8, <1>9, <1>10, <1>11, <1>12, <1>13, WriteKeeps
<1>15. PICK w : w = Last(pending')
  OBVIOUS
<1>16. pending' # <<>> /\ OnlyEnters(disk, w, c, slot, name, CopySize)
  <2>1. pending' \in Seq(Disks) /\ pending' # <<>>
    BY <1>14 DEF WriteShows
  <2>2. Len(pending') \in 1 .. Len(pending') /\ w = pending'[Len(pending')]
    BY <1>15, <2>1 DEF Last
  <2> QED
    BY <1>14, <2>1, <2>2 DEF WriteShows
<1>17. c = Root => name # old
  BY <1>4, <1>5, FirstUnique DEF Movable, Copyable
<1>18. \A p \in Named(disk, old) : Entry(disk, p).dir => Entry(disk, p).cluster # c
  BY <1>4, NotInside DEF EmptyDirs
<1>19. w = Last(WriteDisks(c, name, NoExt, CopySize, data))
  BY <1>8, <1>15
<1>20. Covered(w, old) /\ EmptyDirs(w, old)
  BY <1>10, <1>11, <1>12, <1>13, <1>16, <1>17, <1>18, <1>19, CopySaves
<1> QED
  BY <1>15, <1>16, <1>20

\* A step that adds loses nothing.
LEMMA AddingData ==
    ASSUME ShellCareful, DriverInv, FiledInv, Idle, Adding
    PROVE  FiledInv' /\ GrowInv'
<1>1. /\ \A k \in 1 .. Len(pending') :
            StoreOf(IF k = 1 THEN disk ELSE pending'[k - 1]) \subseteq StoreOf(pending'[k])
      /\ disk' = disk
  BY AddingDisks DEF Adding
<1>2. GrowInv'
  <2>1. ASSUME NEW k \in 1 .. Len(pending')
        PROVE  DataIn(IF k = 1 THEN disk' ELSE pending'[k - 1]) \subseteq DataIn(pending'[k])
    <3>1. PICK d : d = IF k = 1 THEN disk' ELSE pending'[k - 1]
      OBVIOUS
    <3>2. StoreOf(d) \subseteq StoreOf(pending'[k])
      BY <1>1, <3>1
    <3> QED
      BY <3>1, <3>2, DataGrows
  <2> QED
    BY <2>1 DEF GrowInv
<1>3. TableFiled(disk.table[Root]) /\ Root \in DirectoryClusters(disk) /\ pending = <<>>
  BY DriverFacts, IdleDisks DEF FiledInv, AllDisks
<1>4. \A k \in 1 .. Len(pending') : TableFiled(pending'[k].table[Root])
  <2>1. CASE pending' = pending
    <3>1. \A k \in 1 .. Len(<<>>) : FALSE
      OBVIOUS
    <3> QED
      BY <1>3, <2>1, <3>1
  <2>2. ASSUME NEW parent, NEW slot, NEW name, NEW size,
               WriteShows(pending', parent, slot, name, size),
               NEW k \in 1 .. Len(pending')
        PROVE  TableFiled(pending'[k].table[Root])
    <3>1. OnlyEnters(disk, pending'[k], parent, slot, name, size)
      BY <2>2 DEF WriteShows
    <3> QED
      BY <1>3, <3>1, FiledEntered
  <2> QED
    BY <2>1, <2>2 DEF Adding
<1>5. FiledInv'
  BY <1>1, <1>3, <1>4 DEF FiledInv, AllDisks
<1> QED
  BY <1>2, <1>5

\* One that removes moves nothing.
LEMMA RemovingFiled ==
    ASSUME ShellCareful, DriverInv, FiledInv, Idle, Removing
    PROVE  FiledInv'
<1>1. TableFiled(disk.table[Root]) /\ pending = <<>> /\ disk' = disk
  BY IdleDisks DEF FiledInv, AllDisks, Removing
<1>2. \A k \in 1 .. Len(pending') : TableFiled(pending'[k].table[Root])
  <2>1. CASE pending' = pending
    <3>1. \A k \in 1 .. Len(<<>>) : FALSE
      OBVIOUS
    <3> QED
      BY <1>1, <2>1, <3>1
  <2>2. ASSUME NEW parent, NEW i, DeleteShows(pending', parent, i),
               NEW k \in 1 .. Len(pending')
        PROVE  TableFiled(pending'[k].table[Root])
    <3>1. OnlyUnlists(disk, pending'[k])
      BY <2>2 DEF DeleteShows
    <3> QED
      BY <1>1, <3>1, FiledUnlisted
  <2> QED
    BY <2>1, <2>2 DEF Removing
<1> QED
  BY <1>1, <1>2 DEF FiledInv, AllDisks

\* Nothing of the data is at stake when no call is left.
LEMMA ShortData ==
    ASSUME FiledInv', GrowInv', calls' = <<>> \/ job'.name # "mv"
    PROVE  DataInv'
<1>1. SavedInv'
  BY DEF SavedInv
<1> QED
  BY <1>1 DEF DataInv

\* mv starts with all it will remove in the buffer.
LEMMA MvData ==
    ASSUME ShellCareful, ShellInv, DataInv, MvCommand
    PROVE  DataInv'
<1>1. DriverInv /\ Paths \subseteq TypedPaths /\ FiledInv /\ TableFiled(disk.table[Root])
  BY ShellFacts DEF DataInv, FiledInv
<1>2. FiledInv' /\ GrowInv'
  BY <1>1, MvKeeps, AddingData
<1>3. PICK src \in Paths, dst \in Paths :
         /\ Type("mv", {})
         /\ \/ /\ currentDirectory = Root /\ FitsBuffer(src) /\ NewTarget(dst)
               /\ CarefulRm(src) /\ CopyThenRemove(src, dst)
            \/ UNCHANGED <<fatVars, currentDirectory, calls>>
  BY DEF MvCommand, ShellCareful
<1>4. Idle /\ calls = <<>>
  BY <1>3, ShellFacts DEF Type
<1>5. CASE UNCHANGED <<fatVars, currentDirectory, calls>>
  BY <1>2, <1>4, <1>5, ShortData
<1>6. CASE /\ currentDirectory = Root /\ FitsBuffer(src) /\ NewTarget(dst)
           /\ CarefulRm(src) /\ CopyThenRemove(src, dst)
  <2>1. src \in TypedPaths /\ dst \in TypedPaths
    BY <1>1
  <2>2. Movable(src, dst)
    BY <1>1, <1>6, <2>1, MovableStart
  <2>3. cd(currentDirectory, src, TRUE).code # 0
    <3>1. cd(currentDirectory, src, TRUE).code = 3
      BY <1>6 DEF FitsBuffer
    <3>2. \A n : n = 3 => n # 0
      OBVIOUS
    <3> QED
      BY <3>1, <3>2
  <2>4. UNCHANGED fatVars /\ calls' = <<Helper(src, dst)>> \o <<Rm(src)>>
    BY <1>6, <2>3 DEF CopyThenRemove, cp
  <2>5. calls' = <<Helper(src, dst), Rm(src)>>
    <3>1. \A x, y : x \in {x, y} /\ y \in {x, y}
      OBVIOUS
    <3> QED
      BY <2>4, <3>1, TwoCalls
  <2>6. pending' = <<>> /\ disk' = disk
    BY <1>4, <2>4 DEF fatVars, Idle
  <2>7. Moves(src, dst)'
    BY <2>2, <2>5, <2>6 DEF Moves, Movable
  <2>8. PICK name : name = Last(src.words)
    OBVIOUS
  <2>9. Carries(disk, name, Buffer(name)) /\ EmptyDirs(disk, name)
    BY <1>1, <1>6, <2>8, BufferHolds
  <2>10. Buffer(name)' = Buffer(name)
    BY <2>6 DEF Buffer, ReadResult, Valid, DataAlong
  <2>11. calls'[1].call = "cpHelper"
    BY <2>5 DEF Helper
  <2>12. Saved(name)'
    BY <2>6, <2>9, <2>10, <2>11 DEF Saved
  <2>13. SavedInv'
    BY <2>7, <2>8, <2>12 DEF SavedInv
  <2> QED
    BY <1>2, <2>13 DEF DataInv
<1> QED
  BY <1>3, <1>5, <1>6

\* Through the calls it stays in the buffer until it is on the disk.
LEMMA CallData ==
    ASSUME ShellCareful, ShellInv, DataInv, Call
    PROVE  DataInv'
<1>1. /\ DriverInv /\ currentDirectory \in Reach /\ disk \in AllDisks
      /\ FiledInv /\ GrowInv /\ SavedInv
  BY ShellFacts DEF DataInv
<1>2. /\ Idle /\ calls # <<>> /\ pending = <<>>
      /\ currentDirectory' = currentDirectory /\ job' = job
  BY IdleDisks DEF Call
<1>3. job.name \in {"cp", "mv"}
  BY <1>2 DEF ShellInv, CallsInv
<1>4. CASE job.name = "cp"
  <2>1. calls \in Seq(CopyFrames(disk))
    BY <1>1, <1>4 DEF ShellInv, CallsInv
  <2>2. Adding
    BY <1>1, <2>1, CopyCall
  <2> QED
    BY <1>1, <1>2, <1>4, <2>2, AddingData, ShortData
<1>5. CASE job.name = "mv"
  <2>1. currentDirectory = Root
    BY <1>2, <1>5 DEF ShellInv, MoveInv
  <2>2. PICK src \in Paths, dst \in Paths : Moves(src, dst) /\ Saved(Last(src.words))
    BY <1>1, <1>2, <1>5 DEF SavedInv
  <2>3. PICK name : name = Last(src.words)
    OBVIOUS
  <2>4. CASE calls = <<Helper(src, dst), Rm(src)>> /\ Movable(src, dst)
    <3>1. /\ DriverInv' /\ disk' = disk /\ pending' = pending /\ power' = power
          /\ \E data \in Buffers :
                /\ data = Buffer(BaseName(Last(src.words)))
                /\ calls' = <<Mkfile(Root, dst, FALSE, data), Rm(src)>>
      BY <1>1, <2>1, <2>4, MoveHelper
    <3>2. FiledInv' /\ GrowInv'
      <4>1. Adding
        BY <3>1 DEF Adding
      <4> QED
        BY <1>1, <1>2, <4>1, AddingData
    <3>3. BaseName(name) = name
      <4>1. name \in Names /\ DotDot \notin Names
        BY <1>1, <2>3, <2>4, MovablePaths DEF ShellCareful, Careful
      <4> QED
        BY <4>1 DEF BaseName
    <3>4. PICK data \in Buffers :
             /\ data = Buffer(name)
             /\ calls' = <<Mkfile(Root, dst, FALSE, data), Rm(src)>>
      BY <2>3, <3>1, <3>3
    <3>5. Carries(disk, name, data) /\ EmptyDirs(disk, name)
      <4>1. calls[1].call = "cpHelper"
        BY <2>4 DEF Helper
      <4> QED
        BY <2>2, <2>3, <3>4, <4>1 DEF Saved
    <3>6. calls'[1].data = data /\ calls'[1].call = "mkfile"
      BY <3>4 DEF Mkfile
    <3>7. Moves(src, dst)'
      BY <1>2, <2>4, <3>1, <3>4, <3>6 DEF Moves, Movable
    <3>8. Saved(name)'
      BY <3>1, <3>5, <3>6 DEF Saved
    <3>9. SavedInv'
      BY <2>3, <3>7, <3>8 DEF SavedInv
    <3> QED
      BY <3>2, <3>9 DEF DataInv
  <2>5. ASSUME NEW data \in Buffers, calls = <<Mkfile(Root, dst, FALSE, data), Rm(src)>>,
               Movable(src, dst)
        PROVE  DataInv'
    <3>1. /\ Adding /\ calls' = <<Rm(src)>> /\ cache'[ShellDriver] # ZeroFat
          /\ \A d \in AllDisks' : Removable(d, src)
      BY <1>1, <1>2, <2>5, MoveMkfile
    <3>2. FiledInv' /\ GrowInv'
      BY <1>1, <1>2, <3>1, AddingData
    <3>3. Carries(disk, name, data) /\ EmptyDirs(disk, name)
      <4>1. calls[1].call = "mkfile" /\ calls[1].data = data
        BY <2>5 DEF Mkfile
      <4> QED
        BY <2>2, <2>3, <4>1 DEF Saved
    <3>4. pending' # <<>> /\ Covered(Last(pending'), name) /\ EmptyDirs(Last(pending'), name)
      BY <1>1, <1>2, <2>3, <2>5, <3>3, MoveWrites
    <3>5. Moves(src, dst)'
      BY <3>1 DEF Moves
    <3>6. calls'[1].call = "rm"
      BY <3>1 DEF Rm
    <3>7. Saved(name)'
      BY <3>4, <3>6 DEF Saved, DiskToCome
    <3>8. SavedInv'
      BY <2>3, <3>5, <3>7 DEF SavedInv
    <3> QED
      BY <3>2, <3>8 DEF DataInv
  <2>6. CASE /\ calls = <<Rm(src)>> /\ cache[ShellDriver] # ZeroFat
             /\ \A d \in AllDisks : Removable(d, src)
    <3>1. Removing /\ calls' = <<>>
      BY <1>1, <1>2, <2>1, <2>6, MoveRemove
    <3>2. FiledInv'
      BY <1>1, <1>2, <3>1, RemovingFiled
    <3>3. Covered(disk, Last(src.words)) /\ EmptyDirs(disk, Last(src.words))
      <4>1. calls[1].call = "rm"
        BY <2>6 DEF Rm
      <4> QED
        BY <1>2, <2>2, <4>1 DEF Saved, DiskToCome
    <3>4. \A k \in 1 .. Len(pending') :
             DataIn(IF k = 1 THEN disk ELSE pending'[k - 1]) \subseteq DataIn(pending'[k])
      BY <1>1, <1>2, <2>1, <2>6, <3>3, MoveRemoves
    <3>5. GrowInv'
      BY <3>1, <3>4 DEF GrowInv, Removing
    <3> QED
      BY <3>1, <3>2, <3>5, ShortData
  <2> QED
    BY <2>2, <2>4, <2>5, <2>6 DEF Moves
<1> QED
  BY <1>3, <1>4, <1>5

\* A write is one of those that were to come.
LEMMA WriteData ==
    ASSUME ShellCareful, ShellInv, DataInv, Write
    PROVE  DataInv'
<1>1. DriverInv /\ pending \in Seq(Disks) /\ FiledInv /\ GrowInv /\ SavedInv
  BY ShellFacts, DriverFacts DEF DataInv
<1>2. DiskWrite /\ UNCHANGED <<calls, job>>
  BY DEF Write, shellVars
<1>3. /\ pending # <<>> /\ disk' = Head(pending) /\ pending' = Tail(pending)
      /\ cache' = cache
  BY <1>2 DEF DiskWrite
<1>4. AllDisks' \subseteq AllDisks
  BY <1>1, <1>2, MachineStep
<1>5. FiledInv'
  BY <1>1, <1>4 DEF FiledInv
<1>6. GrowInv'
  <2> SUFFICES ASSUME job.name # "rm", NEW k \in 1 .. Len(pending')
               PROVE  DataIn(IF k = 1 THEN disk' ELSE pending'[k - 1])
                         \subseteq DataIn(pending'[k])
    BY <1>2 DEF GrowInv
  <2>1. \A s \in Seq(Disks) : s # <<>> =>
           /\ Head(s) = s[1]
           /\ \A j \in 1 .. Len(Tail(s)) : /\ j + 1 \in 1 .. Len(s) /\ Tail(s)[j] = s[j + 1]
                                           /\ j # 1 => Tail(s)[j - 1] = s[j]
    OBVIOUS
  <2>2. PICK j \in Nat : j = k + 1
    OBVIOUS
  <2>3. /\ j \in 1 .. Len(pending) /\ j # 1 /\ j - 1 = k /\ pending'[k] = pending[j]
        /\ (IF k = 1 THEN disk' ELSE pending'[k - 1]) = pending[k]
    BY <1>1, <1>3, <2>1, <2>2
  <2>4. DataIn(pending[j - 1]) \subseteq DataIn(pending[j])
    BY <1>1, <2>3 DEF GrowInv
  <2> QED
    BY <2>3, <2>4
<1>7. SavedInv'
  <2> SUFFICES ASSUME job.name = "mv", calls # <<>>
               PROVE  SavedInv'
    BY <1>2 DEF SavedInv
  <2>1. PICK src \in Paths, dst \in Paths : Moves(src, dst) /\ Saved(Last(src.words))
    BY <1>1 DEF SavedInv
  <2>2. /\ calls = <<Rm(src)>> /\ cache[ShellDriver] # ZeroFat
        /\ \A d \in AllDisks : Removable(d, src)
    BY <1>3, <2>1 DEF Moves
  <2>3. Moves(src, dst)'
    BY <1>2, <1>3, <1>4, <2>2 DEF Moves
  <2>4. DiskToCome' = DiskToCome
    BY <1>1, <1>3, LastOfTail DEF DiskToCome
  <2>5. calls[1].call = "rm"
    BY <2>2 DEF Rm
  <2>6. PICK name : name = Last(src.words)
    OBVIOUS
  <2>7. Saved(name)'
    BY <1>2, <2>1, <2>4, <2>5, <2>6 DEF Saved
  <2> QED
    BY <2>3, <2>6, <2>7 DEF SavedInv
<1> QED
  BY <1>5, <1>6, <1>7 DEF DataInv

\* Before the first boot the inserter adds.
LEMMA InsertData ==
    ASSUME ShellCareful, ShellInv, DataInv, Insert
    PROVE  DataInv' /\ DataIn(disk) \subseteq DataIn(disk')
<1>1. /\ DriverInv /\ PowerInv /\ FiledInv /\ disk \in AllDisks
      /\ Root \in DirectoryClusters(disk)
  BY ShellFacts, DriverFacts DEF ShellInv, DataInv
<1>2. /\ pending' = <<>>
      /\ disk' = disk \/ \E parent, slot, name, size :
            /\ OnlyEnters(disk, disk', parent, slot, name, size)
            /\ StoreOf(disk) \subseteq StoreOf(disk')
  BY <1>1, InsertStep
<1>3. calls' = <<>>
  BY <1>1 DEF Insert, PowerInv
<1>4. TableFiled(disk.table[Root])
  BY <1>1 DEF FiledInv
<1>5. TableFiled(disk'.table[Root])
  BY <1>1, <1>2, <1>4, FiledEntered
<1>6. \A k \in 1 .. Len(<<>>) : FALSE
  OBVIOUS
<1>7. FiledInv' /\ GrowInv'
  BY <1>2, <1>5, <1>6 DEF FiledInv, GrowInv, AllDisks
<1>8. DataIn(disk) \subseteq DataIn(disk')
  BY <1>2, DataGrows
<1> QED
  BY <1>3, <1>7, <1>8, ShortData

\* A boot writes nothing, nor does a power failure.
LEMMA PowerData ==
    ASSUME ShellCareful, ShellInv, DataInv, Boot \/ Crash
    PROVE  DataInv'
<1>1. DriverInv /\ PowerInv /\ FiledInv
  BY ShellFacts DEF ShellInv, DataInv
<1>2. AllDisks' \subseteq AllDisks
  BY <1>1, MachineStep DEF Boot, Crash
<1>3. FiledInv'
  BY <1>1, <1>2 DEF FiledInv
<1>4. pending' = <<>> /\ calls' = <<>>
  <2>1. CASE Boot
    <3>1. /\ initialize_filesystem_fat32 /\ power = "off" /\ calls' = calls
      BY <2>1 DEF Boot, initialize_filesystem_fat32, shellVars
    <3>2. pending' = pending
      BY <1>1, <3>1, MachineStep
    <3>3. pending = <<>>
      BY <1>1, <3>1 DEF DriverInv, CacheInv
    <3> QED
      BY <1>1, <3>1, <3>2, <3>3 DEF PowerInv
  <2>2. CASE Crash
    BY <2>2 DEF Crash, PowerOff
  <2> QED
    BY <2>1, <2>2
<1>5. \A k \in 1 .. Len(<<>>) : FALSE
  OBVIOUS
<1>6. GrowInv'
  BY <1>4, <1>5 DEF GrowInv
<1> QED
  BY <1>3, <1>4, <1>6, ShortData

\* The other commands have no source.
LEMMA CommandData ==
    ASSUME ShellCareful, ShellInv, DataInv,
           \/ CdCommand \/ MkdirCommand \/ RmCommand \/ OpenCommand \/ CpCommand \/ Return
    PROVE  DataInv'
<1>1. DriverInv /\ FiledInv
  BY ShellFacts DEF DataInv
<1>2. ASSUME RmCommand PROVE DataInv'
  <2>1. Idle /\ Removing
    BY <1>2, RmKeeps
  <2>2. job'.name = "rm"
    BY <1>2 DEF RmCommand, Type
  <2>3. FiledInv' /\ GrowInv'
    BY <1>1, <2>1, <2>2, RemovingFiled DEF GrowInv
  <2> QED
    BY <2>2, <2>3, ShortData
<1>3. ASSUME \/ CdCommand \/ MkdirCommand \/ OpenCommand \/ CpCommand \/ Return
      PROVE  DataInv'
  <2>1. Idle /\ Adding
    BY <1>3, CdKeeps, MkdirKeeps, OpenKeeps, CpKeeps, ReturnKeeps
  <2>2. FiledInv' /\ GrowInv'
    BY <1>1, <2>1, AddingData
  <2>3. job'.name # "mv"
    <3>1. ASSUME CdCommand PROVE job'.name = "cd"
      BY <3>1 DEF CdCommand, Type
    <3>2. ASSUME MkdirCommand PROVE job'.name = "mkdir"
      BY <3>2 DEF MkdirCommand, Type
    <3>3. ASSUME CpCommand PROVE job'.name = "cp"
      BY <3>3 DEF CpCommand, Type
    <3>4. ASSUME Return PROVE job'.name = "none"
      BY <3>4 DEF Return, NoJob
    <3>5. ASSUME OpenCommand PROVE job'.name # "mv"
      <4>1. PICK d \in {ShellDriver, KernelDriver} :
               Type(IF d = ShellDriver THEN "cat" ELSE "exec", {})
        BY <3>5 DEF OpenCommand
      <4>2. job'.name = IF d = ShellDriver THEN "cat" ELSE "exec"
        BY <4>1 DEF Type
      <4> QED
        BY <4>2
    <3> QED
      BY <1>3, <3>1, <3>2, <3>3, <3>4, <3>5
  <2> QED
    BY <2>2, <2>3, ShortData
<1> QED
  BY <1>2, <1>3

\* Nor does a step that leaves everything alone.
LEMMA StillData ==
    ASSUME DataInv, UNCHANGED vars
    PROVE  DataInv'
<1>1. UNCHANGED <<disk, cache, pending, power, currentDirectory, calls, job>>
  BY DEF vars, fatVars, shellVars
<1>2. FiledInv' /\ GrowInv'
  BY <1>1 DEF DataInv, FiledInv, GrowInv, AllDisks
<1>3. \A src, dst : Moves(src, dst) => Moves(src, dst)'
  BY <1>1 DEF Moves, Movable, AllDisks
<1>4. \A name : Buffer(name)' = Buffer(name)
  BY <1>1 DEF Buffer, ReadResult, Valid, DataAlong
<1>5. \A name : Saved(name) => Saved(name)'
  BY <1>1, <1>4 DEF Saved, DiskToCome
<1>6. SavedInv'
  BY <1>1, <1>3, <1>5 DEF DataInv, SavedInv
<1> QED
  BY <1>2, <1>6 DEF DataInv

\* The disk the inserter formats has no files.
LEMMA DataInit ==
    ASSUME Init
    PROVE  DataInv
<1>1. disk = FormattedDisk /\ pending = <<>> /\ calls = <<>>
  BY DEF Init
<1> DEFINE t == init_directory_table(RootName, Root, NoExt)
<1>2. \A i \in UserSlots : ~t[i].live
  BY NewTableFacts, ClusterFacts, FatConstants DEF Root
<1> HIDE DEF t
<1>3. FormattedDisk.table[Root] = t
  BY BlankDiskTyped, ClusterFacts DEF FormattedDisk, Disks, Root, t
<1>4. TableFiled(disk.table[Root])
  BY <1>1, <1>2, <1>3 DEF TableFiled
<1>5. \A k \in 1 .. Len(<<>>) : FALSE
  OBVIOUS
<1> QED
  BY <1>1, <1>4, <1>5 DEF DataInv, FiledInv, GrowInv, SavedInv, AllDisks

\* Every step keeps the data.
LEMMA DataStep ==
    ASSUME ShellCareful, ShellInv, DataInv, [Next]_vars
    PROVE  DataInv'
  BY CommandData, MvData, CallData, InsertData, PowerData, WriteData, StillData DEF Next

\* No command but rm makes data disappear, wherever the power fails: mv removes its
\* source when the copy is on the disk as a whole, whatever else carries the name.
THEOREM MoveLosesNothing ==
    ASSUME ShellCareful
    PROVE  Spec => OnlyRmLosesData
<1>1. Init => DataInv
  BY DataInit
<1>2. ShellInv /\ DataInv /\ [Next]_vars => DataInv'
  BY DataStep
<1>3. ShellInv /\ DataInv /\ [Next]_vars =>
         [job.name # "rm" => StoredData \subseteq StoredData']_disk
  <2> SUFFICES ASSUME ShellInv, DataInv, [Next]_vars, disk' # disk, job.name # "rm"
               PROVE  DataIn(disk) \subseteq DataIn(disk')
    BY StoredIsData
  <2>1. Insert \/ Write
    BY DiskChanges DEF vars, fatVars
  <2>2. CASE Insert
    BY <2>2, InsertData
  <2>3. CASE Write
    <3>1. pending \in Seq(Disks) /\ pending # <<>> /\ disk' = Head(pending)
      BY <2>3 DEF Write, DiskWrite, ShellInv, FatTyped
    <3>2. 1 \in 1 .. Len(pending) /\ disk' = pending[1]
      BY <3>1
    <3> QED
      BY <3>2 DEF DataInv, GrowInv
  <2> QED
    BY <2>1, <2>2, <2>3
<1> QED
  BY <1>1, <1>2, <1>3, ShellAlways, PTL DEF Spec, OnlyRmLosesData

-----------------------------------------------------------------------------
(* The prompt.                                                              *)

\* The tables lead up to directories, from the root to the root.
LEMMA UpwardsSteps ==
    ASSUME disk \in Disks, NEW c \in Clusters
    PROVE  /\ \A k \in 0 .. ClusterMapSize : Upwards(c)[k] \in Clusters
           /\ Upwards(c)[0] = c
           /\ \A k \in 1 .. ClusterMapSize :
                 Upwards(c)[k] = disk.table[Upwards(c)[k - 1]][1].cluster
<1> DEFINE n == ClusterMapSize
           parent(x) == disk.table[x][1].cluster
           step == [x \in Clusters |-> [k \in 1 .. n |-> parent(x)]]
<1>1. n \in Nat
  BY ClusterFacts
<1>2. \A x \in Clusters : parent(x) \in Clusters
  BY ClusterFacts DEF Disks, Tables, Entries
<1> HIDE DEF n
<1>3. step \in Steps(Clusters, n)
  BY <1>2 DEF Steps
<1>4. \A x \in Clusters, k \in 1 .. n : step[x][k] = parent(x)
  OBVIOUS
<1> HIDE DEF parent, step
<1>5. PICK g \in [0 .. n -> Clusters] : Follows(g, c, step, n)
  BY <1>1, <1>3, RecursionExists
<1>6. ASSUME NEW k \in 1 .. n PROVE g[k] = parent(g[k - 1])
  <2>1. g[k - 1] \in Clusters
    BY <1>1
  <2> QED
    BY <1>4, <1>5, <2>1 DEF Follows
<1>7. g = [k \in 0 .. n |-> IF k = 0 THEN c ELSE parent(g[k - 1])]
  BY <1>1, <1>5, <1>6 DEF Follows
<1> DEFINE h == CHOOSE h : h = [k \in 0 .. n |-> IF k = 0 THEN c ELSE parent(h[k - 1])]
<1>8. h = [k \in 0 .. n |-> IF k = 0 THEN c ELSE parent(h[k - 1])]
  BY <1>7
<1>9. Upwards(c) = h
  BY DEF Upwards, parent, n
<1> HIDE DEF h
<1>10. h[0] = c /\ \A k \in 1 .. n : h[k] = parent(h[k - 1])
  <2>1. 0 \in 0 .. n /\ \A k \in 1 .. n : k \in 0 .. n /\ k # 0
    BY <1>1
  <2> QED
    BY <1>8, <2>1
<1>11. \A k \in 0 .. n : h[k] = g[k]
  <2>1. Alike(g, h, n)
    BY <1>5, <1>6, <1>10 DEF Alike, Follows
  <2> QED
    BY <1>1, <2>1, SameRecursion
<1> QED
  BY <1>5, <1>9, <1>10, <1>11 DEF parent, n

\* One step up, and on from there.
LEMMA UpwardsShift ==
    ASSUME disk \in Disks, NEW c \in Clusters, NEW x \in Clusters,
           disk.table[c][1].cluster = x
    PROVE  \A k \in 0 .. ClusterMapSize - 1 : Upwards(c)[k + 1] = Upwards(x)[k]
<1> DEFINE n == ClusterMapSize - 1
           T == {k \in 0 .. n : Upwards(c)[k + 1] = Upwards(x)[k]}
<1>1. n \in Nat /\ ClusterMapSize = n + 1
  BY ClusterFacts
<1> HIDE DEF n
<1>2. 0 \in T
  <2>1. 1 \in 1 .. ClusterMapSize /\ 1 - 1 = 0 /\ 0 + 1 = 1 /\ 0 \in 0 .. n
    BY <1>1
  <2> QED
    BY <2>1, UpwardsSteps
<1>3. ASSUME NEW k \in 0 .. n - 1, k \in T PROVE k + 1 \in T
  <2>1. /\ k + 1 \in 1 .. ClusterMapSize /\ (k + 1) - 1 = k /\ k + 1 \in 0 .. n
        /\ (k + 1) + 1 \in 1 .. ClusterMapSize /\ ((k + 1) + 1) - 1 = k + 1
    BY <1>1
  <2>2. Upwards(c)[(k + 1) + 1] = disk.table[Upwards(c)[k + 1]][1].cluster
    BY <2>1, UpwardsSteps
  <2>3. Upwards(x)[k + 1] = disk.table[Upwards(x)[k]][1].cluster
    BY <2>1, UpwardsSteps
  <2> QED
    BY <1>3, <2>1, <2>2, <2>3
<1> HIDE DEF T
<1>4. 0 .. n \subseteq T
  BY <1>1, <1>2, <1>3, IntervalInduction
<1> QED
  BY <1>4 DEF T, n

\* Everywhere on the way up there is a directory.
LEMMA UpwardsStays ==
    ASSUME ShellCareful, DriverInv, NEW c \in Reach
    PROVE  \A k \in 0 .. ClusterMapSize : Upwards(c)[k] \in Reach
<1> DEFINE n == ClusterMapSize
           T == {k \in 0 .. n : Upwards(c)[k] \in Reach}
<1>1. n \in Nat /\ disk \in Disks /\ c \in Clusters
  BY ClusterFacts, DriverFacts
<1>2. \A x \in Reach : disk.table[x][1].cluster \in Reach
  BY DriverFacts, HousedReach DEF HasSelf
<1> HIDE DEF n
<1>3. 0 \in T
  BY <1>1, UpwardsSteps
<1>4. ASSUME NEW k \in 0 .. n - 1, k \in T PROVE k + 1 \in T
  <2>1. k + 1 \in 1 .. n /\ (k + 1) - 1 = k /\ k + 1 \in 0 .. n
    BY <1>1
  <2>2. Upwards(c)[k + 1] = disk.table[Upwards(c)[k]][1].cluster
    BY <1>1, <2>1, UpwardsSteps DEF n
  <2> QED
    BY <1>2, <1>4, <2>1, <2>2
<1> HIDE DEF T
<1>5. 0 .. n \subseteq T
  BY <1>1, <1>3, <1>4, IntervalInduction
<1> QED
  BY <1>5 DEF T, n

\* How far below the root a directory is.
Depth(c) == Min({k \in 0 .. ClusterMapSize : Upwards(c)[k] = Root})

\* As far as it takes to come to the root, which is no farther than a walk down goes.
LEMMA DepthFacts ==
    ASSUME ShellCareful, DriverInv, NEW c \in Reach
    PROVE  /\ Depth(c) \in 0 .. DirectoryMax /\ Upwards(c)[Depth(c)] = Root
           /\ \A k \in 0 .. Depth(c) - 1 : Upwards(c)[k] # Root
           /\ \A k \in 0 .. ClusterMapSize : Upwards(c)[k] = Root => Depth(c) <= k
<1> DEFINE m == DirectoryMax
<1>1. /\ disk \in Disks /\ Walkable(disk) /\ Settled(disk) /\ Reach = DirectoryClusters(disk)
      /\ Reach \subseteq Clusters /\ DiskSound(disk) /\ Housed(disk)
  BY DriverFacts DEF Housed
<1>2. m \in Nat /\ m + 1 \in 0 .. ClusterMapSize /\ m \in 0 .. ClusterMapSize
  BY FatConstants
<1>3. PICK g : Explores(disk, g) /\ Reach = g[m]
  BY <1>1, WalkSettles
<1>4. \A k \in 0 .. m : g[k] \subseteq Reach
  BY <1>2, <1>3, WalkGrows
<1> HIDE DEF m
<1> DEFINE T == {j \in 0 .. m : \A x \in g[j] : \E k \in 0 .. j : Upwards(x)[k] = Root}
<1>5. 0 \in T
  <2>1. g[0] = {Root} /\ 0 \in 0 .. m /\ 0 \in 0 .. 0 /\ Root \in Clusters
    BY <1>2, <1>3, ClusterFacts DEF Explores, Root
  <2>2. Upwards(Root)[0] = Root
    BY <1>1, <2>1, UpwardsSteps
  <2> QED
    BY <2>1, <2>2
<1>6. ASSUME NEW j \in 0 .. m - 1, j \in T PROVE j + 1 \in T
  <2>1. /\ j + 1 \in 1 .. ClusterMapSize /\ (j + 1) - 1 = j /\ j + 1 \in 0 .. m /\ j \in 0 .. m
        /\ \A k \in 0 .. j : k \in 0 .. ClusterMapSize - 1
        /\ \A k \in 0 .. j : k \in 0 .. j + 1 /\ k + 1 \in 0 .. j + 1
    BY <1>2, ClusterFacts
  <2>2. g[j + 1] = More(disk, g[j])
    BY <1>3, <2>1 DEF Explores
  <2>3. ASSUME NEW x \in g[j + 1] PROVE \E k \in 0 .. j + 1 : Upwards(x)[k] = Root
    <3>1. PICK y \in g[j] : x = y \/ x \in Subdirectories(disk, y)
      BY <2>2 DEF More
    <3>2. PICK k \in 0 .. j : Upwards(y)[k] = Root
      BY <1>6
    <3>3. CASE x = y
      BY <2>1, <3>2, <3>3
    <3>4. CASE x \in Subdirectories(disk, y)
      <4>1. x \in Clusters /\ y \in Reach /\ y \in Clusters
        BY <1>1, <1>4, <2>1
      <4>2. PICK i \in UserSlots : /\ disk.table[y][i].live /\ disk.table[y][i].dir
                                   /\ disk.table[y][i].cluster = x
        BY <1>1, <3>4, <4>1, SubdirectoriesTyped
      <4>3. disk.table[x][1].cluster = y
        BY <1>1, <4>1, <4>2, HousedReach DEF LeadsDown
      <4>4. x \in Clusters
        BY <1>1, <1>4, <2>1
      <4>5. Upwards(x)[k + 1] = Root
        BY <1>1, <2>1, <3>2, <4>1, <4>3, <4>4, UpwardsShift
      <4> QED
        BY <2>1, <4>5
    <3> QED
      BY <3>1, <3>3, <3>4
  <2> QED
    BY <2>1, <2>3
<1> HIDE DEF T
<1>7. m \in T
  <2>1. 0 .. m \subseteq T
    BY <1>2, <1>5, <1>6, IntervalInduction
  <2> QED
    BY <1>2, <2>1
<1> DEFINE A == {k \in 0 .. ClusterMapSize : Upwards(c)[k] = Root}
<1>8. PICK k \in 0 .. m : k \in A
  <2>1. PICK k \in 0 .. m : Upwards(c)[k] = Root
    BY <1>3, <1>7 DEF T
  <2>2. k \in 0 .. ClusterMapSize
    BY <1>2, ClusterFacts
  <2> QED
    BY <2>1, <2>2
<1>9. Depth(c) \in A /\ \A j \in A : Depth(c) <= j
  <2>1. A \in SUBSET Nat /\ A # {}
    BY <1>8
  <2>2. \E n \in A : \A j \in A : n <= j
    BY <2>1, LeastElement
  <2> HIDE DEF A
  <2>3. Min(A) \in A /\ \A j \in A : Min(A) <= j
    BY <2>2 DEF Min
  <2> QED
    BY <2>3 DEF Depth, A
<1>10. Depth(c) \in 0 .. ClusterMapSize /\ Depth(c) \in 0 .. m
  BY <1>2, <1>8, <1>9
<1>11. \A j \in 0 .. Depth(c) - 1 : j \in 0 .. ClusterMapSize /\ ~(Depth(c) <= j)
  BY <1>2, <1>10, FatConstants
<1> QED
  BY <1>9, <1>10, <1>11 DEF m

\* The prompt names a path that leads to the current directory, whatever was made,
\* moved and removed, and wherever the power failed.
THEOREM PromptLeads ==
    ASSUME ShellCareful
    PROVE  Spec => []PromptIsPath
<1>1. ASSUME ShellInv PROVE PromptIsPath
  <2> DEFINE c == currentDirectory
             n == Depth(c)
  <2>1. DriverInv /\ c \in Reach
    BY <1>1, ShellFacts
  <2>2. n \in 0 .. DirectoryMax /\ Upwards(c)[n] = Root /\ n \in 0 .. ClusterMapSize
        /\ \A k \in 0 .. n - 1 : Upwards(c)[k] # Root
    BY <2>1, DepthFacts, FatConstants
  <2>3. n = Min(Ascents) /\ n \in Ascents
    <3>1. Ascents = {k \in 0 .. ClusterMapSize : Upwards(c)[k] = Root}
      BY Zenon DEF Ascents, Up
    <3> QED
      BY <2>2, <3>1 DEF Depth
  <2>4. ASSUME NEW k \in 0 .. n - 1
        PROVE  \E e \in LiveEntries(disk, Up(k + 1)) :
                  e.dir /\ e.cluster = Up(k) /\ e.name = disk.table[Up(k)][0].name
    <3>1. /\ k \in 0 .. ClusterMapSize /\ k + 1 \in 1 .. ClusterMapSize /\ (k + 1) - 1 = k
      BY <2>2, FatConstants
    <3>2. Up(k) \in Reach /\ Up(k) # Root
      BY <2>1, <2>2, <3>1, UpwardsStays DEF Up
    <3>3. Up(k + 1) = disk.table[Up(k)][1].cluster
      BY <2>1, <3>1, DriverFacts, UpwardsSteps DEF Up
    <3>4. PICK x \in Reach, i \in UserSlots :
             /\ disk.table[x][i].live /\ disk.table[x][i].dir
             /\ disk.table[x][i].cluster = Up(k) /\ disk.table[Up(k)][1].cluster = x
      BY <2>1, <3>2, DriverFacts, HousedReach
    <3>5. disk.table[Up(k)][0].name = disk.table[x][i].name
      BY <2>1, <3>4, DriverFacts, HousedReach
    <3>6. disk.table[x][i] \in LiveEntries(disk, Up(k + 1))
      BY <3>3, <3>4 DEF LiveEntries
    <3> QED
      BY <3>4, <3>5, <3>6
  <2> HIDE DEF n
  <2> QED
    BY <2>3, <2>4 DEF PromptIsPath
<1> QED
  BY <1>1, ShellAlways, PTL

-----------------------------------------------------------------------------
(* find.                                                                    *)

\* One element after a sequence.
LEMMA AppendIs ==
    ASSUME NEW S, NEW m \in Nat, NEW q \in [1 .. m -> S], NEW x \in S,
           NEW p \in [1 .. m + 1 -> S], \A k \in 1 .. m : p[k] = q[k], p[m + 1] = x
    PROVE  p = Append(q, x)
<1>1. ASSUME NEW n \in Nat, NEW s \in [1 .. n -> S] PROVE s \in Seq(S) /\ Len(s) = n
  <2>1. s \in Seq(S)
    BY SeqDef
  <2>2. Len(s) \in Nat /\ 1 .. Len(s) = 1 .. n
    BY <2>1, LenProperties
  <2> QED
    BY <2>1, <2>2
<1>2. q \in Seq(S) /\ Len(q) = m /\ p \in Seq(S) /\ Len(p) = m + 1
  BY <1>1
<1> DEFINE a == Append(q, x)
<1>3. /\ a \in Seq(S) /\ Len(a) = m + 1
      /\ (\A k \in 1 .. m : a[k] = q[k]) /\ a[m + 1] = x
  BY <1>2, AppendProperties
<1> HIDE DEF a
<1>4. \A k \in 1 .. Len(p) : p[k] = a[k]
  BY <1>2, <1>3
<1>5. p = a
  BY <1>2, <1>3, <1>4, SeqEqual
<1> QED
  BY <1>5 DEF a

\* The names on the way up, the last first.
PromptAt(c, n) == [k \in 1 .. n |-> disk.table[Upwards(c)[n - k]][0].name]

\* The prompt prints the names up to the first place where the root is met.
LEMMA PromptIsAt == \A c : PromptIn(c) = PromptAt(c, Depth(c))
BY DEF PromptIn, PromptAt, Depth

\* No names lead to the root, and one more to the directory of an entry.
LEMMA PromptRoot ==
    ASSUME ShellCareful, DriverInv
    PROVE  Depth(Root) = 0 /\ PromptIn(Root) = <<>>
<1>1. Root \in Reach /\ disk \in Disks /\ Root \in Clusters
  BY DriverFacts
<1>2. Upwards(Root)[0] = Root /\ 0 \in 0 .. ClusterMapSize
  BY <1>1, UpwardsSteps, ClusterFacts
<1>3. Depth(Root) = 0
  BY <1>1, <1>2, DepthFacts, FatConstants
<1>4. PromptAt(Root, 0) = <<>>
  BY DEF PromptAt
<1> QED
  BY <1>3, <1>4, PromptIsAt

\* The prompt of a directory is that of the one above it and one name more.
LEMMA PromptDown ==
    ASSUME ShellCareful, DriverInv, NEW c \in Reach, c # Root, NEW x \in Reach,
           disk.table[c][1].cluster = x
    PROVE  /\ Depth(c) = Depth(x) + 1
           /\ PromptIn(c) = Append(PromptIn(x), disk.table[c][0].name)
<1>1. c \in Clusters /\ x \in Clusters /\ disk \in Disks /\ DirectoryMax < ClusterMapSize
      /\ ClusterMapSize \in Nat /\ DirectoryMax \in Nat
  BY DriverFacts, FatConstants
<1>2. PICK m \in Nat : /\ m = Depth(x) /\ m <= DirectoryMax /\ Upwards(x)[m] = Root
                       /\ \A k \in 0 .. m - 1 : Upwards(x)[k] # Root
  BY <1>1, DepthFacts
<1>3. PICK n \in Nat : /\ n = Depth(c) /\ n <= DirectoryMax /\ Upwards(c)[n] = Root
                       /\ \A k \in 0 .. ClusterMapSize : Upwards(c)[k] = Root => n <= k
  BY <1>1, DepthFacts
<1>4. \A k \in 0 .. ClusterMapSize - 1 : Upwards(c)[k + 1] = Upwards(x)[k]
  BY <1>1, UpwardsShift
<1>5. Upwards(c)[0] = c
  BY <1>1, UpwardsSteps
<1>6. n = m + 1
  <2>1. n # 0
    BY <1>3, <1>5
  <2>2. n - 1 \in 0 .. ClusterMapSize - 1 /\ (n - 1) + 1 = n
    BY <1>1, <1>3, <2>1
  <2>3. Upwards(x)[n - 1] = Root
    BY <1>3, <1>4, <2>2
  <2>4. n - 1 >= m
    BY <1>2, <2>2, <2>3
  <2>5. m \in 0 .. ClusterMapSize - 1 /\ m + 1 \in 0 .. ClusterMapSize
    BY <1>1, <1>2
  <2>6. n <= m + 1
    BY <1>2, <1>3, <1>4, <2>5
  <2> QED
    BY <2>4, <2>6
<1>7. PromptAt(c, n) = Append(PromptAt(x, m), disk.table[c][0].name)
  <2> DEFINE p == PromptAt(c, n)
             q == PromptAt(x, m)
             name == disk.table[c][0].name
  <2>1. ASSUME NEW k \in 1 .. n PROVE p[k] = IF k = n THEN name ELSE q[k]
    <3>1. CASE k = n
      <4>1. n - k = 0
        BY <3>1
      <4> QED
        BY <1>5, <3>1, <4>1 DEF PromptAt
    <3>2. CASE k # n
      <4>1. k \in 1 .. m /\ m - k \in 0 .. ClusterMapSize - 1 /\ (m - k) + 1 = n - k
        BY <1>1, <1>2, <1>6, <3>2
      <4>2. Upwards(c)[n - k] = Upwards(x)[m - k]
        BY <1>4, <4>1
      <4> QED
        BY <3>2, <4>1, <4>2 DEF PromptAt
    <3> QED
      BY <3>1, <3>2
  <2>2. p = [k \in 1 .. n |-> p[k]] /\ q = [k \in 1 .. m |-> q[k]]
    BY DEF PromptAt
  <2> HIDE DEF p, q, name
  <2> DEFINE S == {name} \cup {q[k] : k \in 1 .. m}
  <2>3. n \in 1 .. n /\ \A k \in 1 .. m : k \in 1 .. n /\ k # n
    BY <1>6
  <2>4. (\A k \in 1 .. m : p[k] = q[k]) /\ p[n] = name
    BY <2>1, <2>3
  <2>5. q \in [1 .. m -> S] /\ name \in S
    BY <2>2
  <2>6. \A k \in 1 .. n : p[k] \in S
    BY <1>6, <2>1
  <2> HIDE DEF S
  <2>7. p \in [1 .. n -> S]
    BY <2>2, <2>6
  <2>8. p = Append(q, name)
    BY <1>6, <2>4, <2>5, <2>7, AppendIs
  <2> QED
    BY <2>8 DEF p, q, name
<1> QED
  BY <1>2, <1>3, <1>6, <1>7, PromptIsAt

\* A walk one level further down.
WalkOn(walks) ==
    UNION {{[dir |-> e.cluster, path |-> Append(w.path, e.name)] :
               e \in {f \in LiveEntries(disk, w.dir) : f.dir}} : w \in walks}
WalkTo(c) == [dir |-> c, path |-> PromptIn(c)]
Level(k) == {WalkTo(c) : c \in {x \in Reach : Depth(x) = k}}

\* On every level it comes to the directories of that depth, with their prompts.
LEMMA LevelDown ==
    ASSUME ShellCareful, DriverInv, NEW k \in Nat, NEW n \in Nat, n = k + 1
    PROVE  WalkOn(Level(k)) = Level(n)
<1>1. /\ disk \in Disks /\ DiskSound(disk) /\ Housed(disk) /\ Settled(disk)
      /\ Reach = DirectoryClusters(disk)
  BY DriverFacts
<1>2. \A c \in Reach : Depth(c) \in Nat
  BY DepthFacts, FatConstants
<1>3. ASSUME NEW x \in Reach, NEW e \in LiveEntries(disk, x), e.dir
      PROVE  /\ e.cluster \in Reach /\ Depth(e.cluster) = Depth(x) + 1
             /\ [dir |-> e.cluster, path |-> Append(PromptIn(x), e.name)] = WalkTo(e.cluster)
  <2>1. PICK i \in UserSlots : e = disk.table[x][i] /\ disk.table[x][i].live
    BY DEF LiveEntries
  <2>2. /\ LeadsDown(disk, x, e.cluster) /\ disk.table[e.cluster][0].name = e.name
    BY <1>1, <1>3, <2>1, HousedReach
  <2>3. PICK c \in Reach : c = e.cluster /\ c # Root /\ disk.table[c][1].cluster = x
    BY <1>1, <2>2 DEF LeadsDown
  <2>4. Depth(c) = Depth(x) + 1 /\ PromptIn(c) = Append(PromptIn(x), disk.table[c][0].name)
    BY <2>3, PromptDown
  <2> QED
    BY <2>2, <2>3, <2>4 DEF WalkTo
<1>4. ASSUME NEW v \in WalkOn(Level(k)) PROVE v \in Level(n)
  <2>1. PICK w \in Level(k) : \E e \in LiveEntries(disk, w.dir) :
           e.dir /\ v = [dir |-> e.cluster, path |-> Append(w.path, e.name)]
    BY DEF WalkOn
  <2>2. PICK x \in Reach : Depth(x) = k /\ w = WalkTo(x)
    BY <2>1 DEF Level
  <2>3. w.dir = x /\ w.path = PromptIn(x)
    BY <2>2 DEF WalkTo
  <2>4. PICK e \in LiveEntries(disk, x) :
           e.dir /\ v = [dir |-> e.cluster, path |-> Append(PromptIn(x), e.name)]
    BY <2>1, <2>3
  <2>5. e.cluster \in Reach /\ Depth(e.cluster) = n /\ v = WalkTo(e.cluster)
    BY <1>3, <2>2, <2>4
  <2> QED
    BY <2>5 DEF Level
<1>5. ASSUME NEW v \in Level(n) PROVE v \in WalkOn(Level(k))
  <2>1. PICK c \in Reach : Depth(c) = n /\ v = WalkTo(c)
    BY DEF Level
  <2>2. c # Root
    BY <2>1, PromptRoot
  <2>3. PICK x \in Reach, i \in UserSlots :
           /\ disk.table[x][i].live /\ disk.table[x][i].dir
           /\ disk.table[x][i].cluster = c
    BY <1>1, <2>2, HousedReach
  <2>4. PICK e \in LiveEntries(disk, x) : e.dir /\ e.cluster = c
    BY <2>3 DEF LiveEntries
  <2>5. /\ Depth(c) = Depth(x) + 1 /\ Depth(x) \in Nat
        /\ [dir |-> e.cluster, path |-> Append(PromptIn(x), e.name)] = WalkTo(c)
    BY <1>2, <1>3, <2>4
  <2>6. Depth(x) = k
    BY <2>1, <2>5
  <2>7. PICK w \in Level(k) : w = WalkTo(x)
    BY <2>6 DEF Level
  <2>8. w.dir = x /\ w.path = PromptIn(x)
    BY <2>7 DEF WalkTo
  <2> DEFINE below == {[dir |-> f.cluster, path |-> Append(w.path, f.name)] :
                          f \in {f \in LiveEntries(disk, w.dir) : f.dir}}
  <2>9. v \in below
    BY <2>1, <2>4, <2>5, <2>8
  <2>10. below \subseteq WalkOn(Level(k))
    BY Zenon DEF WalkOn
  <2> QED
    BY <2>9, <2>10
<1> QED
  BY <1>4, <1>5

\* A walk down from the root comes to every directory, and on the way its prompt shows.
LEMMA WalksFromRoot ==
    ASSUME ShellCareful, DriverInv
    PROVE  Walks(Root) = {WalkTo(c) : c \in Reach}
<1> DEFINE m == DirectoryMax
           start == {[dir |-> Root, path |-> <<>>]}
           g == [k \in 0 .. m |-> Level(k)]
<1>1. m \in Nat /\ Root \in Reach /\ Root \in Clusters /\ disk \in Disks
      /\ Reach \subseteq Clusters
  BY DriverFacts, FatConstants
<1>2. \A c \in Reach : Depth(c) \in 0 .. m /\ (Depth(c) = 0 <=> c = Root)
  BY <1>1, DepthFacts, UpwardsSteps, PromptRoot
<1> HIDE DEF m
<1>3. Level(0) = start
  <2>1. {x \in Reach : Depth(x) = 0} = {Root}
    BY <1>1, <1>2
  <2>2. WalkTo(Root) = [dir |-> Root, path |-> <<>>]
    BY PromptRoot DEF WalkTo
  <2> QED
    BY <2>1, <2>2 DEF Level
<1>4. ASSUME NEW k \in 1 .. m PROVE g[k] = WalkOn(g[k - 1])
  <2>1. k - 1 \in Nat /\ k \in Nat /\ k = (k - 1) + 1 /\ k \in 0 .. m /\ k - 1 \in 0 .. m
    BY <1>1
  <2>2. WalkOn(Level(k - 1)) = Level(k)
    BY <2>1, LevelDown
  <2> QED
    BY <2>1, <2>2
<1>5. g[0] = start
  BY <1>1, <1>3
<1>6. g = [k \in 0 .. m |-> IF k = 0 THEN start ELSE WalkOn(g[k - 1])]
  <2>1. \A k \in 0 .. m : k = 0 \/ k \in 1 .. m
    BY <1>1
  <2>2. \A k \in 0 .. m : g[k] = IF k = 0 THEN start ELSE WalkOn(g[k - 1])
    BY <1>4, <1>5, <2>1
  <2>3. g = [k \in 0 .. m |-> g[k]]
    OBVIOUS
  <2> HIDE DEF g
  <2> QED
    BY <2>2, <2>3
<1>7. UNION Range(g) = {WalkTo(c) : c \in Reach}
  <2>1. Range(g) = {Level(k) : k \in 0 .. m}
    BY DEF Range
  <2>2. ASSUME NEW c \in Reach PROVE WalkTo(c) \in Level(Depth(c))
    BY DEF Level
  <2>3. ASSUME NEW k, NEW v \in Level(k) PROVE v \in {WalkTo(c) : c \in Reach}
    BY DEF Level
  <2> HIDE DEF g
  <2>4. ASSUME NEW v \in UNION Range(g) PROVE v \in {WalkTo(c) : c \in Reach}
    BY <2>1, <2>3
  <2>5. ASSUME NEW c \in Reach PROVE WalkTo(c) \in UNION Range(g)
    BY <1>2, <2>1, <2>2
  <2> QED
    BY <2>4, <2>5
<1> HIDE DEF g
<1> DEFINE h == CHOOSE h : h = [k \in 0 .. m |-> IF k = 0 THEN start ELSE WalkOn(h[k - 1])]
<1>8. h = [k \in 0 .. m |-> IF k = 0 THEN start ELSE WalkOn(h[k - 1])]
  BY <1>6
<1>9. Walks(Root) = UNION Range(h)
  BY DEF Walks, WalkOn, m
<1> HIDE DEF h, start
<1>10. h[0] = start /\ \A k \in 1 .. m : h[k] = WalkOn(h[k - 1])
  <2>1. 0 \in 0 .. m /\ \A k \in 1 .. m : k \in 0 .. m /\ k # 0
    BY <1>1
  <2> QED
    BY <1>8, <2>1
<1>11. \A k \in 0 .. m : g[k] = h[k]
  <2>1. Alike(g, h, m)
    BY <1>4, <1>5, <1>10 DEF Alike
  <2> QED
    BY <1>1, <2>1, SameRecursion
<1>12. g = [k \in 0 .. m |-> g[k]] /\ h = [k \in 0 .. m |-> h[k]]
  BY <1>6, <1>8
<1>13. g = h
  BY <1>11, <1>12
<1> QED
  BY <1>7, <1>9, <1>13

\* find, walking down the entries, prints the path the prompt shows, climbing up the
\* tables, in the directory of what was found; it misses nothing.
THEOREM FindAgrees ==
    ASSUME ShellCareful
    PROVE  Spec => []FindMatchesPrompt
<1>1. ASSUME ShellInv, NEW item \in Names
      PROVE  findHelper(item) = {Append(PromptIn(p[1]), item) :
                                    p \in {q \in Places : EntryAt(q).name = item}}
  <2>1. DriverInv
    BY <1>1, ShellFacts
  <2>2. \A c \in Reach : WalkTo(c).dir = c /\ WalkTo(c).path = PromptIn(c)
    BY DEF WalkTo
  <2>3. findHelper(item) = {Append(PromptIn(c), item) :
           c \in {x \in Reach : \E e \in LiveEntries(disk, x) : e.name = item}}
    BY <2>1, <2>2, WalksFromRoot DEF findHelper
  <2>4. ASSUME NEW c \in Reach, NEW e \in LiveEntries(disk, c), e.name = item
        PROVE  \E p \in {q \in Places : EntryAt(q).name = item} : p[1] = c
    <3>1. PICK i \in UserSlots : disk.table[c][i].live /\ disk.table[c][i].name = item
      BY <2>4 DEF LiveEntries
    <3> DEFINE p == <<c, i>>
    <3>2. p \in Places /\ EntryAt(p).name = item /\ p[1] = c
      BY <3>1 DEF Places, EntryAt
    <3> QED
      BY <3>2
  <2>5. ASSUME NEW p \in Places, EntryAt(p).name = item
        PROVE  p[1] \in Reach /\ \E e \in LiveEntries(disk, p[1]) : e.name = item
    BY <2>5 DEF Places, EntryAt, LiveEntries
  <2> QED
    BY <2>3, <2>4, <2>5
<1>2. ShellInv => FindMatchesPrompt
  BY <1>1 DEF FindMatchesPrompt
<1> QED
  BY <1>2, ShellAlways, PTL

=============================================================================
