-------------------------- MODULE FileStoreProofs ---------------------------
(***************************************************************************)
(* The FAT32 driver keeps the promise of FileStore: for any number of      *)
(* clusters, slots and names, every write of a disk adds one entry to the  *)
(* tree, removes one or is invisible to it, wherever the power fails.      *)
(*                                                                         *)
(* The store is a function of one disk.  The invariant says of the disk    *)
(* and of those the call in progress will still write that each is a step  *)
(* of FileStore, or a stutter, away from the one before; so the induction  *)
(* is over calls, and DiskWrite and PowerOff have nothing left to prove.   *)
(*                                                                         *)
(* From what a call does to the walk it follows, at the end, that no       *)
(* cluster stays in use that nothing leads to.                             *)
(***************************************************************************)
EXTENDS Fat32Proofs

\* The entries of a disk as FileStore sees them.
PlacesOf(d) == {p \in DirectoryClusters(d) \X UserSlots : d.table[p[1]][p[2]].live}
DataOn(d, chain) ==
    [k \in 1 .. Len(chain) |->
        IF chain[k] \in Clusters THEN d.data[chain[k]] ELSE NoData]
StoredOn(d, p) ==
    LET e == Entry(d, p) IN
    [parent |-> p[1], name |-> e.name, ext |-> e.ext,
     id |-> IF e.dir THEN e.cluster ELSE ROOT_CLUSTER_NUMBER,
     contents |-> IF e.dir THEN <<>> ELSE DataOn(d, Chain(d.fat, e.cluster))]
StoreOf(d) == {StoredOn(d, p) : p \in PlacesOf(d)}

\* An entry that FileStore would add to s, and one it would remove.
NewIn(s, e) ==
    /\ e \in Promise!File \cup Promise!Directory
    /\ e.parent \in Promise!DirectoriesOf(s)
    /\ Promise!IsDirectory(e) => e.id \notin Promise!DirectoriesOf(s)
    /\ ~Promise!IsDirectory(e) =>
           \A f \in s : f.parent = e.parent => <<f.name, f.ext>> # <<e.name, e.ext>>
OldIn(s, e) ==
    e \in s /\ (Promise!IsDirectory(e) => \A f \in s : f.parent # e.id)

\* From s to t it takes one step of FileStore, or none.
Turns(s, t) ==
    \/ t = s
    \/ \E e : NewIn(s, e) /\ t = s \cup {e}
    \/ \E e : OldIn(s, e) /\ t = s \ {e}

-----------------------------------------------------------------------------
(* Walks from the root.                                                     *)

Walkable(d) == d.signed /\ IsDirectoryTable(d, ROOT_CLUSTER_NUMBER)
More(d, X) == UNION {{c} \cup Subdirectories(d, c) : c \in X}

\* The sets of clusters come to in 0, 1, ... steps.
Explores(d, g) ==
    /\ g \in [0 .. ClusterMapSize -> SUBSET Clusters]
    /\ g[0] = {ROOT_CLUSTER_NUMBER}
    /\ \A k \in 1 .. ClusterMapSize : g[k] = More(d, g[k - 1])

\* Entries lead to clusters.
LEMMA SubdirectoriesTyped ==
    ASSUME NEW d \in Disks, NEW c \in Clusters
    PROVE  /\ Subdirectories(d, c) \subseteq Clusters
           /\ \A x \in Subdirectories(d, c) : \E i \in UserSlots :
                 d.table[c][i].live /\ d.table[c][i].dir /\ d.table[c][i].cluster = x
           /\ \A i \in UserSlots :
                 d.table[c][i].live /\ d.table[c][i].dir =>
                    d.table[c][i].cluster \in Subdirectories(d, c)
<1>1. ASSUME NEW x \in Subdirectories(d, c)
      PROVE  \E i \in UserSlots :
                d.table[c][i].live /\ d.table[c][i].dir /\ d.table[c][i].cluster = x
  BY DEF Subdirectories, LiveEntries
<1>2. \A i \in UserSlots :
         d.table[c][i].live /\ d.table[c][i].dir =>
            d.table[c][i].cluster \in Subdirectories(d, c)
  BY DEF Subdirectories, LiveEntries
<1>3. \A i \in UserSlots : d.table[c][i].cluster \in Clusters
  BY ClusterFacts DEF Disks, Tables, Entries
<1> QED
  BY <1>1, <1>2, <1>3

\* The directories programs can come to are what such a walk has met.
LEMMA WalkExists ==
    ASSUME NEW d \in Disks, Walkable(d)
    PROVE  \E g : Explores(d, g) /\ DirectoryClusters(d) = g[DirectoryMax + 1]
<1> DEFINE n == ClusterMapSize
           more(X) == UNION {{c} \cup Subdirectories(d, c) : c \in X}
           step == [X \in SUBSET Clusters |-> [k \in 1 .. n |-> more(X)]]
           root == {ROOT_CLUSTER_NUMBER}
<1>1. n \in Nat /\ DirectoryMax + 1 \in 0 .. n
  BY FatConstants
<1>2. root \in SUBSET Clusters
  BY ClusterFacts
<1>3. \A X \in SUBSET Clusters : more(X) \in SUBSET Clusters
  BY SubdirectoriesTyped
<1> HIDE DEF more, n, root
<1>4. step \in Steps(SUBSET Clusters, n)
  BY <1>3 DEF Steps
<1>5. \A X \in SUBSET Clusters, k \in 1 .. n : step[X][k] = more(X)
  OBVIOUS
<1> HIDE DEF step
<1>6. PICK g \in [0 .. n -> SUBSET Clusters] : Follows(g, root, step, n)
  BY <1>1, <1>2, <1>4, RecursionExists
<1>7. ASSUME NEW k \in 1 .. n PROVE g[k] = more(g[k - 1])
  <2>1. g[k - 1] \in SUBSET Clusters
    BY <1>1
  <2> QED
    BY <1>5, <1>6, <2>1 DEF Follows
<1>8. g = [k \in 0 .. n |-> IF k = 0 THEN root ELSE more(g[k - 1])]
  BY <1>1, <1>6, <1>7 DEF Follows
<1> DEFINE h == CHOOSE h : h = [k \in 0 .. n |-> IF k = 0 THEN root ELSE more(h[k - 1])]
<1>9. h = [k \in 0 .. n |-> IF k = 0 THEN root ELSE more(h[k - 1])]
  BY <1>8
<1>10. DirectoryClusters(d) = h[DirectoryMax + 1]
  BY DEF Walkable, DirectoryClusters, more, n, root
<1> HIDE DEF h
<1>11. Alike(g, h, n)
  <2>1. g[0] = h[0]
    BY <1>1, <1>6, <1>9 DEF Follows
  <2>2. ASSUME NEW k \in 1 .. n, g[k - 1] = h[k - 1] PROVE g[k] = h[k]
    <3>1. k \in 0 .. n /\ k # 0
      BY <1>1
    <3>2. h[k] = more(h[k - 1])
      BY <1>9, <3>1
    <3> QED
      BY <1>7, <2>2, <3>2
  <2> QED
    BY <2>1, <2>2 DEF Alike
<1>12. g[DirectoryMax + 1] = h[DirectoryMax + 1]
  BY <1>1, <1>11, SameRecursion
<1>13. Explores(d, g)
  <2>1. g[0] = root
    BY <1>6 DEF Follows
  <2> QED
    BY <1>7, <2>1 DEF Explores, More, more, n, root
<1> QED
  BY <1>10, <1>12, <1>13

\* A longer walk meets no less.
LEMMA WalkGrows ==
    ASSUME NEW d, NEW g, Explores(d, g), NEW m \in 0 .. ClusterMapSize
    PROVE  \A k \in 0 .. m : g[k] \subseteq g[m] /\ ROOT_CLUSTER_NUMBER \in g[k]
<1> DEFINE T == {j \in 0 .. m : \A k \in 0 .. j : g[k] \subseteq g[j] /\ ROOT_CLUSTER_NUMBER \in g[k]}
<1>1. ClusterMapSize \in Nat /\ m \in Nat /\ m <= ClusterMapSize
  BY FatConstants
<1>2. 0 \in T
  BY <1>1 DEF Explores
<1>3. ASSUME NEW j \in 0 .. m - 1, j \in T PROVE j + 1 \in T
  <2>1. j + 1 \in 1 .. ClusterMapSize /\ (j + 1) - 1 = j /\ j + 1 \in 0 .. m
    BY <1>1
  <2>2. g[j + 1] = More(d, g[j])
    BY <2>1 DEF Explores
  <2>3. g[j] \subseteq g[j + 1]
    BY <2>2 DEF More
  <2>4. \A k \in 0 .. j + 1 : k \in 0 .. j \/ k = j + 1
    BY <1>1
  <2>5. j \in 0 .. j
    BY <1>1
  <2> QED
    BY <1>3, <2>1, <2>3, <2>4, <2>5
<1> HIDE DEF T
<1>4. 0 .. m \subseteq T
  BY <1>1, <1>2, <1>3, IntervalInduction
<1>5. m \in T
  BY <1>1, <1>4
<1> QED
  BY <1>5 DEF T

\* The root is met, and every other directory through an entry of one that is.
LEMMA ReachThrough ==
    ASSUME NEW d \in Disks, Walkable(d)
    PROVE  /\ DirectoryClusters(d) \subseteq Clusters
           /\ ROOT_CLUSTER_NUMBER \in DirectoryClusters(d)
           /\ \A x \in DirectoryClusters(d) :
                 \/ x = ROOT_CLUSTER_NUMBER
                 \/ \E c \in DirectoryClusters(d) : x \in Subdirectories(d, c)
<1> DEFINE n == DirectoryMax + 1
<1>1. n \in 0 .. ClusterMapSize /\ n \in Nat /\ ClusterMapSize \in Nat
  BY FatConstants
<1>2. PICK g : Explores(d, g) /\ DirectoryClusters(d) = g[n]
  BY WalkExists
<1> HIDE DEF n
<1>3. \A k \in 0 .. n : g[k] \subseteq g[n] /\ ROOT_CLUSTER_NUMBER \in g[k]
  BY <1>1, <1>2, WalkGrows
<1> DEFINE T == {k \in 0 .. n : \A x \in g[k] : \/ x = ROOT_CLUSTER_NUMBER
                                               \/ \E c \in g[n] : x \in Subdirectories(d, c)}
<1>4. 0 \in T
  BY <1>1, <1>2 DEF Explores
<1>5. ASSUME NEW k \in 0 .. n - 1, k \in T PROVE k + 1 \in T
  <2>1. k + 1 \in 1 .. ClusterMapSize /\ (k + 1) - 1 = k /\ k + 1 \in 0 .. n /\ k \in 0 .. n
    BY <1>1
  <2>2. g[k + 1] = More(d, g[k])
    BY <1>2, <2>1 DEF Explores
  <2>3. ASSUME NEW x \in g[k + 1]
        PROVE  x = ROOT_CLUSTER_NUMBER \/ \E c \in g[n] : x \in Subdirectories(d, c)
    <3>1. PICK c \in g[k] : x = c \/ x \in Subdirectories(d, c)
      BY <2>2 DEF More
    <3>2. c \in g[n]
      BY <1>3, <2>1, <3>1
    <3> QED
      BY <1>5, <3>1, <3>2
  <2> QED
    BY <2>1, <2>3
<1> HIDE DEF T
<1>6. n \in T
  <2>1. 0 .. n \subseteq T
    BY <1>1, <1>4, <1>5, IntervalInduction
  <2> QED
    BY <1>1, <2>1
<1>7. n \in 0 .. n /\ g[n] \subseteq Clusters
  BY <1>1, <1>2 DEF Explores
<1> QED
  BY <1>2, <1>3, <1>6, <1>7 DEF T

\* The walk has come to an end: it would meet no more in any number of steps.
Settled(d) ==
    /\ \A c \in DirectoryClusters(d) : Subdirectories(d, c) \subseteq DirectoryClusters(d)
    /\ Cardinality(DirectoryClusters(d)) <= DirectoryMax + 1

\* Sets of clusters have sizes, and a subset of the same size is the same set.
LEMMA ClustersFinite ==
    ASSUME NEW S \in SUBSET Clusters
    PROVE  /\ IsFiniteSet(S) /\ Cardinality(S) \in Nat
           /\ \A T \in SUBSET S : Cardinality(T) <= Cardinality(S)
                                  /\ (Cardinality(T) = Cardinality(S) => S = T)
<1>1. IsFiniteSet(Clusters)
  BY ClusterFacts, FS_Interval DEF Clusters
<1>2. IsFiniteSet(S)
  BY <1>1, FS_Subset
<1> QED
  BY <1>2, FS_Subset, FS_CardinalityType

\* Each step of a walk meets one more, or none ever after.
LEMMA WalkFills ==
    ASSUME NEW d \in Disks, NEW g, Explores(d, g), NEW K \in SUBSET Clusters,
           ROOT_CLUSTER_NUMBER \in K, \A c \in K : Subdirectories(d, c) \subseteq K,
           NEW n \in 0 .. ClusterMapSize
    PROVE  /\ g[n] \subseteq K
           /\ Cardinality(g[n]) >= n + 1 \/ More(d, g[n]) = g[n]
<1>1. ClusterMapSize \in Nat /\ n \in Nat
  BY FatConstants
<1> DEFINE T == {k \in 0 .. n : g[k] \subseteq K
                               /\ (Cardinality(g[k]) >= k + 1 \/ More(d, g[k]) = g[k])}
<1>2. 0 \in T
  <2>1. g[0] = {ROOT_CLUSTER_NUMBER}
    BY DEF Explores
  <2>2. Cardinality(g[0]) = 1
    BY <2>1, FS_Singleton
  <2>3. 0 \in 0 .. n /\ g[0] \subseteq K /\ Cardinality(g[0]) >= 0 + 1
    BY <1>1, <2>1, <2>2
  <2> QED
    BY <2>3
<1>3. ASSUME NEW k \in 0 .. n - 1, k \in T PROVE k + 1 \in T
  <2>1. k + 1 \in 1 .. ClusterMapSize /\ (k + 1) - 1 = k /\ k + 1 \in 0 .. n /\ k \in Nat
    BY <1>1
  <2>2. g[k + 1] = More(d, g[k]) /\ g[k] \subseteq K
    BY <1>3, <2>1 DEF Explores
  <2>3. g[k] \subseteq g[k + 1] /\ g[k + 1] \subseteq K
    BY <2>2 DEF More
  <2>4. g[k] \in SUBSET Clusters /\ g[k + 1] \in SUBSET Clusters
    BY <2>3
  <2>5. CASE g[k + 1] = g[k]
    <3>1. More(d, g[k + 1]) = g[k + 1]
      BY <2>2, <2>5
    <3> QED
      BY <2>1, <2>3, <3>1
  <2>6. CASE g[k + 1] # g[k]
    <3>1. Cardinality(g[k]) >= k + 1
      BY <1>3, <2>2, <2>6
    <3>2. /\ Cardinality(g[k]) \in Nat /\ Cardinality(g[k + 1]) \in Nat
          /\ Cardinality(g[k]) <= Cardinality(g[k + 1])
          /\ Cardinality(g[k]) # Cardinality(g[k + 1])
      BY <2>3, <2>4, <2>6, ClustersFinite
    <3>3. Cardinality(g[k + 1]) >= (k + 1) + 1
      BY <2>1, <3>1, <3>2
    <3> QED
      BY <2>1, <2>3, <3>3
  <2> QED
    BY <2>5, <2>6
<1> HIDE DEF T
<1>4. n \in T
  <2>1. 0 .. n \subseteq T
    BY <1>1, <1>2, <1>3, IntervalInduction
  <2> QED
    BY <1>1, <2>1
<1> QED
  BY <1>4 DEF T

\* A walk within few clusters ends.
LEMMA WalkEnds ==
    ASSUME NEW d \in Disks, Walkable(d), NEW K \in SUBSET Clusters,
           ROOT_CLUSTER_NUMBER \in K, \A c \in K : Subdirectories(d, c) \subseteq K,
           Cardinality(K) <= DirectoryMax + 1
    PROVE  DirectoryClusters(d) \subseteq K /\ Settled(d)
<1> DEFINE n == DirectoryMax + 1
<1>1. n \in 0 .. ClusterMapSize /\ n \in Nat /\ Cardinality(K) <= n
  BY FatConstants
<1>2. PICK g : Explores(d, g) /\ DirectoryClusters(d) = g[n]
  BY WalkExists
<1> HIDE DEF n
<1>3. g[n] \subseteq K /\ (Cardinality(g[n]) >= n + 1 \/ More(d, g[n]) = g[n])
  BY <1>1, <1>2, WalkFills
<1>4. Cardinality(g[n]) <= Cardinality(K) /\ Cardinality(g[n]) \in Nat
      /\ Cardinality(K) \in Nat
  BY <1>3, ClustersFinite
<1>5. More(d, g[n]) = g[n]
  BY <1>1, <1>3, <1>4
<1>6. \A c \in g[n] : Subdirectories(d, c) \subseteq g[n]
  BY <1>5 DEF More
<1> QED
  BY <1>1, <1>2, <1>3, <1>4, <1>6 DEF Settled, n

\* Where it has ended, its last step has met nothing.
LEMMA WalkSettles ==
    ASSUME NEW d \in Disks, Walkable(d), Settled(d)
    PROVE  \E g : Explores(d, g) /\ DirectoryClusters(d) = g[DirectoryMax]
<1> DEFINE n == DirectoryMax
           R == DirectoryClusters(d)
<1>1. n \in 0 .. ClusterMapSize /\ n + 1 \in 1 .. ClusterMapSize /\ n \in Nat
      /\ (n + 1) - 1 = n
  BY FatConstants
<1>2. PICK g : Explores(d, g) /\ R = g[n + 1]
  BY WalkExists
<1>3. g[n + 1] = More(d, g[n])
  BY <1>1, <1>2 DEF Explores
<1>4. R \in SUBSET Clusters /\ ROOT_CLUSTER_NUMBER \in R
      /\ (\A c \in R : Subdirectories(d, c) \subseteq R) /\ Cardinality(R) <= n + 1
  BY ReachThrough DEF Settled
<1> HIDE DEF n, R
<1>5. g[n] \subseteq R /\ (Cardinality(g[n]) >= n + 1 \/ More(d, g[n]) = g[n])
  BY <1>1, <1>2, <1>4, WalkFills
<1>6. Cardinality(g[n]) >= n + 1 => g[n] = R
  <2>1. /\ Cardinality(R) \in Nat /\ Cardinality(g[n]) \in Nat
        /\ Cardinality(g[n]) <= Cardinality(R)
        /\ Cardinality(g[n]) = Cardinality(R) => g[n] = R
    BY <1>4, <1>5, ClustersFinite
  <2> QED
    BY <1>1, <1>4, <2>1
<1> QED
  BY <1>2, <1>3, <1>5, <1>6 DEF n, R

\* A walk that meets only what another meets stays behind it.
LEMMA WalkWithin ==
    ASSUME NEW d \in Disks, Walkable(d), NEW w \in Disks, Walkable(w), NEW gone,
           \A c \in DirectoryClusters(d) \ gone :
              Subdirectories(d, c) \ gone \subseteq Subdirectories(w, c),
           \A c \in gone : Subdirectories(d, c) = {}, ROOT_CLUSTER_NUMBER \notin gone
    PROVE  DirectoryClusters(d) \ gone \subseteq DirectoryClusters(w)
<1> DEFINE n == DirectoryMax + 1
<1>1. n \in 0 .. ClusterMapSize /\ n \in Nat /\ ClusterMapSize \in Nat
  BY FatConstants
<1>2. PICK g : Explores(d, g) /\ DirectoryClusters(d) = g[n]
  BY WalkExists
<1>3. PICK h : Explores(w, h) /\ DirectoryClusters(w) = h[n]
  BY WalkExists
<1> HIDE DEF n
<1>4. \A k \in 0 .. n : g[k] \subseteq g[n]
  BY <1>1, <1>2, WalkGrows
<1> DEFINE T == {k \in 0 .. n : g[k] \ gone \subseteq h[k]}
<1>5. 0 \in T
  BY <1>1, <1>2, <1>3 DEF Explores
<1>6. ASSUME NEW k \in 0 .. n - 1, k \in T PROVE k + 1 \in T
  <2>1. k + 1 \in 1 .. ClusterMapSize /\ (k + 1) - 1 = k /\ k + 1 \in 0 .. n /\ k \in 0 .. n
    BY <1>1
  <2>2. g[k + 1] = More(d, g[k]) /\ h[k + 1] = More(w, h[k])
    BY <1>2, <1>3, <2>1 DEF Explores
  <2>3. ASSUME NEW x \in g[k + 1], x \notin gone PROVE x \in h[k + 1]
    <3>1. PICK c \in g[k] : x = c \/ x \in Subdirectories(d, c)
      BY <2>2 DEF More
    <3>2. CASE c \in gone
      BY <2>3, <3>1, <3>2
    <3>3. CASE c \notin gone
      <4>1. c \in h[k] /\ c \in DirectoryClusters(d)
        BY <1>2, <1>4, <1>6, <2>1, <3>1, <3>3
      <4>2. x = c \/ x \in Subdirectories(w, c)
        BY <2>3, <3>1, <3>3, <4>1
      <4> QED
        BY <2>2, <4>1, <4>2 DEF More
    <3> QED
      BY <3>2, <3>3
  <2> QED
    BY <2>1, <2>3
<1> HIDE DEF T
<1>7. n \in T
  <2>1. 0 .. n \subseteq T
    BY <1>1, <1>5, <1>6, IntervalInduction
  <2> QED
    BY <1>1, <2>1
<1> QED
  BY <1>2, <1>3, <1>7 DEF T

\* As long as the directories that are met keep their subdirectories, they are
\* the ones that are met.
LEMMA SameReach ==
    ASSUME NEW d \in Disks, Walkable(d), Settled(d), NEW w \in Disks, Walkable(w),
           \A c \in DirectoryClusters(d) : Subdirectories(w, c) = Subdirectories(d, c)
    PROVE  DirectoryClusters(w) = DirectoryClusters(d) /\ Settled(w)
<1> DEFINE K == DirectoryClusters(d)
<1>1. /\ K \in SUBSET Clusters /\ ROOT_CLUSTER_NUMBER \in K
      /\ \A c \in K : Subdirectories(w, c) \subseteq K
      /\ Cardinality(K) <= DirectoryMax + 1
  BY ReachThrough DEF Settled
<1>2. DirectoryClusters(w) \subseteq K /\ Settled(w)
  BY <1>1, WalkEnds
<1>3. K \ {} \subseteq DirectoryClusters(w)
  BY WalkWithin
<1> QED
  BY <1>2, <1>3

\* A new directory without subdirectories is met besides.
LEMMA OneMore ==
    ASSUME NEW d \in Disks, Walkable(d), Settled(d), NEW w \in Disks, Walkable(w),
           NEW x \in Clusters, x \notin DirectoryClusters(d), Subdirectories(w, x) = {},
           NEW parent \in DirectoryClusters(d),
           Subdirectories(w, parent) = Subdirectories(d, parent) \cup {x},
           \A c \in DirectoryClusters(d) :
              c # parent => Subdirectories(w, c) = Subdirectories(d, c),
           Cardinality(DirectoryClusters(d)) <= DirectoryMax
    PROVE  DirectoryClusters(w) = DirectoryClusters(d) \cup {x} /\ Settled(w)
<1> DEFINE R == DirectoryClusters(d)
           K == R \cup {x}
<1>1. R \in SUBSET Clusters /\ ROOT_CLUSTER_NUMBER \in R
      /\ \A c \in R : Subdirectories(d, c) \subseteq R
  BY ReachThrough DEF Settled
<1>2. Cardinality(K) = Cardinality(R) + 1 /\ Cardinality(R) \in Nat
  <2>1. IsFiniteSet(R) /\ Cardinality(R) \in Nat
    BY <1>1, ClustersFinite
  <2> QED
    BY <2>1, FS_AddElement
<1>3. \A c \in K : Subdirectories(w, c) \subseteq K
  BY <1>1
<1>4. DirectoryClusters(w) \subseteq K /\ Settled(w)
  <2>1. K \in SUBSET Clusters /\ ROOT_CLUSTER_NUMBER \in K
        /\ Cardinality(K) <= DirectoryMax + 1
    BY <1>1, <1>2, FatConstants
  <2> QED
    BY <1>3, <2>1, WalkEnds
<1>5. R \ {} \subseteq DirectoryClusters(w)
  <2>1. \A c \in R \ {} : Subdirectories(d, c) \ {} \subseteq Subdirectories(w, c)
    OBVIOUS
  <2> QED
    BY <2>1, WalkWithin
<1>6. x \in DirectoryClusters(w)
  BY <1>4, <1>5 DEF Settled
<1> QED
  BY <1>4, <1>5, <1>6

\* A directory without subdirectories is met no more once its entry is gone.
LEMMA OneLess ==
    ASSUME NEW d \in Disks, Walkable(d), Settled(d), NEW w \in Disks, Walkable(w),
           NEW x \in Clusters, x # ROOT_CLUSTER_NUMBER, Subdirectories(d, x) = {},
           \A c \in DirectoryClusters(d) : Subdirectories(w, c) = Subdirectories(d, c) \ {x}
    PROVE  DirectoryClusters(w) = DirectoryClusters(d) \ {x} /\ Settled(w)
<1> DEFINE R == DirectoryClusters(d)
           K == R \ {x}
<1>1. R \in SUBSET Clusters /\ ROOT_CLUSTER_NUMBER \in R
      /\ \A c \in R : Subdirectories(d, c) \subseteq R
      /\ Cardinality(R) <= DirectoryMax + 1
  BY ReachThrough DEF Settled
<1>2. Cardinality(K) <= Cardinality(R) /\ Cardinality(R) \in Nat /\ Cardinality(K) \in Nat
  BY <1>1, ClustersFinite
<1>3. \A c \in K : Subdirectories(w, c) \subseteq K
  BY <1>1
<1>4. DirectoryClusters(w) \subseteq K /\ Settled(w)
  <2>1. K \in SUBSET Clusters /\ ROOT_CLUSTER_NUMBER \in K
        /\ Cardinality(K) <= DirectoryMax + 1
    BY <1>1, <1>2, FatConstants
  <2> QED
    BY <1>3, <2>1, WalkEnds
<1>5. R \ {x} \subseteq DirectoryClusters(w)
  <2>1. /\ \A c \in R \ {x} : Subdirectories(d, c) \ {x} \subseteq Subdirectories(w, c)
        /\ \A c \in {x} : Subdirectories(d, c) = {}
        /\ ROOT_CLUSTER_NUMBER \notin {x}
    OBVIOUS
  <2> QED
    BY <2>1, WalkWithin
<1> QED
  BY <1>4, <1>5

-----------------------------------------------------------------------------
(* What the store of a disk depends on.                                     *)

\* The entries of directories that are met, and how they are stored.
LEMMA PlacesOfFacts ==
    ASSUME NEW d \in Disks
    PROVE  /\ \A p \in PlacesOf(d) :
                 /\ p \in LivePlaces(d) /\ p[1] \in DirectoryClusters(d)
                 /\ p[2] \in UserSlots /\ p = <<p[1], p[2]>>
                 /\ Entry(d, p) = d.table[p[1]][p[2]]
                 /\ StoredOn(d, p).parent = p[1]
                 /\ StoredOn(d, p).name = Entry(d, p).name
                 /\ StoredOn(d, p).ext = Entry(d, p).ext
                 /\ StoredOn(d, p).id = IF Entry(d, p).dir THEN Entry(d, p).cluster
                                        ELSE ROOT_CLUSTER_NUMBER
           /\ \A c \in DirectoryClusters(d), i \in UserSlots :
                 d.table[c][i].live => <<c, i>> \in PlacesOf(d)
<1>1. ASSUME NEW p \in PlacesOf(d)
      PROVE  /\ p \in LivePlaces(d) /\ p[1] \in DirectoryClusters(d)
             /\ p[2] \in UserSlots /\ p = <<p[1], p[2]>>
  <2>1. /\ p[1] \in DirectoryClusters(d) /\ p[2] \in UserSlots /\ p = <<p[1], p[2]>>
        /\ d.table[p[1]][p[2]].live
    BY DEF PlacesOf
  <2>2. p[1] \in Clusters
    BY <2>1, ReachFacts
  <2>3. <<p[1], p[2]>> \in LivePlaces(d)
    BY <2>1, <2>2, PlaceMade
  <2> QED
    BY <2>1, <2>3
<1>2. \A c \in DirectoryClusters(d), i \in UserSlots :
         d.table[c][i].live => <<c, i>> \in PlacesOf(d)
  BY DEF PlacesOf
<1> QED
  BY <1>1, <1>2 DEF StoredOn, Entry

\* An entry is stored as before as long as its chain and the data along it are.
LEMMA StoredKept ==
    ASSUME NEW d \in Disks, AllChained(d), NEW w \in Disks, NEW p \in LivePlaces(d),
           Entry(w, p) = Entry(d, p),
           \A c \in Held(d.fat, Entry(d, p)) : w.fat[c] = d.fat[c],
           ~Entry(d, p).dir => \A c \in Held(d.fat, Entry(d, p)) : w.data[c] = d.data[c]
    PROVE  StoredOn(w, p) = StoredOn(d, p)
<1> DEFINE e == Entry(d, p)
           n == ChainLength(e)
<1>1. e.cluster \in Clusters /\ Chained(d.fat, e) /\ d.fat \in Fats /\ w.fat \in Fats
  BY PlaceFacts DEF AllChained, Disks
<1>2. CASE e.dir
  BY <1>2 DEF StoredOn
<1>3. CASE ~e.dir
  <2> DEFINE chain == [k \in 1 .. n |-> At(d.fat, e.cluster, k - 1)]
  <2>1. /\ Chained(w.fat, e)
        /\ \A k \in 0 .. n - 1 : At(w.fat, e.cluster, k) = At(d.fat, e.cluster, k)
    BY <1>1, ChainKept
  <2>2. n \in Nat
    BY <1>1, ClusterFacts DEF Chained
  <2>3. Chain(d.fat, e.cluster) = chain
    BY <1>1, ChainFacts
  <2>4. Chain(w.fat, e.cluster) = [k \in 1 .. n |-> At(w.fat, e.cluster, k - 1)]
    BY <1>1, <2>1, ChainFacts
  <2>5. \A k \in 1 .. n : k - 1 \in 0 .. n - 1
    BY <2>2
  <2>6. Chain(w.fat, e.cluster) = chain
    BY <2>1, <2>4, <2>5
  <2>7. Len(chain) = n /\ \A k \in 1 .. n : chain[k] \in Held(d.fat, e)
    BY <2>2, <2>5 DEF Held
  <2> HIDE DEF chain, n
  <2>8. DataOn(w, chain) = DataOn(d, chain)
    BY <1>3, <2>7 DEF DataOn
  <2> QED
    BY <1>3, <2>3, <2>6, <2>8 DEF StoredOn
<1> QED
  BY <1>2, <1>3

\* The table of a directory is no part of a file.
LEMMA TablesAreNotData ==
    ASSUME NEW d \in Disks, DiskSound(d), NEW x \in DirectoryClusters(d),
           NEW p \in LivePlaces(d), ~Entry(d, p).dir
    PROVE  x \notin Held(d.fat, Entry(d, p))
<1>1. AllChained(d) /\ AllApart(d)
  BY DEF DiskSound
<1>2. \/ x = ROOT_CLUSTER_NUMBER
      \/ \E q \in LivePlaces(d) : Entry(d, q).dir /\ Entry(d, q).cluster = x
  BY ReachFacts
<1>3. CASE x = ROOT_CLUSTER_NUMBER
  BY <1>1, <1>3, ListedNotFree, ClusterFacts
<1>4. CASE \E q \in LivePlaces(d) : Entry(d, q).dir /\ Entry(d, q).cluster = x
  <2>1. PICK q \in LivePlaces(d) : Entry(d, q).dir /\ Entry(d, q).cluster = x
    BY <1>4
  <2>2. x \in Held(d.fat, Entry(d, q)) /\ q # p
    BY <1>1, <2>1, ListedNotFree
  <2> QED
    BY <1>1, <2>2 DEF AllApart
<1> QED
  BY <1>2, <1>3, <1>4

\* Whoever can come somewhere finds the root formatted.
LEMMA ReachedIsWalkable ==
    ASSUME NEW d \in Disks, DirectoryClusters(d) # {}
    PROVE  Walkable(d)
  BY ReachFacts DEF Walkable

\* Writing free clusters, and their values in the FAT, does not show.
LEMMA ContentsStore ==
    ASSUME NEW d \in Disks, DiskSound(d), Settled(d), DirectoryClusters(d) # {},
           NEW w \in Disks, w.signed = d.signed,
           \A c \in Clusters : c \notin FreeClusters(d.fat) =>
              w.fat[c] = d.fat[c] /\ w.table[c] = d.table[c] /\ w.data[c] = d.data[c]
    PROVE  /\ Settled(w) /\ StoreOf(w) = StoreOf(d)
           /\ DirectoryClusters(w) = DirectoryClusters(d)
<1>1. Walkable(d) /\ AllChained(d)
  BY ReachedIsWalkable DEF DiskSound
<1>2. ASSUME NEW c \in DirectoryClusters(d) PROVE w.table[c] = d.table[c]
  BY ReachInUse
<1>3. ROOT_CLUSTER_NUMBER \in DirectoryClusters(d)
  BY <1>1, ReachThrough
<1>4. Walkable(w)
  BY <1>1, <1>2, <1>3 DEF Walkable, IsDirectoryTable
<1>5. \A c \in DirectoryClusters(d) : Subdirectories(w, c) = Subdirectories(d, c)
  BY <1>2 DEF Subdirectories, LiveEntries
<1>6. DirectoryClusters(w) = DirectoryClusters(d) /\ Settled(w)
  BY <1>1, <1>4, <1>5, SameReach
<1>7. PlacesOf(w) = PlacesOf(d)
  BY <1>2, <1>6 DEF PlacesOf
<1>8. ASSUME NEW p \in PlacesOf(d) PROVE StoredOn(w, p) = StoredOn(d, p)
  <2>1. p \in LivePlaces(d) /\ p[1] \in DirectoryClusters(d)
    BY PlacesOfFacts
  <2>2. Entry(w, p) = Entry(d, p)
    BY <1>2, <2>1 DEF Entry
  <2>3. \A c \in Held(d.fat, Entry(d, p)) : w.fat[c] = d.fat[c] /\ w.data[c] = d.data[c]
    BY <1>1, <2>1, ListedNotFree
  <2> QED
    BY <1>1, <2>1, <2>2, <2>3, StoredKept
<1> QED
  BY <1>6, <1>7, <1>8 DEF StoreOf

-----------------------------------------------------------------------------
(* A new entry.                                                             *)

\* On w there is one more entry than on d, at the place new, and its directory.
Grown(d, w, new, entry) ==
    /\ Settled(w) /\ PlacesOf(w) = PlacesOf(d) \cup {new} /\ new \notin PlacesOf(d)
    /\ Entry(w, new) = entry
    /\ \A p \in PlacesOf(d) : Entry(w, p) = Entry(d, p)
    /\ DirectoryClusters(w) = IF entry.dir THEN DirectoryClusters(d) \cup {entry.cluster}
                              ELSE DirectoryClusters(d)

\* It appears in its directory, and if it is one itself, that is met besides.
LEMMA EntryReach ==
    ASSUME NEW d \in Disks, DiskSound(d), Settled(d), NEW w \in Disks,
           w.signed = d.signed, NEW r, NEW numbers, NEW parent \in DirectoryClusters(d),
           NEW slot, NEW entry, NEW t, NEW table,
           EntryAdded(d, w, r, numbers, parent, slot, entry, t, table),
           ~d.table[parent][slot].live,
           entry.dir => Cardinality(DirectoryClusters(d)) <= DirectoryMax
    PROVE  Grown(d, w, <<parent, slot>>, entry)
<1> DEFINE R == DirectoryClusters(d)
           x == entry.cluster
<1>1. /\ parent \in Clusters /\ parent \notin FreeClusters(d.fat) /\ slot \in UserSlots
      /\ entry.live /\ x \in FreeClusters(d.fat) /\ x \in Range(numbers)
      /\ Range(numbers) \subseteq FreeClusters(d.fat)
      /\ x \in Clusters /\ EmptyTable(t)
      /\ table = [d.table[parent] EXCEPT ![slot] = entry]
      /\ \A c \in Clusters :
            w.table[c] = IF c = parent THEN table
                         ELSE IF c \in Range(numbers) THEN t ELSE d.table[c]
  <2>1. /\ parent \in Clusters /\ parent \notin FreeClusters(d.fat) /\ slot \in UserSlots
        /\ entry.live /\ x = numbers[1] /\ numbers \in [1 .. r -> FreeClusters(d.fat)]
        /\ r \in 1 .. ClusterMapSize /\ EmptyTable(t)
        /\ table = [d.table[parent] EXCEPT ![slot] = entry]
        /\ \A c \in Clusters :
              w.table[c] = IF c = parent THEN table
                           ELSE IF c \in Range(numbers) THEN t ELSE d.table[c]
    BY DEF EntryAdded
  <2>2. 1 \in 1 .. r
    BY <2>1, FatConstants
  <2>3. numbers[1] \in FreeClusters(d.fat) /\ numbers[1] \in Range(numbers)
        /\ Range(numbers) \subseteq FreeClusters(d.fat)
    BY <2>1, <2>2 DEF Range
  <2>4. numbers[1] \in Clusters
    BY <2>3 DEF FreeClusters
  <2> QED
    BY <2>1, <2>3, <2>4
<1> HIDE DEF x
<1>2. \A i \in Slots : table[i] = IF i = slot THEN entry ELSE d.table[parent][i]
  <2>1. d.table[parent] \in Tables
    BY <1>1 DEF Disks
  <2> QED
    BY <1>1, <2>1 DEF Tables
<1>3. \A c \in R : c \in Clusters /\ c \notin FreeClusters(d.fat) /\ c \notin Range(numbers)
                   /\ (c # parent => w.table[c] = d.table[c])
  <2>1. \A c \in R : c \in Clusters /\ c \notin FreeClusters(d.fat)
    BY ReachInUse
  <2> QED
    BY <1>1, <2>1
<1>4. Walkable(d) /\ Walkable(w) /\ ROOT_CLUSTER_NUMBER \in R
  <2>1. Walkable(d) /\ ROOT_CLUSTER_NUMBER \in R
    BY ReachedIsWalkable, ReachThrough
  <2>2. table[0] = d.table[parent][0]
    BY <1>1, <1>2, ClusterFacts
  <2>3. w.table[ROOT_CLUSTER_NUMBER][0] = d.table[ROOT_CLUSTER_NUMBER][0]
    BY <1>1, <1>3, <2>1, <2>2
  <2> QED
    BY <2>1, <2>3 DEF Walkable, IsDirectoryTable
<1>5. \A c \in R : c # parent => Subdirectories(w, c) = Subdirectories(d, c)
  BY <1>3 DEF Subdirectories, LiveEntries
<1>6. \A i \in UserSlots : i \in Slots
  BY ClusterFacts
<1>7. w.table[parent] = table
  BY <1>1
<1>8. LiveEntries(w, parent) = LiveEntries(d, parent) \cup {entry}
  <2>1. \A i \in UserSlots : i # slot => table[i] = d.table[parent][i]
    BY <1>2, <1>6
  <2>2. table[slot] = entry
    BY <1>1, <1>2, <1>6
  <2> QED
    BY <1>1, <1>7, <2>1, <2>2 DEF LiveEntries
<1>9. Entry(w, <<parent, slot>>) = entry
  BY <1>1, <1>2, <1>6, <1>7 DEF Entry
<1>10. x \notin R /\ Subdirectories(w, x) = {}
  <2>1. x \notin R /\ w.table[x] = t
    BY <1>1, <1>3
  <2> QED
    BY <1>1, <2>1 DEF Subdirectories, LiveEntries, EmptyTable
<1>11. Settled(w) /\ DirectoryClusters(w) = IF entry.dir THEN R \cup {x} ELSE R
  <2>1. CASE entry.dir
    <3>1. Subdirectories(w, parent) = Subdirectories(d, parent) \cup {x}
      BY <1>8, <2>1 DEF Subdirectories, x
    <3> QED
      BY <1>1, <1>4, <1>5, <1>10, <2>1, <3>1, OneMore
  <2>2. CASE ~entry.dir
    <3>1. Subdirectories(w, parent) = Subdirectories(d, parent)
      BY <1>8, <2>2 DEF Subdirectories
    <3> QED
      BY <1>4, <1>5, <2>2, <3>1, SameReach
  <2> QED
    BY <2>1, <2>2
<1>12. \A i \in UserSlots : ~w.table[x][i].live
  BY <1>1, <1>3 DEF EmptyTable
<1>13. ASSUME NEW p \in PlacesOf(d)
       PROVE  Entry(w, p) = Entry(d, p) /\ p \in PlacesOf(w) /\ p # <<parent, slot>>
  <2>1. /\ p[1] \in R /\ p[2] \in UserSlots /\ p = <<p[1], p[2]>>
        /\ Entry(d, p) = d.table[p[1]][p[2]] /\ d.table[p[1]][p[2]].live
    BY PlacesOfFacts DEF PlacesOf
  <2>2. p # <<parent, slot>>
    BY <2>1
  <2>3. w.table[p[1]][p[2]] = d.table[p[1]][p[2]]
    BY <1>2, <1>3, <1>6, <1>7, <2>1, <2>2
  <2>4. <<p[1], p[2]>> \in PlacesOf(w)
    BY <1>11, <2>1, <2>3, PlacesOfFacts
  <2> QED
    BY <2>1, <2>2, <2>3, <2>4 DEF Entry
<1>14. ASSUME NEW p \in PlacesOf(w), p # <<parent, slot>> PROVE p \in PlacesOf(d)
  <2>1. /\ p[1] \in DirectoryClusters(w) /\ p[2] \in UserSlots /\ p = <<p[1], p[2]>>
        /\ w.table[p[1]][p[2]].live
    BY PlacesOfFacts DEF PlacesOf
  <2>2. p[1] \in R
    BY <1>11, <1>12, <2>1
  <2>3. w.table[p[1]][p[2]] = d.table[p[1]][p[2]]
    BY <1>2, <1>3, <1>6, <1>7, <1>14, <2>1, <2>2
  <2>4. <<p[1], p[2]>> \in PlacesOf(d)
    BY <2>1, <2>2, <2>3, PlacesOfFacts
  <2> QED
    BY <2>1, <2>4
<1>15. <<parent, slot>> \in PlacesOf(w)
  BY <1>1, <1>9, <1>11, PlacesOfFacts DEF Entry
<1> QED
  BY <1>9, <1>11, <1>13, <1>14, <1>15 DEF x, Grown

\* The directories of the store are those a walk meets.
LEMMA DirectoriesStored ==
    ASSUME NEW d \in Disks, Walkable(d), AllChained(d)
    PROVE  /\ DirectoryClusters(d) \subseteq Promise!DirectoriesOf(StoreOf(d))
           /\ \A x \in Promise!DirectoriesOf(StoreOf(d)) : x \notin FreeClusters(d.fat)
<1>1. ASSUME NEW x \in DirectoryClusters(d)
      PROVE  x \in Promise!DirectoriesOf(StoreOf(d))
  <2>1. CASE x = ROOT_CLUSTER_NUMBER
    BY <2>1 DEF Promise!DirectoriesOf
  <2>2. CASE x # ROOT_CLUSTER_NUMBER
    <3>1. PICK c \in DirectoryClusters(d) : x \in Subdirectories(d, c)
      BY <2>2, ReachThrough
    <3>2. c \in Clusters
      BY ReachFacts
    <3>3. PICK i \in UserSlots :
             d.table[c][i].live /\ d.table[c][i].dir /\ d.table[c][i].cluster = x
      BY <3>1, <3>2, SubdirectoriesTyped
    <3>4. <<c, i>> \in PlacesOf(d)
      BY <3>3, PlacesOfFacts
    <3>5. StoredOn(d, <<c, i>>).id = x
      BY <3>3, <3>4, PlacesOfFacts
    <3> QED
      BY <2>2, <3>4, <3>5 DEF StoreOf, Promise!DirectoriesOf, Promise!IsDirectory
  <2> QED
    BY <2>1, <2>2
<1>2. ASSUME NEW p \in PlacesOf(d) PROVE StoredOn(d, p).id \notin FreeClusters(d.fat)
  <2>1. p \in LivePlaces(d)
        /\ StoredOn(d, p).id = IF Entry(d, p).dir THEN Entry(d, p).cluster
                               ELSE ROOT_CLUSTER_NUMBER
    BY PlacesOfFacts
  <2>2. Entry(d, p).cluster \notin FreeClusters(d.fat)
    BY <2>1, ListedNotFree
  <2>3. ROOT_CLUSTER_NUMBER \notin FreeClusters(d.fat)
    BY ClusterFacts DEF FreeClusters
  <2> QED
    BY <2>1, <2>2, <2>3
<1>3. ROOT_CLUSTER_NUMBER \notin FreeClusters(d.fat)
  BY ClusterFacts DEF FreeClusters
<1> QED
  BY <1>1, <1>2, <1>3 DEF StoreOf, Promise!DirectoriesOf

\* The FAT leads from cluster c through size clusters that hold buf.
Spells(w, c, size, buf) ==
    \A k \in 1 .. size :
       At(w.fat, c, k - 1) \in Clusters /\ w.data[At(w.fat, c, k - 1)] = buf[k]

\* What is stored of a file is the data of its clusters, in their order.
LEMMA FileContents ==
    ASSUME NEW w \in Disks, NEW p \in LivePlaces(w), Chained(w.fat, Entry(w, p)),
           ~Entry(w, p).dir, NEW size \in 1 .. MaxSize, Entry(w, p).size = size, NEW buf,
           Spells(w, Entry(w, p).cluster, size, buf)
    PROVE  StoredOn(w, p).contents = [k \in 1 .. size |-> buf[k]]
<1> DEFINE e == Entry(w, p)
           chain == [k \in 1 .. size |-> At(w.fat, e.cluster, k - 1)]
<1>1. e.cluster \in Clusters /\ w.fat \in Fats
  BY PlaceFacts DEF Disks
<1>2. size \in Nat /\ size # 0
  BY FatConstants
<1>3. ChainLength(e) = size
  BY <1>2 DEF ChainLength, Required
<1>4. Chain(w.fat, e.cluster) = chain
  BY <1>1, <1>3, ChainFacts
<1>5. Len(chain) = size
  BY <1>2
<1>6. \A k \in 1 .. size : chain[k] \in Clusters /\ w.data[chain[k]] = buf[k]
  BY DEF Spells
<1> HIDE DEF chain
<1>7. DataOn(w, chain) = [k \in 1 .. size |-> buf[k]]
  BY <1>5, <1>6 DEF DataOn
<1> QED
  BY <1>4, <1>7 DEF StoredOn

\* The entry of a file is stored with the buffer, that of a directory without entries.
LEMMA NewStored ==
    ASSUME NEW w \in Disks, NEW p \in LivePlaces(w), Chained(w.fat, Entry(w, p)),
           NEW size \in 0 .. MaxSize, NEW buf, FromProgram(size, buf),
           Entry(w, p).dir <=> size = 0, ~Entry(w, p).dir => Entry(w, p).size = size,
           Entry(w, p).name \in Names, Spells(w, Entry(w, p).cluster, size, buf),
           p[1] \in {ROOT_CLUSTER_NUMBER} \cup UserClusters
    PROVE  StoredOn(w, p) \in Promise!File \cup Promise!Directory
<1> DEFINE e == Entry(w, p)
           s == StoredOn(w, p)
<1>1. e \in Entries /\ e.cluster \in Clusters /\ w.fat \in Fats
  BY PlaceFacts DEF Disks
<1>2. s = [parent |-> p[1], name |-> e.name, ext |-> e.ext,
           id |-> IF e.dir THEN e.cluster ELSE ROOT_CLUSTER_NUMBER,
           contents |-> IF e.dir THEN <<>> ELSE DataOn(w, Chain(w.fat, e.cluster))]
  BY DEF StoredOn
<1>3. e.ext \in Exts /\ p[1] \in UserClusters \cup {ROOT_CLUSTER_NUMBER}
  BY <1>1 DEF Entries
<1>4. UserClusters = Clusters \ (0 .. ROOT_CLUSTER_NUMBER)
  BY ClusterFacts
<1>5. CASE e.dir
  <2>1. e.cluster \in UserClusters
    BY <1>1, HeldFacts
  <2> HIDE DEF s, e
  <2>2. s = [parent |-> p[1], name |-> e.name, ext |-> e.ext, id |-> e.cluster,
             contents |-> <<>>]
    BY <1>2, <1>5
  <2>3. e.name \in Names
    BY DEF e
  <2>4. s \in Promise!Directory
    BY <1>3, <1>4, <2>1, <2>2, <2>3 DEF Promise!Directory
  <2> QED
    BY <2>4 DEF s
<1>6. CASE ~e.dir
  <2>1. size \in Nat /\ size # 0 /\ e.size = size /\ size \in 1 .. MaxSize
    BY <1>6, FatConstants
  <2>2. ~Entry(w, p).dir /\ Entry(w, p).size = size
    BY <1>6
  <2> HIDE DEF e
  <2>6. s.contents = [k \in 1 .. size |-> buf[k]]
    BY <2>1, <2>2, FileContents DEF s
  <2>7. PICK v \in Values : buf = [k \in 1 .. size |-> <<v, k>>]
    BY <2>1 DEF FromProgram
  <2>8. s.contents = [k \in 1 .. size |-> <<v, k>>]
    BY <2>6, <2>7
  <2> DEFINE contents == [k \in 1 .. size |-> <<v, k>>]
             all == {[k \in 1 .. n |-> <<u, k>>] : n \in 1 .. MaxSize, u \in Values}
  <2>9. contents \in all
    BY <2>1
  <2>10. e.name \in Names
    BY DEF e
  <2>11. s = [parent |-> p[1], name |-> e.name, ext |-> e.ext, id |-> ROOT_CLUSTER_NUMBER,
              contents |-> contents]
    BY <1>2, <1>6, <2>8 DEF e
  <2> HIDE DEF s, contents
  <2>12. Promise!File = [parent : UserClusters \cup {ROOT_CLUSTER_NUMBER}, name : Names,
                         ext : Exts, id : {ROOT_CLUSTER_NUMBER}, contents : all]
    BY <1>4 DEF Promise!File
  <2> HIDE DEF all
  <2>13. s \in Promise!File
    BY <1>3, <2>9, <2>10, <2>11, <2>12
  <2> QED
    BY <2>13 DEF s
<1> QED
  BY <1>5, <1>6

\* What was stored stays, and there is the new entry.
LEMMA EntryShows ==
    ASSUME NEW d \in Disks, DiskSound(d), Settled(d), NEW w \in Disks,
           w.signed = d.signed, NEW r, NEW numbers, NEW parent \in DirectoryClusters(d),
           NEW slot, NEW entry, NEW t, NEW table,
           EntryAdded(d, w, r, numbers, parent, slot, entry, t, table),
           ~d.table[parent][slot].live,
           entry.dir => Cardinality(DirectoryClusters(d)) <= DirectoryMax,
           \A c \in Clusters : c # parent /\ c \notin Range(numbers) => w.data[c] = d.data[c]
    PROVE  /\ StoreOf(w) = StoreOf(d) \cup {StoredOn(w, <<parent, slot>>)}
           /\ PlacesOf(w) = PlacesOf(d) \cup {<<parent, slot>>}
           /\ <<parent, slot>> \notin PlacesOf(d) /\ Entry(w, <<parent, slot>>) = entry
           /\ \A p \in PlacesOf(d) :
                 Entry(w, p) = Entry(d, p) /\ StoredOn(w, p) = StoredOn(d, p)
<1> DEFINE new == <<parent, slot>>
<1>1. /\ PlacesOf(w) = PlacesOf(d) \cup {new} /\ new \notin PlacesOf(d)
      /\ Entry(w, new) = entry
      /\ \A p \in PlacesOf(d) : Entry(w, p) = Entry(d, p)
  <2>1. Grown(d, w, <<parent, slot>>, entry)
    BY EntryReach
  <2> QED
    BY <2>1 DEF Grown
<1>2. AllChained(d)
  BY DEF DiskSound
<1>3. /\ Range(numbers) \subseteq FreeClusters(d.fat)
      /\ \A c \in Clusters : c \notin FreeClusters(d.fat) => w.fat[c] = d.fat[c]
  <2>1. /\ numbers \in [1 .. r -> FreeClusters(d.fat)]
        /\ \A c \in Clusters : c \notin FreeClusters(d.fat) => w.fat[c] = d.fat[c]
    BY DEF EntryAdded
  <2> QED
    BY <2>1 DEF Range
<1> HIDE DEF new
<1>4. ASSUME NEW p \in PlacesOf(d) PROVE StoredOn(w, p) = StoredOn(d, p)
  <2>1. p \in LivePlaces(d) /\ Entry(w, p) = Entry(d, p)
    BY <1>1, PlacesOfFacts
  <2>2. \A c \in Held(d.fat, Entry(d, p)) :
           c \in Clusters /\ c \notin FreeClusters(d.fat)
    BY <1>2, <2>1, ListedNotFree
  <2>3. \A c \in Held(d.fat, Entry(d, p)) : w.fat[c] = d.fat[c] /\ c \notin Range(numbers)
    BY <1>3, <2>2
  <2>4. ~Entry(d, p).dir => \A c \in Held(d.fat, Entry(d, p)) : c # parent
    BY <2>1, TablesAreNotData
  <2>5. ~Entry(d, p).dir => \A c \in Held(d.fat, Entry(d, p)) : w.data[c] = d.data[c]
    BY <2>2, <2>3, <2>4
  <2> QED
    BY <1>2, <2>1, <2>3, <2>5, StoredKept
<1>5. StoreOf(w) = StoreOf(d) \cup {StoredOn(w, new)}
  BY <1>1, <1>4 DEF StoreOf
<1> QED
  BY <1>1, <1>4, <1>5 DEF new

\* The clusters of the numbers hold what was to be written, the parent's a table.
Filled(d, w, parent, numbers, v) ==
    \A c \in Clusters :
       w.data[c] = IF c = parent THEN NoData
                   ELSE IF c \in Range(numbers) THEN v[c] ELSE d.data[c]

\* Along the new entry they are met in the order of the buffer.
LEMMA EntryData ==
    ASSUME NEW d \in Disks, DiskSound(d), NEW w \in Disks, w.signed = d.signed,
           NEW r, NEW numbers, NEW parent \in DirectoryClusters(d),
           NEW slot, NEW entry, NEW t, NEW table,
           EntryAdded(d, w, r, numbers, parent, slot, entry, t, table),
           NEW size \in 0 .. MaxSize, NEW buf, r = Required(size),
           \A j, k \in 1 .. r : numbers[j] = numbers[k] => j = k,
           Filled(d, w, parent, numbers, NewData(size, numbers, buf))
    PROVE  DiskSound(w) /\ Spells(w, entry.cluster, size, buf)
<1>1. d.signed /\ parent \notin FreeClusters(d.fat)
  BY ReachInUse
<1>2. DiskSound(w) /\ \A k \in 1 .. r : At(w.fat, entry.cluster, k - 1) = numbers[k]
  <2>1. DiskSound(w)
    BY <1>1, EntrySound
  <2>2. Leads(w.fat, entry.cluster, r, numbers)
    BY <1>1, EntrySound
  <2> QED
    BY <2>1, <2>2 DEF Leads
<1>3. numbers \in [1 .. r -> FreeClusters(d.fat)]
  BY DEF EntryAdded
<1>4. ASSUME NEW k \in 1 .. size
      PROVE  /\ At(w.fat, entry.cluster, k - 1) \in Clusters
             /\ w.data[At(w.fat, entry.cluster, k - 1)] = buf[k]
  <2>1. size \in Nat /\ size # 0 /\ r = size /\ k \in 1 .. r
    BY FatConstants DEF Required
  <2>2. numbers[k] \in FreeClusters(d.fat) /\ numbers[k] \in Range(numbers)
    BY <1>3, <2>1 DEF Range
  <2>3. numbers[k] \in Clusters /\ numbers[k] # parent
    BY <1>1, <2>2 DEF FreeClusters
  <2>4. w.data[numbers[k]] = NewData(size, numbers, buf)[numbers[k]]
    BY <2>2, <2>3 DEF Filled
  <2>5. NewData(size, numbers, buf)[numbers[k]] = buf[LastUse(numbers, numbers[k], size)]
    BY <2>1, <2>2 DEF NewData
  <2>6. /\ LastUse(numbers, numbers[k], size) \in 1 .. r
        /\ numbers[LastUse(numbers, numbers[k], size)] = numbers[k]
    BY <2>1, LastUseFacts
  <2>7. LastUse(numbers, numbers[k], size) = k
    BY <2>1, <2>6
  <2> QED
    BY <1>2, <2>1, <2>3, <2>4, <2>5, <2>7
<1> QED
  BY <1>2, <1>4 DEF Spells

\* A step of FileStore: a file's name is new to its directory, and a directory to the
\* tree; what is read through the entry is what was to be written.
LEMMA EntryStore ==
    ASSUME NEW d \in Disks, DiskSound(d), Settled(d), NEW w \in Disks,
           w.signed = d.signed, NEW r, NEW numbers, NEW parent \in DirectoryClusters(d),
           NEW slot, NEW entry, NEW t, NEW table,
           EntryAdded(d, w, r, numbers, parent, slot, entry, t, table),
           ~d.table[parent][slot].live,
           entry.dir => Cardinality(DirectoryClusters(d)) <= DirectoryMax,
           NEW name \in Names, NEW ext \in Exts, NEW size \in 0 .. MaxSize, NEW buf,
           FromProgram(size, buf), r = Required(size),
           ~Exists(d.table[parent], name, ext), entry.name = name,
           entry.dir <=> size = 0, ~entry.dir => entry.size = size /\ entry.ext = ext,
           \A j, k \in 1 .. r : numbers[j] = numbers[k] => j = k,
           NEW v, v = NewData(size, numbers, buf),
           \A c \in Clusters :
              w.data[c] = IF c = parent THEN NoData
                          ELSE IF c \in Range(numbers) THEN v[c] ELSE d.data[c]
    PROVE  Settled(w) /\ Turns(StoreOf(d), StoreOf(w))
<1> DEFINE new == <<parent, slot>>
<1>1. /\ Settled(w) /\ PlacesOf(w) = PlacesOf(d) \cup {new}
      /\ new \notin PlacesOf(d)
      /\ Entry(w, new) = entry
      /\ \A p \in PlacesOf(d) : Entry(w, p) = Entry(d, p)
  <2>1. Grown(d, w, <<parent, slot>>, entry)
    BY EntryReach
  <2> QED
    BY <2>1 DEF Grown
<1>2. /\ d.signed /\ Walkable(d) /\ AllChained(d) /\ parent \in Clusters
      /\ parent \notin FreeClusters(d.fat)
      /\ parent \in {ROOT_CLUSTER_NUMBER} \cup UserClusters
  <2>1. d.signed /\ parent \in Clusters /\ parent \notin FreeClusters(d.fat)
    BY ReachInUse
  <2>2. AllChained(d)
    BY DEF DiskSound
  <2>3. \/ parent = ROOT_CLUSTER_NUMBER
        \/ \E p \in LivePlaces(d) : Entry(d, p).dir /\ Entry(d, p).cluster = parent
    BY ReachFacts
  <2> QED
    BY <2>1, <2>2, <2>3, ReachedIsWalkable, ListedNotFree
<1>3. DiskSound(w) /\ Spells(w, entry.cluster, size, buf)
  <2>1. Filled(d, w, parent, numbers, NewData(size, numbers, buf))
    BY DEF Filled
  <2> QED
    BY <2>1, EntryData
<1>4. new \in LivePlaces(w) /\ Chained(w.fat, entry)
  <2>1. new \in LivePlaces(w)
    BY <1>1, PlacesOfFacts
  <2> QED
    BY <1>1, <1>3, <2>1 DEF DiskSound, AllChained
<1>5. /\ numbers \in [1 .. r -> FreeClusters(d.fat)] /\ entry \in Entries
      /\ entry.cluster = numbers[1] /\ r \in Nat /\ 1 \in 1 .. r
      /\ \A c \in Clusters : c \notin FreeClusters(d.fat) => w.fat[c] = d.fat[c]
      /\ Range(numbers) = {numbers[k] : k \in 1 .. r}
      /\ Range(numbers) \subseteq FreeClusters(d.fat)
  <2>1. /\ numbers \in [1 .. r -> FreeClusters(d.fat)] /\ entry \in Entries
        /\ entry.cluster = numbers[1] /\ r \in 1 .. ClusterMapSize
        /\ \A c \in Clusters : c \notin FreeClusters(d.fat) => w.fat[c] = d.fat[c]
    BY DEF EntryAdded
  <2>2. r \in Nat /\ 1 \in 1 .. r
    BY <2>1, FatConstants
  <2> QED
    BY <2>1, <2>2 DEF Range
<1> DEFINE e == StoredOn(w, new)
<1>7. StoreOf(w) = StoreOf(d) \cup {e}
  BY EntryShows
<1> HIDE DEF new
<1>8. e \in Promise!File \cup Promise!Directory
  <2>1. new[1] = parent
    BY DEF new
  <2> QED
    BY <1>1, <1>2, <1>3, <1>4, <2>1, NewStored
<1>9. e.parent = parent /\ e.name = name /\ e.ext = entry.ext
      /\ e.id = IF entry.dir THEN entry.cluster ELSE ROOT_CLUSTER_NUMBER
  <2>1. new[1] = parent
    BY DEF new
  <2> QED
    BY <1>1, <2>1 DEF StoredOn
<1> HIDE DEF e
<1>10. parent \in Promise!DirectoriesOf(StoreOf(d))
  BY <1>2, DirectoriesStored
<1>11. Promise!IsDirectory(e) => e.id \notin Promise!DirectoriesOf(StoreOf(d))
  <2>1. entry.cluster \in FreeClusters(d.fat)
    BY <1>5
  <2>2. \A x \in Promise!DirectoriesOf(StoreOf(d)) : x \notin FreeClusters(d.fat)
    BY <1>2, DirectoriesStored
  <2> QED
    BY <1>9, <2>1, <2>2 DEF Promise!IsDirectory
<1>12. ASSUME NEW p \in PlacesOf(d), StoredOn(d, p).parent = parent,
              StoredOn(d, p).name = name, StoredOn(d, p).ext = ext
       PROVE  FALSE
  <2>1. /\ p[1] = parent /\ p[2] \in UserSlots /\ p \in LivePlaces(d)
        /\ Entry(d, p) = d.table[parent][p[2]] /\ Entry(d, p).name = name
        /\ Entry(d, p).ext = ext
    BY <1>12, PlacesOfFacts
  <2>2. Entry(d, p).live
    BY <2>1, PlaceFacts
  <2> QED
    BY <2>1, <2>2 DEF Exists
<1>13. ~Promise!IsDirectory(e) =>
          \A f \in StoreOf(d) : f.parent = e.parent => <<f.name, f.ext>> # <<e.name, e.ext>>
  <2> SUFFICES ASSUME ~Promise!IsDirectory(e), NEW f \in StoreOf(d), f.parent = parent,
                      f.name = name, f.ext = entry.ext
               PROVE  FALSE
    BY <1>9
  <2>1. ~entry.dir
    <3>1. entry.cluster \in FreeClusters(d.fat)
      BY <1>5
    <3>2. \A c \in FreeClusters(d.fat) : c # ROOT_CLUSTER_NUMBER
      BY ClusterFacts DEF FreeClusters, ROOT_CLUSTER_NUMBER
    <3> QED
      BY <1>9, <3>1, <3>2 DEF Promise!IsDirectory
  <2>2. f.ext = ext
    BY <2>1
  <2>3. PICK p \in PlacesOf(d) : f = StoredOn(d, p)
    BY DEF StoreOf
  <2>4. /\ StoredOn(d, p).parent = parent /\ StoredOn(d, p).name = name
        /\ StoredOn(d, p).ext = ext
    BY <2>2, <2>3
  <2> QED
    BY <1>12, <2>4
<1>14. NewIn(StoreOf(d), e)
  BY <1>8, <1>9, <1>10, <1>11, <1>13 DEF NewIn
<1> QED
  BY <1>1, <1>7, <1>14 DEF Turns

-----------------------------------------------------------------------------
(* An entry less.                                                           *)

\* No two entries are stored alike: files differ in their names, directories in their
\* clusters.
LEMMA StoredApart ==
    ASSUME NEW d \in Disks, DiskSound(d), \A c \in Clusters : TableApart(d.table[c]),
           NEW p \in PlacesOf(d), NEW q \in PlacesOf(d), StoredOn(d, p) = StoredOn(d, q)
    PROVE  p = q
<1>1. /\ p[1] = q[1] /\ p[2] \in UserSlots /\ q[2] \in UserSlots
      /\ p = <<p[1], p[2]>> /\ q = <<q[1], q[2]>> /\ p[1] \in Clusters
      /\ d.table[p[1]][p[2]].live /\ d.table[p[1]][q[2]].live
      /\ d.table[p[1]][p[2]].name = d.table[p[1]][q[2]].name
      /\ d.table[p[1]][p[2]].ext = d.table[p[1]][q[2]].ext
      /\ Entry(d, p) = d.table[p[1]][p[2]] /\ Entry(d, q) = d.table[p[1]][q[2]]
  BY PlacesOfFacts, PlaceFacts DEF PlacesOf
<1>2. /\ p \in LivePlaces(d) /\ q \in LivePlaces(d)
      /\ StoredOn(d, p).id = IF Entry(d, p).dir THEN Entry(d, p).cluster
                              ELSE ROOT_CLUSTER_NUMBER
      /\ StoredOn(d, q).id = IF Entry(d, q).dir THEN Entry(d, q).cluster
                              ELSE ROOT_CLUSTER_NUMBER
  BY PlacesOfFacts
<1>3. ASSUME NEW o \in LivePlaces(d)
      PROVE  /\ Entry(d, o).cluster # ROOT_CLUSTER_NUMBER
             /\ Entry(d, o).cluster \in Held(d.fat, Entry(d, o))
  BY ListedNotFree, ClusterFacts DEF DiskSound, UserClusters
<1>4. CASE ~Entry(d, p).dir /\ ~Entry(d, q).dir
  <2>1. p[2] = q[2]
    BY <1>1, <1>4 DEF TableApart
  <2> QED
    BY <1>1, <2>1
<1>5. CASE Entry(d, p).dir /\ Entry(d, q).dir
  <2>1. Entry(d, p).cluster = Entry(d, q).cluster
    BY <1>2, <1>5
  <2> QED
    BY <1>2, <1>3, <2>1 DEF DiskSound, AllApart
<1> QED
  BY <1>2, <1>3, <1>4, <1>5

\* Where an entry was removed, directories are met as before, except for one without
\* subdirectories the entry led to.
LEMMA RemovalWalk ==
    ASSUME NEW d \in Disks, DiskSound(d), Settled(d), NEW w \in Disks,
           w.signed = d.signed, NEW parent \in DirectoryClusters(d), NEW i, NEW table,
           EntryRemoved(d, w, parent, i, table),
           d.table[parent][i].dir => Subdirectories(d, d.table[parent][i].cluster) = {}
    PROVE  /\ Settled(w) /\ d.table[parent][i].cluster \in UserClusters
           /\ DirectoryClusters(w) =
                 IF d.table[parent][i].dir
                 THEN DirectoryClusters(d) \ {d.table[parent][i].cluster}
                 ELSE DirectoryClusters(d)
<1> DEFINE R == DirectoryClusters(d)
           old == <<parent, i>>
           x == d.table[parent][i].cluster
<1>1. /\ parent \in Clusters /\ i \in UserSlots /\ d.table[parent][i].live
      /\ table = [d.table[parent] EXCEPT ![i].live = FALSE]
      /\ \A c \in Clusters : w.table[c] = IF c = parent THEN table ELSE d.table[c]
  BY DEF EntryRemoved
<1>2. /\ w.table[parent] = table /\ i \in Slots /\ ~table[i].live
      /\ \A j \in Slots : j # i => table[j] = d.table[parent][j]
      /\ \A j \in UserSlots : j \in Slots
  <2>1. d.table[parent] \in Tables /\ i \in Slots /\ \A j \in UserSlots : j \in Slots
    BY <1>1, ClusterFacts DEF Disks
  <2>2. d.table[parent][i] \in Entries
    BY <2>1 DEF Tables
  <2>3. ~table[i].live
    BY <1>1, <2>1, <2>2 DEF Tables, Entries
  <2> QED
    BY <1>1, <2>1, <2>3 DEF Tables
<1>3. \A c \in R : c \in Clusters /\ (c # parent => w.table[c] = d.table[c])
  BY <1>1, ReachFacts
<1>4. /\ Walkable(d) /\ Walkable(w) /\ ROOT_CLUSTER_NUMBER \in R
      /\ AllChained(d) /\ AllApart(d)
  <2>1. Walkable(d) /\ ROOT_CLUSTER_NUMBER \in R /\ AllChained(d) /\ AllApart(d)
    BY ReachedIsWalkable, ReachThrough DEF DiskSound
  <2>2. table[0] = d.table[parent][0]
    BY <1>1, <1>2, ClusterFacts
  <2>3. w.table[ROOT_CLUSTER_NUMBER][0] = d.table[ROOT_CLUSTER_NUMBER][0]
    BY <1>2, <1>3, <2>1, <2>2
  <2> QED
    BY <2>1, <2>3 DEF Walkable, IsDirectoryTable
<1>5. old \in LivePlaces(d) /\ Entry(d, old) = d.table[parent][i] /\ old \in PlacesOf(d)
      /\ x \in UserClusters /\ x \in Clusters /\ x # ROOT_CLUSTER_NUMBER
  <2>1. old \in LivePlaces(d) /\ Entry(d, old) = d.table[parent][i] /\ old \in PlacesOf(d)
    BY <1>1, PlaceMade, PlacesOfFacts
  <2> QED
    BY <1>4, <2>1, ListedNotFree, ClusterFacts
<1> HIDE DEF old
<1>6. ASSUME NEW c \in R, NEW j \in UserSlots, d.table[c][j].live,
             d.table[c][j].cluster = x
      PROVE  c = parent /\ j = i
  <2>1. <<c, j>> \in LivePlaces(d) /\ Entry(d, <<c, j>>) = d.table[c][j]
    BY <1>3, <1>6, PlaceMade
  <2>2. x \in Held(d.fat, Entry(d, <<c, j>>)) /\ x \in Held(d.fat, Entry(d, old))
    BY <1>4, <1>5, <1>6, <2>1, ListedNotFree
  <2>3. <<c, j>> = old
    BY <1>4, <1>5, <2>1, <2>2 DEF AllApart
  <2> QED
    BY <2>3 DEF old
<1>7. ASSUME NEW c \in R, NEW y
      PROVE  y \in Subdirectories(w, c) <=>
                \E j \in UserSlots : /\ d.table[c][j].live /\ d.table[c][j].dir
                                     /\ d.table[c][j].cluster = y
                                     /\ c # parent \/ j # i
  <2>1. y \in Subdirectories(w, c) <=>
           \E j \in UserSlots : w.table[c][j].live /\ w.table[c][j].dir
                                /\ w.table[c][j].cluster = y
    BY DEF Subdirectories, LiveEntries
  <2>2. \A j \in UserSlots : c # parent \/ j # i => w.table[c][j] = d.table[c][j]
    BY <1>2, <1>3
  <2>3. c = parent => ~w.table[c][i].live
    BY <1>2
  <2> QED
    BY <2>1, <2>2, <2>3
<1>8. ASSUME NEW c \in R, NEW y
      PROVE  y \in Subdirectories(d, c) <=>
                \E j \in UserSlots : /\ d.table[c][j].live /\ d.table[c][j].dir
                                     /\ d.table[c][j].cluster = y
  BY DEF Subdirectories, LiveEntries
<1>9. CASE d.table[parent][i].dir
  <2>1. ASSUME NEW c \in R PROVE Subdirectories(w, c) = Subdirectories(d, c) \ {x}
    BY <1>6, <1>7, <1>8, <1>9
  <2>2. Subdirectories(d, x) = {}
    BY <1>9
  <2> HIDE DEF x
  <2>3. Settled(w) /\ DirectoryClusters(w) = R \ {x}
    BY <1>4, <1>5, <2>1, <2>2, OneLess
  <2> QED
    BY <1>5, <1>9, <2>3 DEF x
<1>10. CASE ~d.table[parent][i].dir
  <2>1. ASSUME NEW c \in R PROVE Subdirectories(w, c) = Subdirectories(d, c)
    <3>1. \A y : y \in Subdirectories(w, c) <=> y \in Subdirectories(d, c)
      BY <1>7, <1>8, <1>10
    <3> QED
      BY <3>1
  <2>2. Settled(w) /\ DirectoryClusters(w) = R
    BY <1>4, <2>1, SameReach
  <2> QED
    BY <1>5, <1>10, <2>2
<1> QED
  BY <1>9, <1>10

\* Where an entry was removed, the others are met as before, except for an empty
\* directory the entry led to.
LEMMA RemovalReach ==
    ASSUME NEW d \in Disks, DiskSound(d), Settled(d), NEW w \in Disks,
           w.signed = d.signed, NEW parent \in DirectoryClusters(d), NEW i, NEW table,
           EntryRemoved(d, w, parent, i, table),
           d.table[parent][i].dir => LiveEntries(d, d.table[parent][i].cluster) = {}
    PROVE  /\ Settled(w) /\ PlacesOf(w) = PlacesOf(d) \ {<<parent, i>>}
           /\ <<parent, i>> \in PlacesOf(d)
           /\ \A p \in PlacesOf(w) : Entry(w, p) = Entry(d, p)
<1> DEFINE R == DirectoryClusters(d)
           old == <<parent, i>>
           x == d.table[parent][i].cluster
<1>1. /\ parent \in Clusters /\ i \in UserSlots /\ d.table[parent][i].live
      /\ table = [d.table[parent] EXCEPT ![i].live = FALSE]
      /\ \A c \in Clusters : w.table[c] = IF c = parent THEN table ELSE d.table[c]
  BY DEF EntryRemoved
<1>2. /\ w.table[parent] = table /\ i \in Slots /\ ~table[i].live
      /\ \A j \in Slots : j # i => table[j] = d.table[parent][j]
      /\ \A j \in UserSlots : j \in Slots
  <2>1. d.table[parent] \in Tables /\ i \in Slots /\ \A j \in UserSlots : j \in Slots
    BY <1>1, ClusterFacts DEF Disks
  <2>2. d.table[parent][i] \in Entries
    BY <2>1 DEF Tables
  <2>3. ~table[i].live
    BY <1>1, <2>1, <2>2 DEF Tables, Entries
  <2> QED
    BY <1>1, <2>1, <2>3 DEF Tables
<1>3. \A c \in R : c \in Clusters /\ (c # parent => w.table[c] = d.table[c])
  BY <1>1, ReachFacts
<1>4. old \in PlacesOf(d)
  BY <1>1, PlacesOfFacts
<1> HIDE DEF old
<1>5. /\ Settled(w) /\ DirectoryClusters(w) \subseteq R
      /\ \A c \in R, j \in UserSlots : d.table[c][j].live => c \in DirectoryClusters(w)
  <2>1. d.table[parent][i].dir => \A j \in UserSlots : ~d.table[x][j].live
    BY DEF LiveEntries
  <2>2. d.table[parent][i].dir => Subdirectories(d, x) = {}
    BY <2>1 DEF Subdirectories, LiveEntries
  <2>3. Settled(w) /\ DirectoryClusters(w) = IF d.table[parent][i].dir THEN R \ {x} ELSE R
    BY <2>2, RemovalWalk
  <2> QED
    BY <2>1, <2>3
<1>6. ASSUME NEW p \in PlacesOf(w)
       PROVE  p \in PlacesOf(d) /\ p # old /\ Entry(w, p) = Entry(d, p)
  <2>1. /\ p[1] \in R /\ p[2] \in UserSlots /\ p = <<p[1], p[2]>>
        /\ Entry(w, p) = w.table[p[1]][p[2]] /\ w.table[p[1]][p[2]].live
    BY <1>5, PlacesOfFacts DEF PlacesOf
  <2>2. p[1] # parent \/ p[2] # i
    BY <1>2, <2>1
  <2>3. w.table[p[1]][p[2]] = d.table[p[1]][p[2]]
    BY <1>2, <1>3, <2>1, <2>2
  <2>4. <<p[1], p[2]>> \in PlacesOf(d)
    BY <2>1, <2>3, PlacesOfFacts
  <2> QED
    BY <2>1, <2>2, <2>3, <2>4 DEF Entry, old
<1>7. ASSUME NEW p \in PlacesOf(d), p # old PROVE p \in PlacesOf(w)
  <2>1. /\ p[1] \in R /\ p[2] \in UserSlots /\ p = <<p[1], p[2]>>
        /\ d.table[p[1]][p[2]].live
    BY PlacesOfFacts DEF PlacesOf
  <2>2. p[1] # parent \/ p[2] # i
    BY <1>7, <2>1 DEF old
  <2>3. w.table[p[1]][p[2]].live
    BY <1>2, <1>3, <2>1, <2>2
  <2>4. <<p[1], p[2]>> \in PlacesOf(w)
    BY <1>5, <2>1, <2>3, PlacesOfFacts
  <2> QED
    BY <2>1, <2>4
<1> QED
  BY <1>4, <1>5, <1>6, <1>7 DEF old

\* What is stored of the others stays.
LEMMA RemovalStored ==
    ASSUME NEW d \in Disks, DiskSound(d), Settled(d), NEW w \in Disks,
           w.signed = d.signed, NEW parent \in DirectoryClusters(d), NEW i, NEW table,
           EntryRemoved(d, w, parent, i, table),
           d.table[parent][i].dir => LiveEntries(d, d.table[parent][i].cluster) = {},
           \A c \in Clusters : c # parent => w.data[c] = d.data[c]
    PROVE  /\ Settled(w) /\ PlacesOf(w) = PlacesOf(d) \ {<<parent, i>>}
           /\ <<parent, i>> \in PlacesOf(d)
           /\ \A p \in PlacesOf(w) : StoredOn(w, p) = StoredOn(d, p)
<1> DEFINE old == <<parent, i>>
<1>1. /\ Settled(w) /\ PlacesOf(w) = PlacesOf(d) \ {old} /\ old \in PlacesOf(d)
      /\ \A p \in PlacesOf(w) : Entry(w, p) = Entry(d, p)
  BY RemovalReach
<1>2. AllChained(d) /\ AllApart(d)
  BY DEF DiskSound
<1>3. Entry(d, old) = d.table[parent][i]
  BY DEF Entry
<1>4. \A c \in Clusters : c \notin Held(d.fat, Entry(d, old)) => w.fat[c] = d.fat[c]
  BY <1>3 DEF EntryRemoved
<1> HIDE DEF old
<1>5. ASSUME NEW p \in PlacesOf(w) PROVE StoredOn(w, p) = StoredOn(d, p)
  <2>1. p \in LivePlaces(d) /\ Entry(w, p) = Entry(d, p) /\ old \in LivePlaces(d) /\ p # old
    BY <1>1, PlacesOfFacts
  <2>2. \A c \in Held(d.fat, Entry(d, p)) :
           c \in Clusters /\ c \notin Held(d.fat, Entry(d, old))
    BY <1>2, <2>1, ListedNotFree DEF AllApart
  <2>3. ~Entry(d, p).dir => \A c \in Held(d.fat, Entry(d, p)) : c # parent
    BY <2>1, TablesAreNotData
  <2> QED
    BY <1>2, <1>4, <2>1, <2>2, <2>3, StoredKept
<1> QED
  BY <1>1, <1>5 DEF old

\* A step of FileStore: one entry goes, and nothing was in it.
LEMMA RemovalStore ==
    ASSUME NEW d \in Disks, DiskSound(d), Settled(d),
           \A c \in Clusters : TableApart(d.table[c]), NEW w \in Disks,
           w.signed = d.signed, NEW parent \in DirectoryClusters(d), NEW i, NEW table,
           EntryRemoved(d, w, parent, i, table),
           d.table[parent][i].dir => LiveEntries(d, d.table[parent][i].cluster) = {},
           \A c \in Clusters : c # parent => w.data[c] = d.data[c]
    PROVE  /\ Settled(w)
           /\ OldIn(StoreOf(d), StoredOn(d, <<parent, i>>))
           /\ StoreOf(w) = StoreOf(d) \ {StoredOn(d, <<parent, i>>)}
<1> DEFINE old == <<parent, i>>
           e == StoredOn(d, old)
<1>1. /\ Settled(w) /\ PlacesOf(w) = PlacesOf(d) \ {old} /\ old \in PlacesOf(d)
      /\ \A p \in PlacesOf(w) : StoredOn(w, p) = StoredOn(d, p)
  BY RemovalStored
<1>3. Entry(d, old) = d.table[parent][i]
  BY DEF Entry
<1>5. ASSUME NEW f \in StoreOf(d), Promise!IsDirectory(e) PROVE f.parent # e.id
  <2>1. PICK p \in PlacesOf(d) : f = StoredOn(d, p)
    BY DEF StoreOf
  <2>2. e.id = IF Entry(d, old).dir THEN Entry(d, old).cluster ELSE ROOT_CLUSTER_NUMBER
    BY <1>1, PlacesOfFacts
  <2>3. Entry(d, old).dir /\ e.id = Entry(d, old).cluster
    BY <1>5, <2>2 DEF Promise!IsDirectory
  <2>4. f.parent = p[1] /\ p[2] \in UserSlots /\ d.table[p[1]][p[2]].live
    BY <2>1, PlacesOfFacts DEF PlacesOf
  <2> DEFINE x == d.table[parent][i].cluster
  <2>5. LiveEntries(d, x) = {} /\ e.id = x
    BY <1>3, <2>3
  <2> HIDE DEF x
  <2>6. \A j \in UserSlots : ~d.table[x][j].live
    BY <2>5 DEF LiveEntries
  <2> QED
    BY <2>4, <2>5, <2>6
<1> HIDE DEF old
<1>7. \A p \in PlacesOf(d) : p # old => StoredOn(d, p) # StoredOn(d, old)
  BY <1>1, StoredApart
<1>8. StoreOf(w) = StoreOf(d) \ {e}
  BY <1>1, <1>7 DEF StoreOf
<1>9. OldIn(StoreOf(d), e)
  BY <1>1, <1>5 DEF OldIn, StoreOf
<1> QED
  BY <1>1, <1>8, <1>9 DEF old

-----------------------------------------------------------------------------
(* Calls.                                                                   *)

\* The disks of a call, each a step of FileStore away from the one before.
Promised(d, writes) ==
    \A k \in 1 .. Len(writes) :
        /\ Settled(writes[k])
        /\ Turns(StoreOf(IF k = 1 THEN d ELSE writes[k - 1]), StoreOf(writes[k]))

\* Only the first or the last of them shows.
LEMMA PromisedOnce ==
    ASSUME NEW d, NEW writes, NEW m \in Nat, Len(writes) \in Nat, m \in 1 .. Len(writes),
           \A k \in 1 .. Len(writes) : Settled(writes[k]),
           \A k \in 1 .. m - 1 : StoreOf(writes[k]) = StoreOf(d),
           \A k \in m .. Len(writes) : StoreOf(writes[k]) = StoreOf(writes[m]),
           Turns(StoreOf(d), StoreOf(writes[m]))
    PROVE  Promised(d, writes)
<1> SUFFICES ASSUME NEW k \in 1 .. Len(writes)
             PROVE  Turns(StoreOf(IF k = 1 THEN d ELSE writes[k - 1]), StoreOf(writes[k]))
  BY DEF Promised
<1> DEFINE before == IF k = 1 THEN d ELSE writes[k - 1]
<1>1. CASE k < m
  <2>1. k \in 1 .. m - 1 /\ (k # 1 => k - 1 \in 1 .. m - 1)
    BY <1>1
  <2>2. StoreOf(before) = StoreOf(d) /\ StoreOf(writes[k]) = StoreOf(d)
    BY <2>1
  <2> QED
    BY <2>2 DEF Turns
<1>2. CASE k = m
  <2>1. k # 1 => k - 1 \in 1 .. m - 1
    BY <1>2
  <2>2. StoreOf(before) = StoreOf(d)
    BY <2>1
  <2> QED
    BY <1>2, <2>2
<1>3. CASE k > m
  <2>1. k \in m .. Len(writes) /\ k - 1 \in m .. Len(writes) /\ k # 1
    BY <1>3
  <2>2. StoreOf(before) = StoreOf(writes[m]) /\ StoreOf(writes[k]) = StoreOf(writes[m])
    BY <2>1
  <2> QED
    BY <2>2 DEF Turns
<1> QED
  BY <1>1, <1>2, <1>3

\* Of a write the last: the table of the parent.
LEMMA WriteStore ==
    ASSUME disk \in Disks, DiskSound(disk), Settled(disk), NEW parent \in Reach,
           NEW name, NEW ext, NEW size, NEW buf, Request(parent, name, ext, size, buf),
           NEW numbers, NEW slot, Placed(parent, name, ext, size, buf, numbers, slot),
           Required(size) <= Cardinality(FreeClusters(disk.fat)),
           size = 0 => Cardinality(Reach) <= DirectoryMax, FromProgram(size, buf)
    PROVE  Promised(disk, WriteDisks(parent, name, ext, size, buf))
<1> DEFINE r == Required(size)
           writes == WriteDisks(parent, name, ext, size, buf)
           entry == NewEntry(disk.table[parent][slot], name, ext, size, numbers[1])
           t == NewTable(parent, name, size, buf)
           v == NewData(size, numbers, buf)
           table == [disk.table[parent] EXCEPT ![slot] = entry]
<1>1. Adds(writes, name, size, numbers, parent, slot, entry, t, v, table)
  BY WriteAdds
<1>2. /\ v = NewData(size, numbers, buf) /\ r = Required(size)
      /\ size # 0 => entry.ext = ext
  BY DEF NewEntry
<1> HIDE DEF r, writes, entry, t, v, table
<1>3. /\ Written(writes, numbers, t, v, parent, table) /\ disk.signed
      /\ Range(numbers) \subseteq FreeClusters(disk.fat)
      /\ \A c \in Clusters :
            c \notin FreeClusters(disk.fat) => Linked(disk.fat, numbers)[c] = disk.fat[c]
  BY <1>1 DEF Adds
<1>4. /\ parent \in DirectoryClusters(disk) /\ DirectoryClusters(disk) # {}
      /\ name \in Names /\ ext \in Exts /\ size \in 0 .. MaxSize /\ FromProgram(size, buf)
      /\ ~Exists(disk.table[parent], name, ext) /\ ~disk.table[parent][slot].live
  BY DEF Reach, Request, Placed
<1>5. ASSUME NEW k \in 1 .. Len(writes) - 1
      PROVE  Settled(writes[k]) /\ StoreOf(writes[k]) = StoreOf(disk)
  <2> DEFINE w == writes[k]
  <2>1. Bodied(w, Range(numbers), t) \/ Mapped(w, numbers, t)
    BY <1>3 DEF Written
  <2> HIDE DEF w
  <2>2. /\ w \in Disks /\ w.signed = disk.signed
        /\ \A c \in Clusters : c \notin Range(numbers) =>
              w.table[c] = disk.table[c] /\ w.data[c] = disk.data[c]
        /\ w.fat = disk.fat \/ w.fat = Linked(disk.fat, numbers)
    BY <2>1 DEF Bodied, Mapped
  <2>3. \A c \in Clusters : c \notin FreeClusters(disk.fat) =>
           w.fat[c] = disk.fat[c] /\ w.table[c] = disk.table[c] /\ w.data[c] = disk.data[c]
    BY <1>3, <2>2
  <2>4. Settled(w) /\ StoreOf(w) = StoreOf(disk)
    BY <1>4, <2>2, <2>3, ContentsStore
  <2> QED
    BY <2>4 DEF w
<1>6. Len(writes) \in Nat /\ Len(writes) \in 1 .. Len(writes)
  BY <1>3 DEF Written
<1>7. Settled(writes[Len(writes)])
      /\ Turns(StoreOf(disk), StoreOf(writes[Len(writes)]))
  <2> DEFINE w == writes[Len(writes)]
  <2>1. Tabled(w, numbers, t, v, parent, table)
    BY <1>3 DEF Written
  <2> HIDE DEF w
  <2>2. /\ w \in Disks /\ w.signed = disk.signed
        /\ \A c \in Clusters :
              w.data[c] = IF c = parent THEN NoData
                          ELSE IF c \in Range(numbers) THEN v[c] ELSE disk.data[c]
    BY <2>1 DEF Tabled
  <2>3. /\ EntryAdded(disk, w, r, numbers, parent, slot, entry, t, table)
        /\ entry.name = name
        /\ entry.dir <=> size = 0
        /\ ~entry.dir => entry.size = size /\ entry.ext = ext
        /\ \A j, k \in 1 .. r : numbers[j] = numbers[k] => j = k
    BY <1>1, <1>2, <2>1 DEF Adds
  <2>4. entry.dir => Cardinality(DirectoryClusters(disk)) <= DirectoryMax
    BY <2>3 DEF Reach
  <2>5. Settled(w) /\ Turns(StoreOf(disk), StoreOf(w))
    BY <1>2, <1>4, <2>2, <2>3, <2>4, EntryStore
  <2> QED
    BY <2>5 DEF w
<1>8. /\ \A k \in 1 .. Len(writes) : Settled(writes[k])
      /\ \A k \in Len(writes) .. Len(writes) : StoreOf(writes[k]) = StoreOf(writes[Len(writes)])
  BY <1>5, <1>6, <1>7
<1>9. Promised(disk, writes)
  BY <1>5, <1>6, <1>7, <1>8, PromisedOnce
<1> QED
  BY <1>9 DEF writes

\* Nothing is stored where nothing is listed.
LEMMA EmptyStore ==
    ASSUME NEW d \in Disks, LivePlaces(d) = {}
    PROVE  Settled(d) /\ StoreOf(d) = {}
<1>1. StoreOf(d) = {}
  BY PlacesOfFacts DEF StoreOf
<1>2. CASE DirectoryClusters(d) = {}
  <2>1. Cardinality({}) = 0
    BY FS_EmptySet
  <2> QED
    BY <1>1, <1>2, <2>1, FatConstants DEF Settled
<1>3. CASE DirectoryClusters(d) # {}
  <2> DEFINE K == {ROOT_CLUSTER_NUMBER}
  <2>1. \A i \in UserSlots : ~d.table[ROOT_CLUSTER_NUMBER][i].live
    BY ClusterFacts, PlaceMade
  <2>2. Subdirectories(d, ROOT_CLUSTER_NUMBER) = {}
    BY <2>1 DEF Subdirectories, LiveEntries
  <2>3. Walkable(d) /\ K \in SUBSET Clusters /\ Cardinality(K) = 1
    BY <1>3, ReachedIsWalkable, ClusterFacts, FS_Singleton
  <2>4. Cardinality(K) <= DirectoryMax + 1
    BY <2>3, FatConstants
  <2>5. Settled(d)
    BY <2>2, <2>3, <2>4, WalkEnds
  <2> QED
    BY <1>1, <2>5
<1> QED
  BY <1>2, <1>3

\* Of formatting no disk shows.
LEMMA FormatStore ==
    ASSUME disk \in Disks, DiskSound(disk), ~disk.signed
    PROVE  Promised(disk, create_fat32)
<1>1. create_fat32 \in Seq(Disks) /\ Len(create_fat32) = 3
  BY CreateFacts
<1>2. \A k \in 1 .. Len(create_fat32) : LivePlaces(create_fat32[k]) = {}
  BY FormatSound
<1>3. \A s \in Seq(Disks) : \A k \in 1 .. Len(s) : s[k] \in Disks
  OBVIOUS
<1>4. \A k \in 1 .. Len(create_fat32) :
         Settled(create_fat32[k]) /\ StoreOf(create_fat32[k]) = {}
  BY <1>1, <1>2, <1>3, EmptyStore
<1>5. StoreOf(disk) = {}
  BY EmptyStore DEF DiskSound, UnsignedIsEmpty
<1> DEFINE writes == create_fat32
<1>6. Len(writes) = 3
  BY <1>1
<1> HIDE DEF writes
<1>7. \A k \in 1 .. Len(writes) : Settled(writes[k]) /\ StoreOf(writes[k]) = {}
  BY <1>4 DEF writes
<1>8. Turns(StoreOf(disk), StoreOf(writes[1]))
  BY <1>5, <1>6, <1>7 DEF Turns
<1>9. /\ 1 \in Nat /\ Len(writes) \in Nat /\ 1 \in 1 .. Len(writes)
      /\ \A k \in 1 .. 1 - 1 : StoreOf(writes[k]) = StoreOf(disk)
      /\ \A k \in 1 .. Len(writes) : StoreOf(writes[k]) = StoreOf(writes[1])
  BY <1>6, <1>7
<1>10. Promised(disk, writes)
  BY <1>7, <1>8, <1>9, PromisedOnce
<1> QED
  BY <1>10 DEF writes

\* Of a deletion the first: again the table of the parent.
LEMMA DeleteStore ==
    ASSUME disk \in Disks, DiskSound(disk), Settled(disk),
           \A c \in Clusters : TableApart(disk.table[c]), cache \in [Drivers -> Fats],
           NEW d \in Drivers, cache[d] = disk.fat, NEW parent \in Reach,
           NEW i \in UserSlots, disk.table[parent][i].live,
           disk.table[parent][i].dir =>
              LiveEntries(disk, disk.table[parent][i].cluster) = {}
    PROVE  Promised(disk, DeleteDisks(d, parent, i))
<1> DEFINE writes == DeleteDisks(d, parent, i)
           table == [disk.table[parent] EXCEPT ![i].live = FALSE]
           e == StoredOn(disk, <<parent, i>>)
<1>1. parent \in DirectoryClusters(disk) /\ parent \in Clusters
  BY ReachFacts DEF Reach
<1>2. Removes(writes, parent, i, table)
  BY <1>1, DeleteRemoves
<1> HIDE DEF writes, table
<1>3. ASSUME NEW k \in 1 .. Len(writes)
      PROVE  /\ Settled(writes[k]) /\ OldIn(StoreOf(disk), e)
             /\ StoreOf(writes[k]) = StoreOf(disk) \ {e}
  <2> DEFINE w == writes[k]
  <2>1. /\ w \in Disks /\ w.signed = disk.signed
        /\ EntryRemoved(disk, w, parent, i, table)
        /\ \A c \in Clusters : c # parent => w.data[c] = disk.data[c]
    BY <1>2 DEF Removes
  <2> HIDE DEF w, e
  <2>2. /\ Settled(w) /\ OldIn(StoreOf(disk), e)
        /\ StoreOf(w) = StoreOf(disk) \ {e}
    BY <1>1, <2>1, RemovalStore DEF e
  <2> QED
    BY <2>2 DEF w
<1> HIDE DEF e
<1>4. Len(writes) = 2 /\ 1 \in 1 .. Len(writes)
  BY <1>2 DEF Removes
<1>5. Turns(StoreOf(disk), StoreOf(writes[1]))
  BY <1>3, <1>4 DEF Turns
<1>6. /\ 1 \in Nat /\ Len(writes) \in Nat
      /\ \A k \in 1 .. 1 - 1 : StoreOf(writes[k]) = StoreOf(disk)
      /\ \A k \in 1 .. Len(writes) : StoreOf(writes[k]) = StoreOf(writes[1])
  BY <1>3, <1>4
<1>7. Promised(disk, writes)
  BY <1>3, <1>4, <1>5, <1>6, PromisedOnce
<1> QED
  BY <1>7 DEF writes

-----------------------------------------------------------------------------
(* The driver keeps the promise.                                            *)

StoreInv == Settled(disk) /\ Promised(disk, pending)

\* A request of write.
LEMMA RequestStore ==
    ASSUME disk \in Disks, SoundInv, StoreInv, NEW d, NEW parent \in Reach,
           NEW name, NEW ext, NEW size, NEW buf, Request(parent, name, ext, size, buf),
           RoomOrNone(size), size = 0 => Cardinality(Reach) <= DirectoryMax,
           FromProgram(size, buf), write(d, parent, name, ext, size, buf)
    PROVE  StoreInv'
<1>1. UNCHANGED disk /\ DiskSound(disk) /\ Settled(disk)
  BY WriteEffect DEF SoundInv, StoreInv
<1>2. CASE pending' = pending
  BY <1>1, <1>2 DEF StoreInv
<1>3. CASE \E numbers, slot :
              /\ Placed(parent, name, ext, size, buf, numbers, slot)
              /\ pending' = WriteDisks(parent, name, ext, size, buf)
  <2>1. PICK numbers, slot :
           /\ Placed(parent, name, ext, size, buf, numbers, slot)
           /\ pending' = WriteDisks(parent, name, ext, size, buf)
    BY <1>3
  <2>2. Required(size) <= Cardinality(FreeClusters(disk.fat))
    <3>1. 1 \in 1 .. Required(size)
      BY FatConstants DEF Required, Request
    <3>2. FreeClusters(disk.fat) # {}
      BY <2>1, <3>1 DEF Placed
    <3> QED
      BY <3>2 DEF RoomOrNone
  <2> DEFINE writes == WriteDisks(parent, name, ext, size, buf)
  <2>3. Promised(disk, writes)
    BY <1>1, <2>1, <2>2, WriteStore
  <2>4. pending' = writes
    BY <2>1
  <2> HIDE DEF writes
  <2> QED
    BY <1>1, <2>3, <2>4 DEF StoreInv
<1> QED
  BY <1>2, <1>3, WriteEffect

\* What the theorems below assume: careful programs, and no deletion of a directory
\* that has entries.
Orderly == Careful /\ EmptyDirsOnly

\* No call leaves the disk, or a disk it will write, more than a step away.
LEMMA StoreInvStep ==
    ASSUME Orderly
    PROVE  FatTyped /\ CacheInv /\ SoundInv /\ NamesInv /\ StoreInv /\ [FatNext]_fatVars
              => StoreInv'
<1> SUFFICES ASSUME FatTyped, CacheInv, SoundInv, NamesInv, StoreInv, [FatNext]_fatVars
             PROVE  StoreInv'
  OBVIOUS
<1>1. /\ disk \in Disks /\ pending \in Seq(Disks) /\ cache \in [Drivers -> Fats]
      /\ disk.fat \in Fats /\ Writers \subseteq Drivers /\ DiskSound(disk)
      /\ \A c \in Clusters : TableApart(disk.table[c])
      /\ Settled(disk) /\ Promised(disk, pending)
      /\ Careful /\ EmptyDirsOnly
  BY FatConstants DEF FatTyped, Disks, Drivers, SoundInv, NamesInv, StoreInv, Orderly
<1>2. ASSUME initialize_filesystem_fat32 PROVE StoreInv'
  <2>1. disk' = disk /\ (pending' = pending \/ (~disk.signed /\ pending' = create_fat32))
    BY <1>2 DEF initialize_filesystem_fat32, is_empty_storage
  <2>2. ~disk.signed => Promised(disk, create_fat32)
    BY <1>1, FormatStore
  <2> DEFINE writes == create_fat32
  <2>3. disk' = disk
        /\ (pending' = pending \/ (pending' = writes /\ Promised(disk, writes)))
    BY <2>1, <2>2
  <2> HIDE DEF writes
  <2> QED
    BY <1>1, <2>3 DEF StoreInv
<1>3. ASSUME DiskWrite PROVE StoreInv'
  <2>1. pending # <<>> /\ disk' = Head(pending) /\ pending' = Tail(pending)
    BY <1>3 DEF DiskWrite
  <2>2. \A s \in Seq(Disks) : s # <<>> =>
           /\ Len(s) \in Nat /\ 1 \in 1 .. Len(s) /\ Head(s) = s[1]
           /\ Len(Tail(s)) = Len(s) - 1
           /\ \A k \in 1 .. Len(Tail(s)) : k + 1 \in 1 .. Len(s) /\ Tail(s)[k] = s[k + 1]
    OBVIOUS
  <2> DEFINE rest == Tail(pending)
             first == Head(pending)
  <2>3. Settled(first)
    BY <1>1, <2>1, <2>2 DEF Promised
  <2>4. Promised(first, rest)
    <3> SUFFICES ASSUME NEW k \in 1 .. Len(rest)
                 PROVE  /\ Settled(rest[k])
                        /\ Turns(StoreOf(IF k = 1 THEN first ELSE rest[k - 1]),
                                 StoreOf(rest[k]))
      BY DEF Promised
    <3>1. k + 1 \in 1 .. Len(pending) /\ rest[k] = pending[k + 1] /\ k \in Nat
          /\ k + 1 # 1 /\ (k + 1) - 1 = k /\ first = pending[1]
      BY <1>1, <2>1, <2>2
    <3>2. k # 1 => rest[k - 1] = pending[k]
      <4>1. k # 1 => k - 1 \in 1 .. Len(rest) /\ (k - 1) + 1 = k
        BY <1>1, <2>1, <2>2
      <4> QED
        BY <1>1, <2>1, <2>2, <4>1
    <3>3. pending[k] = IF k = 1 THEN first ELSE rest[k - 1]
      BY <3>1, <3>2
    <3>4. Settled(pending[k + 1]) /\ Turns(StoreOf(pending[k]), StoreOf(pending[k + 1]))
      BY <1>1, <3>1 DEF Promised
    <3> QED
      BY <3>1, <3>3, <3>4
  <2>5. disk' = first /\ pending' = rest
    BY <2>1
  <2> HIDE DEF first, rest
  <2> QED
    BY <2>3, <2>4, <2>5 DEF StoreInv
<1>4. ASSUME PowerOff PROVE StoreInv'
  <2>1. disk' = disk /\ pending' = <<>>
    BY <1>4 DEF PowerOff
  <2>2. \A k \in 1 .. Len(<<>>) : FALSE
    OBVIOUS
  <2>3. Promised(disk, <<>>)
    BY <2>2 DEF Promised
  <2> QED
    BY <1>1, <2>1, <2>3 DEF StoreInv
<1>5. ASSUME WriteFile PROVE StoreInv'
  <2>1. PICK d \in Writers, parent \in Reach, name \in Names, ext \in Exts,
             size \in 1 .. MaxSize : \E buf :
           /\ Request(parent, name, ext, size, buf) /\ FromProgram(size, buf)
           /\ EnoughRoom(size)
           /\ write(d, parent, name, ext, size, buf)
    BY <1>1, <1>5, WriteFileRequests DEF Careful
  <2>2. PICK buf : /\ Request(parent, name, ext, size, buf) /\ FromProgram(size, buf)
                   /\ EnoughRoom(size)
                   /\ write(d, parent, name, ext, size, buf)
    BY <2>1
  <2>3. RoomOrNone(size) /\ size # 0
    BY <1>1, <2>1, <2>2, FatConstants, FreeFacts DEF EnoughRoom, RoomOrNone, Required
  <2> QED
    BY <1>1, <2>1, <2>2, <2>3, RequestStore
<1>6. ASSUME MakeDirectory PROVE StoreInv'
  <2>1. PICK d \in Writers, parent \in Reach, name \in Names, ext \in Exts, junk \in Exts :
           /\ Request(parent, name, ext, 0, junk)
           /\ Cardinality(Reach) <= DirectoryMax
           /\ write(d, parent, name, ext, 0, junk)
    BY <1>1, <1>6, MakeDirectoryRequests
  <2>2. RoomOrNone(0) /\ FromProgram(0, junk)
    BY <1>1, FreeFacts DEF RoomOrNone, Required, FromProgram
  <2> QED
    BY <1>1, <2>1, <2>2, RequestStore
<1>7. ASSUME DeleteByName PROVE StoreInv'
  <2>1. disk' = disk /\ pending = <<>>
    BY <1>1, <1>7, DeleteEffect DEF Idle
  <2>2. CASE UNCHANGED <<cache, pending>>
    BY <1>1, <2>1, <2>2 DEF StoreInv
  <2>3. CASE \E d \in Writers, parent \in Reach, name \in Names, ext \in Exts,
                i \in Slots :
                /\ FreshDelete => cache[d] # ZeroFat
                /\ i \in Deletable(disk.table[parent], name, ext)
                /\ EmptyDirsOnly /\ disk.table[parent][i].dir =>
                      LiveEntries(disk, disk.table[parent][i].cluster) = {}
                /\ DeleteEntry(d, parent, i)
    <3>1. PICK d \in Writers, parent \in Reach, name \in Names, ext \in Exts,
               i \in Slots :
             /\ FreshDelete => cache[d] # ZeroFat
             /\ i \in Deletable(disk.table[parent], name, ext)
             /\ EmptyDirsOnly /\ disk.table[parent][i].dir =>
                   LiveEntries(disk, disk.table[parent][i].cluster) = {}
             /\ DeleteEntry(d, parent, i)
      BY <2>3
    <3>2. d \in Drivers /\ cache[d] = disk.fat
      BY <1>1, <2>1, <3>1 DEF Careful, CacheInv, FatToCome
    <3>3. parent \in Clusters
      BY <1>1, ReachInUse DEF Reach
    <3>4. i \in UserSlots /\ disk.table[parent][i].live
      BY <1>1, <3>1, <3>3, DeletableFacts DEF Careful
    <3> DEFINE writes == DeleteDisks(d, parent, i)
    <3>5. Promised(disk, writes)
      BY <1>1, <3>1, <3>2, <3>4, DeleteStore
    <3>6. pending' = writes
      BY <3>1 DEF DeleteEntry
    <3> HIDE DEF writes
    <3> QED
      BY <1>1, <2>1, <3>5, <3>6 DEF StoreInv
  <2> QED
    BY <1>1, <1>7, <2>2, <2>3, DeleteEffect
<1>8. ASSUME ReadFile PROVE StoreInv'
  BY <1>1, <1>8 DEF ReadFile, read, StoreInv
<1>9. ASSUME UNCHANGED fatVars PROVE StoreInv'
  BY <1>1, <1>9 DEF fatVars, StoreInv
<1> QED
  BY <1>2, <1>3, <1>4, <1>5, <1>6, <1>7, <1>8, <1>9 DEF FatNext

\* The disk is blank at first, and nothing is stored.
LEMMA InitStore == FatInit => StoreInv /\ StoreOf(disk) = {}
<1> SUFFICES ASSUME FatInit PROVE StoreInv /\ StoreOf(disk) = {}
  OBVIOUS
<1>1. disk \in Disks /\ DiskSound(disk) /\ ~disk.signed /\ pending = <<>>
  BY InitTyped, InitSound DEF FatInit, FatTyped, SoundInv, BlankDisk
<1>2. Settled(disk) /\ StoreOf(disk) = {}
  BY <1>1, EmptyStore DEF DiskSound, UnsignedIsEmpty
<1>3. \A k \in 1 .. Len(<<>>) : FALSE
  OBVIOUS
<1>4. Promised(disk, <<>>)
  BY <1>3 DEF Promised
<1> QED
  BY <1>1, <1>2, <1>4 DEF StoreInv

\* The store changes when a disk is written, by what the call had promised.
LEMMA DiskTurns ==
    FatTyped /\ StoreInv /\ [FatNext]_fatVars => Turns(StoreOf(disk), StoreOf(disk'))
<1> SUFFICES ASSUME FatTyped, StoreInv, [FatNext]_fatVars
             PROVE  Turns(StoreOf(disk), StoreOf(disk'))
  OBVIOUS
<1>1. CASE DiskWrite
  <2>1. pending \in Seq(Disks) /\ pending # <<>> /\ disk' = Head(pending)
    BY <1>1 DEF DiskWrite, FatTyped
  <2>2. 1 \in 1 .. Len(pending) /\ disk' = pending[1]
    BY <2>1
  <2> QED
    BY <2>2 DEF StoreInv, Promised
<1>2. CASE disk' = disk
  BY <1>2 DEF Turns
<1>3. DiskWrite \/ disk' = disk
  BY DEF FatNext, fatVars, initialize_filesystem_fat32, PowerOff, WriteFile,
         MakeDirectory, DeleteByName, ReadFile, write, delete, read
<1> QED
  BY <1>1, <1>2, <1>3

\* What the properties call the store is that of the disk.
LEMMA StoreIsStored ==
    /\ {Stored(p) : p \in Places} = StoreOf(disk)
    /\ {Stored(p) : p \in Places}' = StoreOf(disk')
BY DEF StoreOf, PlacesOf, StoredOn, DataOn, Entry, Stored, Places, Reach, EntryAt,
       ChainOf, DataAlong

\* A step of FileStore is one by its own definition.
LEMMA TurnIsStep ==
    Turns(StoreOf(disk), StoreOf(disk')) =>
       Promise!StoreNext \/ UNCHANGED {Stored(p) : p \in Places}
<1> QED
  BY StoreIsStored DEF Turns, NewIn, OldIn, Promise!StoreNext, Promise!Add, Promise!Remove

\* To the programs, whatever they call and wherever the power fails, the disk is a
\* FileStore: a call takes effect as a whole on the write of the parent's table, or
\* not at all.
THEOREM PromiseIsKept ==
    ASSUME Orderly
    PROVE  FatSpec => ImplementsFileStore
<1> DEFINE Inv == FatTyped /\ CacheInv /\ SoundInv /\ NamesInv /\ StoreInv
<1>1. OneWriter /\ Careful
  BY DEF Orderly, Careful
<1>2. FatInit => Inv /\ Promise!StoreInit
  <2> SUFFICES ASSUME FatInit PROVE Inv /\ Promise!StoreInit
    OBVIOUS
  <2>1. Inv /\ StoreOf(disk) = {}
    BY InitTyped, InitCached, InitSound, InitNames, InitStore
  <2> QED
    BY <2>1, StoreIsStored DEF Promise!StoreInit
<1>3. Inv /\ [FatNext]_fatVars => Inv'
  BY <1>1, FatTypedStep, CacheInvStep, SoundInvStep, NamesInvStep, StoreInvStep
<1>4. Inv /\ [FatNext]_fatVars
         => Promise!StoreNext \/ UNCHANGED {Stored(p) : p \in Places}
  BY DiskTurns, TurnIsStep
<1> QED
  BY <1>2, <1>3, <1>4, PTL DEF FatSpec, ImplementsFileStore, Promise!StoreSpec
-----------------------------------------------------------------------------
(* No cluster gets lost.                                                    *)

\* Every cluster in use belongs to an entry that programs can come to.
Complete(d) ==
    \A c \in UserClusters : d.fat[c] # EMPTY_ENTRY =>
        \E p \in PlacesOf(d) : c \in Held(d.fat, Entry(d, p))

\* The disk once all is written.
DiskToCome == IF pending = <<>> THEN disk ELSE Last(pending)

LeakInv == powerOffs \in Nat /\ (powerOffs = 0 => Complete(DiskToCome))

\* No file is empty, so a deletion frees all of a chain.
TableSized(t) == \A i \in UserSlots : t[i].live /\ ~t[i].dir => t[i].size # 0
SizedTables == {t \in Tables : TableSized(t)}

\* Such tables are closed: a file that is written has a size.
LEMMA SizedClosed == Closed(SizedTables)
<1>1. ASSUME NEW t \in Tables, Bare(t) PROVE TableSized(t)
  BY <1>1 DEF Bare, TableSized
<1>2. ASSUME NEW old \in Tables, TableSized(old), NEW t \in Tables, Entered(old, t)
      PROVE  TableSized(t)
  <2>1. PICK slot \in UserSlots, name \in Names, ext \in Exts, e \in Entries :
           /\ ~old[slot].live /\ ~Exists(old, name, ext)
           /\ RoomChecked => \A i \in UserSlots : i < slot => old[i].live
           /\ e.live /\ e.name = name /\ e.ext = IF e.dir THEN old[slot].ext ELSE ext
           /\ ~e.dir => e.size # 0
           /\ t = [old EXCEPT ![slot] = e]
    BY <1>2, Zenon DEF Entered
  <2>2. t = [old EXCEPT ![slot] = e] /\ (~e.dir => e.size # 0)
    BY <2>1
  <2>3. \A i \in UserSlots : t[i] = IF i = slot THEN e ELSE old[i]
    <3>1. t = [old EXCEPT ![slot] = e]
      BY <2>2
    <3> QED
      BY <3>1, EnteredSlots
  <2> QED
    BY <1>2, <2>2, <2>3 DEF TableSized
<1>3. ASSUME NEW old \in Tables, TableSized(old), NEW t \in Tables, Unlisted(old, t)
      PROVE  TableSized(t)
  <2>1. PICK slot \in Slots : t = [old EXCEPT ![slot].live = FALSE]
    BY <1>3 DEF Unlisted
  <2>2. \A i \in UserSlots : /\ t[i].live => old[i].live
                             /\ t[i].dir = old[i].dir /\ t[i].size = old[i].size
    BY <2>1, UnlistedSlots, ClusterFacts
  <2> QED
    BY <1>3, <2>2 DEF TableSized
<1> QED
  BY <1>1, <1>2, <1>3 DEF Closed, SizedTables

\* With such an entry goes every cluster it held.
LEMMA AllFreed ==
    ASSUME NEW f \in Fats, NEW e \in Entries, Chained(f, e), ~e.dir => e.size # 0
    PROVE  Held(f, e) \subseteq Freed(f, e)
<1>1. e.cluster \in Clusters /\ e.size \in Nat /\ e.cluster \in FatValues
  <2>1. e.cluster \in Clusters /\ e.size \in 0 .. MaxSize /\ MaxSize \in Nat
    BY FatConstants DEF Entries
  <2>2. e.size \in Nat
    BY <2>1
  <2>3. e.cluster \in FatValues
    BY <2>1, ClusterFacts
  <2> QED
    BY <2>1, <2>2, <2>3
<1>2. CASE e.dir
  <2>1. ChainLength(e) = 1
    BY <1>2 DEF ChainLength, Required
  <2>2. \A k \in 0 .. ChainLength(e) - 1 : k = 0
    BY <2>1
  <2>3. At(f, e.cluster, 0) = e.cluster
    BY <1>1, AtSteps
  <2> QED
    BY <1>2, <2>2, <2>3 DEF Held, Freed
<1>3. CASE ~e.dir
  <2>1. ChainLength(e) = e.size
    BY <1>3 DEF ChainLength, Required
  <2>2. Freed(f, e) = Held(f, e) \cap Clusters
    BY <1>3, <2>1 DEF Held, Freed
  <2>3. Held(f, e) \subseteq Clusters
    BY <1>1, HeldFacts, ClusterFacts
  <2> QED
    BY <2>2, <2>3
<1> QED
  BY <1>2, <1>3

\* What is written is listed: the clusters taken are the chain of the new entry.
LEMMA EntryComplete ==
    ASSUME NEW d \in Disks, DiskSound(d), Settled(d), NEW w \in Disks,
           w.signed = d.signed, NEW r, NEW numbers, NEW parent \in DirectoryClusters(d),
           NEW slot, NEW entry, NEW t, NEW table,
           EntryAdded(d, w, r, numbers, parent, slot, entry, t, table),
           ~d.table[parent][slot].live,
           entry.dir => Cardinality(DirectoryClusters(d)) <= DirectoryMax,
           \A c \in Clusters : c \notin Range(numbers) => w.fat[c] = d.fat[c],
           Complete(d)
    PROVE  Complete(w)
<1> DEFINE new == <<parent, slot>>
<1>1. /\ PlacesOf(w) = PlacesOf(d) \cup {new} /\ Entry(w, new) = entry
      /\ \A p \in PlacesOf(d) : Entry(w, p) = Entry(d, p)
  <2>1. Grown(d, w, <<parent, slot>>, entry)
    BY EntryReach
  <2> QED
    BY <2>1 DEF Grown
<1> HIDE DEF new
<1>2. d.signed /\ AllChained(d) /\ w.fat \in Fats
  BY ReachInUse DEF DiskSound, Disks
<1>3. /\ r \in 1 .. ClusterMapSize /\ r = ChainLength(entry)
      /\ numbers \in [1 .. r -> FreeClusters(d.fat)]
      /\ \A c \in Clusters : c \notin FreeClusters(d.fat) => w.fat[c] = d.fat[c]
  BY DEF EntryAdded
<1>4. Leads(w.fat, entry.cluster, r, numbers)
  BY <1>2, EntrySound
<1>5. ASSUME NEW c \in UserClusters, w.fat[c] # EMPTY_ENTRY, c \in Range(numbers)
      PROVE  c \in Held(w.fat, entry)
  <2>1. PICK k \in 1 .. r : c = numbers[k]
    BY <1>3, <1>5 DEF Range
  <2>2. c = At(w.fat, entry.cluster, k - 1)
    BY <1>4, <2>1 DEF Leads
  <2>3. k - 1 \in 0 .. ChainLength(entry) - 1
    BY <1>3, FatConstants
  <2> QED
    BY <2>2, <2>3 DEF Held
<1>6. ASSUME NEW c \in UserClusters, w.fat[c] # EMPTY_ENTRY, c \notin Range(numbers)
      PROVE  \E p \in PlacesOf(d) : c \in Held(w.fat, Entry(w, p))
  <2>1. d.fat[c] # EMPTY_ENTRY
    BY <1>6, ClusterFacts
  <2>2. PICK p \in PlacesOf(d) : c \in Held(d.fat, Entry(d, p))
    BY <2>1 DEF Complete
  <2>3. p \in LivePlaces(d)
    BY PlacesOfFacts
  <2>4. \A x \in Held(d.fat, Entry(d, p)) : w.fat[x] = d.fat[x]
    BY <1>2, <1>3, <2>3, ListedNotFree
  <2>5. Held(w.fat, Entry(d, p)) = Held(d.fat, Entry(d, p))
    BY <1>2, <2>3, <2>4, ListedKept
  <2> QED
    BY <1>1, <2>2, <2>5
<1> QED
  BY <1>1, <1>5, <1>6 DEF Complete

\* Of what a deletion unlists nothing stays in use.
LEMMA RemovalComplete ==
    ASSUME NEW d \in Disks, DiskSound(d), Settled(d), NEW w \in Disks,
           w.signed = d.signed, NEW parent \in DirectoryClusters(d), NEW i, NEW table,
           EntryRemoved(d, w, parent, i, table),
           d.table[parent][i].dir => LiveEntries(d, d.table[parent][i].cluster) = {},
           \A c \in Held(d.fat, d.table[parent][i]) : w.fat[c] = EMPTY_ENTRY,
           Complete(d)
    PROVE  Complete(w)
<1> DEFINE old == <<parent, i>>
<1>1. /\ PlacesOf(w) = PlacesOf(d) \ {old} /\ old \in PlacesOf(d)
      /\ \A p \in PlacesOf(w) : Entry(w, p) = Entry(d, p)
  BY RemovalReach
<1>2. AllChained(d) /\ AllApart(d) /\ w.fat \in Fats
  BY DEF DiskSound, Disks
<1>3. Entry(d, old) = d.table[parent][i]
  BY DEF Entry
<1>4. /\ \A c \in Clusters : c \notin Held(d.fat, Entry(d, old)) => w.fat[c] = d.fat[c]
      /\ \A c \in Held(d.fat, Entry(d, old)) : w.fat[c] = EMPTY_ENTRY
  BY <1>3 DEF EntryRemoved
<1> HIDE DEF old
<1> SUFFICES ASSUME NEW c \in UserClusters, w.fat[c] # EMPTY_ENTRY
             PROVE  \E p \in PlacesOf(w) : c \in Held(w.fat, Entry(w, p))
  BY DEF Complete
<1>5. c \notin Held(d.fat, Entry(d, old)) /\ d.fat[c] # EMPTY_ENTRY
  BY <1>4, ClusterFacts
<1>6. PICK p \in PlacesOf(d) : c \in Held(d.fat, Entry(d, p))
  BY <1>5 DEF Complete
<1>7. p \in LivePlaces(d) /\ old \in LivePlaces(d) /\ p # old /\ p \in PlacesOf(w)
  BY <1>1, <1>5, <1>6, PlacesOfFacts
<1>8. \A x \in Held(d.fat, Entry(d, p)) :
         x \in Clusters /\ x \notin Held(d.fat, Entry(d, old))
  BY <1>2, <1>7, ListedNotFree DEF AllApart
<1>9. \A x \in Held(d.fat, Entry(d, p)) : w.fat[x] = d.fat[x]
  BY <1>4, <1>8
<1>10. Held(w.fat, Entry(d, p)) = Held(d.fat, Entry(d, p))
  BY <1>2, <1>7, <1>9, ListedKept
<1> QED
  BY <1>1, <1>6, <1>7, <1>10

\* The last disk of a write, of formatting and of a deletion.
LEMMA WriteComplete ==
    ASSUME disk \in Disks, DiskSound(disk), Settled(disk), Complete(disk),
           NEW parent \in Reach, NEW name, NEW ext, NEW size, NEW buf,
           Request(parent, name, ext, size, buf), NEW numbers, NEW slot,
           Placed(parent, name, ext, size, buf, numbers, slot),
           Required(size) <= Cardinality(FreeClusters(disk.fat)),
           size = 0 => Cardinality(Reach) <= DirectoryMax
    PROVE  LET writes == WriteDisks(parent, name, ext, size, buf)
           IN  writes # <<>> /\ Complete(Last(writes))
<1> DEFINE r == Required(size)
           writes == WriteDisks(parent, name, ext, size, buf)
           entry == NewEntry(disk.table[parent][slot], name, ext, size, numbers[1])
           t == NewTable(parent, name, size, buf)
           v == NewData(size, numbers, buf)
           table == [disk.table[parent] EXCEPT ![slot] = entry]
<1>1. Adds(writes, name, size, numbers, parent, slot, entry, t, v, table)
  BY WriteAdds
<1> HIDE DEF writes, entry, t, v, table
<1>2. /\ Written(writes, numbers, t, v, parent, table)
      /\ entry.dir <=> size = 0
  BY <1>1 DEF Adds
<1>3. PICK w : w = Last(writes) /\ Tabled(w, numbers, t, v, parent, table)
  BY <1>2 DEF Written, Last
<1>4. EntryAdded(disk, w, r, numbers, parent, slot, entry, t, table)
  BY <1>1, <1>3 DEF Adds
<1>5. /\ w \in Disks /\ w.signed = disk.signed
      /\ \A c \in Clusters : c \notin Range(numbers) => w.fat[c] = disk.fat[c]
  BY <1>3 DEF Tabled, Linked
<1>6. /\ parent \in DirectoryClusters(disk) /\ ~disk.table[parent][slot].live
      /\ entry.dir => Cardinality(DirectoryClusters(disk)) <= DirectoryMax
  BY <1>2 DEF Reach, Placed
<1>7. Complete(w)
  BY <1>4, <1>5, <1>6, EntryComplete
<1>8. writes # <<>>
  BY <1>2 DEF Written
<1> QED
  BY <1>3, <1>7, <1>8 DEF writes

\* On a formatted disk no cluster is in use.
LEMMA FormatComplete ==
    ASSUME disk \in Disks
    PROVE  create_fat32 # <<>> /\ Complete(Last(create_fat32))
<1>1. Last(create_fat32).fat = FormattedFat /\ Len(create_fat32) = 3
  BY CreateFacts
<1>2. \A c \in UserClusters : FormattedFat[c] = EMPTY_ENTRY
  BY ClusterFacts DEF FormattedFat, UserClusters
<1> QED
  BY <1>1, <1>2 DEF Complete

\* A deletion frees what the entry held, and loses no other entry.
LEMMA DeleteComplete ==
    ASSUME disk \in Disks, DiskSound(disk), Settled(disk), Complete(disk),
           \A c \in Clusters : disk.table[c] \in SizedTables,
           cache \in [Drivers -> Fats], NEW d \in Drivers, cache[d] = disk.fat,
           NEW parent \in Reach, NEW i \in UserSlots, disk.table[parent][i].live,
           disk.table[parent][i].dir =>
              LiveEntries(disk, disk.table[parent][i].cluster) = {}
    PROVE  LET writes == DeleteDisks(d, parent, i)
           IN  writes # <<>> /\ Complete(Last(writes))
<1> DEFINE writes == DeleteDisks(d, parent, i)
           e == disk.table[parent][i]
           freed == Freed(cache[d], e)
           table == [disk.table[parent] EXCEPT ![i].live = FALSE]
<1>1. parent \in DirectoryClusters(disk) /\ parent \in Clusters
  BY ReachFacts DEF Reach
<1>2. Removes(writes, parent, i, table)
  BY <1>1, DeleteRemoves
<1>3. Unlists(writes, Cleared(disk.fat, freed), parent, table)
  BY <1>1, ClusterFacts, DeleteDisksFacts
<1>4. <<parent, i>> \in LivePlaces(disk) /\ Entry(disk, <<parent, i>>) = e
      /\ Held(disk.fat, e) \subseteq freed
  <2>1. <<parent, i>> \in LivePlaces(disk) /\ Entry(disk, <<parent, i>>) = e
    BY <1>1, PlaceMade
  <2>2. e \in Entries /\ Chained(disk.fat, e) /\ disk.fat \in Fats
    BY <2>1, PlaceFacts DEF DiskSound, AllChained, Disks
  <2>3. ~e.dir => e.size # 0
    BY <1>1 DEF SizedTables, TableSized
  <2>4. Held(disk.fat, e) \subseteq Freed(disk.fat, e)
    BY <2>2, <2>3, AllFreed
  <2> QED
    BY <2>1, <2>4
<1> HIDE DEF writes, freed, table
<1>5. PICK w : w = Last(writes) /\ w = writes[2]
  BY <1>2 DEF Removes, Last
<1>6. /\ w \in Disks /\ w.signed = disk.signed
      /\ EntryRemoved(disk, w, parent, i, table)
  <2>1. 2 \in 1 .. Len(writes)
    BY <1>2 DEF Removes
  <2> QED
    BY <1>2, <1>5, <2>1 DEF Removes
<1>7. \A c \in Held(disk.fat, disk.table[parent][i]) : w.fat[c] = EMPTY_ENTRY
  <2>1. w.fat = Cleared(disk.fat, freed) /\ disk.fat \in Fats
    BY <1>3, <1>5 DEF Unlists, Disks
  <2>2. \A c \in Clusters : c \in freed => w.fat[c] = EMPTY_ENTRY
    BY <2>1, ClearedFacts
  <2>3. \A c \in Held(disk.fat, e) : c \in Clusters
    BY <1>4, ListedNotFree DEF DiskSound
  <2> QED
    BY <1>4, <2>2, <2>3
<1>8. Complete(w)
  BY <1>1, <1>6, <1>7, RemovalComplete
<1>9. Len(writes) = 2
  BY <1>2 DEF Removes
<1>10. writes # <<>>
  <2>1. writes \in Seq(Disks)
    BY <1>3 DEF Unlists
  <2>2. \A s \in Seq(Disks) : Len(s) # 0 => s # <<>>
    OBVIOUS
  <2>3. Len(writes) # 0
    BY <1>9
  <2> QED
    BY <2>1, <2>2, <2>3, Zenon
<1> QED
  BY <1>5, <1>8, <1>10 DEF writes

\* A request of write.
LEMMA RequestLeaks ==
    ASSUME disk \in Disks, SoundInv, StoreInv, LeakInv, NEW d, NEW parent \in Reach,
           NEW name, NEW ext, NEW size, NEW buf, Request(parent, name, ext, size, buf),
           RoomOrNone(size), size = 0 => Cardinality(Reach) <= DirectoryMax,
           write(d, parent, name, ext, size, buf)
    PROVE  LeakInv'
<1>1. /\ pending = <<>> /\ disk' = disk /\ powerOffs' = powerOffs
      /\ DiskSound(disk) /\ Settled(disk)
      /\ powerOffs \in Nat /\ (powerOffs = 0 => Complete(disk))
  BY WriteEffect DEF SoundInv, StoreInv, LeakInv, Idle, DiskToCome
<1>2. CASE pending' = pending
  BY <1>1, <1>2 DEF LeakInv, DiskToCome
<1>3. CASE \E numbers, slot :
              /\ Placed(parent, name, ext, size, buf, numbers, slot)
              /\ pending' = WriteDisks(parent, name, ext, size, buf)
  <2>1. PICK numbers, slot :
           /\ Placed(parent, name, ext, size, buf, numbers, slot)
           /\ pending' = WriteDisks(parent, name, ext, size, buf)
    BY <1>3
  <2>2. Required(size) <= Cardinality(FreeClusters(disk.fat))
    <3>1. 1 \in 1 .. Required(size)
      BY FatConstants DEF Required, Request
    <3>2. FreeClusters(disk.fat) # {}
      BY <2>1, <3>1 DEF Placed
    <3> QED
      BY <3>2 DEF RoomOrNone
  <2> DEFINE writes == WriteDisks(parent, name, ext, size, buf)
  <2>3. powerOffs = 0 => writes # <<>> /\ Complete(Last(writes))
    BY <1>1, <2>1, <2>2, WriteComplete
  <2>4. pending' = writes
    BY <2>1
  <2> HIDE DEF writes
  <2> QED
    BY <1>1, <2>3, <2>4 DEF LeakInv, DiskToCome
<1> QED
  BY <1>2, <1>3, WriteEffect

\* Writing the next disk does not change which one is the last.
LEMMA LastOfTail ==
    ASSUME NEW S, NEW s \in Seq(S), s # <<>>
    PROVE  (IF Tail(s) = <<>> THEN Head(s) ELSE Last(Tail(s))) = Last(s)
<1>1. PICK n \in Nat : n = Len(s) /\ n # 0
  <2>1. \A q \in Seq(S) : Len(q) \in Nat /\ (q # <<>> => Len(q) # 0)
    OBVIOUS
  <2> QED
    BY <2>1
<1>2. PICK u \in Seq(S) : u = Tail(s) /\ Len(u) = n - 1
  <2>1. \A q \in Seq(S) : q # <<>> => Tail(q) \in Seq(S) /\ Len(Tail(q)) = Len(q) - 1
    OBVIOUS
  <2> QED
    BY <1>1, <2>1
<1>3. \A k \in 1 .. n - 1 : u[k] = s[k + 1]
  BY <1>1, <1>2
<1>4. u = <<>> <=> Len(u) = 0
  OBVIOUS
<1>5. CASE n = 1
  <2>1. u = <<>>
    BY <1>2, <1>4, <1>5
  <2>2. Head(s) = s[1]
    OBVIOUS
  <2> QED
    BY <1>1, <1>2, <1>5, <2>1, <2>2 DEF Last
<1>6. CASE n # 1
  <2>1. n - 1 \in 1 .. n - 1 /\ (n - 1) + 1 = n
    BY <1>1, <1>6
  <2>2. u[n - 1] = s[n]
    BY <1>3, <2>1
  <2>3. u # <<>>
    BY <1>1, <1>2, <1>4, <1>6
  <2> QED
    BY <1>1, <1>2, <2>2, <2>3 DEF Last
<1> QED
  BY <1>5, <1>6

\* Without a power failure no call leaves a cluster in use that nothing leads to.
LEMMA LeakInvStep ==
    ASSUME Orderly
    PROVE  FatTyped /\ CacheInv /\ SoundInv /\ StoreInv /\ LeakInv
              /\ TablesIn(SizedTables) /\ [FatNext]_fatVars => LeakInv'
<1> SUFFICES ASSUME FatTyped, CacheInv, SoundInv, StoreInv, LeakInv,
                    TablesIn(SizedTables), [FatNext]_fatVars
             PROVE  LeakInv'
  OBVIOUS
<1>1. /\ disk \in Disks /\ pending \in Seq(Disks) /\ cache \in [Drivers -> Fats]
      /\ disk.fat \in Fats /\ Writers \subseteq Drivers /\ DiskSound(disk)
      /\ \A c \in Clusters : disk.table[c] \in SizedTables
      /\ Settled(disk) /\ Careful /\ EmptyDirsOnly
      /\ powerOffs \in Nat /\ (powerOffs = 0 => Complete(DiskToCome))
  BY FatConstants
     DEF FatTyped, Disks, Drivers, SoundInv, StoreInv, TablesIn, LeakInv, Orderly
<1>2. ASSUME initialize_filesystem_fat32 PROVE LeakInv'
  <2>1. /\ disk' = disk /\ powerOffs' = powerOffs
        /\ pending' = pending \/ pending' = create_fat32
    BY <1>2 DEF initialize_filesystem_fat32
  <2>2. create_fat32 # <<>> /\ Complete(Last(create_fat32))
    BY <1>1, FormatComplete
  <2> DEFINE writes == create_fat32
  <2>3. /\ pending' = pending \/ pending' = writes
        /\ writes # <<>> /\ Complete(Last(writes))
    BY <2>1, <2>2
  <2> HIDE DEF writes
  <2> QED
    BY <1>1, <2>1, <2>3 DEF LeakInv, DiskToCome
<1>3. ASSUME DiskWrite PROVE LeakInv'
  <2>1. /\ pending # <<>> /\ disk' = Head(pending) /\ pending' = Tail(pending)
        /\ powerOffs' = powerOffs
    BY <1>3 DEF DiskWrite
  <2>2. DiskToCome' = DiskToCome
    BY <1>1, <2>1, LastOfTail DEF DiskToCome
  <2> QED
    BY <1>1, <2>1, <2>2 DEF LeakInv
<1>4. ASSUME PowerOff PROVE LeakInv'
  <2>1. powerOffs' = powerOffs + 1
    BY <1>4 DEF PowerOff
  <2>2. powerOffs' \in Nat /\ powerOffs' # 0
    BY <1>1, <2>1
  <2> QED
    BY <2>2 DEF LeakInv
<1>5. ASSUME WriteFile PROVE LeakInv'
  <2>1. PICK d \in Writers, parent \in Reach, name \in Names, ext \in Exts,
             size \in 1 .. MaxSize : \E buf :
           /\ Request(parent, name, ext, size, buf)
           /\ EnoughRoom(size)
           /\ write(d, parent, name, ext, size, buf)
    BY <1>1, <1>5, WriteFileRequests DEF Careful
  <2>2. PICK buf : /\ Request(parent, name, ext, size, buf)
                   /\ EnoughRoom(size)
                   /\ write(d, parent, name, ext, size, buf)
    BY <2>1
  <2>3. RoomOrNone(size) /\ size # 0
    BY <1>1, <2>1, <2>2, FatConstants, FreeFacts DEF EnoughRoom, RoomOrNone, Required
  <2> QED
    BY <1>1, <2>1, <2>2, <2>3, RequestLeaks
<1>6. ASSUME MakeDirectory PROVE LeakInv'
  <2>1. PICK d \in Writers, parent \in Reach, name \in Names, ext \in Exts, junk \in Exts :
           /\ Request(parent, name, ext, 0, junk)
           /\ Cardinality(Reach) <= DirectoryMax
           /\ write(d, parent, name, ext, 0, junk)
    BY <1>1, <1>6, MakeDirectoryRequests
  <2>2. RoomOrNone(0)
    BY <1>1, FreeFacts DEF RoomOrNone, Required
  <2> QED
    BY <1>1, <2>1, <2>2, RequestLeaks
<1>7. ASSUME DeleteByName PROVE LeakInv'
  <2>1. disk' = disk /\ pending = <<>> /\ powerOffs' = powerOffs
    BY <1>1, <1>7, DeleteEffect DEF Idle
  <2>2. CASE UNCHANGED <<cache, pending>>
    BY <1>1, <2>1, <2>2 DEF LeakInv, DiskToCome
  <2>3. CASE \E d \in Writers, parent \in Reach, name \in Names, ext \in Exts,
                i \in Slots :
                /\ FreshDelete => cache[d] # ZeroFat
                /\ i \in Deletable(disk.table[parent], name, ext)
                /\ EmptyDirsOnly /\ disk.table[parent][i].dir =>
                      LiveEntries(disk, disk.table[parent][i].cluster) = {}
                /\ DeleteEntry(d, parent, i)
    <3>1. PICK d \in Writers, parent \in Reach, name \in Names, ext \in Exts,
               i \in Slots :
             /\ FreshDelete => cache[d] # ZeroFat
             /\ i \in Deletable(disk.table[parent], name, ext)
             /\ EmptyDirsOnly /\ disk.table[parent][i].dir =>
                   LiveEntries(disk, disk.table[parent][i].cluster) = {}
             /\ DeleteEntry(d, parent, i)
      BY <2>3
    <3>2. d \in Drivers /\ cache[d] = disk.fat
      BY <1>1, <2>1, <3>1 DEF Careful, CacheInv, FatToCome
    <3>3. parent \in Clusters
      BY <1>1, ReachInUse DEF Reach
    <3>4. i \in UserSlots /\ disk.table[parent][i].live
      BY <1>1, <3>1, <3>3, DeletableFacts DEF Careful
    <3>5. powerOffs = 0 => Complete(disk)
      BY <1>1, <2>1 DEF DiskToCome
    <3> DEFINE writes == DeleteDisks(d, parent, i)
    <3>6. powerOffs = 0 => writes # <<>> /\ Complete(Last(writes))
      BY <1>1, <3>1, <3>2, <3>4, <3>5, DeleteComplete
    <3>7. pending' = writes
      BY <3>1 DEF DeleteEntry
    <3> HIDE DEF writes
    <3> QED
      BY <1>1, <2>1, <3>6, <3>7 DEF LeakInv, DiskToCome
  <2> QED
    BY <1>1, <1>7, <2>2, <2>3, DeleteEffect
<1>8. ASSUME ReadFile PROVE LeakInv'
  BY <1>1, <1>8 DEF ReadFile, read, LeakInv, DiskToCome
<1>9. ASSUME UNCHANGED fatVars PROVE LeakInv'
  BY <1>1, <1>9 DEF fatVars, LeakInv, DiskToCome
<1> QED
  BY <1>2, <1>3, <1>4, <1>5, <1>6, <1>7, <1>8, <1>9 DEF FatNext

\* On the blank disk nothing is in use.
LEMMA InitLeaks == FatInit => LeakInv
<1> SUFFICES ASSUME FatInit PROVE LeakInv
  OBVIOUS
<1>1. disk.fat = ZeroFat /\ pending = <<>> /\ powerOffs = 0
  BY DEF FatInit, BlankDisk
<1>2. \A c \in UserClusters : ZeroFat[c] = EMPTY_ENTRY
  BY ClusterFacts DEF ZeroFat
<1> QED
  BY <1>1, <1>2 DEF LeakInv, DiskToCome, Complete

\* As long as the power never failed, the clusters in use are the reserved ones, the
\* root and the chains of the entries programs can come to: no order of writes and
\* deletions loses one.
THEOREM NothingIsLost ==
    ASSUME Orderly
    PROVE  FatSpec => []NothingLeaks
<1> DEFINE Inv == /\ FatTyped /\ CacheInv /\ SoundInv /\ NamesInv /\ StoreInv /\ LeakInv
                  /\ TablesIn(SizedTables)
<1>1. OneWriter /\ Careful
  BY DEF Orderly, Careful
<1>2. FatInit => Inv
  BY InitTyped, InitCached, InitSound, InitNames, InitStore, InitLeaks, TablesInit,
     SizedClosed
<1>3. Inv /\ [FatNext]_fatVars => Inv'
  <2>1. FatTyped /\ TablesIn(SizedTables) /\ [FatNext]_fatVars => TablesIn(SizedTables)'
    BY SizedClosed, TablesStep
  <2> QED
    BY <1>1, <2>1, FatTypedStep, CacheInvStep, SoundInvStep, NamesInvStep, StoreInvStep,
       LeakInvStep
<1>4. FatTyped /\ SoundInv /\ LeakInv => NothingLeaks
  <2> SUFFICES ASSUME FatTyped, SoundInv, LeakInv, Idle, powerOffs = 0
               PROVE  Clusters \ FreeClusters(disk.fat)
                         = (0 .. ROOT_CLUSTER_NUMBER)
                              \cup UNION {Range(ChainOf(p)) : p \in Places}
    BY DEF NothingLeaks
  <2>1. /\ disk \in Disks /\ disk.fat \in Fats /\ AllChained(disk) /\ Complete(disk)
    BY DEF FatTyped, Disks, SoundInv, DiskSound, LeakInv, DiskToCome, Idle
  <2>2. Places = PlacesOf(disk)
    BY DEF Places, PlacesOf, Reach
  <2>3. ASSUME NEW p \in Places
        PROVE  /\ Range(ChainOf(p)) = Held(disk.fat, Entry(disk, p))
               /\ \A c \in Held(disk.fat, Entry(disk, p)) :
                     c \in UserClusters /\ disk.fat[c] # EMPTY_ENTRY
    <3>1. p \in LivePlaces(disk) /\ EntryAt(p) = Entry(disk, p)
      BY <2>1, PlacesLive
    <3> DEFINE e == Entry(disk, p)
    <3>2. e.cluster \in Clusters /\ Chained(disk.fat, e)
      BY <2>1, <3>1, PlaceFacts DEF AllChained
    <3>3. ChainOf(p) = Chain(disk.fat, e.cluster)
      BY <3>1 DEF ChainOf
    <3> HIDE DEF e
    <3>4. Range(Chain(disk.fat, e.cluster)) = Held(disk.fat, e)
      BY <2>1, <3>2, ChainFacts
    <3>5. \A c \in Held(disk.fat, e) : c \in UserClusters /\ disk.fat[c] # EMPTY_ENTRY
      BY <2>1, <3>2, HeldFacts
    <3> QED
      BY <3>3, <3>4, <3>5 DEF e
  <2>4. UNION {Range(ChainOf(p)) : p \in Places}
           = {c \in UserClusters : disk.fat[c] # EMPTY_ENTRY}
    <3>1. ASSUME NEW p \in Places, NEW c \in Range(ChainOf(p))
          PROVE  c \in UserClusters /\ disk.fat[c] # EMPTY_ENTRY
      BY <2>3
    <3>2. ASSUME NEW c \in UserClusters, disk.fat[c] # EMPTY_ENTRY
          PROVE  \E p \in Places : c \in Range(ChainOf(p))
      BY <2>1, <2>2, <2>3, <3>2 DEF Complete
    <3> QED
      BY <3>1, <3>2
  <2>5. 0 .. ROOT_CLUSTER_NUMBER \subseteq Clusters
    BY FatConstants DEF Clusters, ROOT_CLUSTER_NUMBER
  <2>6. FreeClusters(disk.fat) = {c \in UserClusters : disk.fat[c] = EMPTY_ENTRY}
    BY <2>1, FreeFacts
  <2> QED
    BY <2>4, <2>5, <2>6, ClusterFacts
<1> QED
  BY <1>2, <1>3, <1>4, PTL DEF FatSpec
=============================================================================
