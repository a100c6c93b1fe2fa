----------------------------- MODULE Fat32Proofs -----------------------------
(***************************************************************************)
(* Theorems about the FAT32 driver: the cached FAT is the one on the disk, *)
(* files enter under new names, chains end and do not share clusters and   *)
(* directories lead back to their parents, on every disk the power may     *)
(* fail on.                                                                *)
(***************************************************************************)
EXTENDS Fat32, InductionLemmas, FiniteSetTheorems

-----------------------------------------------------------------------------
(* Disks.                                                                   *)

FatValues == Clusters \cup {RESERVED, END_OF_FILE}
Fats == [Clusters -> FatValues]
Entries == [name : Names \cup {DotDot, RootName, NoName}, ext : Exts,
            dir : BOOLEAN, live : BOOLEAN, cluster : Clusters, size : 0 .. MaxSize]
Tables == [Slots -> Entries]
Data == {NoData} \cup (Values \X Nat)
Disks == [signed : BOOLEAN, fat : Fats, table : [Clusters -> Tables],
          data : [Clusters -> Data]]

\* The type invariant that is inductive: the disk and all that are to be written.
FatTyped ==
    /\ disk \in Disks
    /\ pending \in Seq(Disks)
    /\ cache \in [Drivers -> Fats]
    /\ power \in {"on", "formatting", "off"}

UserClusters == {c \in Clusters : c > ROOT_CLUSTER_NUMBER}

\* Live entries of all tables of a disk, whether a walk comes to them or not.
LivePlaces(d) == {p \in Clusters \X UserSlots : d.table[p[1]][p[2]].live}
Entry(d, p) == d.table[p[1]][p[2]]
ChainLength(e) == Required(IF e.dir THEN 0 ELSE e.size)
Held(fat, e) == {At(fat, e.cluster, k) : k \in 0 .. ChainLength(e) - 1}

\* The chain of an entry ends after as many user clusters as the entry is long.
Chained(fat, e) ==
    /\ ChainLength(e) \in 1 .. ClusterMapSize
    /\ \A k \in 0 .. ChainLength(e) - 1 : At(fat, e.cluster, k) \in UserClusters
    /\ At(fat, e.cluster, ChainLength(e)) = END_OF_FILE

AllChained(d) == \A p \in LivePlaces(d) : Chained(d.fat, Entry(d, p))
AllApart(d) ==
    \A p, q \in LivePlaces(d) :
        p # q => Held(d.fat, Entry(d, p)) \cap Held(d.fat, Entry(d, q)) = {}
AllRooted(d) ==
    \A p \in LivePlaces(d) : Entry(d, p).dir =>
        /\ IsDirectoryTable(d, Entry(d, p).cluster)
        /\ d.table[Entry(d, p).cluster][1].cluster = p[1]
ParentsNamed(d) ==
    \A c \in Clusters : d.table[c][1].live => d.table[c][1].name = DotDot

\* Nothing is listed before the disk carries the signature.
UnsignedIsEmpty(d) == ~d.signed => LivePlaces(d) = {}

DiskSound(d) ==
    AllChained(d) /\ AllApart(d) /\ AllRooted(d) /\ ParentsNamed(d) /\ UnsignedIsEmpty(d)

SoundInv == DiskSound(disk) /\ \A k \in 1 .. Len(pending) : DiskSound(pending[k])

-----------------------------------------------------------------------------
(* The k-th smallest element.                                               *)

\* Of a finite set of numbers there is a k-th smallest, if it has so many.
LEMMA NthExists ==
    ASSUME NEW S \in SUBSET Nat, IsFiniteSet(S)
    PROVE  \A k \in 1 .. Cardinality(S) :
              /\ Nth(S, k) \in S
              /\ Cardinality({y \in S : y < Nth(S, k)}) = k - 1
<1> DEFINE n == Cardinality(S)
           Below(x) == {y \in S : y < x}
           Is(x, k) == x \in S /\ Cardinality(Below(x)) = k - 1
           T == {k \in 0 .. n : k = 0 \/ \E x \in S : Is(x, k)}
<1>1. n \in Nat
  BY FS_CardinalityType
<1>2. \A x : IsFiniteSet(Below(x)) /\ Cardinality(Below(x)) \in Nat
  BY FS_Subset, FS_CardinalityType
<1> HIDE DEF n
<1>3. ASSUME NEW k \in 0 .. n - 1, k \in T PROVE k + 1 \in T
  <2>1. \E U \in SUBSET S : Cardinality(U) = k /\ \A x \in S \ U : U \subseteq Below(x)
    <3>1. CASE k = 0
      <4>1. Cardinality({}) = 0
        BY FS_EmptySet
      <4> QED
        BY <3>1, <4>1
    <3>2. CASE k # 0
      <4>1. PICK x \in S : Is(x, k)
        BY <1>3, <3>2
      <4> DEFINE U == Below(x) \cup {x}
      <4>2. Cardinality(U) = k
        <5>1. x \notin Below(x)
          BY <4>1
        <5> HIDE DEF Below
        <5>2. Cardinality(U) = Cardinality(Below(x)) + 1
          BY <1>2, <5>1, FS_AddElement
        <5> QED
          BY <1>2, <4>1, <5>2
      <4>3. ASSUME NEW z \in S \ U PROVE U \subseteq Below(z)
        <5>1. x \in Nat /\ z \in Nat /\ ~(z < x) /\ z # x
          BY <4>1, <4>3
        <5>2. \A y \in S : y \in Nat
          OBVIOUS
        <5>3. ASSUME NEW u \in U PROVE u \in S /\ u < z
          <6>1. u = x \/ (u \in S /\ u < x)
            OBVIOUS
          <6> QED
            BY <4>1, <5>1, <5>2, <6>1
        <5> QED
          BY <5>3
      <4>4. U \in SUBSET S
        BY <4>1
      <4> QED
        BY <4>2, <4>3, <4>4
    <3> QED
      BY <3>1, <3>2
  <2>2. PICK U \in SUBSET S :
           Cardinality(U) = k /\ \A x \in S \ U : U \subseteq Below(x)
    BY <2>1
  <2>3. S \ U # {}
    <3>1. CASE S \ U = {}
      <4>1. S = U
        BY <3>1
      <4>2. n = k
        BY <2>2, <4>1 DEF n
      <4> QED
        BY <1>1, <4>2
    <3> QED
      BY <3>1
  <2>4. PICK x \in S \ U : \A y \in S \ U : x <= y
    <3>1. S \ U \in SUBSET Nat
      OBVIOUS
    <3> QED
      BY <2>3, <3>1, LeastElement
  <2>5. Below(x) = U
    <3>1. x \in Nat /\ \A y \in S : y \in Nat
      OBVIOUS
    <3>2. \A y \in S \ U : ~(y < x)
      BY <2>4, <3>1
    <3> QED
      BY <2>2, <3>2
  <2> QED
    BY <1>1, <2>2, <2>5
<1>4. 0 .. n \subseteq T
  <2>1. 0 \in T
    BY <1>1
  <2> HIDE DEF T
  <2> QED
    BY <1>1, <1>3, <2>1, IntervalInduction
<1>5. ASSUME NEW k \in 1 .. n PROVE Is(Nth(S, k), k)
  <2>1. \E x \in S : Is(x, k)
    BY <1>1, <1>4
  <2>2. Nth(S, k) = CHOOSE x \in S : Cardinality(Below(x)) = k - 1
    BY DEF Nth
  <2> HIDE DEF Below
  <2> QED
    BY <2>1, <2>2
<1> QED
  BY <1>5 DEF n

-----------------------------------------------------------------------------
(* Walks along the FAT.                                                     *)

\* The value met after one step more.
LEMMA AtSteps ==
    ASSUME NEW fat \in Fats, NEW c \in FatValues
    PROVE  /\ \A k \in 0 .. ClusterMapSize : At(fat, c, k) \in FatValues
           /\ At(fat, c, 0) = c
           /\ \A k \in 1 .. ClusterMapSize :
                 At(fat, c, k) = IF At(fat, c, k - 1) \in Clusters
                                 THEN fat[At(fat, c, k - 1)] ELSE At(fat, c, k - 1)
<1> DEFINE n == ClusterMapSize
           next == [v \in FatValues |-> IF v \in Clusters THEN fat[v] ELSE v]
           step == [v \in FatValues |-> [k \in 1 .. n |-> next[v]]]
<1>1. n \in Nat
  BY FatConstants
<1>2. \A v \in FatValues : next[v] \in FatValues
  BY DEF Fats
<1>3. \A v \in FatValues : next[v] = IF v \in Clusters THEN fat[v] ELSE v
  OBVIOUS
<1>n. next = [v \in Clusters \cup {RESERVED, END_OF_FILE} |->
                 IF v \in Clusters THEN fat[v] ELSE v]
  BY DEF FatValues
<1> HIDE DEF next, n
<1>4. step \in Steps(FatValues, n)
  BY <1>2 DEF Steps
<1>5. \A v \in FatValues, k \in 1 .. n : step[v][k] = next[v]
  OBVIOUS
<1> HIDE DEF step
<1>6. PICK g \in [0 .. n -> FatValues] : Follows(g, c, step, n)
  BY <1>1, <1>4, RecursionExists
<1>7. ASSUME NEW k \in 1 .. n PROVE g[k - 1] \in FatValues /\ g[k] = next[g[k - 1]]
  <2>1. g[k - 1] \in FatValues
    BY <1>1
  <2> QED
    BY <1>5, <1>6, <2>1 DEF Follows
<1>8. g = [j \in 0 .. n |-> IF j = 0 THEN c ELSE next[g[j - 1]]]
  BY <1>1, <1>6, <1>7 DEF Follows
<1> DEFINE h == CHOOSE h : h = [j \in 0 .. n |-> IF j = 0 THEN c ELSE next[h[j - 1]]]
<1>9. h = [j \in 0 .. n |-> IF j = 0 THEN c ELSE next[h[j - 1]]]
  BY <1>8
<1>10. \A k : At(fat, c, k) = h[k]
  BY <1>n DEF At, n
<1> HIDE DEF h
<1>11. Alike(g, h, n)
  <2>1. g[0] = h[0]
    BY <1>1, <1>6, <1>9 DEF Follows
  <2>2. ASSUME NEW k \in 1 .. n, g[k - 1] = h[k - 1] PROVE g[k] = h[k]
    <3>1. k \in 0 .. n /\ k # 0
      BY <1>1
    <3>2. h[k] = next[h[k - 1]]
      BY <1>9, <3>1
    <3> QED
      BY <1>7, <2>2, <3>2
  <2> QED
    BY <2>1, <2>2 DEF Alike
<1>12. \A k \in 0 .. n : At(fat, c, k) = g[k]
  BY <1>1, <1>10, <1>11, SameRecursion
<1>13. \A k \in 0 .. n : At(fat, c, k) \in FatValues
  BY <1>12
<1>14. At(fat, c, 0) = c
  BY <1>1, <1>6, <1>12 DEF Follows
<1>15. ASSUME NEW k \in 1 .. n
       PROVE  At(fat, c, k) = next[At(fat, c, k - 1)] /\ At(fat, c, k - 1) \in FatValues
  <2>1. k \in 0 .. n /\ k - 1 \in 0 .. n
    BY <1>1
  <2> QED
    BY <1>7, <1>12, <2>1
<1> QED
  BY <1>3, <1>13, <1>14, <1>15 DEF n

\* Two FATs that agree on the clusters a walk comes through lead the same way.
LEMMA AtAgree ==
    ASSUME NEW f \in Fats, NEW g \in Fats, NEW c \in FatValues,
           NEW n \in 0 .. ClusterMapSize,
           \A k \in 0 .. n - 1 :
              At(f, c, k) \in Clusters /\ g[At(f, c, k)] = f[At(f, c, k)]
    PROVE  \A k \in 0 .. n : At(g, c, k) = At(f, c, k)
<1> DEFINE T == {k \in 0 .. n : At(g, c, k) = At(f, c, k)}
<1>1. n \in Nat /\ ClusterMapSize \in Nat /\ n <= ClusterMapSize
  BY FatConstants
<1>2. 0 \in T
  BY <1>1, AtSteps
<1>3. ASSUME NEW k \in 0 .. n - 1, k \in T PROVE k + 1 \in T
  <2>1. k + 1 \in 1 .. ClusterMapSize /\ (k + 1) - 1 = k /\ k + 1 \in 0 .. n
    BY <1>1
  <2>2. At(g, c, k) = At(f, c, k) /\ At(f, c, k) \in Clusters
        /\ g[At(f, c, k)] = f[At(f, c, k)]
    BY <1>3
  <2>3. At(f, c, k + 1) = f[At(f, c, k)]
    BY <2>1, <2>2, AtSteps
  <2>4. At(g, c, k + 1) = g[At(g, c, k)]
    BY <2>1, <2>2, AtSteps
  <2> QED
    BY <2>1, <2>2, <2>3, <2>4
<1> HIDE DEF T
<1>4. 0 .. n \subseteq T
  BY <1>1, <1>2, <1>3, IntervalInduction
<1> QED
  BY <1>4 DEF T

\* No cluster is an end mark, and those for users are not reserved.
LEMMA ClusterFacts ==
    /\ ClusterMapSize \in Nat /\ ClusterMapSize > 3
    /\ ROOT_CLUSTER_NUMBER \in Clusters /\ 0 \in Clusters /\ EMPTY_ENTRY \in FatValues
    /\ RESERVED \in FatValues /\ END_OF_FILE \in FatValues
    /\ Clusters \subseteq FatValues /\ Clusters \subseteq Nat
    /\ END_OF_FILE \notin Clusters /\ RESERVED \notin Clusters
    /\ RESERVED # EMPTY_ENTRY /\ END_OF_FILE # EMPTY_ENTRY
    /\ UserClusters = Clusters \ (0 .. ROOT_CLUSTER_NUMBER)
    /\ \A c \in UserClusters : c \in Clusters /\ c # EMPTY_ENTRY /\ c # ROOT_CLUSTER_NUMBER
    /\ TableSize \in Nat /\ TableSize > 2
    /\ 0 \in Slots /\ 1 \in Slots /\ UserSlots \subseteq Slots
    /\ 0 \notin UserSlots /\ 1 \notin UserSlots
  BY FatConstants DEF ROOT_CLUSTER_NUMBER, Clusters, EMPTY_ENTRY, RESERVED, END_OF_FILE,
                      FatValues, UserClusters, Slots, UserSlots

\* The clusters a chain holds are user clusters, and none of them is free.
LEMMA HeldFacts ==
    ASSUME NEW f \in Fats, NEW e, e.cluster \in Clusters, Chained(f, e)
    PROVE  /\ e.cluster \in Held(f, e)
           /\ \A c \in Held(f, e) : c \in UserClusters /\ f[c] # EMPTY_ENTRY
<1>1. ChainLength(e) \in 1 .. ClusterMapSize /\ ClusterMapSize \in Nat
  BY FatConstants DEF Chained
<1>2. e.cluster \in FatValues
  BY ClusterFacts
<1>3. e.cluster \in Held(f, e)
  <2>1. 0 \in 0 .. ChainLength(e) - 1
    BY <1>1
  <2> QED
    BY <1>2, <2>1, AtSteps DEF Held
<1>4. ASSUME NEW k \in 0 .. ChainLength(e) - 1
      PROVE  At(f, e.cluster, k) \in UserClusters /\ f[At(f, e.cluster, k)] # EMPTY_ENTRY
  <2>1. At(f, e.cluster, k) \in UserClusters /\ At(f, e.cluster, k) \in Clusters
    BY ClusterFacts DEF Chained
  <2>2. k + 1 \in 1 .. ClusterMapSize /\ (k + 1) - 1 = k
    BY <1>1
  <2>3. At(f, e.cluster, k + 1) = f[At(f, e.cluster, k)]
    BY <1>2, <2>1, <2>2, AtSteps
  <2>4. At(f, e.cluster, k + 1) \in UserClusters \/ At(f, e.cluster, k + 1) = END_OF_FILE
    <3>1. k + 1 \in 0 .. ChainLength(e) - 1 \/ k + 1 = ChainLength(e)
      BY <1>1
    <3> QED
      BY <3>1 DEF Chained
  <2> QED
    BY <2>1, <2>3, <2>4, ClusterFacts
<1> QED
  BY <1>3, <1>4 DEF Held

\* A chain stays what it is as long as the FAT keeps its clusters.
LEMMA ChainKept ==
    ASSUME NEW f \in Fats, NEW g \in Fats, NEW e, e.cluster \in Clusters,
           Chained(f, e), \A c \in Held(f, e) : g[c] = f[c]
    PROVE  /\ Chained(g, e) /\ Held(g, e) = Held(f, e)
           /\ \A k \in 0 .. ChainLength(e) - 1 : At(g, e.cluster, k) = At(f, e.cluster, k)
<1> DEFINE n == ChainLength(e)
<1>1. n \in 1 .. ClusterMapSize /\ ClusterMapSize \in Nat /\ e.cluster \in FatValues
  BY ClusterFacts DEF Chained
<1>2. \A k \in 0 .. n - 1 : At(f, e.cluster, k) \in UserClusters
  BY DEF Chained
<1>3. \A k \in 0 .. n - 1 : At(f, e.cluster, k) \in Held(f, e)
  BY DEF Held
<1>4. At(f, e.cluster, n) = END_OF_FILE
  BY DEF Chained
<1> HIDE DEF n
<1>5. \A k \in 0 .. n - 1 :
         At(f, e.cluster, k) \in Clusters
         /\ g[At(f, e.cluster, k)] = f[At(f, e.cluster, k)]
  BY <1>2, <1>3, ClusterFacts
<1>6. \A k \in 0 .. n : At(g, e.cluster, k) = At(f, e.cluster, k)
  <2>1. n \in 0 .. ClusterMapSize
    BY <1>1
  <2> QED
    BY <1>1, <1>5, <2>1, AtAgree
<1>7. \A k \in 0 .. n - 1 : At(g, e.cluster, k) = At(f, e.cluster, k)
  BY <1>1, <1>6
<1>8. At(g, e.cluster, n) = END_OF_FILE
  BY <1>1, <1>4, <1>6
<1>9. Chained(g, e)
  BY <1>1, <1>2, <1>7, <1>8 DEF Chained, n
<1>10. Held(g, e) = Held(f, e)
  BY <1>7 DEF Held, n
<1> QED
  BY <1>7, <1>9, <1>10 DEF n

\* The chain as the properties see it has its length and its clusters.
LEMMA ChainFacts ==
    ASSUME NEW f \in Fats, NEW e, e.cluster \in Clusters, Chained(f, e)
    PROVE  /\ Len(Chain(f, e.cluster)) = ChainLength(e)
           /\ Range(Chain(f, e.cluster)) = Held(f, e)
           /\ Chain(f, e.cluster) = [k \in 1 .. ChainLength(e) |-> At(f, e.cluster, k - 1)]
<1> DEFINE n == ChainLength(e)
           c == e.cluster
           T == {k \in 0 .. ClusterMapSize : k < n \/ At(f, c, k) = END_OF_FILE}
           N == {j \in 0 .. ClusterMapSize : At(f, c, j) # END_OF_FILE}
<1>1. n \in 1 .. ClusterMapSize /\ ClusterMapSize \in Nat /\ c \in FatValues
  BY ClusterFacts DEF Chained
<1>2. /\ \A k \in 0 .. n - 1 : At(f, c, k) \in UserClusters
      /\ At(f, c, n) = END_OF_FILE
  BY DEF Chained
<1> HIDE DEF n, c
<1>3. \A k \in 0 .. ClusterMapSize : k < n \/ At(f, c, k) = END_OF_FILE
  <2>1. 0 \in T
    BY <1>1
  <2>2. ASSUME NEW k \in 0 .. ClusterMapSize - 1, k \in T PROVE k + 1 \in T
    <3>1. k + 1 \in 1 .. ClusterMapSize /\ k + 1 \in 0 .. ClusterMapSize /\ (k + 1) - 1 = k
      BY <1>1
    <3>2. CASE k + 1 < n
      BY <3>1, <3>2
    <3>3. CASE k + 1 = n
      BY <1>2, <3>1, <3>3
    <3>4. CASE k + 1 > n
      <4>1. At(f, c, k) = END_OF_FILE
        BY <1>1, <2>2, <3>4
      <4>2. At(f, c, k + 1) = END_OF_FILE
        BY <1>1, <3>1, <4>1, AtSteps, ClusterFacts
      <4> QED
        BY <3>1, <4>2
    <3> QED
      BY <1>1, <3>2, <3>3, <3>4
  <2> HIDE DEF T
  <2>3. 0 .. ClusterMapSize \subseteq T
    BY <1>1, <2>1, <2>2, IntervalInduction
  <2> QED
    BY <2>3 DEF T
<1>4. N = 0 .. n - 1
  <2>1. ASSUME NEW k \in 0 .. n - 1 PROVE k \in N
    BY <1>1, <1>2, ClusterFacts
  <2>2. ASSUME NEW k \in N PROVE k \in 0 .. n - 1
    BY <1>1, <1>3
  <2> QED
    BY <2>1, <2>2
<1>5. Cardinality(N) = n
  <2>1. Cardinality(0 .. n - 1) = n
    BY <1>1, FS_Interval
  <2> HIDE DEF N
  <2> QED
    BY <1>4, <2>1
<1>6. Chain(f, c) = [k \in 1 .. n |-> At(f, c, k - 1)]
  BY <1>5 DEF Chain
<1>7. Len(Chain(f, c)) = n
  <2> DEFINE w == [k \in 1 .. n |-> At(f, c, k - 1)]
  <2>1. DOMAIN w = 1 .. n
    OBVIOUS
  <2>2. w \in [1 .. n -> FatValues]
    BY <1>1, AtSteps
  <2>3. w \in Seq(FatValues)
    <3> HIDE DEF w
    <3> QED
      BY <1>1, <2>2
  <2> HIDE DEF w
  <2>4. Len(w) = n
    BY <1>1, <2>1, <2>3
  <2> QED
    BY <1>6, <2>4 DEF w
<1>8. Range(Chain(f, c)) = {At(f, c, k) : k \in 0 .. n - 1}
  <2>1. Range(Chain(f, c)) = {At(f, c, k - 1) : k \in 1 .. n}
    BY <1>6 DEF Range
  <2>2. ASSUME NEW k \in 1 .. n PROVE k - 1 \in 0 .. n - 1
    BY <1>1
  <2>3. ASSUME NEW k \in 0 .. n - 1 PROVE k + 1 \in 1 .. n /\ (k + 1) - 1 = k
    BY <1>1
  <2>4. ASSUME NEW x \in {At(f, c, k) : k \in 0 .. n - 1}
        PROVE  x \in {At(f, c, k - 1) : k \in 1 .. n}
    <3>1. PICK k \in 0 .. n - 1 : x = At(f, c, k)
      OBVIOUS
    <3>2. x = At(f, c, (k + 1) - 1)
      BY <2>3, <3>1
    <3> QED
      BY <2>3, <3>2
  <2> QED
    BY <2>1, <2>2, <2>4
<1> QED
  BY <1>6, <1>7, <1>8 DEF Held, n, c

-----------------------------------------------------------------------------
(* What write collects.                                                     *)

\* There are finitely many free clusters, and users get no others.
LEMMA FreeFacts ==
    ASSUME NEW fat \in Fats
    PROVE  /\ FreeClusters(fat) \in SUBSET Nat /\ IsFiniteSet(FreeClusters(fat))
           /\ Cardinality(FreeClusters(fat)) \in Nat
           /\ Cardinality(FreeClusters(fat)) = 0 <=> FreeClusters(fat) = {}
           /\ FreeClusters(fat) = {c \in UserClusters : fat[c] = EMPTY_ENTRY}
<1>1. IsFiniteSet(Clusters) /\ Clusters \in SUBSET Nat
  BY ClusterFacts, FS_Interval DEF Clusters
<1>2. FreeClusters(fat) \in SUBSET Clusters
  BY DEF FreeClusters
<1>3. FreeClusters(fat) = {c \in UserClusters : fat[c] = EMPTY_ENTRY}
  BY DEF FreeClusters, UserClusters
<1>4. IsFiniteSet(FreeClusters(fat)) /\ Cardinality(FreeClusters(fat)) \in Nat
  BY <1>1, <1>2, FS_Subset, FS_CardinalityType
<1>5. Cardinality(FreeClusters(fat)) = 0 <=> FreeClusters(fat) = {}
  BY <1>4, FS_EmptySet
<1> QED
  BY <1>1, <1>2, <1>3, <1>4, <1>5

\* The clusters collected are free ones, and no cluster comes twice if there are
\* enough.
LEMMA ClusterNumbersFacts ==
    ASSUME NEW fat \in Fats, FreeClusters(fat) # {}, NEW size \in Nat
    PROVE  /\ Required(size) \in Nat /\ Required(size) > 0
           /\ ClusterNumbers(fat, size) \in [1 .. Required(size) -> FreeClusters(fat)]
           /\ Required(size) <= Cardinality(FreeClusters(fat)) =>
                 \A j, k \in 1 .. Required(size) :
                    ClusterNumbers(fat, size)[j] = ClusterNumbers(fat, size)[k] => j = k
<1> DEFINE S == FreeClusters(fat)
           n == Cardinality(S)
           r == Required(size)
           at(k) == ((k - 1) % n) + 1
<1>1. S \in SUBSET Nat /\ IsFiniteSet(S) /\ n \in Nat /\ n # 0
  BY FreeFacts
<1>2. r \in Nat /\ r > 0
  BY DEF Required
<1>3. ClusterNumbers(fat, size) = [k \in 1 .. r |-> Nth(S, at(k))]
  BY DEF ClusterNumbers
<1> HIDE DEF S, n, r
<1>4. \A k \in 1 .. r : at(k) \in 1 .. n /\ (r <= n => at(k) = k)
  <2> SUFFICES ASSUME NEW k \in 1 .. r PROVE at(k) \in 1 .. n /\ (r <= n => at(k) = k)
    OBVIOUS
  <2>1. k - 1 \in Nat /\ k \in Nat /\ k <= r
    BY <1>2
  <2>2. (k - 1) % n \in 0 .. n - 1
    BY <1>1, <2>1
  <2>3. k - 1 < n => (k - 1) % n = k - 1
    BY <1>1, <2>1
  <2> QED
    BY <1>1, <1>2, <2>1, <2>2, <2>3
<1> HIDE DEF at
<1>5. \A i \in 1 .. n : Nth(S, i) \in S /\ Cardinality({y \in S : y < Nth(S, i)}) = i - 1
  BY <1>1, NthExists DEF n
<1>6. ClusterNumbers(fat, size) \in [1 .. r -> S]
  BY <1>3, <1>4, <1>5
<1>7. ASSUME r <= n, NEW j \in 1 .. r, NEW k \in 1 .. r,
             ClusterNumbers(fat, size)[j] = ClusterNumbers(fat, size)[k]
      PROVE  j = k
  <2>1. j \in 1 .. n /\ k \in 1 .. n /\ j \in Nat /\ k \in Nat
    BY <1>1, <1>2, <1>7
  <2>2. at(j) = j /\ at(k) = k
    BY <1>4, <1>7
  <2>3. Nth(S, j) = Nth(S, k)
    BY <1>3, <1>7, <2>2
  <2>4. j - 1 = k - 1
    BY <1>5, <2>1, <2>3
  <2> QED
    BY <2>1, <2>4
<1> QED
  BY <1>2, <1>6, <1>7 DEF S, n, r

\* The last place among the first k that holds a cluster.
LEMMA LastUseFacts ==
    ASSUME NEW numbers, NEW k \in Nat, NEW c, \E j \in 1 .. k : numbers[j] = c
    PROVE  /\ LastUse(numbers, c, k) \in 1 .. k
           /\ numbers[LastUse(numbers, c, k)] = c
<1> DEFINE T == {j \in 1 .. k : numbers[j] = c}
<1>1. T # {} /\ T \in SUBSET Nat /\ \A j \in T : j <= k
  OBVIOUS
<1>2. LastUse(numbers, c, k) = CHOOSE x \in T : \A y \in T : x >= y
  BY DEF LastUse, Max
<1>3. \A x \in T : x \in 1 .. k /\ numbers[x] = c
  OBVIOUS
<1> HIDE DEF T
<1>4. \E x \in T : \A y \in T : x >= y
  <2>1. PICK x \in T : \A y \in T : y <= x
    BY <1>1, GreatestElement
  <2>2. \A y \in T : x >= y
    BY <1>1, <2>1
  <2> QED
    BY <2>2
<1>5. LastUse(numbers, c, k) \in T
  BY <1>2, <1>4
<1> QED
  BY <1>3, <1>5

\* Linking collected clusters yields a FAT again and leaves the other clusters
\* alone; if no cluster was collected twice, each leads to the next.
LEMMA LinkedFacts ==
    ASSUME NEW fat \in Fats, NEW r \in Nat, r > 0,
           NEW numbers \in [1 .. r -> FreeClusters(fat)]
    PROVE  /\ Linked(fat, numbers) \in Fats
           /\ Linked(fat, numbers) = [c \in Clusters |-> Linked(fat, numbers)[c]]
           /\ \A c \in Clusters \ FreeClusters(fat) : Linked(fat, numbers)[c] = fat[c]
           /\ (\A j, k \in 1 .. r : numbers[j] = numbers[k] => j = k) =>
                 \A k \in 1 .. r :
                    Linked(fat, numbers)[numbers[k]] =
                       IF k = r THEN END_OF_FILE ELSE numbers[k + 1]
<1>1. DOMAIN numbers = 1 .. r /\ Range(numbers) = {numbers[k] : k \in 1 .. r}
  BY DEF Range
<1>2. \A k \in 1 .. r : numbers[k] \in FreeClusters(fat)
  OBVIOUS
<1>3. Len(numbers) = r
  <2>1. numbers \in Seq(FreeClusters(fat))
    OBVIOUS
  <2> QED
    BY <1>1, <2>1
<1>4. FreeClusters(fat) \subseteq Clusters
  BY DEF FreeClusters
<1> DEFINE at(c) == LastUse(numbers, c, r)
           val(c) == IF c \notin Range(numbers) THEN fat[c]
                     ELSE IF at(c) = r THEN END_OF_FILE ELSE numbers[at(c) + 1]
<1>5. Linked(fat, numbers) = [c \in Clusters |-> val(c)]
  BY <1>3 DEF Linked
<1>6. ASSUME NEW c \in Range(numbers)
      PROVE  at(c) \in 1 .. r /\ numbers[at(c)] = c
  <2>1. \E j \in 1 .. r : numbers[j] = c
    BY <1>1
  <2> HIDE DEF at
  <2> QED
    BY <2>1, LastUseFacts DEF at
<1> HIDE DEF at
<1>7. ASSUME NEW c \in Clusters PROVE val(c) \in FatValues
  <2>1. CASE c \notin Range(numbers)
    BY <2>1 DEF Fats
  <2>2. CASE c \in Range(numbers)
    <3>1. at(c) \in 1 .. r
      BY <1>6, <2>2
    <3>2. CASE at(c) = r
      BY <2>2, <3>2, ClusterFacts
    <3>3. CASE at(c) # r
      <4>1. at(c) + 1 \in 1 .. r
        BY <3>1, <3>3
      <4>2. numbers[at(c) + 1] \in FatValues
        BY <1>2, <1>4, <4>1, ClusterFacts
      <4> QED
        BY <2>2, <3>3, <4>2
    <3> QED
      BY <3>2, <3>3
  <2> QED
    BY <2>1, <2>2
<1>8. Linked(fat, numbers) \in Fats
  BY <1>5, <1>7 DEF Fats
<1>9. ASSUME NEW c \in Clusters \ FreeClusters(fat)
      PROVE  Linked(fat, numbers)[c] = fat[c]
  <2>1. c \notin Range(numbers)
    BY <1>1, <1>2
  <2> QED
    BY <1>5, <2>1
<1>10. ASSUME \A j, k \in 1 .. r : numbers[j] = numbers[k] => j = k, NEW k \in 1 .. r
       PROVE  Linked(fat, numbers)[numbers[k]] =
                 IF k = r THEN END_OF_FILE ELSE numbers[k + 1]
  <2>1. numbers[k] \in Range(numbers) /\ numbers[k] \in Clusters
    BY <1>1, <1>2, <1>4
  <2>2. at(numbers[k]) = k
    BY <1>6, <1>10, <2>1
  <2> QED
    BY <1>5, <2>1, <2>2
<1>11. Linked(fat, numbers) = [c \in Clusters |-> Linked(fat, numbers)[c]]
  BY <1>8 DEF Fats
<1> QED
  BY <1>8, <1>9, <1>10, <1>11

-----------------------------------------------------------------------------
(* Writing clusters.                                                        *)

\* No entry of a blank table is live.
LEMMA NoTableFacts ==
    NoTable \in Tables /\ \A i \in Slots : ~NoTable[i].live
<1>1. Blank \in Entries /\ ~Blank.live
  BY FatConstants, ClusterFacts DEF Blank, Entries, EMPTY_ENTRY
<1> QED
  BY <1>1 DEF NoTable, Tables

\* The entries a directory has for itself and its parent.
SelfEntries(t, name, parent) ==
    /\ t[0].live /\ t[0].dir /\ t[0].name = name /\ t[0].cluster = 0
    /\ t[1].live /\ t[1].dir /\ t[1].name = DotDot /\ t[1].cluster = parent

\* A new directory has these and no others.
LEMMA NewTableFacts ==
    ASSUME NEW name \in Names \cup {RootName}, NEW parent \in Clusters, NEW junk \in Exts
    PROVE  /\ init_directory_table(name, parent, junk) \in Tables
           /\ init_directory_table(name, parent, junk)[0].live
           /\ init_directory_table(name, parent, junk)[0].dir
           /\ init_directory_table(name, parent, junk)[1].name = DotDot
           /\ init_directory_table(name, parent, junk)[1].cluster = parent
           /\ \A i \in UserSlots : ~init_directory_table(name, parent, junk)[i].live
           /\ SelfEntries(init_directory_table(name, parent, junk), name, parent)
<1> DEFINE self == [name |-> name, ext |-> junk, dir |-> TRUE, live |-> TRUE,
                    cluster |-> 0, size |-> 0]
           up == [self EXCEPT !.name = DotDot, !.cluster = parent]
           none == [Blank EXCEPT !.ext = junk]
           t == init_directory_table(name, parent, junk)
<1>1. /\ self \in Entries /\ self.live /\ self.dir
      /\ self.name = name /\ self.cluster = 0
  BY FatConstants, ClusterFacts DEF Entries
<1>2. up \in Entries /\ up.live /\ up.dir /\ up.name = DotDot /\ up.cluster = parent
  <2>1. up = [self EXCEPT !.name = DotDot, !.cluster = parent]
    OBVIOUS
  <2> HIDE DEF up
  <2>2. up = [name |-> DotDot, ext |-> junk, dir |-> TRUE, live |-> TRUE,
              cluster |-> parent, size |-> 0]
    BY <2>1
  <2> QED
    BY <2>2, FatConstants, ClusterFacts DEF Entries
<1>3. none \in Entries /\ ~none.live
  <2>1. none = [Blank EXCEPT !.ext = junk]
    OBVIOUS
  <2> HIDE DEF none
  <2>2. none = [name |-> NoName, ext |-> junk, dir |-> FALSE, live |-> FALSE,
                cluster |-> 0, size |-> 0]
    BY <2>1 DEF Blank
  <2> QED
    BY <2>2, FatConstants, ClusterFacts DEF Entries
<1>4. t = [i \in Slots |-> CASE i = 0 -> self [] i = 1 -> up [] OTHER -> none]
  BY DEF init_directory_table
<1> HIDE DEF self, up, none, t
<1>5. \A i \in Slots : t[i] = IF i = 0 THEN self ELSE IF i = 1 THEN up ELSE none
  BY <1>4
<1>6. t \in Tables
  BY <1>1, <1>2, <1>3, <1>4, <1>5 DEF Tables
<1>7. t[0] = self /\ t[1] = up /\ \A i \in UserSlots : t[i] = none
  BY <1>5, ClusterFacts
<1>8. SelfEntries(t, name, parent)
  BY <1>1, <1>2, <1>7 DEF SelfEntries
<1> QED
  BY <1>1, <1>2, <1>3, <1>6, <1>7, <1>8 DEF t

\* A table written: nothing but its cluster changes, and data there is gone.
LEMMA WithTableFacts ==
    ASSUME NEW d \in Disks, NEW c \in Clusters, NEW t \in Tables
    PROVE  /\ WithTable(d, c, t) \in Disks
           /\ WithTable(d, c, t).fat = d.fat /\ WithTable(d, c, t).signed = d.signed
           /\ \A x \in Clusters :
                 /\ WithTable(d, c, t).table[x] = IF x = c THEN t ELSE d.table[x]
                 /\ WithTable(d, c, t).data[x] = IF x = c THEN NoData ELSE d.data[x]
<1> DEFINE tables == [d.table EXCEPT ![c] = t]
           datas == [d.data EXCEPT ![c] = NoData]
           u == WithTable(d, c, t)
<1>1. d = [signed |-> d.signed, fat |-> d.fat, table |-> d.table, data |-> d.data]
      /\ d.table \in [Clusters -> Tables] /\ d.data \in [Clusters -> Data]
  BY DEF Disks
<1>2. tables \in [Clusters -> Tables] /\ datas \in [Clusters -> Data]
      /\ \A x \in Clusters :
            /\ tables[x] = IF x = c THEN t ELSE d.table[x]
            /\ datas[x] = IF x = c THEN NoData ELSE d.data[x]
  BY <1>1 DEF Data
<1>3. u = [d EXCEPT !.table = tables, !.data = datas]
  BY DEF WithTable
<1> HIDE DEF tables, datas, u
<1>4. u = [signed |-> d.signed, fat |-> d.fat, table |-> tables, data |-> datas]
  BY <1>1, <1>3
<1> QED
  BY <1>2, <1>4 DEF Disks, u

\* The FAT written: tables and data stay.
LEMMA WithFatFacts ==
    ASSUME NEW d \in Disks, NEW f \in Fats
    PROVE  /\ WithFat(d, f) \in Disks
           /\ WithFat(d, f).fat = f /\ WithFat(d, f).signed = d.signed
           /\ WithFat(d, f).table = d.table /\ WithFat(d, f).data = d.data
  BY DEF Disks, WithFat

\* After k clusters of data: those hold no table any more.
WrittenUpTo(b, numbers, buf, k) ==
    /\ b \in Disks /\ b.signed = disk.signed /\ b.fat = disk.fat
    /\ \A c \in Clusters :
          /\ b.table[c] = IF c \in {numbers[j] : j \in 1 .. k}
                          THEN NoTable ELSE disk.table[c]
          /\ b.data[c] = IF c \in {numbers[j] : j \in 1 .. k}
                         THEN buf[LastUse(numbers, c, k)] ELSE disk.data[c]

\* The disk with the first k clusters of data written is such a disk.
LEMMA DataWrittenFacts ==
    ASSUME disk \in Disks, NEW r \in Nat,
           NEW numbers \in [1 .. r -> Clusters], NEW buf \in [1 .. r -> Data],
           NEW k \in 1 .. r
    PROVE  WrittenUpTo(DataWritten(k, numbers, buf), numbers, buf, k)
<1> DEFINE written == Range(SubSeq(numbers, 1, k))
           tables == [c \in Clusters |-> IF c \in written THEN NoTable ELSE disk.table[c]]
           datas == [c \in Clusters |-> IF c \in written
                                        THEN buf[LastUse(numbers, c, k)] ELSE disk.data[c]]
           u == DataWritten(k, numbers, buf)
<1>1. disk = [signed |-> disk.signed, fat |-> disk.fat,
              table |-> disk.table, data |-> disk.data]
      /\ disk.table \in [Clusters -> Tables] /\ disk.data \in [Clusters -> Data]
      /\ disk.signed \in BOOLEAN /\ disk.fat \in Fats
  BY DEF Disks
<1>2. written = {numbers[j] : j \in 1 .. k}
  <2>1. numbers \in Seq(Clusters) /\ Len(numbers) = r
    OBVIOUS
  <2>2. SubSeq(numbers, 1, k) = [j \in 1 .. k |-> numbers[j]]
    BY <2>1
  <2> QED
    BY <2>2 DEF Range
<1>3. u = [disk EXCEPT !.table = tables, !.data = datas]
  BY DEF DataWritten
<1>4. tables \in [Clusters -> Tables]
  BY <1>1, NoTableFacts
<1>5. datas \in [Clusters -> Data]
  <2>1. ASSUME NEW c \in written PROVE buf[LastUse(numbers, c, k)] \in Data
    <3>1. \E j \in 1 .. k : numbers[j] = c
      BY <1>2
    <3>2. k \in Nat /\ k <= r
      OBVIOUS
    <3>3. LastUse(numbers, c, k) \in 1 .. k
      BY <3>1, <3>2, LastUseFacts
    <3> QED
      BY <3>2, <3>3
  <2> HIDE DEF written
  <2> QED
    BY <1>1, <2>1
<1>6. \A c \in Clusters :
         /\ tables[c] = IF c \in written THEN NoTable ELSE disk.table[c]
         /\ datas[c] = IF c \in written THEN buf[LastUse(numbers, c, k)] ELSE disk.data[c]
  OBVIOUS
<1> HIDE DEF tables, datas, u, written
<1>7. u = [signed |-> disk.signed, fat |-> disk.fat, table |-> tables, data |-> datas]
  BY <1>1, <1>3
<1>8. u \in Disks /\ u.fat = disk.fat /\ u.signed = disk.signed
  BY <1>1, <1>4, <1>5, <1>7 DEF Disks
<1>9. \A c \in Clusters :
         /\ u.table[c] = IF c \in written THEN NoTable ELSE disk.table[c]
         /\ u.data[c] = IF c \in written THEN buf[LastUse(numbers, c, k)] ELSE disk.data[c]
  BY <1>6, <1>7
<1> QED
  BY <1>2, <1>8, <1>9 DEF u, WrittenUpTo

\* The table a cluster holds after write has come to it.
NewTable(parent, name, size, buf) ==
    IF size = 0 THEN init_directory_table(name, parent, buf) ELSE NoTable

\* What its clusters hold after it.
NewData(size, numbers, buf) ==
    [c \in Range(numbers) |-> IF size = 0 THEN NoData ELSE buf[LastUse(numbers, c, size)]]

\* A buffer: of a file clusters of data, of a directory an extension.
IsBuffer(size, buf) == buf \in IF size = 0 THEN Exts ELSE [1 .. size -> Data]

\* The buffer of a program that writes one value.
FromProgram(size, buf) ==
    size # 0 => \E v \in Values : buf = [k \in 1 .. size |-> <<v, k>>]

\* It is clusters of data.
LEMMA BufferTyped ==
    ASSUME NEW size \in Nat, size # 0, NEW buf, FromProgram(size, buf)
    PROVE  IsBuffer(size, buf)
<1>1. PICK v \in Values : buf = [k \in 1 .. size |-> <<v, k>>]
  BY DEF FromProgram
<1>2. \A k \in 1 .. size : <<v, k>> \in Data
  BY DEF Data
<1> QED
  BY <1>1, <1>2 DEF IsBuffer

\* Disks of a write: contents, FAT, entry.
Bodied(d, cs, t) ==
    /\ d \in Disks /\ d.signed = disk.signed /\ d.fat = disk.fat
    /\ \A c \in Clusters : d.table[c] = disk.table[c] \/ (c \in cs /\ d.table[c] = t)
    /\ \A c \in Clusters : c \notin cs => d.data[c] = disk.data[c]
Mapped(d, numbers, t) ==
    /\ d \in Disks /\ d.signed = disk.signed /\ d.fat = Linked(disk.fat, numbers)
    /\ \A c \in Clusters :
          d.table[c] = IF c \in Range(numbers) THEN t ELSE disk.table[c]
    /\ \A c \in Clusters : c \notin Range(numbers) => d.data[c] = disk.data[c]
Tabled(d, numbers, t, v, parent, table) ==
    /\ d \in Disks /\ d.signed = disk.signed /\ d.fat = Linked(disk.fat, numbers)
    /\ \A c \in Clusters :
          d.table[c] = IF c = parent THEN table
                       ELSE IF c \in Range(numbers) THEN t ELSE disk.table[c]
    /\ \A c \in Clusters :
          d.data[c] = IF c = parent THEN NoData
                      ELSE IF c \in Range(numbers) THEN v[c] ELSE disk.data[c]

\* An entry for what is written.
LEMMA NewEntryFacts ==
    ASSUME NEW old \in Entries, NEW name \in Names, NEW ext \in Exts,
           NEW size \in 0 .. MaxSize, NEW cluster \in Clusters
    PROVE  LET e == NewEntry(old, name, ext, size, cluster)
           IN  /\ e \in Entries /\ e.live /\ e.name = name /\ e.cluster = cluster
               /\ e.dir <=> size = 0
               /\ e.ext = IF size = 0 THEN old.ext ELSE ext
               /\ ~e.dir => e.size = size
<1> DEFINE e == NewEntry(old, name, ext, size, cluster)
<1>1. old = [name |-> old.name, ext |-> old.ext, dir |-> old.dir, live |-> old.live,
             cluster |-> old.cluster, size |-> old.size]
      /\ old.ext \in Exts /\ old.size \in 0 .. MaxSize
  BY DEF Entries
<1>2. CASE size = 0
  <2>1. e = [old EXCEPT !.live = TRUE, !.cluster = cluster, !.name = name, !.dir = TRUE]
    BY <1>2 DEF NewEntry
  <2> HIDE DEF e
  <2>2. e = [name |-> name, ext |-> old.ext, dir |-> TRUE, live |-> TRUE,
             cluster |-> cluster, size |-> old.size]
    BY <1>1, <2>1
  <2>3. e \in Entries
    BY <1>1, <2>2 DEF Entries
  <2>4. e.live /\ e.name = name /\ e.cluster = cluster /\ e.dir /\ e.ext = old.ext
    BY <2>2
  <2> QED
    BY <1>2, <2>3, <2>4 DEF e
<1>3. CASE size # 0
  <2>1. e = [name |-> name, ext |-> ext, dir |-> FALSE, live |-> TRUE,
             cluster |-> cluster, size |-> size]
    BY <1>3 DEF NewEntry
  <2> HIDE DEF e
  <2> QED
    BY <1>3, <2>1 DEF Entries, e
<1> QED
  BY <1>2, <1>3

\* The slot write takes is one of the empty ones.
LEMMA EntryNumberFacts ==
    ASSUME NEW fat \in Fats, NEW table, NEW size \in Nat, HasEntry(fat, table, size)
    PROVE  /\ FreeClusters(fat) # {}
           /\ EntryNumber(fat, table, size) \in UserSlots
           /\ ~table[EntryNumber(fat, table, size)].live
<1> DEFINE E == EmptySlots(table)
           f == Cardinality(FreeClusters(fat))
           r == Required(size)
<1>1. FreeClusters(fat) # {} /\ f \in Nat /\ f # 0
  BY FreeFacts DEF HasEntry
<1>2. r \in Nat /\ r > 0
  BY DEF Required
<1>3. SlotsTried(fat, size) = (r + f - 1) \div f
  BY DEF SlotsTried
<1>4. SlotsTried(fat, size) <= Cardinality(E)
  BY DEF HasEntry
<1> HIDE DEF f, r
<1>5. SlotsTried(fat, size) \in Nat /\ SlotsTried(fat, size) >= 1
  BY <1>1, <1>2, <1>3
<1>6. E \in SUBSET Nat /\ IsFiniteSet(E) /\ Cardinality(E) \in Nat
  <2>1. IsFiniteSet(UserSlots) /\ UserSlots \in SUBSET Nat
    <3>1. 2 \in Int /\ TableSize - 1 \in Int
      BY ClusterFacts
    <3>2. IsFiniteSet(2 .. TableSize - 1)
      BY <3>1, FS_Interval
    <3> QED
      BY <3>1, <3>2 DEF UserSlots
  <2>2. E \in SUBSET UserSlots
    BY DEF EmptySlots
  <2> QED
    BY <2>1, <2>2, FS_Subset, FS_CardinalityType
<1> HIDE DEF E
<1>7. Nth(E, SlotsTried(fat, size)) \in E
  <2>1. SlotsTried(fat, size) \in 1 .. Cardinality(E)
    BY <1>4, <1>5, <1>6
  <2> QED
    BY <1>6, <2>1, NthExists
<1> QED
  BY <1>1, <1>7 DEF EntryNumber, EmptySlots, E

\* The disks of a write, one after the other: first contents, then the FAT that
\* links them, last the entry.
Written(writes, numbers, t, v, parent, table) ==
    /\ writes \in Seq(Disks) /\ Len(writes) \in Nat /\ Len(writes) > 0
    /\ \A k \in 1 .. Len(writes) - 1 :
          Bodied(writes[k], Range(numbers), t) \/ Mapped(writes[k], numbers, t)
    /\ Tabled(writes[Len(writes)], numbers, t, v, parent, table)

\* These are the disks write prepares.
LEMMA WriteDisksFacts ==
    ASSUME disk \in Disks, NEW parent \in Clusters, NEW name \in Names, NEW ext \in Exts,
           NEW size \in 0 .. MaxSize, NEW buf, IsBuffer(size, buf),
           NEW numbers \in [1 .. Required(size) -> FreeClusters(disk.fat)],
           numbers = ClusterNumbers(disk.fat, size),
           NEW slot \in Slots, slot = EntryNumber(disk.fat, disk.table[parent], size),
           NEW entry,
           entry = NewEntry(disk.table[parent][slot], name, ext, size, numbers[1]),
           NEW t, t = NewTable(parent, name, size, buf),
           NEW v, v = NewData(size, numbers, buf),
           NEW table, table = [disk.table[parent] EXCEPT ![slot] = entry]
    PROVE  LET writes == WriteDisks(parent, name, ext, size, buf)
           IN  /\ Written(writes, numbers, t, v, parent, table)
               /\ Last(writes).fat = Linked(disk.fat, numbers)
               /\ t \in Tables /\ table \in Tables /\ entry \in Entries
<1> DEFINE r == Required(size)
           bodies == IF size = 0
                     THEN <<WithTable(disk, numbers[1],
                                      init_directory_table(name, parent, buf))>>
                     ELSE [k \in 1 .. size |-> DataWritten(k, numbers, buf)]
           mapped == WithFat(Last(bodies), Linked(disk.fat, numbers))
           listed == WithTable(mapped, parent, table)
           writes == WriteDisks(parent, name, ext, size, buf)
<1>1. writes = bodies \o <<mapped, listed>>
  BY DEF WriteDisks
<1>2. r \in Nat /\ r > 0 /\ (size # 0 => r = size) /\ (size = 0 => r = 1) /\ size \in Nat
  BY FatConstants DEF Required
<1>3. /\ \A k \in 1 .. r : numbers[k] \in FreeClusters(disk.fat)
      /\ numbers \in [1 .. r -> Clusters]
      /\ Range(numbers) = {numbers[k] : k \in 1 .. r}
  BY DEF Range, FreeClusters
<1>4. numbers[1] \in Clusters /\ numbers[1] \in Range(numbers)
  BY <1>2, <1>3
<1>5. /\ disk.fat \in Fats /\ disk.table[parent] \in Tables
      /\ disk.table[parent][slot] \in Entries
  BY DEF Disks, Tables
<1>6. Linked(disk.fat, numbers) \in Fats
  BY <1>2, <1>5, LinkedFacts
<1>7. entry \in Entries
  BY <1>4, <1>5, NewEntryFacts
<1>8. table \in Tables
  BY <1>5, <1>7 DEF Tables
<1>9. t \in Tables
  BY NoTableFacts, NewTableFacts DEF NewTable, IsBuffer
<1>n. \A c \in Range(numbers) :
         v[c] = IF size = 0 THEN NoData ELSE buf[LastUse(numbers, c, size)]
  BY DEF NewData
<1>10. /\ bodies \in Seq(Disks) /\ Len(bodies) = r
       /\ \A k \in 1 .. r : Bodied(bodies[k], Range(numbers), t)
       /\ bodies[r].signed = disk.signed
       /\ \A c \in Clusters :
             /\ bodies[r].table[c] = IF c \in Range(numbers) THEN t ELSE disk.table[c]
             /\ bodies[r].data[c] = IF c \in Range(numbers) THEN v[c] ELSE disk.data[c]
  <2>1. CASE size = 0
    <3> DEFINE b == WithTable(disk, numbers[1], t)
    <3>1. bodies = <<b>> /\ r = 1
      BY <1>2, <2>1 DEF NewTable
    <3>2. b \in Disks /\ b.signed = disk.signed /\ b.fat = disk.fat
          /\ \A x \in Clusters :
                /\ b.table[x] = IF x = numbers[1] THEN t ELSE disk.table[x]
                /\ b.data[x] = IF x = numbers[1] THEN NoData ELSE disk.data[x]
      BY <1>4, <1>9, WithTableFacts
    <3>3. Range(numbers) = {numbers[1]}
      BY <1>3, <3>1
    <3>4. Bodied(b, Range(numbers), t)
      BY <3>2, <3>3 DEF Bodied
    <3>5. v[numbers[1]] = NoData
      BY <1>4, <1>n, <2>1
    <3> HIDE DEF b, bodies
    <3> QED
      BY <3>1, <3>2, <3>3, <3>4, <3>5
  <2>2. CASE size # 0
    <3>1. bodies = [k \in 1 .. r |-> DataWritten(k, numbers, buf)] /\ t = NoTable
      BY <1>2, <2>2 DEF NewTable
    <3>2. buf \in [1 .. r -> Data]
      BY <1>2, <2>2 DEF IsBuffer
    <3>3. ASSUME NEW k \in 1 .. r
          PROVE  LET b == DataWritten(k, numbers, buf)
                 IN  /\ b \in Disks /\ b.signed = disk.signed /\ b.fat = disk.fat
                     /\ \A c \in Clusters :
                        /\ b.table[c] = IF c \in {numbers[j] : j \in 1 .. k}
                                        THEN t ELSE disk.table[c]
                        /\ b.data[c] = IF c \in {numbers[j] : j \in 1 .. k}
                                       THEN buf[LastUse(numbers, c, k)] ELSE disk.data[c]
      <4>1. r \in Nat /\ numbers \in [1 .. r -> Clusters]
        BY <1>2, <1>3
      <4> HIDE DEF r
      <4> DEFINE b == DataWritten(k, numbers, buf)
      <4>2. WrittenUpTo(b, numbers, buf, k)
        BY <3>2, <4>1, DataWrittenFacts
      <4> HIDE DEF b
      <4>3. /\ b \in Disks /\ b.signed = disk.signed /\ b.fat = disk.fat
            /\ \A c \in Clusters :
                  /\ b.table[c] = IF c \in {numbers[j] : j \in 1 .. k}
                                  THEN t ELSE disk.table[c]
                  /\ b.data[c] = IF c \in {numbers[j] : j \in 1 .. k}
                                 THEN buf[LastUse(numbers, c, k)] ELSE disk.data[c]
        BY <3>1, <4>2 DEF WrittenUpTo
      <4> QED
        BY <4>3 DEF b
    <3>4. ASSUME NEW k \in 1 .. r
          PROVE  Bodied(DataWritten(k, numbers, buf), Range(numbers), t)
      <4>1. {numbers[j] : j \in 1 .. k} \subseteq Range(numbers)
        BY <1>2, <1>3
      <4> QED
        BY <3>3, <4>1 DEF Bodied
    <3> HIDE DEF bodies
    <3>5. bodies \in [1 .. r -> Disks] /\ \A k \in 1 .. r : bodies[k] = DataWritten(k, numbers, buf)
      BY <3>1, <3>3
    <3>6. bodies \in Seq(Disks) /\ Len(bodies) = r
      BY <1>2, <3>5
    <3>7. r \in 1 .. r
      BY <1>2
    <3>8. \A c \in Range(numbers) : v[c] = buf[LastUse(numbers, c, r)]
      BY <1>n, <1>2, <2>2
    <3>9. \A c \in Clusters :
             /\ bodies[r].table[c] = IF c \in Range(numbers) THEN t ELSE disk.table[c]
             /\ bodies[r].data[c] = IF c \in Range(numbers) THEN v[c] ELSE disk.data[c]
      BY <1>3, <3>3, <3>5, <3>7, <3>8
    <3> QED
      BY <3>3, <3>4, <3>5, <3>6, <3>7, <3>9
  <2> QED
    BY <2>1, <2>2
<1> HIDE DEF r, bodies
<1>11. Last(bodies) = bodies[r] /\ bodies[r] \in Disks
  BY <1>2, <1>10 DEF Last
<1>12. mapped \in Disks /\ mapped.signed = disk.signed /\ mapped.fat = Linked(disk.fat, numbers)
       /\ mapped.table = bodies[r].table /\ mapped.data = bodies[r].data
  BY <1>6, <1>10, <1>11, WithFatFacts
<1>13. /\ Mapped(mapped, numbers, t)
       /\ \A c \in Clusters :
             mapped.data[c] = IF c \in Range(numbers) THEN v[c] ELSE disk.data[c]
  <2> HIDE DEF mapped
  <2>1. \A c \in Clusters :
           /\ mapped.table[c] = IF c \in Range(numbers) THEN t ELSE disk.table[c]
           /\ mapped.data[c] = IF c \in Range(numbers) THEN v[c] ELSE disk.data[c]
    BY <1>10, <1>12
  <2> QED
    BY <1>12, <2>1 DEF Mapped
<1> HIDE DEF mapped
<1>14. listed \in Disks /\ listed.signed = disk.signed /\ listed.fat = Linked(disk.fat, numbers)
       /\ Tabled(listed, numbers, t, v, parent, table)
  <2> HIDE DEF mapped
  <2>1. /\ listed \in Disks /\ listed.signed = mapped.signed /\ listed.fat = mapped.fat
        /\ \A c \in Clusters :
              /\ listed.table[c] = IF c = parent THEN table ELSE mapped.table[c]
              /\ listed.data[c] = IF c = parent THEN NoData ELSE mapped.data[c]
    BY <1>8, <1>12, WithTableFacts
  <2> HIDE DEF listed
  <2> QED
    BY <1>12, <1>13, <2>1 DEF Mapped, Tabled
<1> HIDE DEF listed, writes
<1>15. /\ writes \in Seq(Disks) /\ Len(writes) = r + 2
       /\ writes[r + 1] = mapped /\ writes[r + 2] = listed
       /\ \A k \in 1 .. r : writes[k] = bodies[k]
  <2>1. \A s \in Seq(Disks), x \in Disks, y \in Disks :
           LET z == s \o <<x, y>>
           IN  /\ z \in Seq(Disks) /\ Len(z) = Len(s) + 2
               /\ z[Len(s) + 1] = x /\ z[Len(s) + 2] = y
               /\ \A k \in 1 .. Len(s) : z[k] = s[k]
    OBVIOUS
  <2>2. writes = bodies \o <<mapped, listed>>
    BY <1>1 DEF writes
  <2> HIDE DEF bodies
  <2> QED
    BY <1>10, <1>12, <1>14, <2>1, <2>2
<1>16. Last(writes) = listed /\ writes[Len(writes)] = listed
  BY <1>2, <1>15 DEF Last
<1>17. ASSUME NEW k \in 1 .. Len(writes) - 1
       PROVE  Bodied(writes[k], Range(numbers), t) \/ Mapped(writes[k], numbers, t)
  <2>1. k \in 1 .. r \/ k = r + 1
    BY <1>2, <1>15
  <2> QED
    BY <1>10, <1>13, <1>15, <2>1
<1>18. Written(writes, numbers, t, v, parent, table)
  BY <1>2, <1>14, <1>15, <1>16, <1>17 DEF Written
<1> QED
  BY <1>7, <1>8, <1>9, <1>14, <1>16, <1>18 DEF writes

-----------------------------------------------------------------------------
(* Where programs can walk to.                                              *)

\* The root, or the cluster of a live directory entry.
LEMMA ReachFacts ==
    ASSUME NEW d \in Disks, NEW x \in DirectoryClusters(d)
    PROVE  /\ x \in Clusters /\ d.signed /\ IsDirectoryTable(d, ROOT_CLUSTER_NUMBER)
           /\ \/ x = ROOT_CLUSTER_NUMBER
              \/ \E p \in LivePlaces(d) : Entry(d, p).dir /\ Entry(d, p).cluster = x
<1> DEFINE K == {c \in Clusters :
                   \/ c = ROOT_CLUSTER_NUMBER
                   \/ \E p \in LivePlaces(d) : Entry(d, p).dir /\ Entry(d, p).cluster = c}
           n == ClusterMapSize
           more(X) == UNION {{c} \cup Subdirectories(d, c) : c \in X}
           step == [X \in SUBSET K |-> [k \in 1 .. n |-> more(X)]]
           root == {ROOT_CLUSTER_NUMBER}
<1>1. n \in Nat /\ DirectoryMax + 1 \in 0 .. n
  BY FatConstants
<1>2. root \in SUBSET K
  BY ClusterFacts
<1>3. ASSUME NEW c \in K PROVE Subdirectories(d, c) \subseteq K
  <2> SUFFICES ASSUME NEW y \in Subdirectories(d, c) PROVE y \in K
    OBVIOUS
  <2>1. PICK e \in LiveEntries(d, c) : e.dir /\ y = e.cluster
    BY DEF Subdirectories
  <2>2. PICK i \in UserSlots : d.table[c][i].live /\ e = d.table[c][i]
    BY DEF LiveEntries
  <2>3. c \in Clusters
    OBVIOUS
  <2>4. d.table[c][i] \in Entries
    BY <2>3, ClusterFacts DEF Disks, Tables
  <2>5. y \in Clusters
    BY <2>1, <2>2, <2>4 DEF Entries
  <2>6. <<c, i>> \in LivePlaces(d) /\ Entry(d, <<c, i>>) = e
    BY <2>2, <2>3 DEF LivePlaces, Entry
  <2> QED
    BY <2>1, <2>5, <2>6
<1> HIDE DEF K
<1>4. \A X \in SUBSET K : more(X) \in SUBSET K
  BY <1>3
<1> HIDE DEF more, n, root
<1>5. step \in Steps(SUBSET K, n)
  BY <1>4 DEF Steps
<1>6. \A X \in SUBSET K, k \in 1 .. n : step[X][k] = more(X)
  OBVIOUS
<1> HIDE DEF step
<1>7. PICK g \in [0 .. n -> SUBSET K] : Follows(g, root, step, n)
  BY <1>1, <1>2, <1>5, RecursionExists
<1>8. ASSUME NEW k \in 1 .. n PROVE g[k] = more(g[k - 1])
  <2>1. g[k - 1] \in SUBSET K
    BY <1>1
  <2> QED
    BY <1>6, <1>7, <2>1 DEF Follows
<1>9. g = [k \in 0 .. n |-> IF k = 0 THEN root ELSE more(g[k - 1])]
  BY <1>1, <1>7, <1>8 DEF Follows
<1> DEFINE h == CHOOSE h : h = [k \in 0 .. n |-> IF k = 0 THEN root ELSE more(h[k - 1])]
<1>10. h = [k \in 0 .. n |-> IF k = 0 THEN root ELSE more(h[k - 1])]
  BY <1>9
<1>11. d.signed /\ IsDirectoryTable(d, ROOT_CLUSTER_NUMBER)
       /\ DirectoryClusters(d) = h[DirectoryMax + 1]
  <2>1. d.signed /\ IsDirectoryTable(d, ROOT_CLUSTER_NUMBER)
    BY DEF DirectoryClusters
  <2> QED
    BY <2>1 DEF DirectoryClusters, more, n, root
<1> HIDE DEF h
<1>12. Alike(g, h, n)
  <2>1. g[0] = h[0]
    BY <1>1, <1>7, <1>10 DEF Follows
  <2>2. ASSUME NEW k \in 1 .. n, g[k - 1] = h[k - 1] PROVE g[k] = h[k]
    <3>1. k \in 0 .. n /\ k # 0
      BY <1>1
    <3>2. h[k] = more(h[k - 1])
      BY <1>10, <3>1
    <3> QED
      BY <1>8, <2>2, <3>2
  <2> QED
    BY <2>1, <2>2 DEF Alike
<1>13. \A k \in 0 .. n : g[k] = h[k]
  BY <1>1, <1>12, SameRecursion
<1>14. x \in K
  <2>1. x \in h[DirectoryMax + 1]
    BY <1>11
  <2>2. h[DirectoryMax + 1] \in SUBSET K
    BY <1>1, <1>13
  <2> QED
    BY <2>1, <2>2
<1> QED
  BY <1>11, <1>14 DEF K

-----------------------------------------------------------------------------
(* The disks of a deletion: without the entry, then with its clusters free. *)

\* The community modules' Min, on numbers.
LEMMA MinFacts ==
    ASSUME NEW S \in SUBSET Nat, S # {}
    PROVE  Min(S) \in S /\ \A y \in S : Min(S) <= y
<1>1. \E x \in S : \A y \in S : x <= y
  BY LeastElement
<1> QED
  BY <1>1 DEF Min

\* The FAT after a deletion, cluster by cluster.
LEMMA ClearedFacts ==
    ASSUME NEW f \in Fats, NEW cs
    PROVE  /\ Cleared(f, cs) \in Fats
           /\ \A c \in Clusters :
                 Cleared(f, cs)[c] = IF c \in cs THEN EMPTY_ENTRY ELSE f[c]
  BY ClusterFacts DEF Cleared, Fats

\* The two disks of a deletion: the table first, the FAT f second.
Unlists(writes, f, parent, table) ==
    /\ writes \in Seq(Disks) /\ Len(writes) = 2
    /\ table \in Tables
    /\ writes[1].signed = disk.signed /\ writes[2].signed = disk.signed
    /\ writes[1].fat = disk.fat
    /\ writes[2].fat = f
    /\ \A k \in 1 .. 2, c \in Clusters :
          /\ writes[k].table[c] = IF c = parent THEN table ELSE disk.table[c]
          /\ c # parent => writes[k].data[c] = disk.data[c]

\* These are the disks delete writes.
LEMMA DeleteDisksFacts ==
    ASSUME disk \in Disks, cache \in [Drivers -> Fats], NEW d \in Drivers,
           NEW parent \in Clusters, NEW i \in Slots
    PROVE  Unlists(DeleteDisks(d, parent, i),
                   Cleared(cache[d], Freed(cache[d], disk.table[parent][i])), parent,
                   [disk.table[parent] EXCEPT ![i].live = FALSE])
<1> DEFINE freed == Freed(cache[d], disk.table[parent][i])
           table == [disk.table[parent] EXCEPT ![i].live = FALSE]
           u == WithTable(disk, parent, table)
           v == WithFat(u, Cleared(cache[d], freed))
           writes == DeleteDisks(d, parent, i)
<1>1. disk.table[parent] \in Tables /\ disk.table[parent][i] \in Entries
  BY DEF Disks, Tables
<1>2. table \in Tables
  <2>1. [disk.table[parent][i] EXCEPT !.live = FALSE] \in Entries
    BY <1>1 DEF Entries
  <2>2. table = [disk.table[parent] EXCEPT
                    ![i] = [disk.table[parent][i] EXCEPT !.live = FALSE]]
    OBVIOUS
  <2> QED
    BY <1>1, <2>1, <2>2 DEF Tables
<1>3. writes = <<u, v>>
  BY DEF DeleteDisks
<1> HIDE DEF freed, table
<1>4. u \in Disks /\ u.signed = disk.signed /\ u.fat = disk.fat
      /\ \A c \in Clusters :
            /\ u.table[c] = IF c = parent THEN table ELSE disk.table[c]
            /\ c # parent => u.data[c] = disk.data[c]
  <2>1. \A t \in Tables :
           /\ WithTable(disk, parent, t) \in Disks
           /\ WithTable(disk, parent, t).signed = disk.signed
           /\ WithTable(disk, parent, t).fat = disk.fat
           /\ \A c \in Clusters :
                 /\ WithTable(disk, parent, t).table[c] = IF c = parent THEN t ELSE disk.table[c]
                 /\ c # parent => WithTable(disk, parent, t).data[c] = disk.data[c]
    BY WithTableFacts
  <2> QED
    BY <1>2, <2>1
<1>5. Cleared(cache[d], freed) \in Fats
  BY ClearedFacts
<1> HIDE DEF u
<1>6. v \in Disks /\ v.signed = u.signed /\ v.fat = Cleared(cache[d], freed) /\ v.table = u.table /\ v.data = u.data
  BY <1>4, <1>5, WithFatFacts
<1> HIDE DEF v, writes
<1>7. writes \in Seq(Disks) /\ Len(writes) = 2 /\ writes[1] = u /\ writes[2] = v
  BY <1>3, <1>4, <1>6
<1>8. \A k \in 1 .. 2, c \in Clusters :
         /\ writes[k].table[c] = IF c = parent THEN table ELSE disk.table[c]
         /\ c # parent => writes[k].data[c] = disk.data[c]
  <2>1. \A k \in 1 .. 2 : writes[k].table = u.table /\ writes[k].data = u.data
    BY <1>6, <1>7
  <2> QED
    BY <1>4, <2>1
<1> QED
  BY <1>2, <1>4, <1>6, <1>7, <1>8 DEF writes, freed, table, Unlists

-----------------------------------------------------------------------------
(* What the calls do.                                                       *)

\* Formatting writes the signature, the FAT and the table of the root.
LEMMA CreateFacts ==
    ASSUME disk \in Disks
    PROVE  LET root == init_directory_table(RootName, ROOT_CLUSTER_NUMBER, NoExt)
           IN  /\ create_fat32 \in Seq(Disks) /\ Len(create_fat32) = 3
               /\ FormattedFat \in Fats /\ Last(create_fat32).fat = FormattedFat
               /\ create_fat32[1].fat = disk.fat /\ create_fat32[1].table = disk.table
               /\ create_fat32[2].table = disk.table
               /\ \A k \in 1 .. 3 : create_fat32[k].signed
               /\ \A c \in Clusters :
                     create_fat32[3].table[c] =
                        IF c = ROOT_CLUSTER_NUMBER THEN root ELSE disk.table[c]
<1> DEFINE root == init_directory_table(RootName, ROOT_CLUSTER_NUMBER, NoExt)
           a == [disk EXCEPT !.signed = TRUE]
           b == WithFat(a, FormattedFat)
           c == WithTable(b, ROOT_CLUSTER_NUMBER, root)
<1>1. a \in Disks /\ a.signed /\ a.fat = disk.fat /\ a.table = disk.table
  BY DEF Disks
<1>2. FormattedFat \in Fats
  BY ClusterFacts DEF FormattedFat, Fats
<1>3. create_fat32 = <<a, b, c>>
  BY DEF create_fat32
<1> HIDE DEF a
<1>4. b \in Disks /\ b.signed /\ b.fat = FormattedFat /\ b.table = disk.table
  BY <1>1, <1>2, WithFatFacts
<1> HIDE DEF b
<1>5. root \in Tables
  BY FatConstants, ClusterFacts, NewTableFacts
<1> HIDE DEF root
<1>6. c \in Disks /\ c.signed /\ c.fat = FormattedFat
      /\ \A x \in Clusters :
            c.table[x] = IF x = ROOT_CLUSTER_NUMBER THEN root ELSE disk.table[x]
  BY <1>4, <1>5, ClusterFacts, WithTableFacts
<1> HIDE DEF c
<1>7. /\ create_fat32 \in Seq(Disks) /\ Len(create_fat32) = 3
      /\ create_fat32[1] = a /\ create_fat32[2] = b /\ create_fat32[3] = c
  BY <1>1, <1>3, <1>4, <1>6
<1> QED
  BY <1>1, <1>2, <1>4, <1>6, <1>7 DEF Last, root

\* A request of write, and what it finds.
Request(parent, name, ext, size, buf) ==
    /\ parent \in Clusters /\ name \in Names /\ ext \in Exts
    /\ size \in 0 .. MaxSize /\ IsBuffer(size, buf)

\* The disks a request leads to.
Placed(parent, name, ext, size, buf, numbers, slot) ==
    /\ IsDirectoryTable(disk, parent) /\ ~Exists(disk.table[parent], name, ext)
    /\ numbers \in [1 .. Required(size) -> FreeClusters(disk.fat)]
    /\ numbers = ClusterNumbers(disk.fat, size)
    /\ slot \in UserSlots /\ ~disk.table[parent][slot].live
    /\ slot = EntryNumber(disk.fat, disk.table[parent], size)

\* Where write says that it succeeds there are such disks.
LEMMA ResultPlaced ==
    ASSUME disk \in Disks, NEW parent, NEW name, NEW ext, NEW size, NEW buf,
           Request(parent, name, ext, size, buf), WriteResult(parent, name, ext, size) = 0
    PROVE  \E numbers, slot : Placed(parent, name, ext, size, buf, numbers, slot)
<1> DEFINE numbers == ClusterNumbers(disk.fat, size)
           slot == EntryNumber(disk.fat, disk.table[parent], size)
<1>1. /\ IsDirectoryTable(disk, parent) /\ ~Exists(disk.table[parent], name, ext)
      /\ HasEntry(disk.fat, disk.table[parent], size)
  BY DEF WriteResult
<1>2. disk.fat \in Fats /\ size \in Nat
  BY FatConstants DEF Disks, Request
<1>3. FreeClusters(disk.fat) # {} /\ slot \in UserSlots /\ ~disk.table[parent][slot].live
  BY <1>1, <1>2, EntryNumberFacts
<1>4. numbers \in [1 .. Required(size) -> FreeClusters(disk.fat)]
  BY <1>2, <1>3, ClusterNumbersFacts
<1>5. Placed(parent, name, ext, size, buf, numbers, slot)
  BY <1>1, <1>3, <1>4 DEF Placed
<1> QED
  BY <1>5

\* A write refuses, or its disks are written and its FAT cached.
LEMMA WriteEffect ==
    ASSUME disk \in Disks, NEW d, NEW parent, NEW name, NEW ext, NEW size, NEW buf,
           Request(parent, name, ext, size, buf),
           write(d, parent, name, ext, size, buf)
    PROVE  /\ Idle /\ UNCHANGED <<disk, power, powerOffs>>
           /\ \/ pending' = pending /\ cache' = [cache EXCEPT ![d] = disk.fat]
              \/ \E numbers, slot :
                    /\ Placed(parent, name, ext, size, buf, numbers, slot)
                    /\ pending' = WriteDisks(parent, name, ext, size, buf)
                    /\ cache' = [cache EXCEPT ![d] = Linked(disk.fat, numbers)]
<1>1. Idle /\ UNCHANGED <<disk, power, powerOffs>>
  BY DEF write
<1>2. CASE WriteResult(parent, name, ext, size) # 0
  <2>1. pending' = pending /\ cache' = [cache EXCEPT ![d] = disk.fat]
    BY <1>2 DEF write
  <2> QED
    BY <1>1, <2>1
<1>3. CASE WriteResult(parent, name, ext, size) = 0
  <2>1. PICK numbers, slot : Placed(parent, name, ext, size, buf, numbers, slot)
    BY <1>3, ResultPlaced
  <2>2. pending' = WriteDisks(parent, name, ext, size, buf)
        /\ cache' = [cache EXCEPT ![d] = Linked(disk.fat, numbers)]
    BY <1>3, <2>1 DEF write, Placed
  <2> QED
    BY <1>1, <2>1, <2>2
<1> QED
  BY <1>2, <1>3

\* The requests the programs make are such requests.
LEMMA WriteFileRequests ==
    ASSUME disk \in Disks, WriteFile
    PROVE  \E d \in Writers, parent \in Reach, name \in Names, ext \in Exts,
              size \in 1 .. MaxSize : \E buf :
              /\ Request(parent, name, ext, size, buf) /\ FromProgram(size, buf)
              /\ RoomChecked => EnoughRoom(size)
              /\ write(d, parent, name, ext, size, buf)
<1>1. PICK d \in Writers, parent \in Reach, name \in Names, ext \in Exts,
           size \in 1 .. MaxSize, value \in Values :
         /\ RoomChecked => EnoughRoom(size)
         /\ write(d, parent, name, ext, size, [k \in 1 .. size |-> <<value, k>>])
  BY DEF WriteFile
<1> DEFINE buf == [k \in 1 .. size |-> <<value, k>>]
<1>2. size \in 0 .. MaxSize /\ size \in Nat /\ size # 0
  BY FatConstants
<1>3. FromProgram(size, buf)
  BY DEF FromProgram
<1>4. IsBuffer(size, buf)
  BY <1>2, <1>3, BufferTyped
<1> HIDE DEF buf
<1>5. Request(parent, name, ext, size, buf)
  BY <1>2, <1>4, ReachFacts DEF Request, Reach
<1> QED
  BY <1>1, <1>3, <1>5 DEF buf

\* mkdir asks for a directory, a write of size 0, when the bound leaves one.
LEMMA MakeDirectoryRequests ==
    ASSUME disk \in Disks, MakeDirectory
    PROVE  \E d \in Writers, parent \in Reach, name \in Names, ext \in Exts, junk \in Exts :
              /\ Request(parent, name, ext, 0, junk)
              /\ Cardinality(Reach) <= DirectoryMax
              /\ write(d, parent, name, ext, 0, junk)
<1>1. PICK d \in Writers, parent \in Reach, name \in Names, ext \in Exts, junk \in Exts :
         /\ Cardinality(Reach) <= DirectoryMax
         /\ write(d, parent, name, ext, 0, junk)
  BY DEF MakeDirectory
<1>2. Request(parent, name, ext, 0, junk)
  BY FatConstants, ReachFacts DEF Request, Reach, IsBuffer
<1> QED
  BY <1>1, <1>2

\* A deletion finds nothing or only looks, or writes its two disks.
LEMMA DeleteEffect ==
    ASSUME disk \in Disks, DeleteByName
    PROVE  /\ Idle /\ UNCHANGED <<disk, power, powerOffs>>
           /\ \/ UNCHANGED <<cache, pending>>
              \/ \E d \in Writers, parent \in Reach, name \in Names, ext \in Exts,
                    i \in Slots :
                    /\ FreshDelete => cache[d] # ZeroFat
                    /\ i \in Deletable(disk.table[parent], name, ext)
                    /\ EmptyDirsOnly /\ disk.table[parent][i].dir =>
                          LiveEntries(disk, disk.table[parent][i].cluster) = {}
                    /\ DeleteEntry(d, parent, i)
<1>1. PICK d \in Writers, parent \in Reach, name \in Names, ext \in Exts :
         /\ FreshDelete => cache[d] # ZeroFat
         /\ EmptyDirsOnly => \A i \in Deletable(disk.table[parent], name, ext) :
                                 disk.table[parent][i].dir =>
                                    LiveEntries(disk, disk.table[parent][i].cluster) = {}
         /\ delete(d, parent, name, ext)
  BY DEF DeleteByName, IsEmptyDirectory
<1>2. Idle /\ UNCHANGED <<disk, power, powerOffs>>
  BY <1>1 DEF delete
<1> DEFINE found == Deletable(disk.table[parent], name, ext)
<1>3. \/ UNCHANGED <<cache, pending>>
      \/ found # {} /\ DeleteEntry(d, parent, Min(found))
  BY <1>1 DEF delete
<1>4. ASSUME found # {} PROVE Min(found) \in found /\ Min(found) \in Slots
  <2>1. found \in SUBSET Slots /\ Slots \in SUBSET Nat
    BY ClusterFacts DEF Deletable, Slots
  <2> HIDE DEF found
  <2> QED
    BY <1>4, <2>1, MinFacts
<1> HIDE DEF found
<1> QED
  BY <1>1, <1>2, <1>3, <1>4 DEF found

-----------------------------------------------------------------------------
(* Types.                                                                   *)

\* The driver's state before anything is read.
LEMMA ZeroFatTyped == ZeroFat \in Fats
  BY ClusterFacts DEF ZeroFat, Fats

\* The disk before anything is written.
LEMMA BlankDiskTyped == BlankDisk \in Disks
<1>1. [c \in Clusters |-> NoTable] \in [Clusters -> Tables]
  BY NoTableFacts
<1>2. [c \in Clusters |-> NoData] \in [Clusters -> Data]
  BY DEF Data
<1> QED
  BY <1>1, <1>2, ZeroFatTyped DEF BlankDisk, Disks

\* The disks a write leads to are disks, whatever is found free.
LEMMA PlacedWrites ==
    ASSUME disk \in Disks, NEW parent, NEW name, NEW ext, NEW size, NEW buf,
           Request(parent, name, ext, size, buf), NEW numbers, NEW slot,
           Placed(parent, name, ext, size, buf, numbers, slot)
    PROVE  LET writes == WriteDisks(parent, name, ext, size, buf)
               entry == NewEntry(disk.table[parent][slot], name, ext, size, numbers[1])
               t == NewTable(parent, name, size, buf)
               table == [disk.table[parent] EXCEPT ![slot] = entry]
               v == NewData(size, numbers, buf)
           IN  /\ Written(writes, numbers, t, v, parent, table)
               /\ writes \in Seq(Disks) /\ writes # <<>>
               /\ Last(writes).fat = Linked(disk.fat, numbers)
               /\ Linked(disk.fat, numbers) \in Fats
               /\ t \in Tables /\ table \in Tables /\ entry \in Entries
<1>1. /\ parent \in Clusters /\ name \in Names /\ ext \in Exts /\ size \in 0 .. MaxSize
      /\ IsBuffer(size, buf)
  BY DEF Request
<1>2. /\ numbers \in [1 .. Required(size) -> FreeClusters(disk.fat)]
      /\ numbers = ClusterNumbers(disk.fat, size)
      /\ slot \in Slots /\ slot = EntryNumber(disk.fat, disk.table[parent], size)
  BY ClusterFacts DEF Placed
<1>3. Linked(disk.fat, numbers) \in Fats
  <2>1. Required(size) \in Nat /\ Required(size) > 0
    BY <1>1, FatConstants DEF Required
  <2>2. disk.fat \in Fats
    BY DEF Disks
  <2> QED
    BY <1>2, <2>1, <2>2, LinkedFacts
<1> DEFINE writes == WriteDisks(parent, name, ext, size, buf)
           entry == NewEntry(disk.table[parent][slot], name, ext, size, numbers[1])
           t == NewTable(parent, name, size, buf)
           table == [disk.table[parent] EXCEPT ![slot] = entry]
           v == NewData(size, numbers, buf)
<1>4. /\ Written(writes, numbers, t, v, parent, table)
      /\ Last(writes).fat = Linked(disk.fat, numbers)
      /\ t \in Tables /\ table \in Tables /\ entry \in Entries
  BY <1>1, <1>2, WriteDisksFacts
<1> HIDE DEF writes, entry, t, table, v
<1>5. writes \in Seq(Disks) /\ writes # <<>>
  <2>1. writes \in Seq(Disks) /\ Len(writes) > 0
    BY <1>4 DEF Written
  <2>2. Len(<<>>) = 0
    OBVIOUS
  <2> QED
    BY <2>1, <2>2
<1> QED
  BY <1>3, <1>4, <1>5 DEF writes, entry, t, table, v

\* Any call writes disks and caches a FAT.
LEMMA FatTypedStep == FatTyped /\ [FatNext]_fatVars => FatTyped'
<1> SUFFICES ASSUME FatTyped, [FatNext]_fatVars PROVE FatTyped'
  OBVIOUS
<1>1. /\ disk \in Disks /\ pending \in Seq(Disks) /\ cache \in [Drivers -> Fats]
      /\ power \in {"on", "formatting", "off"} /\ disk.fat \in Fats
  BY DEF FatTyped, Disks
<1>2. ASSUME initialize_filesystem_fat32 PROVE FatTyped'
  <2>1. create_fat32 \in Seq(Disks) /\ FormattedFat \in Fats
    BY <1>1, CreateFacts
  <2>2. UNCHANGED disk /\ power' \in {"on", "formatting", "off"}
        /\ (pending' = pending \/ pending' = create_fat32)
        /\ (\/ cache' = [cache EXCEPT ![KernelDriver] = FormattedFat]
            \/ cache' = [cache EXCEPT ![KernelDriver] = disk.fat])
    BY <1>2 DEF initialize_filesystem_fat32
  <2>3. cache' \in [Drivers -> Fats]
    BY <1>1, <2>1, <2>2
  <2> QED
    BY <1>1, <2>1, <2>2, <2>3 DEF FatTyped
<1>3. ASSUME DiskWrite PROVE FatTyped'
  <2>1. pending # <<>> /\ disk' = Head(pending) /\ pending' = Tail(pending)
        /\ power' \in {"on", power} /\ cache' = cache
    BY <1>3 DEF DiskWrite
  <2>2. disk' \in Disks /\ pending' \in Seq(Disks)
    BY <1>1, <2>1
  <2> QED
    BY <1>1, <2>1, <2>2 DEF FatTyped
<1>4. ASSUME PowerOff PROVE FatTyped'
  BY <1>1, <1>4, ZeroFatTyped DEF PowerOff, FatTyped
<1>5. ASSUME NEW d, NEW parent, NEW name, NEW ext, NEW size, NEW buf,
             Request(parent, name, ext, size, buf),
             write(d, parent, name, ext, size, buf)
      PROVE  FatTyped'
  <2>1. UNCHANGED <<disk, power>>
    BY <1>1, <1>5, WriteEffect
  <2>2. CASE pending' = pending /\ cache' = [cache EXCEPT ![d] = disk.fat]
    BY <1>1, <2>1, <2>2 DEF FatTyped
  <2>3. CASE \E numbers, slot :
                /\ Placed(parent, name, ext, size, buf, numbers, slot)
                /\ pending' = WriteDisks(parent, name, ext, size, buf)
                /\ cache' = [cache EXCEPT ![d] = Linked(disk.fat, numbers)]
    <3>1. PICK numbers, slot :
             /\ Placed(parent, name, ext, size, buf, numbers, slot)
             /\ pending' = WriteDisks(parent, name, ext, size, buf)
             /\ cache' = [cache EXCEPT ![d] = Linked(disk.fat, numbers)]
      BY <2>3
    <3>2. WriteDisks(parent, name, ext, size, buf) \in Seq(Disks)
          /\ Linked(disk.fat, numbers) \in Fats
      BY <1>1, <1>5, <3>1, PlacedWrites
    <3> QED
      BY <1>1, <2>1, <3>1, <3>2 DEF FatTyped
  <2> QED
    BY <1>1, <1>5, <2>2, <2>3, WriteEffect
<1>6. ASSUME WriteFile PROVE FatTyped'
  BY <1>1, <1>5, <1>6, WriteFileRequests
<1>7. ASSUME MakeDirectory PROVE FatTyped'
  BY <1>1, <1>5, <1>7, MakeDirectoryRequests
<1>8. ASSUME DeleteByName PROVE FatTyped'
  <2>1. UNCHANGED <<disk, power>>
    BY <1>1, <1>8, DeleteEffect
  <2>2. CASE UNCHANGED <<cache, pending>>
    BY <1>1, <2>1, <2>2 DEF FatTyped
  <2>3. CASE \E d \in Writers, parent \in Reach, i \in Slots : DeleteEntry(d, parent, i)
    <3>1. PICK d \in Writers, parent \in Reach, i \in Slots : DeleteEntry(d, parent, i)
      BY <2>3
    <3>2. d \in Drivers /\ parent \in Clusters
      BY <1>1, FatConstants, ReachFacts DEF Reach, Drivers
    <3>3. DeleteDisks(d, parent, i) \in Seq(Disks)
      BY <1>1, <3>2, DeleteDisksFacts DEF Unlists
    <3>4. Cleared(cache[d], Freed(cache[d], disk.table[parent][i])) \in Fats
      BY <1>1, <3>2, ClearedFacts
    <3>5. cache' \in [Drivers -> Fats] /\ pending' \in Seq(Disks)
      BY <1>1, <3>1, <3>3, <3>4 DEF DeleteEntry
    <3> QED
      BY <1>1, <2>1, <3>5 DEF FatTyped
  <2> QED
    BY <1>1, <1>8, <2>2, <2>3, DeleteEffect
<1>9. ASSUME ReadFile PROVE FatTyped'
  <2>1. PICK d \in Drivers, parent \in Reach : read(d, parent)
    BY <1>9 DEF ReadFile
  <2>2. cache' \in [Drivers -> Fats]
    BY <1>1, <2>1 DEF read
  <2> QED
    BY <1>1, <2>1, <2>2 DEF read, FatTyped
<1>10. ASSUME UNCHANGED fatVars PROVE FatTyped'
  BY <1>10 DEF fatVars, FatTyped
<1> QED
  BY <1>2, <1>3, <1>4, <1>6, <1>7, <1>8, <1>9, <1>10 DEF FatNext

\* The machine starts with a typed state.
LEMMA InitTyped == FatInit => FatTyped
  BY BlankDiskTyped, ZeroFatTyped DEF FatInit, FatTyped

-----------------------------------------------------------------------------
(* The cached FAT.                                                          *)

\* Files are written and deleted through one copy of the driver.
OneWriter == \A d, e \in Writers : d = e

\* The FAT on the disk once all is written.
FatToCome == IF pending = <<>> THEN disk.fat ELSE Last(pending).fat

\* A writer that has cached a FAT has cached the one that will be on the disk; one
\* that was loaded anew has none.
CacheInv ==
    /\ power = "off" => pending = <<>> /\ \A d \in Drivers : cache[d] = ZeroFat
    /\ power = "formatting" => pending # <<>>
    /\ \A d \in Writers : cache[d] # ZeroFat => cache[d] = FatToCome

\* Every operation keeps the writer's FAT that of the disk to come.
LEMMA CacheInvStep ==
    ASSUME OneWriter
    PROVE  FatTyped /\ CacheInv /\ [FatNext]_fatVars => CacheInv'
<1> SUFFICES ASSUME FatTyped, CacheInv, [FatNext]_fatVars PROVE CacheInv'
  OBVIOUS
<1>1. /\ disk \in Disks /\ pending \in Seq(Disks) /\ cache \in [Drivers -> Fats]
      /\ power \in {"on", "formatting", "off"} /\ Writers \subseteq Drivers
  BY FatConstants DEF FatTyped, Drivers
<1>2. ASSUME initialize_filesystem_fat32 PROVE CacheInv'
  <2>1. power = "off" /\ pending = <<>> /\ \A d \in Drivers : cache[d] = ZeroFat
    BY <1>2 DEF initialize_filesystem_fat32, CacheInv
  <2>2. CASE is_empty_storage
    <3>1. /\ pending' = create_fat32 /\ power' = "formatting"
          /\ cache' = [cache EXCEPT ![KernelDriver] = FormattedFat]
      BY <1>2, <2>2 DEF initialize_filesystem_fat32
    <3>2. create_fat32 # <<>> /\ Last(create_fat32).fat = FormattedFat
      <4>1. create_fat32 \in Seq(Disks) /\ Len(create_fat32) = 3
            /\ Last(create_fat32).fat = FormattedFat
        BY <1>1, CreateFacts
      <4> QED
        BY <4>1
    <3>3. ASSUME NEW d \in Writers, cache'[d] # ZeroFat PROVE cache'[d] = FormattedFat
      BY <1>1, <2>1, <3>1, <3>3
    <3>4. FatToCome' = FormattedFat
      BY <3>1, <3>2 DEF FatToCome
    <3> QED
      BY <3>1, <3>2, <3>3, <3>4 DEF CacheInv
  <2>3. CASE ~is_empty_storage
    <3>1. /\ pending' = pending /\ disk' = disk /\ power' = "on"
          /\ cache' = [cache EXCEPT ![KernelDriver] = disk.fat]
      BY <1>2, <2>3 DEF initialize_filesystem_fat32
    <3>2. ASSUME NEW d \in Writers, cache'[d] # ZeroFat PROVE cache'[d] = disk.fat
      BY <1>1, <2>1, <3>1, <3>2
    <3>3. FatToCome' = disk.fat
      BY <2>1, <3>1 DEF FatToCome
    <3> QED
      BY <3>1, <3>2, <3>3 DEF CacheInv
  <2> QED
    BY <2>2, <2>3
<1>3. ASSUME DiskWrite PROVE CacheInv'
  <2>1. /\ pending # <<>> /\ disk' = Head(pending) /\ pending' = Tail(pending)
        /\ power' = IF Tail(pending) = <<>> THEN "on" ELSE power
        /\ cache' = cache
    BY <1>3 DEF DiskWrite
  <2>2. power # "off"
    BY <2>1 DEF CacheInv
  <2>3. FatToCome' = FatToCome
    <3>1. CASE Tail(pending) = <<>>
      <4>1. \A s \in Seq(Disks) : s # <<>> =>
               /\ Len(s) \in Nat /\ Len(Tail(s)) = Len(s) - 1 /\ Head(s) = s[1]
        OBVIOUS
      <4>2. Len(pending) = 1 /\ Head(pending) = pending[1]
        <5>1. Len(Tail(pending)) = 0
          <6>1. Len(<<>>) = 0
            OBVIOUS
          <6> QED
            BY <3>1, <6>1, Zenon
        <5> QED
          BY <1>1, <2>1, <4>1, <5>1
      <4> QED
        BY <2>1, <3>1, <4>1, <4>2 DEF FatToCome, Last
    <3>2. CASE Tail(pending) # <<>>
      <4>1. Last(Tail(pending)) = Last(pending)
        BY <1>1, <2>1, <3>2 DEF Last
      <4> QED
        BY <2>1, <3>2, <4>1 DEF FatToCome
    <3> QED
      BY <3>1, <3>2
  <2> QED
    BY <2>1, <2>2, <2>3 DEF CacheInv
<1>4. ASSUME PowerOff PROVE CacheInv'
  BY <1>1, <1>4 DEF PowerOff, CacheInv
<1>5. ASSUME NEW d \in Writers, NEW parent, NEW name, NEW ext, NEW size, NEW buf,
             Request(parent, name, ext, size, buf),
             write(d, parent, name, ext, size, buf)
      PROVE  CacheInv'
  <2>1. UNCHANGED <<disk, power>> /\ power = "on" /\ pending = <<>>
    BY <1>1, <1>5, WriteEffect DEF Idle
  <2>2. \A e \in Writers : e = d
    BY DEF OneWriter
  <2>3. CASE pending' = pending /\ cache' = [cache EXCEPT ![d] = disk.fat]
    <3>1. cache'[d] = disk.fat /\ FatToCome' = disk.fat
      BY <1>1, <2>1, <2>3 DEF FatToCome
    <3> QED
      BY <2>1, <2>2, <3>1 DEF CacheInv
  <2>4. CASE \E numbers, slot :
                /\ Placed(parent, name, ext, size, buf, numbers, slot)
                /\ pending' = WriteDisks(parent, name, ext, size, buf)
                /\ cache' = [cache EXCEPT ![d] = Linked(disk.fat, numbers)]
    <3>1. PICK numbers, slot :
             /\ Placed(parent, name, ext, size, buf, numbers, slot)
             /\ pending' = WriteDisks(parent, name, ext, size, buf)
             /\ cache' = [cache EXCEPT ![d] = Linked(disk.fat, numbers)]
      BY <2>4
    <3>2. pending' # <<>> /\ Last(pending').fat = Linked(disk.fat, numbers)
      BY <1>1, <1>5, <3>1, PlacedWrites
    <3>3. cache'[d] = FatToCome'
      BY <1>1, <3>1, <3>2 DEF FatToCome
    <3> QED
      BY <2>1, <2>2, <3>3 DEF CacheInv
  <2> QED
    BY <1>1, <1>5, <2>3, <2>4, WriteEffect
<1>6. ASSUME WriteFile PROVE CacheInv'
  BY <1>1, <1>5, <1>6, WriteFileRequests
<1>7. ASSUME MakeDirectory PROVE CacheInv'
  BY <1>1, <1>5, <1>7, MakeDirectoryRequests
<1>8. ASSUME DeleteByName PROVE CacheInv'
  <2>1. UNCHANGED <<disk, power>> /\ power = "on" /\ pending = <<>>
    BY <1>1, <1>8, DeleteEffect DEF Idle
  <2>2. CASE UNCHANGED <<cache, pending>>
    BY <2>1, <2>2 DEF CacheInv, FatToCome
  <2>3. CASE \E d \in Writers, parent \in Reach, i \in Slots : DeleteEntry(d, parent, i)
    <3>1. PICK d \in Writers, parent \in Reach, i \in Slots : DeleteEntry(d, parent, i)
      BY <2>3
    <3>2. d \in Drivers /\ parent \in Clusters
      BY <1>1, ReachFacts DEF Reach
    <3> DEFINE freed == Freed(cache[d], disk.table[parent][i])
               table == [disk.table[parent] EXCEPT ![i].live = FALSE]
               writes == DeleteDisks(d, parent, i)
    <3>3. pending' = writes /\ cache'[d] = Cleared(cache[d], freed)
      BY <1>1, <3>1, <3>2 DEF DeleteEntry
    <3>4. writes \in Seq(Disks) /\ Len(writes) = 2
          /\ writes[2].fat = Cleared(cache[d], freed)
      <4>1. Unlists(writes, Cleared(cache[d], freed), parent, table)
        BY <1>1, <3>2, DeleteDisksFacts
      <4> HIDE DEF writes, freed, table
      <4> QED
        BY <4>1 DEF Unlists
    <3> HIDE DEF freed, writes
    <3>5. FatToCome' = Cleared(cache[d], freed)
      <4>1. \A s \in Seq(Disks) : Len(s) = 2 => s # <<>> /\ Last(s) = s[2]
        BY DEF Last
      <4>2. writes # <<>> /\ Last(writes) = writes[2]
        BY <3>4, <4>1
      <4> QED
        BY <3>3, <3>4, <4>2 DEF FatToCome
    <3>6. \A e \in Writers : e = d
      BY DEF OneWriter
    <3> QED
      BY <2>1, <3>3, <3>4, <3>5, <3>6 DEF CacheInv
  <2> QED
    BY <1>1, <1>8, <2>2, <2>3, DeleteEffect
<1>9. ASSUME ReadFile PROVE CacheInv'
  <2>1. PICK d \in Drivers, parent \in Reach : read(d, parent)
    BY <1>9 DEF ReadFile
  <2>2. UNCHANGED <<disk, pending, power>> /\ power = "on" /\ pending = <<>>
    BY <2>1 DEF read, Idle
  <2>3. \A e \in Drivers : cache'[e] = cache[e] \/ cache'[e] = disk.fat
    BY <1>1, <2>1 DEF read
  <2>4. FatToCome' = disk.fat /\ FatToCome = disk.fat
    BY <2>2 DEF FatToCome
  <2> QED
    BY <1>1, <2>2, <2>3, <2>4 DEF CacheInv
<1>10. ASSUME UNCHANGED fatVars PROVE CacheInv'
  BY <1>10 DEF fatVars, CacheInv, FatToCome
<1> QED
  BY <1>2, <1>3, <1>4, <1>6, <1>7, <1>8, <1>9, <1>10 DEF FatNext

\* Nothing is cached at the start.
LEMMA InitCached == FatInit => CacheInv
  BY FatConstants DEF FatInit, CacheInv, Drivers

\* The FAT that a delete writes back is the disk's, wherever the power failed and
\* through whichever copy was read, as long as one copy writes and it has read.
THEOREM CacheIsCurrent ==
    ASSUME OneWriter
    PROVE  FatSpec => []CacheCurrent
<1>1. FatInit => FatTyped /\ CacheInv
  BY InitTyped, InitCached
<1>2. FatTyped /\ CacheInv /\ [FatNext]_fatVars => FatTyped' /\ CacheInv'
  BY FatTypedStep, CacheInvStep
<1>3. CacheInv => CacheCurrent
  BY DEF CacheInv, CacheCurrent, FatToCome, Idle
<1> QED
  BY <1>1, <1>2, <1>3, PTL DEF FatSpec
-----------------------------------------------------------------------------
(* Chains and directories.                                                  *)

\* A live place and its entry.
LEMMA PlaceFacts ==
    ASSUME NEW d \in Disks, NEW p \in LivePlaces(d)
    PROVE  /\ p[1] \in Clusters /\ p[2] \in UserSlots /\ p = <<p[1], p[2]>>
           /\ Entry(d, p) = d.table[p[1]][p[2]]
           /\ Entry(d, p) \in Entries /\ Entry(d, p).live /\ Entry(d, p).cluster \in Clusters
<1>1. p[1] \in Clusters /\ p[2] \in UserSlots /\ p = <<p[1], p[2]>>
      /\ d.table[p[1]][p[2]].live
  BY DEF LivePlaces
<1>2. d.table[p[1]][p[2]] \in Entries
  BY <1>1, ClusterFacts DEF Disks, Tables
<1> QED
  BY <1>1, <1>2 DEF Entry, Entries

\* The converse: what lies where it may lie is a live place.
LEMMA PlaceMade ==
    ASSUME NEW d, NEW c \in Clusters, NEW i \in UserSlots, d.table[c][i].live
    PROVE  <<c, i>> \in LivePlaces(d) /\ Entry(d, <<c, i>>) = d.table[c][i]
  BY DEF LivePlaces, Entry

\* What is listed holds no free cluster, and the FAT may change elsewhere.
LEMMA ListedKept ==
    ASSUME NEW d \in Disks, AllChained(d), NEW f \in Fats, NEW p \in LivePlaces(d),
           \A c \in Held(d.fat, Entry(d, p)) : f[c] = d.fat[c]
    PROVE  Chained(f, Entry(d, p)) /\ Held(f, Entry(d, p)) = Held(d.fat, Entry(d, p))
<1>1. d.fat \in Fats /\ Entry(d, p).cluster \in Clusters /\ Chained(d.fat, Entry(d, p))
  BY PlaceFacts DEF Disks, AllChained
<1> QED
  BY <1>1, ChainKept

\* What a live entry holds is in use.
LEMMA ListedNotFree ==
    ASSUME NEW d \in Disks, AllChained(d), NEW p \in LivePlaces(d)
    PROVE  /\ Entry(d, p).cluster \in Held(d.fat, Entry(d, p))
           /\ \A c \in Held(d.fat, Entry(d, p)) :
                 c \in UserClusters /\ c \in Clusters /\ c \notin FreeClusters(d.fat)
<1>1. d.fat \in Fats /\ Entry(d, p).cluster \in Clusters /\ Chained(d.fat, Entry(d, p))
  BY PlaceFacts DEF Disks, AllChained
<1>2. /\ Entry(d, p).cluster \in Held(d.fat, Entry(d, p))
      /\ \A c \in Held(d.fat, Entry(d, p)) : c \in UserClusters /\ d.fat[c] # EMPTY_ENTRY
  BY <1>1, HeldFacts
<1> QED
  BY <1>2, ClusterFacts DEF FreeClusters

\* A directory table without entries.
EmptyTable(t) == (\A i \in UserSlots : ~t[i].live) /\ (t[1].live => t[1].name = DotDot)

\* Where only free clusters are written, nothing is listed that was not.
LEMMA ContentsPlaces ==
    ASSUME NEW d \in Disks, NEW w \in Disks, NEW t, EmptyTable(t),
           \A c \in Clusters :
              w.table[c] = d.table[c] \/ (c \in FreeClusters(d.fat) /\ w.table[c] = t)
    PROVE  \A p \in LivePlaces(w) : p \in LivePlaces(d) /\ Entry(w, p) = Entry(d, p)
<1> SUFFICES ASSUME NEW p \in LivePlaces(w)
             PROVE  p \in LivePlaces(d) /\ Entry(w, p) = Entry(d, p)
  OBVIOUS
<1>1. p[1] \in Clusters /\ p[2] \in UserSlots /\ p = <<p[1], p[2]>>
      /\ Entry(w, p) = w.table[p[1]][p[2]] /\ Entry(w, p).live
  BY PlaceFacts
<1>2. w.table[p[1]] = d.table[p[1]]
  BY <1>1 DEF EmptyTable
<1>3. d.table[p[1]][p[2]].live
  BY <1>1, <1>2
<1>4. <<p[1], p[2]>> \in LivePlaces(d)
      /\ Entry(d, <<p[1], p[2]>>) = d.table[p[1]][p[2]]
  BY <1>1, <1>3, PlaceMade
<1> QED
  BY <1>1, <1>2, <1>4

\* Writing free clusters, and their values in the FAT, disturbs nothing that is
\* listed.
LEMMA ContentsSound ==
    ASSUME NEW d \in Disks, DiskSound(d), NEW w \in Disks, w.signed = d.signed,
           NEW t, EmptyTable(t),
           \A c \in Clusters : c \notin FreeClusters(d.fat) => w.fat[c] = d.fat[c],
           \A c \in Clusters :
              w.table[c] = d.table[c] \/ (c \in FreeClusters(d.fat) /\ w.table[c] = t)
    PROVE  DiskSound(w)
<1>1. AllChained(d) /\ AllApart(d) /\ AllRooted(d) /\ ParentsNamed(d) /\ UnsignedIsEmpty(d)
      /\ w.fat \in Fats
  BY DEF DiskSound, Disks
<1>2. \A p \in LivePlaces(w) : p \in LivePlaces(d) /\ Entry(w, p) = Entry(d, p)
  BY ContentsPlaces
<1>3. ASSUME NEW p \in LivePlaces(d)
      PROVE  /\ Chained(w.fat, Entry(d, p))
             /\ Held(w.fat, Entry(d, p)) = Held(d.fat, Entry(d, p))
  <2>1. \A c \in Held(d.fat, Entry(d, p)) : w.fat[c] = d.fat[c]
    BY <1>1, ListedNotFree
  <2> QED
    BY <1>1, <2>1, ListedKept
<1>4. AllChained(w)
  BY <1>2, <1>3 DEF AllChained
<1>5. AllApart(w)
  BY <1>1, <1>2, <1>3 DEF AllApart
<1>6. AllRooted(w)
  <2> SUFFICES ASSUME NEW p \in LivePlaces(w), Entry(w, p).dir
               PROVE  /\ IsDirectoryTable(w, Entry(w, p).cluster)
                      /\ w.table[Entry(w, p).cluster][1].cluster = p[1]
    BY DEF AllRooted
  <2>1. p \in LivePlaces(d) /\ Entry(w, p) = Entry(d, p)
    BY <1>2
  <2>2. Entry(d, p).cluster \in Clusters /\ Entry(d, p).cluster \notin FreeClusters(d.fat)
    BY <1>1, <2>1, ListedNotFree
  <2>3. w.table[Entry(d, p).cluster] = d.table[Entry(d, p).cluster]
    BY <2>2
  <2> QED
    BY <1>1, <2>1, <2>3 DEF AllRooted, IsDirectoryTable
<1>7. ParentsNamed(w)
  BY <1>1 DEF ParentsNamed, EmptyTable
<1>8. UnsignedIsEmpty(w)
  BY <1>1, <1>2 DEF UnsignedIsEmpty
<1> QED
  BY <1>4, <1>5, <1>6, <1>7, <1>8 DEF DiskSound

\* From disk d to disk w the table of parent gets an entry for a chain through
\* clusters that were free.
EntryAdded(d, w, r, numbers, parent, slot, entry, t, table) ==
    /\ r \in 1 .. ClusterMapSize /\ numbers \in [1 .. r -> FreeClusters(d.fat)]
    /\ \A c \in Clusters : c \notin FreeClusters(d.fat) => w.fat[c] = d.fat[c]
    /\ \A k \in 1 .. r :
          w.fat[numbers[k]] = IF k = r THEN END_OF_FILE ELSE numbers[k + 1]
    /\ parent \in Clusters /\ parent \notin FreeClusters(d.fat) /\ slot \in UserSlots
    /\ entry \in Entries /\ entry.live /\ entry.cluster = numbers[1]
    /\ ChainLength(entry) = r
    /\ EmptyTable(t) /\ (entry.dir => t[0].live /\ t[0].dir /\ t[1].cluster = parent)
    /\ table = [d.table[parent] EXCEPT ![slot] = entry]
    /\ \A c \in Clusters :
          w.table[c] = IF c = parent THEN table
                       ELSE IF c \in Range(numbers) THEN t ELSE d.table[c]

\* From cluster c the FAT leads through numbers.
Leads(fat, c, r, numbers) == \A k \in 1 .. r : At(fat, c, k - 1) = numbers[k]

\* The tables of the two disks, and what is listed in them.
EntryListed(d, w, parent, slot, entry, table) ==
    /\ \A i \in Slots : table[i] = IF i = slot THEN entry ELSE d.table[parent][i]
    /\ table[0] = d.table[parent][0] /\ table[1] = d.table[parent][1]
    /\ \A c \in Clusters :
          (c # parent /\ c \notin FreeClusters(d.fat)) => w.table[c] = d.table[c]
    /\ w.table[parent] = table
    /\ Entry(w, <<parent, slot>>) = entry
    /\ \A p \in LivePlaces(w) :
          p # <<parent, slot>> => p \in LivePlaces(d) /\ Entry(w, p) = Entry(d, p)

\* An added entry is where it was put, and no other entry is new or changed.
LEMMA EntryPlaces ==
    ASSUME NEW d \in Disks, NEW w \in Disks,
           NEW r, NEW numbers, NEW parent, NEW slot, NEW entry, NEW t, NEW table,
           EntryAdded(d, w, r, numbers, parent, slot, entry, t, table)
    PROVE  EntryListed(d, w, parent, slot, entry, table)
<1> /\ r \in 1 .. ClusterMapSize /\ numbers \in [1 .. r -> FreeClusters(d.fat)]
    /\ \A c \in Clusters : c \notin FreeClusters(d.fat) => w.fat[c] = d.fat[c]
    /\ \A k \in 1 .. r :
          w.fat[numbers[k]] = IF k = r THEN END_OF_FILE ELSE numbers[k + 1]
    /\ parent \in Clusters /\ parent \notin FreeClusters(d.fat) /\ slot \in UserSlots
    /\ entry \in Entries /\ entry.live /\ entry.cluster = numbers[1]
    /\ ChainLength(entry) = r
    /\ EmptyTable(t) /\ (entry.dir => t[0].live /\ t[0].dir /\ t[1].cluster = parent)
    /\ table = [d.table[parent] EXCEPT ![slot] = entry]
    /\ \A c \in Clusters :
          w.table[c] = IF c = parent THEN table
                       ELSE IF c \in Range(numbers) THEN t ELSE d.table[c]
  BY DEF EntryAdded
<1> DEFINE new == <<parent, slot>>
<1>1. d.table[parent] \in Tables
  BY DEF Disks
<1>2. \A c \in Range(numbers) : c \in FreeClusters(d.fat)
  BY DEF Range
<1>3. /\ \A i \in Slots : table[i] = IF i = slot THEN entry ELSE d.table[parent][i]
      /\ table[0] = d.table[parent][0] /\ table[1] = d.table[parent][1]
      /\ \A c \in Clusters :
            (c # parent /\ c \notin FreeClusters(d.fat)) => w.table[c] = d.table[c]
      /\ w.table[parent] = table
  <2>1. DOMAIN d.table[parent] = Slots
    BY <1>1 DEF Tables
  <2>2. \A i \in Slots : table[i] = IF i = slot THEN entry ELSE d.table[parent][i]
    BY <2>1
  <2>3. 0 \in Slots /\ 1 \in Slots /\ 0 # slot /\ 1 # slot
    BY ClusterFacts
  <2>4. table[0] = d.table[parent][0] /\ table[1] = d.table[parent][1]
    BY <2>2, <2>3
  <2> QED
    BY <1>2, <2>2, <2>4
<1>4. ASSUME NEW p \in LivePlaces(w), p # new
      PROVE  p \in LivePlaces(d) /\ Entry(w, p) = Entry(d, p)
  <2>1. p[1] \in Clusters /\ p[2] \in UserSlots /\ p = <<p[1], p[2]>>
        /\ Entry(w, p) = w.table[p[1]][p[2]] /\ Entry(w, p).live
    BY PlaceFacts
  <2>2. w.table[p[1]][p[2]] = d.table[p[1]][p[2]]
    <3>1. CASE p[1] = parent
      <4>1. p[2] # slot /\ p[2] \in Slots
        BY <1>4, <2>1, <3>1, ClusterFacts
      <4>2. table[p[2]] = d.table[parent][p[2]]
        BY <1>3, <4>1
      <4>3. w.table[p[1]] = table /\ d.table[p[1]] = d.table[parent]
        BY <1>3, <3>1
      <4> QED
        BY <4>2, <4>3
    <3>2. CASE p[1] # parent
      <4>1. p[1] \notin Range(numbers)
        BY <2>1, <3>2 DEF EmptyTable
      <4> QED
        BY <2>1, <3>2, <4>1
    <3> QED
      BY <3>1, <3>2
  <2>3. d.table[p[1]][p[2]].live
    BY <2>1, <2>2
  <2>4. <<p[1], p[2]>> \in LivePlaces(d)
        /\ Entry(d, <<p[1], p[2]>>) = d.table[p[1]][p[2]]
    BY <2>1, <2>3, PlaceMade
  <2> QED
    BY <2>1, <2>2, <2>4
<1>5. Entry(w, new) = entry /\ new[1] = parent
  <2>1. table[slot] = entry
    BY <1>3, ClusterFacts
  <2>2. Entry(w, new) = w.table[parent][slot]
    BY DEF Entry
  <2> QED
    BY <1>3, <2>1, <2>2
<1> QED
  BY <1>3, <1>4, <1>5 DEF EntryListed

\* Such an entry is sound, its chain the clusters written, and so are the others.
LEMMA EntrySound ==
    ASSUME NEW d \in Disks, DiskSound(d), d.signed, NEW w \in Disks, w.signed = d.signed,
           NEW r, NEW numbers, NEW parent, NEW slot, NEW entry, NEW t, NEW table,
           EntryAdded(d, w, r, numbers, parent, slot, entry, t, table)
    PROVE  DiskSound(w) /\ Leads(w.fat, entry.cluster, r, numbers)
<1> /\ r \in 1 .. ClusterMapSize /\ numbers \in [1 .. r -> FreeClusters(d.fat)]
    /\ \A c \in Clusters : c \notin FreeClusters(d.fat) => w.fat[c] = d.fat[c]
    /\ \A k \in 1 .. r :
          w.fat[numbers[k]] = IF k = r THEN END_OF_FILE ELSE numbers[k + 1]
    /\ parent \in Clusters /\ parent \notin FreeClusters(d.fat) /\ slot \in UserSlots
    /\ entry \in Entries /\ entry.live /\ entry.cluster = numbers[1]
    /\ ChainLength(entry) = r
    /\ EmptyTable(t) /\ (entry.dir => t[0].live /\ t[0].dir /\ t[1].cluster = parent)
    /\ table = [d.table[parent] EXCEPT ![slot] = entry]
    /\ \A c \in Clusters :
          w.table[c] = IF c = parent THEN table
                       ELSE IF c \in Range(numbers) THEN t ELSE d.table[c]
  BY DEF EntryAdded
<1> DEFINE new == <<parent, slot>>
<1>1. AllChained(d) /\ AllApart(d) /\ AllRooted(d) /\ ParentsNamed(d)
      /\ w.fat \in Fats /\ d.table[parent] \in Tables
  BY DEF DiskSound, Disks
<1>2. /\ Range(numbers) = {numbers[k] : k \in 1 .. r}
      /\ \A k \in 1 .. r : numbers[k] \in FreeClusters(d.fat)
                           /\ numbers[k] \in UserClusters /\ numbers[k] \in Clusters
      /\ r \in Nat /\ r >= 1 /\ ClusterMapSize \in Nat
  BY FatConstants DEF Range, FreeClusters, UserClusters
<1>3. /\ \A i \in Slots : table[i] = IF i = slot THEN entry ELSE d.table[parent][i]
      /\ table[0] = d.table[parent][0] /\ table[1] = d.table[parent][1]
      /\ \A c \in Clusters :
            (c # parent /\ c \notin FreeClusters(d.fat)) => w.table[c] = d.table[c]
      /\ Entry(w, new) = entry /\ new[1] = parent
      /\ \A p \in LivePlaces(w) :
            p # new => p \in LivePlaces(d) /\ Entry(w, p) = Entry(d, p)
  <2>1. EntryListed(d, w, parent, slot, entry, table)
    BY EntryPlaces
  <2> QED
    BY <2>1 DEF EntryListed
<1> HIDE DEF new
<1>6. ASSUME NEW p \in LivePlaces(d)
      PROVE  /\ Chained(w.fat, Entry(d, p))
             /\ Held(w.fat, Entry(d, p)) = Held(d.fat, Entry(d, p))
             /\ \A c \in Held(d.fat, Entry(d, p)) : c \notin FreeClusters(d.fat)
  <2>1. \A c \in Held(d.fat, Entry(d, p)) :
           w.fat[c] = d.fat[c] /\ c \notin FreeClusters(d.fat)
    BY <1>1, ListedNotFree
  <2> QED
    BY <1>1, <2>1, ListedKept
<1>7. /\ Chained(w.fat, entry)
      /\ \A c \in Held(w.fat, entry) : c \in FreeClusters(d.fat)
      /\ Leads(w.fat, entry.cluster, r, numbers)
  <2> DEFINE at(k) == At(w.fat, entry.cluster, k)
             T == {k \in 0 .. r - 1 : at(k) = numbers[k + 1]}
  <2>1. entry.cluster \in FatValues
    BY ClusterFacts DEF Entries
  <2>2. /\ at(0) = entry.cluster
        /\ \A k \in 1 .. ClusterMapSize :
              at(k) = IF at(k - 1) \in Clusters THEN w.fat[at(k - 1)] ELSE at(k - 1)
    BY <1>1, <2>1, AtSteps
  <2> HIDE DEF at
  <2>3. 0 \in T
    BY <1>2, <2>2
  <2>4. ASSUME NEW k \in 0 .. (r - 1) - 1, k \in T PROVE k + 1 \in T
    <3>1. k + 1 \in 1 .. r /\ k + 1 # r /\ k + 1 \in 0 .. r - 1 /\ (k + 1) - 1 = k
          /\ k + 1 \in 1 .. ClusterMapSize
      BY <1>2
    <3>2. at(k) = numbers[k + 1] /\ numbers[k + 1] \in Clusters
      BY <1>2, <2>4, <3>1
    <3>3. at(k + 1) = w.fat[numbers[k + 1]]
      BY <2>2, <3>1, <3>2
    <3>4. at(k + 1) = numbers[(k + 1) + 1]
      BY <3>1, <3>3
    <3> QED
      BY <3>1, <3>4
  <2>5. \A k \in 0 .. r - 1 : at(k) = numbers[k + 1]
    <3> HIDE DEF T
    <3>1. 0 .. r - 1 \subseteq T
      <4>1. r - 1 \in Nat
        BY <1>2
      <4> QED
        BY <2>3, <2>4, <4>1, IntervalInduction
    <3> QED
      BY <3>1 DEF T
  <2>6. at(r) = END_OF_FILE
    <3>1. r - 1 \in 0 .. r - 1 /\ (r - 1) + 1 = r /\ r \in 1 .. r
      BY <1>2
    <3>2. at(r - 1) = numbers[r] /\ numbers[r] \in Clusters
      BY <1>2, <2>5, <3>1
    <3>3. w.fat[numbers[r]] = END_OF_FILE
      BY <3>1
    <3> QED
      BY <1>2, <2>2, <3>2, <3>3
  <2>7. ASSUME NEW k \in 0 .. r - 1
        PROVE  at(k) \in UserClusters /\ at(k) \in FreeClusters(d.fat)
    <3>1. k + 1 \in 1 .. r
      BY <1>2
    <3> QED
      BY <1>2, <2>5, <3>1
  <2>8. ASSUME NEW k \in 1 .. r PROVE at(k - 1) = numbers[k]
    <3>1. k - 1 \in 0 .. r - 1 /\ (k - 1) + 1 = k
      BY <1>2
    <3> QED
      BY <2>5, <3>1
  <2> QED
    BY <1>2, <2>6, <2>7, <2>8 DEF Chained, Held, Leads, at
<1>8. AllChained(w)
  BY <1>3, <1>6, <1>7 DEF AllChained
<1>9. AllApart(w)
  <2> SUFFICES ASSUME NEW p \in LivePlaces(w), NEW q \in LivePlaces(w), p # q
               PROVE  Held(w.fat, Entry(w, p)) \cap Held(w.fat, Entry(w, q)) = {}
    BY DEF AllApart
  <2>1. CASE p = new
    BY <1>3, <1>6, <1>7, <2>1
  <2>2. CASE q = new
    BY <1>3, <1>6, <1>7, <2>2
  <2>3. CASE p # new /\ q # new
    BY <1>1, <1>3, <1>6, <2>3 DEF AllApart
  <2> QED
    BY <2>1, <2>2, <2>3
<1>10. AllRooted(w)
  <2> SUFFICES ASSUME NEW p \in LivePlaces(w), Entry(w, p).dir
               PROVE  /\ IsDirectoryTable(w, Entry(w, p).cluster)
                      /\ w.table[Entry(w, p).cluster][1].cluster = p[1]
    BY DEF AllRooted
  <2>1. CASE p = new
    <3>1. 1 \in 1 .. r /\ numbers[1] \in Range(numbers) /\ numbers[1] # parent
      BY <1>2
    <3>2. w.table[numbers[1]] = t
      BY <1>2, <3>1
    <3> QED
      BY <1>3, <2>1, <3>2 DEF IsDirectoryTable
  <2>2. CASE p # new
    <3>1. p \in LivePlaces(d) /\ Entry(w, p) = Entry(d, p)
      BY <1>3, <2>2
    <3>2. Entry(d, p).cluster \in Clusters /\ Entry(d, p).cluster \notin FreeClusters(d.fat)
      BY <1>1, <3>1, ListedNotFree
    <3>3. w.table[Entry(d, p).cluster][0] = d.table[Entry(d, p).cluster][0]
          /\ w.table[Entry(d, p).cluster][1] = d.table[Entry(d, p).cluster][1]
      BY <1>3, <3>2
    <3> QED
      BY <1>1, <3>1, <3>3 DEF AllRooted, IsDirectoryTable
  <2> QED
    BY <2>1, <2>2
<1>11. ParentsNamed(w)
  <2> SUFFICES ASSUME NEW c \in Clusters, w.table[c][1].live
               PROVE  w.table[c][1].name = DotDot
    BY DEF ParentsNamed
  <2>1. \/ w.table[c] = t
        \/ w.table[c] = d.table[c]
        \/ w.table[c] = table /\ c = parent
    OBVIOUS
  <2>2. w.table[c] = t \/ w.table[c][1] = d.table[c][1]
    BY <1>3, <2>1
  <2> QED
    BY <1>1, <2>2 DEF ParentsNamed, EmptyTable
<1>12. UnsignedIsEmpty(w)
  BY DEF UnsignedIsEmpty
<1> QED
  BY <1>7, <1>8, <1>9, <1>10, <1>11, <1>12 DEF DiskSound

\* From disk d to disk w the table of parent loses an entry, and the FAT no more than
\* the clusters of that entry.
EntryRemoved(d, w, parent, i, table) ==
    /\ parent \in Clusters /\ i \in UserSlots /\ d.table[parent][i].live
    /\ \A c \in Clusters : c \notin Held(d.fat, d.table[parent][i]) => w.fat[c] = d.fat[c]
    /\ table = [d.table[parent] EXCEPT ![i].live = FALSE]
    /\ \A c \in Clusters : w.table[c] = IF c = parent THEN table ELSE d.table[c]

\* The tables of the two disks, and what is listed in them.
EntryUnlisted(d, w, parent, i, table) ==
    /\ \A j \in Slots : j # i => table[j] = d.table[parent][j]
    /\ ~table[i].live
    /\ \A c \in Clusters : w.table[c][0] = d.table[c][0] /\ w.table[c][1] = d.table[c][1]
    /\ <<parent, i>> \in LivePlaces(d)
    /\ Entry(d, <<parent, i>>) = d.table[parent][i]
    /\ \A p \in LivePlaces(w) :
          p \in LivePlaces(d) /\ Entry(w, p) = Entry(d, p) /\ p # <<parent, i>>

\* A removed entry is gone, and no other entry is lost or changed.
LEMMA RemovalPlaces ==
    ASSUME NEW d \in Disks, NEW w \in Disks, NEW parent, NEW i, NEW table,
           EntryRemoved(d, w, parent, i, table)
    PROVE  EntryUnlisted(d, w, parent, i, table)
<1> /\ parent \in Clusters /\ i \in UserSlots /\ d.table[parent][i].live
    /\ \A c \in Clusters : c \notin Held(d.fat, d.table[parent][i]) => w.fat[c] = d.fat[c]
    /\ table = [d.table[parent] EXCEPT ![i].live = FALSE]
    /\ \A c \in Clusters : w.table[c] = IF c = parent THEN table ELSE d.table[c]
  BY DEF EntryRemoved
<1> DEFINE old == <<parent, i>>
<1>1. d.table[parent] \in Tables
  BY DEF Disks
<1>2. /\ \A j \in Slots : j # i => table[j] = d.table[parent][j]
      /\ ~table[i].live
      /\ \A c \in Clusters : w.table[c][0] = d.table[c][0] /\ w.table[c][1] = d.table[c][1]
  <2>1. DOMAIN d.table[parent] = Slots /\ i \in Slots /\ d.table[parent][i] \in Entries
    BY <1>1, ClusterFacts DEF Tables
  <2>2. table[i] = [d.table[parent][i] EXCEPT !.live = FALSE]
    BY <2>1
  <2>3. ~table[i].live
    BY <2>1, <2>2 DEF Entries
  <2>4. \A j \in Slots : j # i => table[j] = d.table[parent][j]
    BY <2>1
  <2>5. table[0] = d.table[parent][0] /\ table[1] = d.table[parent][1]
    BY <2>4, ClusterFacts
  <2> QED
    BY <2>3, <2>4, <2>5
<1>3. old \in LivePlaces(d) /\ Entry(d, old) = d.table[parent][i]
  BY PlaceMade
<1>4. ASSUME NEW p \in LivePlaces(w)
      PROVE  p \in LivePlaces(d) /\ Entry(w, p) = Entry(d, p) /\ p # old
  <2>1. p[1] \in Clusters /\ p[2] \in UserSlots /\ p = <<p[1], p[2]>>
        /\ Entry(w, p) = w.table[p[1]][p[2]] /\ Entry(w, p).live
    BY PlaceFacts
  <2>2. p # old
    <3>1. CASE p[1] = parent
      <4>1. Entry(w, p) = table[p[2]]
        BY <2>1, <3>1
      <4>2. p[2] # i
        BY <1>2, <2>1, <4>1
      <4> QED
        BY <4>2
    <3>2. CASE p[1] # parent
      BY <3>2
    <3> QED
      BY <3>1, <3>2
  <2>3. w.table[p[1]][p[2]] = d.table[p[1]][p[2]]
    <3>1. CASE p[1] = parent
      <4>1. p[2] # i /\ p[2] \in Slots
        BY <2>1, <2>2, <3>1, ClusterFacts
      <4>2. table[p[2]] = d.table[parent][p[2]]
        BY <1>2, <4>1
      <4>3. w.table[parent] = table
        OBVIOUS
      <4> QED
        BY <3>1, <4>2, <4>3
    <3>2. CASE p[1] # parent
      BY <2>1, <3>2
    <3> QED
      BY <3>1, <3>2
  <2>4. <<p[1], p[2]>> \in LivePlaces(d)
        /\ Entry(d, <<p[1], p[2]>>) = d.table[p[1]][p[2]]
    <3>1. d.table[p[1]][p[2]].live
      BY <2>1, <2>3
    <3>2. PICK c \in Clusters, j \in UserSlots : c = p[1] /\ j = p[2]
      BY <2>1
    <3>3. d.table[c][j].live
      BY <3>1, <3>2
    <3>4. <<c, j>> \in LivePlaces(d) /\ Entry(d, <<c, j>>) = d.table[c][j]
      BY <3>3, PlaceMade
    <3> QED
      BY <3>2, <3>4
  <2>5. p \in LivePlaces(d) /\ Entry(d, p) = d.table[p[1]][p[2]]
    BY <2>1, <2>4
  <2> QED
    BY <2>1, <2>2, <2>3, <2>5
<1> QED
  BY <1>2, <1>3, <1>4 DEF EntryUnlisted

\* The other entries do not notice.
LEMMA DeletionSound ==
    ASSUME NEW d \in Disks, DiskSound(d), d.signed, NEW w \in Disks, w.signed = d.signed,
           NEW parent, NEW i, NEW table, EntryRemoved(d, w, parent, i, table)
    PROVE  DiskSound(w)
<1> /\ parent \in Clusters /\ i \in UserSlots /\ d.table[parent][i].live
    /\ \A c \in Clusters : c \notin Held(d.fat, d.table[parent][i]) => w.fat[c] = d.fat[c]
    /\ table = [d.table[parent] EXCEPT ![i].live = FALSE]
    /\ \A c \in Clusters : w.table[c] = IF c = parent THEN table ELSE d.table[c]
  BY DEF EntryRemoved
<1> DEFINE old == <<parent, i>>
<1>1. AllChained(d) /\ AllApart(d) /\ AllRooted(d) /\ ParentsNamed(d)
      /\ w.fat \in Fats /\ d.table[parent] \in Tables
  BY DEF DiskSound, Disks
<1>2. /\ \A c \in Clusters : w.table[c][0] = d.table[c][0] /\ w.table[c][1] = d.table[c][1]
      /\ old \in LivePlaces(d) /\ Entry(d, old) = d.table[parent][i]
      /\ \A p \in LivePlaces(w) :
            p \in LivePlaces(d) /\ Entry(w, p) = Entry(d, p) /\ p # old
  <2>1. EntryUnlisted(d, w, parent, i, table)
    BY RemovalPlaces
  <2> QED
    BY <2>1 DEF EntryUnlisted
<1> HIDE DEF old
<1>5. ASSUME NEW p \in LivePlaces(d), p # old
      PROVE  /\ Chained(w.fat, Entry(d, p))
             /\ Held(w.fat, Entry(d, p)) = Held(d.fat, Entry(d, p))
  <2>1. Held(d.fat, Entry(d, p)) \cap Held(d.fat, d.table[parent][i]) = {}
    BY <1>1, <1>2, <1>5 DEF AllApart
  <2>2. \A c \in Held(d.fat, Entry(d, p)) : c \in Clusters
    BY <1>1, ListedNotFree
  <2>3. \A c \in Held(d.fat, Entry(d, p)) : w.fat[c] = d.fat[c]
    BY <2>1, <2>2
  <2> QED
    BY <1>1, <2>3, ListedKept
<1>6. AllChained(w)
  BY <1>2, <1>5 DEF AllChained
<1>7. AllApart(w)
  <2> SUFFICES ASSUME NEW p \in LivePlaces(w), NEW q \in LivePlaces(w), p # q
               PROVE  Held(w.fat, Entry(w, p)) \cap Held(w.fat, Entry(w, q)) = {}
    BY DEF AllApart
  <2>1. Held(w.fat, Entry(w, p)) = Held(d.fat, Entry(d, p)) /\ p \in LivePlaces(d)
    BY <1>2, <1>5
  <2>2. Held(w.fat, Entry(w, q)) = Held(d.fat, Entry(d, q)) /\ q \in LivePlaces(d)
    BY <1>2, <1>5
  <2> QED
    BY <1>1, <2>1, <2>2 DEF AllApart
<1>8. AllRooted(w)
  <2> SUFFICES ASSUME NEW p \in LivePlaces(w), Entry(w, p).dir
               PROVE  /\ IsDirectoryTable(w, Entry(w, p).cluster)
                      /\ w.table[Entry(w, p).cluster][1].cluster = p[1]
    BY DEF AllRooted
  <2>1. p \in LivePlaces(d) /\ Entry(w, p) = Entry(d, p)
        /\ Entry(d, p).cluster \in Clusters
    BY <1>2, PlaceFacts
  <2> QED
    BY <1>1, <1>2, <2>1 DEF AllRooted, IsDirectoryTable
<1>9. ParentsNamed(w)
  BY <1>1, <1>2 DEF ParentsNamed
<1>10. UnsignedIsEmpty(w)
  BY DEF UnsignedIsEmpty
<1> QED
  BY <1>6, <1>7, <1>8, <1>9, <1>10 DEF DiskSound

\* Directories programs walk to are in use.
LEMMA ReachInUse ==
    ASSUME NEW d \in Disks, DiskSound(d), NEW x \in DirectoryClusters(d)
    PROVE  x \in Clusters /\ d.signed /\ x \notin FreeClusters(d.fat)
<1>1. /\ x \in Clusters /\ d.signed
      /\ \/ x = ROOT_CLUSTER_NUMBER
         \/ \E p \in LivePlaces(d) : Entry(d, p).dir /\ Entry(d, p).cluster = x
  BY ReachFacts
<1>2. CASE x = ROOT_CLUSTER_NUMBER
  <2>1. x \notin FreeClusters(d.fat)
    BY <1>2, ClusterFacts DEF FreeClusters
  <2> QED
    BY <1>1, <2>1
<1>3. CASE \E p \in LivePlaces(d) : Entry(d, p).cluster = x
  <2>1. AllChained(d)
    BY DEF DiskSound
  <2>2. x \notin FreeClusters(d.fat)
    BY <1>3, <2>1, ListedNotFree
  <2> QED
    BY <1>1, <2>2
<1> QED
  BY <1>1, <1>2, <1>3

\* A disk without the signature lists nothing, nor do the disks of its formatting.
LEMMA FormatSound ==
    ASSUME disk \in Disks, DiskSound(disk), ~disk.signed
    PROVE  \A k \in 1 .. Len(create_fat32) :
              DiskSound(create_fat32[k]) /\ LivePlaces(create_fat32[k]) = {}
<1> DEFINE root == init_directory_table(RootName, ROOT_CLUSTER_NUMBER, NoExt)
<1>1. /\ create_fat32 \in Seq(Disks) /\ Len(create_fat32) = 3
      /\ create_fat32[1].table = disk.table /\ create_fat32[2].table = disk.table
      /\ \A c \in Clusters :
            create_fat32[3].table[c] = IF c = ROOT_CLUSTER_NUMBER THEN root ELSE disk.table[c]
  BY CreateFacts
<1>2. root[1].name = DotDot /\ \A i \in UserSlots : ~root[i].live
  BY FatConstants, ClusterFacts, NewTableFacts
<1> HIDE DEF root
<1>3. ASSUME NEW w \in Disks,
             \A c \in Clusters : w.table[c] = disk.table[c] \/ w.table[c] = root
      PROVE  DiskSound(w) /\ LivePlaces(w) = {}
  <2>1. LivePlaces(disk) = {} /\ ParentsNamed(disk)
    BY DEF DiskSound, UnsignedIsEmpty
  <2>2. ASSUME NEW p \in LivePlaces(w) PROVE FALSE
    <3>1. p[1] \in Clusters /\ p[2] \in UserSlots
          /\ Entry(w, p) = w.table[p[1]][p[2]] /\ Entry(w, p).live
      BY PlaceFacts
    <3>2. w.table[p[1]] = disk.table[p[1]]
      BY <1>2, <1>3, <3>1
    <3>3. <<p[1], p[2]>> \in LivePlaces(disk)
      BY <3>1, <3>2, PlaceMade
    <3> QED
      BY <2>1, <3>3
  <2>3. ParentsNamed(w)
    BY <1>2, <1>3, <2>1 DEF ParentsNamed
  <2> QED
    BY <2>2, <2>3
       DEF DiskSound, AllChained, AllApart, AllRooted, UnsignedIsEmpty
<1>4. ASSUME NEW k \in 1 .. 3
      PROVE  DiskSound(create_fat32[k]) /\ LivePlaces(create_fat32[k]) = {}
  <2>1. k = 1 \/ k = 2 \/ k = 3
    OBVIOUS
  <2>2. create_fat32[k] \in Disks
    <3>1. \A s \in Seq(Disks) : \A j \in 1 .. Len(s) : s[j] \in Disks
      OBVIOUS
    <3> QED
      BY <1>1, <3>1
  <2>3. \A c \in Clusters :
           create_fat32[k].table[c] = disk.table[c] \/ create_fat32[k].table[c] = root
    BY <1>1, <2>1
  <2> QED
    BY <1>3, <2>2, <2>3
<1> QED
  BY <1>1, <1>4

\* A write for which there is room leads to an entry that is added in the end.
Adds(writes, name, size, numbers, parent, slot, entry, t, v, table) ==
    /\ Written(writes, numbers, t, v, parent, table)
    /\ EmptyTable(t) /\ disk.signed /\ slot \in UserSlots
    /\ \A j, k \in 1 .. Required(size) : numbers[j] = numbers[k] => j = k
    /\ entry.name = name
    /\ entry.dir <=> size = 0
    /\ ~entry.dir => entry.size = size
    /\ Range(numbers) \subseteq FreeClusters(disk.fat)
    /\ \A c \in Clusters :
          c \notin FreeClusters(disk.fat) => Linked(disk.fat, numbers)[c] = disk.fat[c]
    /\ \A w : Tabled(w, numbers, t, v, parent, table) =>
               EntryAdded(disk, w, Required(size), numbers, parent, slot, entry, t, table)

\* There is such an entry for every request that finds room.
LEMMA WriteAdds ==
    ASSUME disk \in Disks, DiskSound(disk), NEW parent \in Reach, NEW name, NEW ext,
           NEW size, NEW buf, Request(parent, name, ext, size, buf), NEW numbers, NEW slot,
           Placed(parent, name, ext, size, buf, numbers, slot),
           Required(size) <= Cardinality(FreeClusters(disk.fat))
    PROVE  LET r == Required(size)
               writes == WriteDisks(parent, name, ext, size, buf)
               entry == NewEntry(disk.table[parent][slot], name, ext, size, numbers[1])
               t == NewTable(parent, name, size, buf)
               v == NewData(size, numbers, buf)
               table == [disk.table[parent] EXCEPT ![slot] = entry]
           IN  Adds(writes, name, size, numbers, parent, slot, entry, t, v, table)
<1> DEFINE r == Required(size)
           writes == WriteDisks(parent, name, ext, size, buf)
           free == FreeClusters(disk.fat)
           entry == NewEntry(disk.table[parent][slot], name, ext, size, numbers[1])
           t == NewTable(parent, name, size, buf)
           v == NewData(size, numbers, buf)
           table == [disk.table[parent] EXCEPT ![slot] = entry]
<1>1. /\ parent \in Clusters /\ name \in Names /\ ext \in Exts /\ size \in 0 .. MaxSize
      /\ size \in Nat /\ IsBuffer(size, buf)
  BY FatConstants DEF Request
<1>2. /\ IsDirectoryTable(disk, parent)
      /\ numbers \in [1 .. r -> free] /\ numbers = ClusterNumbers(disk.fat, size)
      /\ slot \in UserSlots /\ slot \in Slots
  BY ClusterFacts DEF Placed
<1>3. disk.fat \in Fats /\ disk.table[parent] \in Tables
      /\ disk.table[parent][slot] \in Entries
  BY <1>1, <1>2 DEF Disks, Tables
<1>4. disk.signed /\ parent \notin free
  BY ReachInUse DEF Reach
<1>5. r \in 1 .. ClusterMapSize /\ r \in Nat /\ r > 0 /\ 1 \in 1 .. r
  <2>1. free \in SUBSET Clusters
    BY DEF FreeClusters
  <2>2. IsFiniteSet(Clusters) /\ Cardinality(Clusters) = ClusterMapSize
    <3>1. 0 \in Int /\ ClusterMapSize - 1 \in Int /\ 0 <= ClusterMapSize - 1
          /\ (ClusterMapSize - 1) - 0 + 1 = ClusterMapSize
      BY ClusterFacts
    <3> QED
      BY <3>1, FS_Interval DEF Clusters
  <2>3. Cardinality(free) <= ClusterMapSize /\ Cardinality(free) \in Nat
    BY <1>3, <2>1, <2>2, FS_Subset, FreeFacts
  <2> QED
    BY <1>1, <2>3, ClusterFacts DEF Required
<1>6. \A j, k \in 1 .. r : numbers[j] = numbers[k] => j = k
  <2>1. free # {}
    BY <1>2, <1>5
  <2> QED
    BY <1>1, <1>2, <1>3, <2>1, ClusterNumbersFacts
<1>7. /\ Written(writes, numbers, t, v, parent, table)
      /\ entry \in Entries
  BY PlacedWrites
<1>8. /\ entry.live /\ entry.cluster = numbers[1] /\ ChainLength(entry) = r
      /\ entry.name = name
      /\ entry.dir <=> size = 0
      /\ ~entry.dir => entry.size = size
  <2>1. numbers[1] \in Clusters
    BY <1>2, <1>5 DEF FreeClusters
  <2>2. /\ entry.live /\ entry.cluster = numbers[1] /\ entry.name = name
        /\ entry.dir <=> size = 0
        /\ ~entry.dir => entry.size = size
    BY <1>1, <1>3, <2>1, NewEntryFacts
  <2> HIDE DEF entry
  <2> QED
    BY <2>2 DEF ChainLength, Required
<1>9. EmptyTable(t)
  BY <1>1, ClusterFacts, NoTableFacts, NewTableFacts DEF EmptyTable, NewTable, IsBuffer
<1>10. size = 0 => t[0].live /\ t[0].dir /\ t[1].cluster = parent
  BY <1>1, NewTableFacts DEF NewTable, IsBuffer
<1>11. table = [disk.table[parent] EXCEPT ![slot] = entry]
  OBVIOUS
<1> HIDE DEF table, t, entry, v, writes
<1>12. Range(numbers) = {numbers[k] : k \in 1 .. r} /\ Range(numbers) \subseteq free
  BY <1>2 DEF Range
<1>13. /\ \A c \in Clusters \ free : Linked(disk.fat, numbers)[c] = disk.fat[c]
       /\ \A k \in 1 .. r :
             Linked(disk.fat, numbers)[numbers[k]] =
                IF k = r THEN END_OF_FILE ELSE numbers[k + 1]
  BY <1>2, <1>3, <1>5, <1>6, LinkedFacts
<1> HIDE DEF r, free
<1>14. ASSUME NEW w, Tabled(w, numbers, t, v, parent, table)
       PROVE  EntryAdded(disk, w, r, numbers, parent, slot, entry, t, table)
  <2>1. /\ w.fat = Linked(disk.fat, numbers)
        /\ \A c \in Clusters :
              w.table[c] = IF c = parent THEN table
                           ELSE IF c \in Range(numbers) THEN t ELSE disk.table[c]
    BY <1>14 DEF Tabled
  <2>2. \A c \in Clusters : c \notin FreeClusters(disk.fat) => w.fat[c] = disk.fat[c]
    BY <1>13, <2>1 DEF free
  <2>3. \A k \in 1 .. r : w.fat[numbers[k]] = IF k = r THEN END_OF_FILE ELSE numbers[k + 1]
    BY <1>13, <2>1
  <2>4. numbers \in [1 .. r -> FreeClusters(disk.fat)] /\ parent \notin FreeClusters(disk.fat)
    BY <1>2, <1>4 DEF free
  <2>5. entry.dir => t[0].live /\ t[0].dir /\ t[1].cluster = parent
    BY <1>8, <1>10
  <2> QED
    BY <1>1, <1>2, <1>5, <1>7, <1>8, <1>9, <1>11, <2>1, <2>2, <2>3, <2>4, <2>5
       DEF EntryAdded
<1>15. Range(numbers) \subseteq FreeClusters(disk.fat)
       /\ \A c \in Clusters :
             c \notin FreeClusters(disk.fat) => Linked(disk.fat, numbers)[c] = disk.fat[c]
  BY <1>12, <1>13 DEF free
<1> QED
  BY <1>2, <1>4, <1>6, <1>7, <1>8, <1>9, <1>14, <1>15 DEF Adds, writes, entry, t, v, table, r

\* Each disk of a write for which there is room.
LEMMA WriteSound ==
    ASSUME disk \in Disks, DiskSound(disk), NEW parent \in Reach, NEW name, NEW ext,
           NEW size, NEW buf, Request(parent, name, ext, size, buf), NEW numbers, NEW slot,
           Placed(parent, name, ext, size, buf, numbers, slot),
           Required(size) <= Cardinality(FreeClusters(disk.fat))
    PROVE  LET writes == WriteDisks(parent, name, ext, size, buf)
           IN  \A k \in 1 .. Len(writes) : DiskSound(writes[k])
<1> DEFINE r == Required(size)
           writes == WriteDisks(parent, name, ext, size, buf)
           entry == NewEntry(disk.table[parent][slot], name, ext, size, numbers[1])
           t == NewTable(parent, name, size, buf)
           v == NewData(size, numbers, buf)
           table == [disk.table[parent] EXCEPT ![slot] = entry]
<1>1. /\ Written(writes, numbers, t, v, parent, table)
      /\ EmptyTable(t) /\ disk.signed
      /\ Range(numbers) \subseteq FreeClusters(disk.fat)
      /\ \A c \in Clusters :
            c \notin FreeClusters(disk.fat) => Linked(disk.fat, numbers)[c] = disk.fat[c]
      /\ \A w : Tabled(w, numbers, t, v, parent, table) =>
                 EntryAdded(disk, w, r, numbers, parent, slot, entry, t, table)
  <2>1. Adds(writes, name, size, numbers, parent, slot, entry, t, v, table)
    BY WriteAdds
  <2> HIDE DEF writes, entry, t, v, table
  <2> QED
    BY <2>1 DEF Adds
<1> HIDE DEF r, writes, entry, t, v, table
<1>2. ASSUME NEW w, Bodied(w, Range(numbers), t) PROVE DiskSound(w)
  <2>1. /\ w \in Disks /\ w.signed = disk.signed /\ w.fat = disk.fat
        /\ \A c \in Clusters :
              w.table[c] = disk.table[c] \/ (c \in FreeClusters(disk.fat) /\ w.table[c] = t)
    BY <1>1, <1>2 DEF Bodied
  <2> QED
    BY <1>1, <2>1, ContentsSound
<1>3. ASSUME NEW w, Mapped(w, numbers, t) PROVE DiskSound(w)
  <2>1. /\ w \in Disks /\ w.signed = disk.signed /\ w.fat = Linked(disk.fat, numbers)
        /\ \A c \in Clusters :
              w.table[c] = disk.table[c] \/ (c \in FreeClusters(disk.fat) /\ w.table[c] = t)
    BY <1>1, <1>3 DEF Mapped
  <2>2. \A c \in Clusters : c \notin FreeClusters(disk.fat) => w.fat[c] = disk.fat[c]
    BY <1>1, <2>1
  <2> QED
    BY <1>1, <2>1, <2>2, ContentsSound
<1>4. ASSUME NEW w, Tabled(w, numbers, t, v, parent, table) PROVE DiskSound(w)
  <2>1. w \in Disks /\ w.signed = disk.signed
    BY <1>4 DEF Tabled
  <2> QED
    BY <1>1, <1>4, <2>1, EntrySound
<1>5. \A k \in 1 .. Len(writes) : DiskSound(writes[k])
  <2> SUFFICES ASSUME NEW k \in 1 .. Len(writes) PROVE DiskSound(writes[k])
    OBVIOUS
  <2>1. k \in 1 .. Len(writes) - 1 \/ k = Len(writes)
    BY <1>1 DEF Written
  <2> QED
    BY <1>1, <1>2, <1>3, <1>4, <2>1 DEF Written
<1> QED
  BY <1>5 DEF writes

\* What delete frees are clusters of the entry it removed.
LEMMA FreedFacts ==
    ASSUME NEW f \in Fats, NEW e \in Entries, Chained(f, e)
    PROVE  Freed(f, e) \subseteq Held(f, e)
<1>1. CASE e.dir
  BY <1>1, HeldFacts DEF Freed, Entries
<1>2. CASE ~e.dir
  <2>1. e.size \in Nat
    BY FatConstants DEF Entries
  <2>2. ChainLength(e) = IF e.size = 0 THEN 1 ELSE e.size
    BY <1>2 DEF ChainLength, Required
  <2>3. \A k \in 0 .. e.size - 1 : k \in 0 .. ChainLength(e) - 1
    BY <2>1, <2>2
  <2> QED
    BY <1>2, <2>3 DEF Freed, Held
<1> QED
  BY <1>1, <1>2

\* Both disks of a deletion are the disk without the entry.
Removes(writes, parent, i, table) ==
    /\ Len(writes) = 2
    /\ \A k \in 1 .. Len(writes) :
          /\ writes[k] \in Disks /\ writes[k].signed = disk.signed
          /\ EntryRemoved(disk, writes[k], parent, i, table)
          /\ \A c \in Clusters : c # parent => writes[k].data[c] = disk.data[c]

\* So they are if the copy of the driver has the FAT of the disk.
LEMMA DeleteRemoves ==
    ASSUME disk \in Disks, DiskSound(disk), cache \in [Drivers -> Fats],
           NEW d \in Drivers, cache[d] = disk.fat, NEW parent \in Clusters,
           NEW i \in UserSlots, disk.table[parent][i].live
    PROVE  Removes(DeleteDisks(d, parent, i), parent, i,
                   [disk.table[parent] EXCEPT ![i].live = FALSE])
<1> DEFINE writes == DeleteDisks(d, parent, i)
           e == disk.table[parent][i]
           freed == Freed(cache[d], e)
           table == [disk.table[parent] EXCEPT ![i].live = FALSE]
<1>1. disk.fat \in Fats /\ i \in Slots /\ e \in Entries
  BY ClusterFacts DEF Disks, Tables
<1>2. /\ writes \in Seq(Disks) /\ Len(writes) = 2
      /\ writes[1].signed = disk.signed /\ writes[2].signed = disk.signed
      /\ writes[1].fat = disk.fat /\ writes[2].fat = Cleared(disk.fat, freed)
      /\ \A k \in 1 .. 2, c \in Clusters :
            /\ writes[k].table[c] = IF c = parent THEN table ELSE disk.table[c]
            /\ c # parent => writes[k].data[c] = disk.data[c]
  <2>1. Unlists(writes, Cleared(cache[d], freed), parent, table)
    BY <1>1, DeleteDisksFacts
  <2> HIDE DEF writes, freed, table
  <2> QED
    BY <2>1 DEF Unlists
<1>3. freed \subseteq Held(disk.fat, e)
  <2>1. Chained(disk.fat, e)
    <3>1. <<parent, i>> \in LivePlaces(disk) /\ Entry(disk, <<parent, i>>) = e
      BY PlaceMade
    <3> QED
      BY <3>1 DEF DiskSound, AllChained
  <2> QED
    BY <1>1, <2>1, FreedFacts
<1>4. table = [disk.table[parent] EXCEPT ![i].live = FALSE]
  OBVIOUS
<1> HIDE DEF writes, freed, table
<1>5. ASSUME NEW k \in 1 .. Len(writes)
      PROVE  /\ writes[k] \in Disks /\ writes[k].signed = disk.signed
             /\ EntryRemoved(disk, writes[k], parent, i, table)
             /\ \A c \in Clusters : c # parent => writes[k].data[c] = disk.data[c]
  <2>1. k \in 1 .. 2 /\ (k = 1 \/ k = 2)
    BY <1>2
  <2>2. writes[k] \in Disks
    <3>1. \A s \in Seq(Disks) : \A j \in 1 .. Len(s) : s[j] \in Disks
      OBVIOUS
    <3> QED
      BY <1>2, <3>1
  <2> DEFINE w == writes[k]
  <2>3. w.signed = disk.signed /\ (w.fat = disk.fat \/ w.fat = Cleared(disk.fat, freed))
        /\ \A c \in Clusters :
              /\ w.table[c] = IF c = parent THEN table ELSE disk.table[c]
              /\ c # parent => w.data[c] = disk.data[c]
    BY <1>2, <2>1
  <2> HIDE DEF w
  <2>4. \A c \in Clusters :
           c \notin Held(disk.fat, disk.table[parent][i]) => w.fat[c] = disk.fat[c]
    BY <1>1, <1>3, <2>3, ClearedFacts
  <2>5. EntryRemoved(disk, w, parent, i, table)
    BY <1>4, <2>3, <2>4 DEF EntryRemoved
  <2> QED
    BY <2>2, <2>3, <2>5 DEF w
<1>6. Removes(writes, parent, i, table)
  BY <1>2, <1>5 DEF Removes
<1> QED
  BY <1>6 DEF writes, table

\* They are sound.
LEMMA DeleteSound ==
    ASSUME disk \in Disks, DiskSound(disk), disk.signed, cache \in [Drivers -> Fats],
           NEW d \in Drivers, cache[d] = disk.fat, NEW parent \in Clusters,
           NEW i \in UserSlots, disk.table[parent][i].live
    PROVE  LET writes == DeleteDisks(d, parent, i)
           IN  \A k \in 1 .. Len(writes) : DiskSound(writes[k])
<1> DEFINE writes == DeleteDisks(d, parent, i)
           table == [disk.table[parent] EXCEPT ![i].live = FALSE]
<1>1. Removes(writes, parent, i, table)
  BY DeleteRemoves
<1> HIDE DEF writes, table
<1>2. \A k \in 1 .. Len(writes) : DiskSound(writes[k])
  BY <1>1, DeletionSound DEF Removes
<1> QED
  BY <1>2 DEF writes

\* Room for a request, or none at all.
RoomOrNone(size) ==
    \/ FreeClusters(disk.fat) = {}
    \/ Required(size) <= Cardinality(FreeClusters(disk.fat))

\* A write with room for all of it, or for none, promises sound disks only.
LEMMA RequestSound ==
    ASSUME disk \in Disks, SoundInv, NEW d, NEW parent \in Reach, NEW name, NEW ext,
           NEW size, NEW buf, Request(parent, name, ext, size, buf), RoomOrNone(size),
           write(d, parent, name, ext, size, buf)
    PROVE  SoundInv'
<1>1. UNCHANGED disk /\ DiskSound(disk) /\ pending = <<>>
  BY WriteEffect DEF SoundInv, Idle
<1>2. CASE pending' = pending
  BY <1>1, <1>2 DEF SoundInv
<1>3. CASE \E numbers, slot :
              /\ Placed(parent, name, ext, size, buf, numbers, slot)
              /\ pending' = WriteDisks(parent, name, ext, size, buf)
  <2>1. PICK numbers, slot :
           /\ Placed(parent, name, ext, size, buf, numbers, slot)
           /\ pending' = WriteDisks(parent, name, ext, size, buf)
    BY <1>3
  <2>2. Required(size) <= Cardinality(FreeClusters(disk.fat))
    <3>1. 1 \in 1 .. Required(size)
      BY FatConstants DEF Required, Request
    <3>2. FreeClusters(disk.fat) # {}
      BY <2>1, <3>1 DEF Placed
    <3> QED
      BY <3>2 DEF RoomOrNone
  <2> DEFINE writes == WriteDisks(parent, name, ext, size, buf)
  <2>3. \A k \in 1 .. Len(writes) : DiskSound(writes[k])
    BY <1>1, <2>1, <2>2, WriteSound
  <2>4. pending' = writes
    BY <2>1
  <2> HIDE DEF writes
  <2> QED
    BY <1>1, <2>3, <2>4 DEF SoundInv
<1> QED
  BY <1>2, <1>3, WriteEffect

\* The parent of a directory cannot be deleted by its name.
LEMMA DeletableFacts ==
    ASSUME DotDot \notin Names, disk \in Disks, DiskSound(disk), NEW parent \in Clusters,
           NEW name \in Names, NEW ext, NEW i \in Deletable(disk.table[parent], name, ext)
    PROVE  i \in UserSlots /\ disk.table[parent][i].live
<1>1. /\ i \in Slots /\ i # 0 /\ disk.table[parent][i].live
      /\ disk.table[parent][i].name = name
  BY DEF Deletable
<1>2. i # 1
  BY <1>1 DEF DiskSound, ParentsNamed
<1>3. i \in UserSlots
  BY <1>1, <1>2, ClusterFacts DEF Slots, UserSlots
<1> QED
  BY <1>1, <1>3

\* What must hold for chains and directories to stay sound: one copy of the driver
\* writes, it has a FAT when it deletes, what is written finds room or none at all,
\* and no name is the parent's.
Careful == OneWriter /\ RoomChecked /\ FreshDelete /\ DotDot \notin Names

\* No step leaves the disk, or a disk it will write, unsound.
LEMMA SoundInvStep ==
    ASSUME Careful
    PROVE  FatTyped /\ CacheInv /\ SoundInv /\ [FatNext]_fatVars => SoundInv'
<1> SUFFICES ASSUME FatTyped, CacheInv, SoundInv, [FatNext]_fatVars PROVE SoundInv'
  OBVIOUS
<1>1. /\ disk \in Disks /\ pending \in Seq(Disks) /\ cache \in [Drivers -> Fats]
      /\ disk.fat \in Fats /\ Writers \subseteq Drivers
      /\ DiskSound(disk) /\ \A k \in 1 .. Len(pending) : DiskSound(pending[k])
  BY FatConstants DEF FatTyped, Disks, Drivers, SoundInv
<1>2. ASSUME initialize_filesystem_fat32 PROVE SoundInv'
  <2>1. disk' = disk
    BY <1>2 DEF initialize_filesystem_fat32
  <2>2. CASE is_empty_storage
    <3>1. ~disk.signed /\ pending' = create_fat32
      BY <1>2, <2>2 DEF initialize_filesystem_fat32, is_empty_storage
    <3>2. \A k \in 1 .. Len(create_fat32) : DiskSound(create_fat32[k])
      BY <1>1, <3>1, FormatSound
    <3> QED
      BY <1>1, <2>1, <3>1, <3>2 DEF SoundInv
  <2>3. CASE ~is_empty_storage
    <3>1. pending' = pending
      BY <1>2, <2>3 DEF initialize_filesystem_fat32
    <3> QED
      BY <1>1, <2>1, <3>1 DEF SoundInv
  <2> QED
    BY <2>2, <2>3
<1>3. ASSUME DiskWrite PROVE SoundInv'
  <2>1. pending # <<>> /\ disk' = Head(pending) /\ pending' = Tail(pending)
    BY <1>3 DEF DiskWrite
  <2>2. \A s \in Seq(Disks) : s # <<>> =>
           /\ 1 \in 1 .. Len(s) /\ Head(s) = s[1]
           /\ \A k \in 1 .. Len(Tail(s)) : k + 1 \in 1 .. Len(s) /\ Tail(s)[k] = s[k + 1]
    OBVIOUS
  <2>3. DiskSound(Head(pending))
    BY <1>1, <2>1, <2>2
  <2>4. \A k \in 1 .. Len(Tail(pending)) : DiskSound(Tail(pending)[k])
    BY <1>1, <2>1, <2>2
  <2> QED
    BY <2>1, <2>3, <2>4 DEF SoundInv
<1>4. ASSUME PowerOff PROVE SoundInv'
  <2>1. disk' = disk /\ pending' = <<>>
    BY <1>4 DEF PowerOff
  <2>2. \A k \in 1 .. Len(<<>>) : FALSE
    OBVIOUS
  <2> QED
    BY <1>1, <2>1, <2>2 DEF SoundInv
<1>5. ASSUME WriteFile PROVE SoundInv'
  <2>1. PICK d \in Writers, parent \in Reach, name \in Names, ext \in Exts,
             size \in 1 .. MaxSize : \E buf :
           /\ Request(parent, name, ext, size, buf)
           /\ EnoughRoom(size)
           /\ write(d, parent, name, ext, size, buf)
    BY <1>1, <1>5, WriteFileRequests DEF Careful
  <2>2. PICK buf : /\ Request(parent, name, ext, size, buf)
                   /\ EnoughRoom(size)
                   /\ write(d, parent, name, ext, size, buf)
    BY <2>1
  <2>3. RoomOrNone(size)
    BY <1>1, <2>1, <2>2, FatConstants, FreeFacts DEF EnoughRoom, RoomOrNone, Required
  <2> QED
    BY <1>1, <2>1, <2>2, <2>3, RequestSound
<1>6. ASSUME MakeDirectory PROVE SoundInv'
  <2>1. PICK d \in Writers, parent \in Reach, name \in Names, ext \in Exts, junk \in Exts :
           /\ Request(parent, name, ext, 0, junk)
           /\ write(d, parent, name, ext, 0, junk)
    BY <1>1, <1>6, MakeDirectoryRequests
  <2>2. RoomOrNone(0)
    BY <1>1, FreeFacts DEF RoomOrNone, Required
  <2> QED
    BY <1>1, <2>1, <2>2, RequestSound
<1>7. ASSUME DeleteByName PROVE SoundInv'
  <2>1. disk' = disk /\ pending = <<>>
    BY <1>1, <1>7, DeleteEffect DEF Idle
  <2>2. CASE UNCHANGED <<cache, pending>>
    BY <1>1, <2>1, <2>2 DEF SoundInv
  <2>3. CASE \E d \in Writers, parent \in Reach, name \in Names, ext \in Exts,
                i \in Slots :
                /\ FreshDelete => cache[d] # ZeroFat
                /\ i \in Deletable(disk.table[parent], name, ext)
                /\ DeleteEntry(d, parent, i)
    <3>1. PICK d \in Writers, parent \in Reach, name \in Names, ext \in Exts,
               i \in Slots :
             /\ FreshDelete => cache[d] # ZeroFat
             /\ i \in Deletable(disk.table[parent], name, ext)
             /\ DeleteEntry(d, parent, i)
      BY <2>3
    <3>2. d \in Drivers /\ cache[d] = disk.fat
      BY <1>1, <2>1, <3>1 DEF Careful, CacheInv, FatToCome
    <3>3. parent \in Clusters /\ disk.signed
      BY <1>1, ReachInUse DEF Reach
    <3>4. i \in UserSlots /\ disk.table[parent][i].live
      BY <1>1, <3>1, <3>3, DeletableFacts DEF Careful
    <3> DEFINE writes == DeleteDisks(d, parent, i)
    <3>5. \A k \in 1 .. Len(writes) : DiskSound(writes[k])
      BY <1>1, <3>2, <3>3, <3>4, DeleteSound
    <3>6. pending' = writes
      BY <3>1 DEF DeleteEntry
    <3> HIDE DEF writes
    <3> QED
      BY <1>1, <2>1, <3>5, <3>6 DEF SoundInv
  <2> QED
    BY <1>1, <1>7, <2>2, <2>3, DeleteEffect
<1>8. ASSUME ReadFile PROVE SoundInv'
  BY <1>1, <1>8 DEF ReadFile, read, SoundInv
<1>9. ASSUME UNCHANGED fatVars PROVE SoundInv'
  BY <1>1, <1>9 DEF fatVars, SoundInv
<1> QED
  BY <1>2, <1>3, <1>4, <1>5, <1>6, <1>7, <1>8, <1>9 DEF FatNext

\* The blank disk is sound: it is unsigned and lists nothing.
LEMMA InitSound == FatInit => SoundInv
<1> SUFFICES ASSUME FatInit PROVE SoundInv
  OBVIOUS
<1>1. disk = BlankDisk /\ pending = <<>>
  BY DEF FatInit
<1>2. \A c \in Clusters : disk.table[c] = NoTable
  BY <1>1 DEF BlankDisk
<1>3. LivePlaces(disk) = {}
  BY <1>2, NoTableFacts, ClusterFacts DEF LivePlaces
<1>4. ParentsNamed(disk)
  BY <1>2, NoTableFacts, ClusterFacts DEF ParentsNamed
<1>5. DiskSound(disk)
  BY <1>3, <1>4 DEF DiskSound, AllChained, AllApart, AllRooted, UnsignedIsEmpty
<1>6. \A k \in 1 .. Len(<<>>) : FALSE
  OBVIOUS
<1> QED
  BY <1>1, <1>5, <1>6 DEF SoundInv

\* The invariant of careful programs.
LEMMA SoundAlways ==
    ASSUME Careful
    PROVE  FatSpec => [](FatTyped /\ SoundInv)
<1>1. OneWriter
  BY DEF Careful
<1>2. FatInit => FatTyped /\ CacheInv /\ SoundInv
  BY InitTyped, InitCached, InitSound
<1>3. FatTyped /\ CacheInv /\ SoundInv /\ [FatNext]_fatVars
         => FatTyped' /\ CacheInv' /\ SoundInv'
  BY <1>1, FatTypedStep, CacheInvStep, SoundInvStep
<1> QED
  BY <1>2, <1>3, PTL DEF FatSpec

\* The places of the properties are live places.
LEMMA PlacesLive ==
    ASSUME disk \in Disks, NEW p \in Places
    PROVE  p \in LivePlaces(disk) /\ EntryAt(p) = Entry(disk, p)
<1>1. p[1] \in Reach /\ p[2] \in UserSlots /\ p = <<p[1], p[2]>>
      /\ disk.table[p[1]][p[2]].live
  BY DEF Places
<1>2. p[1] \in Clusters
  BY <1>1, ReachFacts DEF Reach
<1>3. <<p[1], p[2]>> \in LivePlaces(disk)
  BY <1>1, <1>2, PlaceMade
<1> QED
  BY <1>1, <1>3 DEF EntryAt, Entry

\* Sound disks have sound chains and a sound tree, as far as programs can come.
LEMMA SoundChains == FatTyped /\ SoundInv => ChainsSound
<1> SUFFICES ASSUME FatTyped, SoundInv PROVE ChainsSound
  OBVIOUS
<1>1. disk \in Disks /\ disk.fat \in Fats /\ AllChained(disk) /\ AllApart(disk)
  BY DEF FatTyped, SoundInv, DiskSound, Disks
<1>2. ASSUME NEW p \in Places
      PROVE  /\ p \in LivePlaces(disk)
             /\ Len(ChainOf(p)) = Required(IF EntryAt(p).dir THEN 0 ELSE EntryAt(p).size)
             /\ Range(ChainOf(p)) = Held(disk.fat, Entry(disk, p))
             /\ Range(ChainOf(p)) \subseteq Clusters \ (0 .. ROOT_CLUSTER_NUMBER)
  <2>1. p \in LivePlaces(disk) /\ EntryAt(p) = Entry(disk, p)
    BY <1>1, PlacesLive
  <2> DEFINE e == Entry(disk, p)
  <2>2. e.cluster \in Clusters /\ Chained(disk.fat, e)
    BY <1>1, <2>1, PlaceFacts DEF AllChained
  <2> HIDE DEF e
  <2>3. Len(Chain(disk.fat, e.cluster)) = ChainLength(e)
        /\ Range(Chain(disk.fat, e.cluster)) = Held(disk.fat, e)
    BY <1>1, <2>2, ChainFacts
  <2>4. Held(disk.fat, e) \subseteq UserClusters
    BY <1>1, <2>2, HeldFacts
  <2>5. EntryAt(p) = e /\ ChainOf(p) = Chain(disk.fat, e.cluster)
    BY <2>1 DEF e, ChainOf
  <2> QED
    BY <2>1, <2>3, <2>4, <2>5, ClusterFacts DEF ChainLength, e
<1>3. ASSUME NEW p \in Places, NEW q \in Places \ {p}
      PROVE  Range(ChainOf(p)) \cap Range(ChainOf(q)) = {}
  BY <1>1, <1>2 DEF AllApart
<1> QED
  BY <1>2, <1>3 DEF ChainsSound

\* So does TreeSound: a live directory's cluster holds its table.
LEMMA SoundTree == FatTyped /\ SoundInv => TreeSound
<1> SUFFICES ASSUME FatTyped, SoundInv, NEW p \in Places, EntryAt(p).dir
             PROVE  /\ IsDirectoryTable(disk, EntryAt(p).cluster)
                    /\ disk.table[EntryAt(p).cluster][1].cluster = p[1]
  BY DEF TreeSound
<1>1. disk \in Disks /\ AllRooted(disk)
  BY DEF FatTyped, SoundInv, DiskSound
<1>2. p \in LivePlaces(disk) /\ EntryAt(p) = Entry(disk, p)
  BY <1>1, PlacesLive
<1> QED
  BY <1>1, <1>2 DEF AllRooted

\* Every chain ends within user clusters after as many as its entry is long, and no
\* cluster is in two, whatever was written or deleted and wherever the power failed.
THEOREM ChainsStaySound ==
    ASSUME Careful
    PROVE  FatSpec => []ChainsSound
<1> QED
  BY SoundChains, SoundAlways, PTL

\* Directory entries lead to directories, and these back to where the entry is.
THEOREM TreeStaysSound ==
    ASSUME Careful
    PROVE  FatSpec => []TreeSound
<1> QED
  BY SoundTree, SoundAlways, PTL

-----------------------------------------------------------------------------
(* What becomes of a directory table.                                       *)

\* A table without entries; if it is a directory's, it leads up under "..".
Bare(t) ==
    (\A i \in UserSlots : ~t[i].live) /\ (t[0].live => t[1].name = DotDot)

\* The table a write leaves: an entry of a new name in an empty slot of a directory,
\* in the first one where the programs see to it that there is room.
Entered(old, t) ==
    old[0].live /\ \E slot \in UserSlots, name \in Names, ext \in Exts, e \in Entries :
        /\ ~old[slot].live /\ ~Exists(old, name, ext)
        /\ RoomChecked => \A i \in UserSlots : i < slot => old[i].live
        /\ e.live /\ e.name = name /\ e.ext = IF e.dir THEN old[slot].ext ELSE ext
        /\ ~e.dir => e.size # 0
        /\ t = [old EXCEPT ![slot] = e]

\* The table a deletion leaves.
Unlisted(old, t) == \E i \in Slots \ {0} : t = [old EXCEPT ![i].live = FALSE]

\* A set of tables that no operation leads out of.
Closed(G) ==
    /\ \A t \in Tables : Bare(t) => t \in G
    /\ \A old \in G, t \in Tables : Entered(old, t) \/ Unlisted(old, t) => t \in G

TablesIn(G) ==
    /\ \A c \in Clusters : disk.table[c] \in G
    /\ \A k \in 1 .. Len(pending) : \A c \in Clusters : pending[k].table[c] \in G

\* With enough room one empty slot is tried, the first.
LEMMA FirstEmptySlot ==
    ASSUME disk \in Disks, NEW parent, NEW name, NEW ext, NEW size, NEW buf,
           Request(parent, name, ext, size, buf), NEW numbers, NEW slot,
           Placed(parent, name, ext, size, buf, numbers, slot),
           size = 0 \/ EnoughRoom(size)
    PROVE  \A i \in UserSlots : i < slot => disk.table[parent][i].live
<1> DEFINE E == EmptySlots(disk.table[parent])
           r == Required(size)
           f == Cardinality(FreeClusters(disk.fat))
<1>1. /\ E \subseteq UserSlots /\ UserSlots \subseteq Nat /\ IsFiniteSet(UserSlots)
  <2>1. 2 \in Int /\ TableSize - 1 \in Int
    BY FatConstants
  <2>2. IsFiniteSet(UserSlots)
    BY <2>1, FS_Interval DEF UserSlots
  <2> QED
    BY <2>2 DEF EmptySlots, UserSlots
<1>2. IsFiniteSet(E) /\ E \in SUBSET Nat
  BY <1>1, FS_Subset
<1>3. r \in Nat /\ r >= 1
  BY FatConstants DEF Request, Required
<1>4. f \in Nat /\ f # 0
  <2>1. IsFiniteSet(FreeClusters(disk.fat))
    <3>1. IsFiniteSet(Clusters)
      BY ClusterFacts, FS_Interval DEF Clusters
    <3> QED
      BY <3>1, FS_Subset DEF FreeClusters
  <2>2. numbers[1] \in FreeClusters(disk.fat)
    BY <1>3 DEF Placed
  <2> QED
    BY <2>1, <2>2, FS_CardinalityType, FS_EmptySet
<1>5. r <= f
  <2>1. CASE size = 0
    BY <1>4, <2>1 DEF Required
  <2>2. CASE EnoughRoom(size)
    BY <1>3, <1>4, <2>2 DEF EnoughRoom
  <2> QED
    BY <2>1, <2>2
<1>6. SlotsTried(disk.fat, size) = (r + f - 1) \div f
  BY DEF SlotsTried
<1>7. slot = Nth(E, SlotsTried(disk.fat, size)) /\ slot \in E
  BY DEF Placed, EntryNumber, EmptySlots
<1> HIDE DEF E, r, f
<1>8. SlotsTried(disk.fat, size) = 1
  <2>1. r + f - 1 >= f /\ r + f - 1 < 2 * f
    BY <1>3, <1>4, <1>5
  <2>2. PICK n \in Nat, m \in Nat : n = r + f - 1 /\ m = f
    BY <1>3, <1>4
  <2>3. m >= 1 /\ n >= m /\ n < 2 * m
    BY <1>4, <2>1, <2>2
  <2>4. n \div m = 1
    BY <2>3
  <2> QED
    BY <1>6, <2>2, <2>4
<1>9. Cardinality({y \in E : y < slot}) = 0
  <2>1. 1 \in 1 .. Cardinality(E)
    <3>1. Cardinality(E) \in Nat /\ Cardinality(E) # 0
      BY <1>2, <1>7, FS_CardinalityType, FS_EmptySet
    <3> QED
      BY <3>1
  <2>2. Cardinality({y \in E : y < Nth(E, 1)}) = 1 - 1
    BY <1>2, <2>1, NthExists
  <2> QED
    BY <1>7, <1>8, <2>2
<1>10. {y \in E : y < slot} = {}
  <2>1. IsFiniteSet({y \in E : y < slot})
    BY <1>2, FS_Subset
  <2> QED
    BY <1>9, <2>1, FS_EmptySet
<1> QED
  BY <1>10 DEF E, EmptySlots

\* Every table a write leads to was there before, is bare, or is one with the entry.
LEMMA WriteTables ==
    ASSUME disk \in Disks, NEW G, Closed(G), \A c \in Clusters : disk.table[c] \in G,
           NEW parent, NEW name, NEW ext,
           NEW size, NEW buf, Request(parent, name, ext, size, buf), NEW numbers, NEW slot,
           Placed(parent, name, ext, size, buf, numbers, slot),
           RoomChecked => size = 0 \/ EnoughRoom(size)
    PROVE  LET writes == WriteDisks(parent, name, ext, size, buf)
           IN  \A k \in 1 .. Len(writes) : \A c \in Clusters : writes[k].table[c] \in G
<1> DEFINE writes == WriteDisks(parent, name, ext, size, buf)
           old == disk.table[parent]
           entry == NewEntry(old[slot], name, ext, size, numbers[1])
           t == NewTable(parent, name, size, buf)
           v == NewData(size, numbers, buf)
           table == [old EXCEPT ![slot] = entry]
<1>1. /\ parent \in Clusters /\ name \in Names /\ ext \in Exts /\ size \in 0 .. MaxSize
      /\ IsBuffer(size, buf)
  BY DEF Request
<1>2. /\ slot \in UserSlots /\ slot \in Slots /\ ~Exists(old, name, ext)
      /\ ~old[slot].live /\ old[0].live
      /\ numbers \in [1 .. Required(size) -> FreeClusters(disk.fat)]
  BY ClusterFacts DEF Placed, IsDirectoryTable
<1>3. old \in Tables /\ old[slot] \in Entries /\ old \in G
  BY <1>1, <1>2 DEF Disks, Tables
<1>4. /\ Written(writes, numbers, t, v, parent, table)
      /\ entry \in Entries /\ t \in Tables /\ table \in Tables
  BY PlacedWrites
<1>5. /\ entry.live /\ entry.name = name
      /\ entry.ext = IF entry.dir THEN old[slot].ext ELSE ext
      /\ ~entry.dir => entry.size # 0
  <2>1. numbers[1] \in Clusters
    <3>1. 1 \in 1 .. Required(size)
      BY <1>1, FatConstants DEF Required
    <3> QED
      BY <1>2, <3>1 DEF FreeClusters
  <2>2. /\ entry.live /\ entry.name = name
        /\ entry.dir <=> size = 0
        /\ entry.ext = IF size = 0 THEN old[slot].ext ELSE ext
        /\ ~entry.dir => entry.size = size
    BY <1>1, <1>3, <2>1, NewEntryFacts
  <2> QED
    BY <2>2
<1>6. t \in G
  <2>1. CASE size = 0
    <3>1. buf \in Exts /\ t = init_directory_table(name, parent, buf)
      BY <1>1, <2>1 DEF IsBuffer, NewTable
    <3>2. Bare(t)
      BY <1>1, <3>1, NewTableFacts DEF Bare
    <3> QED
      BY <1>4, <3>2 DEF Closed
  <2>2. CASE size # 0
    <3>1. Bare(NoTable) /\ t = NoTable
      BY <2>2, ClusterFacts, NoTableFacts DEF Bare, NewTable
    <3> QED
      BY <1>4, <3>1 DEF Closed
  <2> QED
    BY <2>1, <2>2
<1>7. RoomChecked => \A i \in UserSlots : i < slot => old[i].live
  BY FirstEmptySlot
<1> HIDE DEF entry, old, t, v
<1>8. Entered(old, table)
  BY <1>1, <1>2, <1>4, <1>5, <1>7 DEF Entered
<1>9. table \in G
  BY <1>3, <1>4, <1>8 DEF Closed
<1> HIDE DEF table, writes
<1>10. ASSUME NEW k \in 1 .. Len(writes), NEW c \in Clusters
       PROVE  writes[k].table[c] \in G
  <2>1. \/ writes[k].table[c] = t
        \/ writes[k].table[c] = table
        \/ writes[k].table[c] = disk.table[c]
    <3>1. k \in 1 .. Len(writes) - 1 \/ k = Len(writes)
      BY <1>4 DEF Written
    <3>2. Bodied(writes[k], Range(numbers), t) \/ Mapped(writes[k], numbers, t)
          \/ Tabled(writes[k], numbers, t, v, parent, table)
      BY <1>4, <3>1 DEF Written
    <3> QED
      BY <3>2 DEF Bodied, Mapped, Tabled
  <2> QED
    BY <1>6, <1>9, <2>1
<1> QED
  BY <1>10 DEF writes

\* Formatting leaves the root bare.
LEMMA FormatTables ==
    ASSUME disk \in Disks, NEW G, Closed(G), \A c \in Clusters : disk.table[c] \in G
    PROVE  \A k \in 1 .. Len(create_fat32) : \A c \in Clusters :
              create_fat32[k].table[c] \in G
<1> DEFINE root == init_directory_table(RootName, ROOT_CLUSTER_NUMBER, NoExt)
<1>1. /\ Len(create_fat32) = 3
      /\ create_fat32[1].table = disk.table /\ create_fat32[2].table = disk.table
      /\ \A c \in Clusters :
            create_fat32[3].table[c] = IF c = ROOT_CLUSTER_NUMBER THEN root ELSE disk.table[c]
  BY CreateFacts
<1>2. root \in Tables /\ Bare(root)
  BY FatConstants, ClusterFacts, NewTableFacts DEF Bare
<1>3. root \in G
  BY <1>2 DEF Closed
<1> HIDE DEF root
<1>4. ASSUME NEW k \in 1 .. 3, NEW c \in Clusters
      PROVE  create_fat32[k].table[c] \in G
  <2>1. k = 1 \/ k = 2 \/ k = 3
    OBVIOUS
  <2>2. create_fat32[k].table[c] = root \/ create_fat32[k].table[c] = disk.table[c]
    BY <1>1, <2>1
  <2> QED
    BY <1>3, <2>2
<1> QED
  BY <1>1, <1>4

\* A deletion changes one table, by one mark.
LEMMA DeleteTables ==
    ASSUME disk \in Disks, NEW G, Closed(G), \A c \in Clusters : disk.table[c] \in G,
           cache \in [Drivers -> Fats], NEW d \in Drivers, NEW parent \in Clusters,
           NEW i \in Slots, i # 0
    PROVE  LET writes == DeleteDisks(d, parent, i)
           IN  \A k \in 1 .. Len(writes) : \A c \in Clusters : writes[k].table[c] \in G
<1> DEFINE writes == DeleteDisks(d, parent, i)
           f == Cleared(cache[d], Freed(cache[d], disk.table[parent][i]))
           old == disk.table[parent]
           table == [old EXCEPT ![i].live = FALSE]
<1>1. Unlists(writes, f, parent, table)
  BY DeleteDisksFacts
<1>2. old \in Tables /\ old \in G /\ Unlisted(old, table)
  BY DEF Disks, Unlisted
<1>3. table \in Tables
  <2>1. old[i] \in Entries
    BY <1>2 DEF Tables
  <2>2. [old[i] EXCEPT !.live = FALSE] \in Entries
    BY <2>1 DEF Entries
  <2> QED
    BY <1>2, <2>2 DEF Tables
<1>4. table \in G
  BY <1>2, <1>3 DEF Closed
<1> HIDE DEF writes, f, table, old
<1>5. \A k \in 1 .. 2, c \in Clusters :
         writes[k].table[c] = IF c = parent THEN table ELSE disk.table[c]
  BY <1>1 DEF Unlists
<1>6. \A k \in 1 .. Len(writes) : k \in 1 .. 2
  BY <1>1 DEF Unlists
<1>7. ASSUME NEW k \in 1 .. Len(writes), NEW c \in Clusters
      PROVE  writes[k].table[c] \in G
  BY <1>4, <1>5, <1>6
<1> QED
  BY <1>7 DEF writes

\* A request enters what it asks for.
LEMMA RequestTables ==
    ASSUME disk \in Disks, NEW G, Closed(G), TablesIn(G),
           NEW d, NEW parent, NEW name, NEW ext,
           NEW size, NEW buf, Request(parent, name, ext, size, buf),
           RoomChecked => size = 0 \/ EnoughRoom(size),
           write(d, parent, name, ext, size, buf)
    PROVE  TablesIn(G)'
<1>1. disk' = disk /\ \A c \in Clusters : disk.table[c] \in G
  BY WriteEffect DEF TablesIn
<1>2. CASE pending' = pending
  BY <1>1, <1>2 DEF TablesIn
<1>3. CASE \E numbers, slot :
              /\ Placed(parent, name, ext, size, buf, numbers, slot)
              /\ pending' = WriteDisks(parent, name, ext, size, buf)
  <2>1. PICK numbers, slot :
           /\ Placed(parent, name, ext, size, buf, numbers, slot)
           /\ pending' = WriteDisks(parent, name, ext, size, buf)
    BY <1>3
  <2> DEFINE writes == WriteDisks(parent, name, ext, size, buf)
  <2>2. \A k \in 1 .. Len(writes) : \A c \in Clusters : writes[k].table[c] \in G
    BY <1>1, <2>1, WriteTables
  <2>3. pending' = writes
    BY <2>1
  <2> HIDE DEF writes
  <2> QED
    BY <1>1, <2>2, <2>3 DEF TablesIn
<1> QED
  BY <1>2, <1>3, WriteEffect

\* No operation leads out of a closed set of tables.
LEMMA TablesStep ==
    ASSUME NEW G, Closed(G), FatTyped, TablesIn(G), [FatNext]_fatVars
    PROVE  TablesIn(G)'
<1>1. /\ disk \in Disks /\ pending \in Seq(Disks) /\ cache \in [Drivers -> Fats]
      /\ Writers \subseteq Drivers
      /\ \A c \in Clusters : disk.table[c] \in G
      /\ \A k \in 1 .. Len(pending) : \A c \in Clusters : pending[k].table[c] \in G
  BY FatConstants DEF FatTyped, Drivers, TablesIn
<1>2. ASSUME initialize_filesystem_fat32 PROVE TablesIn(G)'
  <2>1. disk' = disk /\ (pending' = create_fat32 \/ pending' = pending)
    BY <1>2 DEF initialize_filesystem_fat32
  <2>2. \A k \in 1 .. Len(create_fat32) : \A c \in Clusters :
           create_fat32[k].table[c] \in G
    BY <1>1, FormatTables
  <2> QED
    BY <1>1, <2>1, <2>2 DEF TablesIn
<1>3. ASSUME DiskWrite PROVE TablesIn(G)'
  <2>1. pending # <<>> /\ disk' = Head(pending) /\ pending' = Tail(pending)
    BY <1>3 DEF DiskWrite
  <2>2. \A s \in Seq(Disks) : s # <<>> =>
           /\ 1 \in 1 .. Len(s) /\ Head(s) = s[1]
           /\ \A k \in 1 .. Len(Tail(s)) : k + 1 \in 1 .. Len(s) /\ Tail(s)[k] = s[k + 1]
    OBVIOUS
  <2>3. \A c \in Clusters : Head(pending).table[c] \in G
    BY <1>1, <2>1, <2>2
  <2>4. \A k \in 1 .. Len(Tail(pending)) : \A c \in Clusters :
           Tail(pending)[k].table[c] \in G
    BY <1>1, <2>1, <2>2
  <2> QED
    BY <2>1, <2>3, <2>4 DEF TablesIn
<1>4. ASSUME PowerOff PROVE TablesIn(G)'
  <2>1. disk' = disk /\ pending' = <<>>
    BY <1>4 DEF PowerOff
  <2>2. \A k \in 1 .. Len(<<>>) : FALSE
    OBVIOUS
  <2> QED
    BY <1>1, <2>1, <2>2 DEF TablesIn
<1>5. ASSUME WriteFile PROVE TablesIn(G)'
  <2>1. PICK d \in Writers, parent \in Reach, name \in Names, ext \in Exts,
             size \in 1 .. MaxSize : \E buf :
           /\ Request(parent, name, ext, size, buf)
           /\ RoomChecked => EnoughRoom(size)
           /\ write(d, parent, name, ext, size, buf)
    BY <1>1, <1>5, WriteFileRequests
  <2> QED
    BY <1>1, <2>1, RequestTables
<1>6. ASSUME MakeDirectory PROVE TablesIn(G)'
  <2>1. PICK d \in Writers, parent \in Reach, name \in Names, ext \in Exts, junk \in Exts :
           /\ Request(parent, name, ext, 0, junk)
           /\ write(d, parent, name, ext, 0, junk)
    BY <1>1, <1>6, MakeDirectoryRequests
  <2> QED
    BY <1>1, <2>1, RequestTables
<1>7. ASSUME DeleteByName PROVE TablesIn(G)'
  <2>1. disk' = disk
    BY <1>1, <1>7, DeleteEffect
  <2>2. CASE UNCHANGED <<cache, pending>>
    BY <1>1, <2>1, <2>2 DEF TablesIn
  <2>3. CASE \E d \in Writers, parent \in Reach, i \in Slots :
                i # 0 /\ DeleteEntry(d, parent, i)
    <3>1. PICK d \in Writers, parent \in Reach, i \in Slots :
             i # 0 /\ DeleteEntry(d, parent, i)
      BY <2>3
    <3>2. d \in Drivers /\ parent \in Clusters
      BY <1>1, ReachFacts DEF Reach
    <3> DEFINE writes == DeleteDisks(d, parent, i)
    <3>3. \A k \in 1 .. Len(writes) : \A c \in Clusters : writes[k].table[c] \in G
      BY <1>1, <3>1, <3>2, DeleteTables
    <3>4. pending' = writes
      BY <3>1 DEF DeleteEntry
    <3> HIDE DEF writes
    <3> QED
      BY <1>1, <2>1, <3>3, <3>4 DEF TablesIn
  <2>4. \A t, name, ext : \A i \in Deletable(t, name, ext) : i \in Slots /\ i # 0
    BY DEF Deletable
  <2> QED
    BY <1>1, <1>7, <2>2, <2>3, <2>4, DeleteEffect
<1>8. ASSUME ReadFile PROVE TablesIn(G)'
  BY <1>1, <1>8 DEF ReadFile, read, TablesIn
<1>9. ASSUME UNCHANGED fatVars PROVE TablesIn(G)'
  BY <1>1, <1>9 DEF fatVars, TablesIn
<1> QED
  BY <1>2, <1>3, <1>4, <1>5, <1>6, <1>7, <1>8, <1>9 DEF FatNext

\* The tables of the blank disk are bare.
LEMMA TablesInit ==
    ASSUME NEW G, Closed(G), FatInit
    PROVE  TablesIn(G)
<1>1. disk = BlankDisk /\ pending = <<>>
  BY DEF FatInit
<1>2. \A c \in Clusters : disk.table[c] = NoTable
  BY <1>1 DEF BlankDisk
<1>3. NoTable \in G
  BY NoTableFacts, ClusterFacts DEF Bare, Closed
<1>4. \A k \in 1 .. Len(<<>>) : FALSE
  OBVIOUS
<1> QED
  BY <1>1, <1>2, <1>3, <1>4 DEF TablesIn

-----------------------------------------------------------------------------
(* Names.                                                                   *)

\* No two files of a table have the same name and extension.
TableApart(t) ==
    \A i, j \in UserSlots :
        /\ t[i].live /\ t[j].live /\ t[i].name = t[j].name /\ t[i].ext = t[j].ext
        /\ ~t[i].dir /\ ~t[j].dir
        => i = j

NamesInv ==
    /\ \A c \in Clusters : TableApart(disk.table[c])
    /\ \A k \in 1 .. Len(pending) : \A c \in Clusters : TableApart(pending[k].table[c])

\* A table, slot by slot, after a write and after a deletion.
LEMMA EnteredSlots ==
    ASSUME NEW old \in Tables, NEW slot \in UserSlots, NEW e
    PROVE  LET t == [old EXCEPT ![slot] = e]
           IN  /\ \A i \in UserSlots : t[i] = IF i = slot THEN e ELSE old[i]
               /\ t[0] = old[0] /\ t[1] = old[1]
<1> DEFINE t == [old EXCEPT ![slot] = e]
<1>1. DOMAIN old = Slots
  BY DEF Tables
<1>2. \A i \in Slots : t[i] = IF i = slot THEN e ELSE old[i]
  BY <1>1
<1>3. 0 \in Slots /\ 1 \in Slots /\ UserSlots \subseteq Slots /\ slot # 0 /\ slot # 1
  BY ClusterFacts
<1> QED
  BY <1>2, <1>3

\* A deletion leaves name and extension in the slot.
LEMMA UnlistedSlots ==
    ASSUME NEW old \in Tables, NEW slot \in Slots
    PROVE  LET t == [old EXCEPT ![slot].live = FALSE]
           IN  /\ ~t[slot].live
               /\ \A i \in Slots : /\ i # slot => t[i] = old[i]
                                   /\ t[i].name = old[i].name /\ t[i].ext = old[i].ext
                                   /\ t[i].live => old[i].live
                                   /\ t[i].dir = old[i].dir /\ t[i].size = old[i].size
<1> DEFINE t == [old EXCEPT ![slot].live = FALSE]
<1>1. DOMAIN old = Slots /\ old[slot] \in Entries
  BY DEF Tables
<1>2. t[slot] = [old[slot] EXCEPT !.live = FALSE]
  BY <1>1
<1>3. \A i \in Slots : i # slot => t[i] = old[i]
  BY <1>1
<1>4. /\ ~t[slot].live /\ t[slot].name = old[slot].name /\ t[slot].ext = old[slot].ext
      /\ t[slot].dir = old[slot].dir /\ t[slot].size = old[slot].size
  BY <1>1, <1>2 DEF Entries
<1> HIDE DEF t
<1>5. \A i \in Slots : /\ i # slot => t[i] = old[i]
                       /\ t[i].name = old[i].name /\ t[i].ext = old[i].ext
                       /\ t[i].live => old[i].live
                       /\ t[i].dir = old[i].dir /\ t[i].size = old[i].size
  <2> TAKE i \in Slots
  <2>1. CASE i = slot
    BY <1>4, <2>1
  <2>2. CASE i # slot
    BY <1>3, <2>2
  <2> QED
    BY <2>1, <2>2
<1> QED
  BY <1>4, <1>5 DEF t

\* No operation gives a table two files of one name: a write checks the name it
\* enters, the others enter none.
LEMMA ApartClosed == Closed({t \in Tables : TableApart(t)})
<1>1. ASSUME NEW t \in Tables, Bare(t) PROVE TableApart(t)
  BY <1>1 DEF Bare, TableApart
<1>2. ASSUME NEW old \in Tables, TableApart(old), NEW t \in Tables, Entered(old, t)
      PROVE  TableApart(t)
  <2>1. PICK slot \in UserSlots, name \in Names, ext \in Exts, e \in Entries :
           /\ ~old[slot].live /\ ~Exists(old, name, ext)
           /\ RoomChecked => \A i \in UserSlots : i < slot => old[i].live
           /\ e.live /\ e.name = name /\ e.ext = IF e.dir THEN old[slot].ext ELSE ext
           /\ ~e.dir => e.size # 0
           /\ t = [old EXCEPT ![slot] = e]
    BY <1>2, Zenon DEF Entered
  <2>2. \A i \in UserSlots : t[i] = IF i = slot THEN e ELSE old[i]
    <3>1. t = [old EXCEPT ![slot] = e]
      BY <2>1
    <3> QED
      BY <3>1, EnteredSlots
  <2>3. ASSUME NEW i \in UserSlots, old[i].live, old[i].name = name,
               old[i].ext = e.ext, ~e.dir
        PROVE  FALSE
    BY <2>1, <2>3 DEF Exists
  <2> SUFFICES ASSUME NEW i \in UserSlots, NEW j \in UserSlots,
                      t[i].live, t[j].live, t[i].name = t[j].name, t[i].ext = t[j].ext,
                      ~t[i].dir, ~t[j].dir
               PROVE  i = j
    BY DEF TableApart
  <2>4. CASE i = slot /\ j # slot
    BY <2>1, <2>2, <2>3, <2>4
  <2>5. CASE i # slot /\ j = slot
    BY <2>1, <2>2, <2>3, <2>5
  <2>6. CASE i # slot /\ j # slot
    BY <1>2, <2>2, <2>6 DEF TableApart
  <2> QED
    BY <2>4, <2>5, <2>6
<1>3. ASSUME NEW old \in Tables, TableApart(old), NEW t \in Tables, Unlisted(old, t)
      PROVE  TableApart(t)
  <2>1. PICK slot \in Slots : t = [old EXCEPT ![slot].live = FALSE]
    BY <1>3 DEF Unlisted
  <2>2. \A i \in UserSlots :
           /\ t[i].name = old[i].name /\ t[i].ext = old[i].ext
           /\ t[i].live => old[i].live
           /\ t[i].dir = old[i].dir
    BY <2>1, UnlistedSlots, ClusterFacts
  <2> QED
    BY <1>3, <2>2 DEF TableApart
<1> QED
  BY <1>1, <1>2, <1>3 DEF Closed

\* NamesInv is a fact about the tables of all disks.
LEMMA NamesInvTables ==
    ASSUME FatTyped
    PROVE  NamesInv <=> TablesIn({t \in Tables : TableApart(t)})
<1>1. /\ \A c \in Clusters : disk.table[c] \in Tables
      /\ \A k \in 1 .. Len(pending), c \in Clusters : pending[k].table[c] \in Tables
  <2>1. \A s \in Seq(Disks) : \A k \in 1 .. Len(s) : s[k] \in Disks
    OBVIOUS
  <2>2. \A d \in Disks, c \in Clusters : d.table[c] \in Tables
    BY DEF Disks
  <2>3. disk \in Disks /\ \A k \in 1 .. Len(pending) : pending[k] \in Disks
    BY <2>1 DEF FatTyped
  <2> QED
    BY <2>2, <2>3
<1> QED
  BY <1>1 DEF NamesInv, TablesIn

\* Every step keeps NamesInv, as names apart are a closed set of tables.
LEMMA NamesInvStep == FatTyped /\ NamesInv /\ [FatNext]_fatVars => NamesInv'
<1> SUFFICES ASSUME FatTyped, NamesInv, [FatNext]_fatVars PROVE NamesInv'
  OBVIOUS
<1>1. TablesIn({t \in Tables : TableApart(t)})'
  BY ApartClosed, NamesInvTables, TablesStep
<1>2. FatTyped'
  BY FatTypedStep
<1>3. FatTyped' => (NamesInv' <=> TablesIn({t \in Tables : TableApart(t)})')
  BY NamesInvTables, PTL
<1> QED
  BY <1>1, <1>2, <1>3

\* A disk nobody wrote lists no names.
LEMMA InitNames == FatInit => NamesInv
<1>1. FatInit => FatTyped
  BY InitTyped
<1> QED
  BY <1>1, ApartClosed, NamesInvTables, TablesInit

\* Two live files in one directory never carry the same name and extension.
FileNamesUnique ==
    \A p, q \in Places :
        /\ p[1] = q[1] /\ ~EntryAt(p).dir /\ ~EntryAt(q).dir
        /\ EntryAt(p).name = EntryAt(q).name /\ EntryAt(p).ext = EntryAt(q).ext
        => p = q

\* Whatever copies of the driver write, whatever room is left and wherever the power
\* failed, no directory lists two files of the same name and extension.
THEOREM FileNamesStayUnique == FatSpec => []FileNamesUnique
<1>1. FatTyped /\ NamesInv => FileNamesUnique
  <2> SUFFICES ASSUME FatTyped, NamesInv, NEW p \in Places, NEW q \in Places, p[1] = q[1],
                      ~EntryAt(p).dir, ~EntryAt(q).dir,
                      EntryAt(p).name = EntryAt(q).name, EntryAt(p).ext = EntryAt(q).ext
               PROVE  p = q
    BY DEF FileNamesUnique
  <2>1. /\ p[2] \in UserSlots /\ EntryAt(p) = disk.table[p[1]][p[2]] /\ EntryAt(p).live
        /\ p = <<p[1], p[2]>> /\ p[1] \in Clusters
        /\ q[2] \in UserSlots /\ EntryAt(q) = disk.table[q[1]][q[2]] /\ EntryAt(q).live
        /\ q = <<q[1], q[2]>>
    BY PlacesLive, PlaceFacts DEF FatTyped
  <2>2. TableApart(disk.table[p[1]])
    BY <2>1 DEF NamesInv
  <2>3. p[2] = q[2]
    BY <2>1, <2>2 DEF TableApart
  <2> QED
    BY <2>1, <2>3
<1>2. FatInit => FatTyped /\ NamesInv
  BY InitTyped, InitNames
<1>3. FatTyped /\ NamesInv /\ [FatNext]_fatVars => FatTyped' /\ NamesInv'
  BY FatTypedStep, NamesInvStep
<1> QED
  BY <1>1, <1>2, <1>3, PTL DEF FatSpec

\* No file in a slot that was empty has the name and extension of a live entry.
Alone(old, t) ==
    \A i, j \in UserSlots :
        /\ old[j].live /\ ~old[i].live /\ t[i].live /\ ~t[i].dir
        => old[j].name # t[i].name \/ old[j].ext # t[i].ext

\* From disk to disk, beginning with d, files enter alone in all tables.
EnteredAlone(d, s) ==
    \A k \in 1 .. Len(s), c \in Clusters :
        Alone((IF k = 1 THEN d ELSE s[k - 1]).table[c], s[k].table[c])

EnterInv == EnteredAlone(disk, pending)

\* Tables that stay, or lose all entries, and one that has the new file at the end.
LEMMA AloneAtEnd ==
    ASSUME NEW d, NEW s \in Seq(Disks),
           \A k \in 1 .. Len(s), c \in Clusters :
              \/ s[k].table[c] = d.table[c]
              \/ \A i \in UserSlots : ~s[k].table[c][i].live
              \/ k = Len(s) /\ Alone(d.table[c], s[k].table[c])
    PROVE  EnteredAlone(d, s)
<1> SUFFICES ASSUME NEW k \in 1 .. Len(s), NEW c \in Clusters
             PROVE  Alone((IF k = 1 THEN d ELSE s[k - 1]).table[c], s[k].table[c])
  BY DEF EnteredAlone
<1>1. Alone(d.table[c], s[k].table[c])
  BY DEF Alone
<1>2. CASE k = 1
  BY <1>1, <1>2
<1>3. CASE k # 1
  <2>1. k - 1 \in 1 .. Len(s) /\ k - 1 # Len(s)
    BY <1>3
  <2>2. \/ s[k - 1].table[c] = d.table[c]
        \/ \A j \in UserSlots : ~s[k - 1].table[c][j].live
    BY <2>1
  <2>3. Alone(s[k - 1].table[c], s[k].table[c])
    BY <1>1, <2>2 DEF Alone
  <2> QED
    BY <1>3, <2>3
<1> QED
  BY <1>2, <1>3

\* The table a write leaves: the name was searched in all slots before.
LEMMA WriteAlone ==
    ASSUME disk \in Disks, NEW parent, NEW name, NEW ext,
           NEW size, NEW buf, Request(parent, name, ext, size, buf), NEW numbers, NEW slot,
           Placed(parent, name, ext, size, buf, numbers, slot)
    PROVE  EnteredAlone(disk, WriteDisks(parent, name, ext, size, buf))
<1> DEFINE writes == WriteDisks(parent, name, ext, size, buf)
           old == disk.table[parent]
           entry == NewEntry(old[slot], name, ext, size, numbers[1])
           t == NewTable(parent, name, size, buf)
           v == NewData(size, numbers, buf)
           table == [old EXCEPT ![slot] = entry]
<1>1. /\ parent \in Clusters /\ name \in Names /\ ext \in Exts /\ size \in 0 .. MaxSize
      /\ IsBuffer(size, buf)
  BY DEF Request
<1>2. /\ slot \in UserSlots /\ slot \in Slots /\ ~Exists(old, name, ext)
      /\ numbers \in [1 .. Required(size) -> FreeClusters(disk.fat)]
  BY ClusterFacts DEF Placed
<1>3. old \in Tables /\ old[slot] \in Entries
  BY <1>1, <1>2 DEF Disks, Tables
<1>4. Written(writes, numbers, t, v, parent, table) /\ writes \in Seq(Disks)
  BY PlacedWrites
<1>5. entry.name = name /\ (~entry.dir => entry.ext = ext)
  <2>1. numbers[1] \in Clusters
    <3>1. 1 \in 1 .. Required(size)
      BY <1>1, FatConstants DEF Required
    <3> QED
      BY <1>2, <3>1 DEF FreeClusters
  <2>2. /\ entry.name = name /\ (entry.dir <=> size = 0)
        /\ entry.ext = IF size = 0 THEN old[slot].ext ELSE ext
    BY <1>1, <1>3, <2>1, NewEntryFacts
  <2> QED
    BY <2>2
<1>6. \A i \in UserSlots : ~t[i].live
  <2>1. CASE size = 0
    <3>1. buf \in Exts /\ t = init_directory_table(name, parent, buf)
      BY <1>1, <2>1 DEF IsBuffer, NewTable
    <3> QED
      BY <1>1, <3>1, NewTableFacts
  <2>2. CASE size # 0
    BY <2>2, ClusterFacts, NoTableFacts DEF NewTable
  <2> QED
    BY <2>1, <2>2
<1> HIDE DEF entry, t, v, old
<1>7. Alone(old, table)
  <2>1. table = [old EXCEPT ![slot] = entry]
    OBVIOUS
  <2> HIDE DEF table
  <2>2. \A i \in UserSlots : table[i] = IF i = slot THEN entry ELSE old[i]
    BY <1>2, <1>3, <2>1, EnteredSlots
  <2> SUFFICES ASSUME NEW i \in UserSlots, NEW j \in UserSlots,
                      old[j].live, ~old[i].live, table[i].live, ~table[i].dir
               PROVE  old[j].name # table[i].name \/ old[j].ext # table[i].ext
    BY DEF Alone
  <2>3. table[i].name = name /\ table[i].ext = ext
    BY <1>5, <2>2
  <2> QED
    BY <1>2, <2>3 DEF Exists
<1> HIDE DEF writes, table
<1>8. ASSUME NEW k \in 1 .. Len(writes), NEW c \in Clusters
      PROVE  \/ writes[k].table[c] = disk.table[c]
             \/ \A i \in UserSlots : ~writes[k].table[c][i].live
             \/ k = Len(writes) /\ Alone(disk.table[c], writes[k].table[c])
  <2>1. CASE k = Len(writes)
    <3>1. writes[k].table[c] = IF c = parent THEN table
                               ELSE IF c \in Range(numbers) THEN t ELSE disk.table[c]
      BY <1>4, <2>1 DEF Written, Tabled
    <3> QED
      BY <1>6, <1>7, <2>1, <3>1 DEF old
  <2>2. CASE k # Len(writes)
    <3>1. Bodied(writes[k], Range(numbers), t) \/ Mapped(writes[k], numbers, t)
      BY <1>4, <2>2 DEF Written
    <3> QED
      BY <1>6, <3>1 DEF Bodied, Mapped
  <2> QED
    BY <2>1, <2>2
<1> QED
  BY <1>4, <1>8, AloneAtEnd DEF writes

\* A deletion enters nothing.
LEMMA DeleteAlone ==
    ASSUME disk \in Disks, cache \in [Drivers -> Fats], NEW d \in Drivers,
           NEW parent \in Clusters, NEW i \in Slots
    PROVE  EnteredAlone(disk, DeleteDisks(d, parent, i))
<1> DEFINE writes == DeleteDisks(d, parent, i)
           f == Cleared(cache[d], Freed(cache[d], disk.table[parent][i]))
           old == disk.table[parent]
           table == [old EXCEPT ![i].live = FALSE]
<1>1. Unlists(writes, f, parent, table)
  BY DeleteDisksFacts
<1>2. \A j \in UserSlots : table[j].live => old[j].live
  BY UnlistedSlots, ClusterFacts DEF Disks
<1>3. Alone(old, table) /\ \A x : Alone(x, x)
  BY <1>2 DEF Alone
<1> HIDE DEF writes, f, table
<1>4. Len(writes) = 2 /\ \A k \in 1 .. 2, c \in Clusters :
         writes[k].table[c] = IF c = parent THEN table ELSE disk.table[c]
  BY <1>1 DEF Unlists
<1>5. ASSUME NEW k \in 1 .. Len(writes), NEW c \in Clusters
      PROVE  Alone((IF k = 1 THEN disk ELSE writes[k - 1]).table[c], writes[k].table[c])
  <2>1. k = 1 \/ k = 2
    BY <1>4
  <2> QED
    BY <1>3, <1>4, <2>1
<1> QED
  BY <1>5 DEF EnteredAlone, writes

\* Nor does formatting.
LEMMA FormatAlone ==
    ASSUME disk \in Disks
    PROVE  EnteredAlone(disk, create_fat32)
<1> DEFINE root == init_directory_table(RootName, ROOT_CLUSTER_NUMBER, NoExt)
<1>1. /\ create_fat32 \in Seq(Disks) /\ Len(create_fat32) = 3
      /\ create_fat32[1].table = disk.table /\ create_fat32[2].table = disk.table
      /\ \A c \in Clusters :
            create_fat32[3].table[c] = IF c = ROOT_CLUSTER_NUMBER THEN root ELSE disk.table[c]
  BY CreateFacts
<1>2. \A i \in UserSlots : ~root[i].live
  BY FatConstants, ClusterFacts, NewTableFacts
<1> HIDE DEF root
<1>3. ASSUME NEW k \in 1 .. 3, NEW c \in Clusters
      PROVE  \/ create_fat32[k].table[c] = disk.table[c]
             \/ \A i \in UserSlots : ~create_fat32[k].table[c][i].live
  <2>1. k = 1 \/ k = 2 \/ k = 3
    OBVIOUS
  <2> QED
    BY <1>1, <1>2, <2>1
<1> QED
  BY <1>1, <1>3, AloneAtEnd

\* A request leaves such disks, or nothing, to be written.
LEMMA RequestAlone ==
    ASSUME disk \in Disks, EnterInv, NEW d, NEW parent, NEW name, NEW ext,
           NEW size, NEW buf, Request(parent, name, ext, size, buf),
           write(d, parent, name, ext, size, buf)
    PROVE  EnterInv'
<1>1. disk' = disk
  BY WriteEffect
<1>2. CASE pending' = pending
  BY <1>1, <1>2 DEF EnterInv
<1>3. CASE \E numbers, slot :
              /\ Placed(parent, name, ext, size, buf, numbers, slot)
              /\ pending' = WriteDisks(parent, name, ext, size, buf)
  <2>1. EnteredAlone(disk, pending')
    BY <1>3, WriteAlone
  <2> QED
    BY <1>1, <2>1 DEF EnterInv
<1> QED
  BY <1>2, <1>3, WriteEffect

\* No step breaks the order: the disk takes its place in it, or a call begins.
LEMMA EnterInvStep == FatTyped /\ EnterInv /\ [FatNext]_fatVars => EnterInv'
<1> SUFFICES ASSUME FatTyped, EnterInv, [FatNext]_fatVars PROVE EnterInv'
  OBVIOUS
<1>1. /\ disk \in Disks /\ pending \in Seq(Disks) /\ cache \in [Drivers -> Fats]
      /\ Writers \subseteq Drivers
  BY FatConstants DEF FatTyped, Drivers
<1>2. CASE initialize_filesystem_fat32
  <2>1. disk' = disk /\ (pending' = create_fat32 \/ pending' = pending)
    BY <1>2 DEF initialize_filesystem_fat32
  <2>2. EnteredAlone(disk, pending')
    BY <1>1, <2>1, FormatAlone DEF EnterInv
  <2> QED
    BY <2>1, <2>2 DEF EnterInv
<1>3. CASE DiskWrite
  <2>1. pending # <<>> /\ disk' = Head(pending) /\ pending' = Tail(pending)
    BY <1>3 DEF DiskWrite
  <2>2. \A s \in Seq(Disks) : s # <<>> =>
           /\ Head(s) = s[1]
           /\ \A k \in 1 .. Len(Tail(s)) :
                 k + 1 \in 1 .. Len(s) /\ Tail(s)[k] = s[k + 1] /\ k + 1 # 1
                 /\ (k # 1 => k - 1 \in 1 .. Len(Tail(s)) /\ Tail(s)[k - 1] = s[k])
    OBVIOUS
  <2>3. ASSUME NEW k \in 1 .. Len(Tail(pending)), NEW c \in Clusters
        PROVE  Alone((IF k = 1 THEN Head(pending) ELSE Tail(pending)[k - 1]).table[c],
                     Tail(pending)[k].table[c])
    <3>1. Alone(pending[(k + 1) - 1].table[c], pending[k + 1].table[c])
      BY <1>1, <2>1, <2>2 DEF EnterInv, EnteredAlone
    <3>2. (k + 1) - 1 = k
      OBVIOUS
    <3> QED
      BY <1>1, <2>1, <2>2, <3>1, <3>2
  <2>4. EnteredAlone(Head(pending), Tail(pending))
    BY <2>3 DEF EnteredAlone
  <2> QED
    BY <2>1, <2>4 DEF EnterInv
<1>4. CASE PowerOff
  <2>1. pending' = <<>>
    BY <1>4 DEF PowerOff
  <2> QED
    BY <2>1 DEF EnterInv, EnteredAlone
<1>5. CASE WriteFile
  BY <1>1, <1>5, WriteFileRequests, RequestAlone
<1>6. CASE MakeDirectory
  BY <1>1, <1>6, MakeDirectoryRequests, RequestAlone
<1>7. CASE DeleteByName
  <2>1. disk' = disk
    BY <1>1, <1>7, DeleteEffect
  <2>2. CASE UNCHANGED <<cache, pending>>
    BY <2>1, <2>2 DEF EnterInv
  <2>3. CASE \E d \in Writers, parent \in Reach, i \in Slots : DeleteEntry(d, parent, i)
    <3>1. PICK d \in Writers, parent \in Reach, i \in Slots : DeleteEntry(d, parent, i)
      BY <2>3
    <3>2. d \in Drivers /\ parent \in Clusters
      BY <1>1, ReachFacts DEF Reach
    <3>3. pending' = DeleteDisks(d, parent, i)
      BY <3>1 DEF DeleteEntry
    <3>4. EnteredAlone(disk, pending')
      BY <1>1, <3>2, <3>3, DeleteAlone
    <3> QED
      BY <2>1, <3>4 DEF EnterInv
  <2> QED
    BY <1>1, <1>7, <2>2, <2>3, DeleteEffect
<1>8. CASE ReadFile
  BY <1>8 DEF ReadFile, read, EnterInv
<1>9. CASE UNCHANGED fatVars
  BY <1>9 DEF fatVars, EnterInv
<1> QED
  BY <1>2, <1>3, <1>4, <1>5, <1>6, <1>7, <1>8, <1>9 DEF FatNext

\* Only a DiskWrite changes the disk, to the first of those to be written.
LEMMA DiskStep ==
    ASSUME [FatNext]_fatVars
    PROVE  disk' = disk \/ (pending # <<>> /\ disk' = Head(pending))
<1>1. CASE DiskWrite
  BY <1>1 DEF DiskWrite
<1>2. CASE ~DiskWrite
  BY <1>2 DEF FatNext, initialize_filesystem_fat32, PowerOff, WriteFile, MakeDirectory, write,
     DeleteByName, delete, ReadFile, read, fatVars
<1> QED
  BY <1>1, <1>2

\* With any extensions, any writers, any room and any power failures, no file is
\* entered beside a live entry of its name and extension.
THEOREM FilesAlwaysEnterAlone == FatSpec => FilesEnterAlone
<1>1. FatTyped /\ FatTyped' /\ EnterInv /\ [FatNext]_fatVars =>
        [\A p \in Places' \ Places, q \in Places :
            p[1] = q[1] /\ ~EntryAt(p)'.dir =>
                \/ EntryAt(q).name # EntryAt(p)'.name
                \/ EntryAt(q).ext # EntryAt(p)'.ext]_fatVars
  <2> SUFFICES ASSUME FatTyped, FatTyped', EnterInv, [FatNext]_fatVars,
                      NEW p \in Places' \ Places, NEW q \in Places,
                      p[1] = q[1], ~EntryAt(p)'.dir
               PROVE  \/ EntryAt(q).name # EntryAt(p)'.name
                      \/ EntryAt(q).ext # EntryAt(p)'.ext
    OBVIOUS
  <2> DEFINE c == q[1]
  <2>1. /\ c \in Reach /\ c \in Clusters /\ q[2] \in UserSlots
        /\ EntryAt(q) = disk.table[c][q[2]] /\ EntryAt(q).live
    BY PlacesLive, PlaceFacts DEF FatTyped, Places, EntryAt
  <2>2. /\ p \in Reach' \X UserSlots /\ p = <<c, p[2]>> /\ p[2] \in UserSlots
        /\ EntryAt(p)' = disk'.table[c][p[2]] /\ EntryAt(p)'.live
    BY DEF Places, EntryAt
  <2>3. ~disk.table[c][p[2]].live
    BY <2>1, <2>2 DEF Places
  <2>4. disk' # disk
    BY <2>2, <2>3
  <2>5. pending # <<>> /\ disk' = Head(pending)
    BY <2>4, DiskStep
  <2>6. Alone(disk.table[c], disk'.table[c])
    <3>1. 1 \in 1 .. Len(pending) /\ Head(pending) = pending[1]
      BY <2>5 DEF FatTyped
    <3> QED
      BY <2>1, <2>5, <3>1 DEF EnterInv, EnteredAlone
  <2> QED
    BY <2>1, <2>2, <2>3, <2>6 DEF Alone
<1>2. FatInit => FatTyped /\ EnterInv
  <2>1. FatInit => EnterInv
    BY DEF FatInit, EnterInv, EnteredAlone
  <2> QED
    BY <2>1, InitTyped
<1>3. FatTyped /\ EnterInv /\ [FatNext]_fatVars => FatTyped' /\ EnterInv'
  BY FatTypedStep, EnterInvStep
<1> QED
  BY <1>1, <1>2, <1>3, PTL DEF FatSpec, FilesEnterAlone

-----------------------------------------------------------------------------
(* Reading.                                                                 *)

\* A directory leads up under "..", only directories list anything, and no slot
\* before that of a live file, be it empty by now, holds another file under its name
\* and extension.
TableOrdered(t) ==
    /\ t[0].live => t[1].name = DotDot
    /\ \A j \in UserSlots : t[j].live => t[0].live
    /\ \A j \in UserSlots : t[j].live /\ ~t[j].dir =>
          /\ t[j].name \in Names
          /\ \A i \in UserSlots : i < j =>
                t[i].dir \/ t[i].name # t[j].name \/ t[i].ext # t[j].ext

\* A file is entered in the first empty slot: all before it are live, and the write
\* has compared them; a file written before it later is compared with it.
LEMMA OrderedClosed ==
    ASSUME RoomChecked
    PROVE  Closed({t \in Tables : TableOrdered(t)})
<1>1. ASSUME NEW t \in Tables, Bare(t) PROVE TableOrdered(t)
  BY <1>1 DEF Bare, TableOrdered
<1>2. ASSUME NEW old \in Tables, TableOrdered(old), NEW t \in Tables, Entered(old, t)
      PROVE  TableOrdered(t)
  <2>1. PICK slot \in UserSlots, name \in Names, ext \in Exts, e \in Entries :
           /\ ~old[slot].live /\ ~Exists(old, name, ext)
           /\ RoomChecked => \A i \in UserSlots : i < slot => old[i].live
           /\ e.live /\ e.name = name /\ e.ext = IF e.dir THEN old[slot].ext ELSE ext
           /\ ~e.dir => e.size # 0
           /\ t = [old EXCEPT ![slot] = e]
    BY <1>2, Zenon DEF Entered
  <2>0. old[0].live
    BY <1>2 DEF Entered
  <2>2. /\ \A i \in UserSlots : t[i] = IF i = slot THEN e ELSE old[i]
        /\ t[0] = old[0] /\ t[1] = old[1]
    <3>1. t = [old EXCEPT ![slot] = e]
      BY <2>1
    <3> QED
      BY <3>1, EnteredSlots
  <2>3. ~e.dir => \A i \in UserSlots :
                     old[i].live => old[i].name # e.name \/ old[i].ext # e.ext
    BY <2>1 DEF Exists
  <2>4. ASSUME NEW j \in UserSlots, t[j].live, ~t[j].dir
        PROVE  /\ t[j].name \in Names
               /\ \A i \in UserSlots : i < j =>
                     t[i].dir \/ t[i].name # t[j].name \/ t[i].ext # t[j].ext
    <3>1. CASE j = slot
      <4>1. /\ t[j] = e /\ e.name \in Names /\ ~e.dir
            /\ \A i \in UserSlots : i < j => t[i] = old[i] /\ old[i].live
        BY <2>1, <2>2, <2>4, <3>1, ClusterFacts DEF UserSlots
      <4> QED
        BY <2>3, <4>1
    <3>2. CASE j # slot
      <4>1. t[j] = old[j] /\ old[j].live /\ ~old[j].dir
        BY <2>2, <2>4, <3>2
      <4>2. t[slot].dir \/ t[slot].name # t[j].name \/ t[slot].ext # t[j].ext
        BY <2>1, <2>2, <2>3, <4>1
      <4> QED
        BY <1>2, <2>2, <4>1, <4>2 DEF TableOrdered
    <3> QED
      BY <3>1, <3>2
  <2> QED
    BY <1>2, <2>0, <2>2, <2>4 DEF TableOrdered
<1>3. ASSUME NEW old \in Tables, TableOrdered(old), NEW t \in Tables, Unlisted(old, t)
      PROVE  TableOrdered(t)
  <2>1. PICK slot \in Slots \ {0} : t = [old EXCEPT ![slot].live = FALSE]
    BY <1>3 DEF Unlisted
  <2>2. /\ t[0] = old[0]
        /\ \A i \in Slots :
              /\ t[i].name = old[i].name /\ t[i].ext = old[i].ext
              /\ t[i].live => old[i].live
              /\ t[i].dir = old[i].dir
    BY <2>1, UnlistedSlots, ClusterFacts
  <2> QED
    BY <1>3, <2>2, ClusterFacts DEF TableOrdered
<1> QED
  BY <1>1, <1>2, <1>3 DEF Closed

\* In an ordered table read finds a live file, or a directory before it.
LEMMA FileFound ==
    ASSUME NEW t \in Tables, TableOrdered(t), DotDot \notin Names,
           NEW j \in UserSlots, t[j].live, ~t[j].dir, t[j].name # t[0].name
    PROVE  LET found == ReadMatches(t, t[j].name, t[j].ext)
               i == Min(found)
           IN  /\ found # {}
               /\ \/ i = j
                  \/ /\ i \in UserSlots /\ i < j /\ t[i].dir
                     /\ t[i].name = t[j].name /\ t[i].ext = t[j].ext
<1> DEFINE found == ReadMatches(t, t[j].name, t[j].ext)
<1>1. j \in found /\ found \in SUBSET Nat
  BY ClusterFacts DEF ReadMatches, Slots
<1>2. ASSUME NEW i \in found, i < j
      PROVE  /\ i \in UserSlots /\ t[i].dir
             /\ t[i].name = t[j].name /\ t[i].ext = t[j].ext
  <2>1. i \in Slots /\ t[i].name = t[j].name /\ t[i].ext = t[j].ext
    BY DEF ReadMatches
  <2>2. i # 0 /\ i # 1
    BY <2>1 DEF TableOrdered
  <2>3. i \in UserSlots
    BY <2>1, <2>2, FatConstants DEF Slots, UserSlots
  <2>4. t[i].dir
    BY <1>2, <2>1, <2>3 DEF TableOrdered
  <2> QED
    BY <2>1, <2>3, <2>4
<1> HIDE DEF found
<1>3. Min(found) \in found /\ Min(found) <= j
  BY <1>1, MinFacts
<1>4. Min(found) = j \/ Min(found) < j
  <2>1. Min(found) \in Nat /\ j \in Nat
    BY <1>1, <1>3
  <2> QED
    BY <1>3, <2>1
<1>5. \/ Min(found) = j
      \/ /\ Min(found) \in UserSlots /\ Min(found) < j /\ t[Min(found)].dir
         /\ t[Min(found)].name = t[j].name /\ t[Min(found)].ext = t[j].ext
  BY <1>2, <1>3, <1>4
<1> QED
  BY <1>1, <1>5 DEF found

\* read compares deleted entries too, yet asked for a live file it delivers that
\* file's clusters or says that a directory hides it, whatever was written and deleted
\* before, by however many copies of the driver, and wherever the power failed.
THEOREM FilesAreFound ==
    ASSUME RoomChecked, DotDot \notin Names
    PROVE  FatSpec => []ReadFindsFile
<1> DEFINE G == {t \in Tables : TableOrdered(t)}
<1>1. Closed(G)
  BY OrderedClosed
<1> HIDE DEF G
<1>2. FatInit => FatTyped /\ TablesIn(G)
  BY <1>1, InitTyped, TablesInit
<1>3. FatTyped /\ TablesIn(G) /\ [FatNext]_fatVars => FatTyped' /\ TablesIn(G)'
  BY <1>1, FatTypedStep, TablesStep
<1>4. FatTyped /\ TablesIn(G) => ReadFindsFile
  <2> SUFFICES ASSUME FatTyped, TablesIn(G), NEW p \in Places, ~EntryAt(p).dir,
                      EntryAt(p).name # disk.table[p[1]][0].name
               PROVE  LET answer == ReadResult(p[1], EntryAt(p).name, EntryAt(p).ext, MaxSize)
                      IN  \/ answer = [code |-> 0, data |-> DataAlong(ChainOf(p))]
                          \/ answer.code = 1 /\ Hidden(p)
    BY DEF ReadFindsFile
  <2>1. /\ p[1] \in Clusters /\ p[2] \in UserSlots
        /\ EntryAt(p) = disk.table[p[1]][p[2]] /\ EntryAt(p).live /\ EntryAt(p) \in Entries
    BY PlacesLive, PlaceFacts DEF FatTyped
  <2>2. PICK t \in Tables : t = disk.table[p[1]] /\ TableOrdered(t)
    BY <2>1 DEF TablesIn, G
  <2>3. PICK j \in UserSlots : j = p[2]
    BY <2>1
  <2>4. EntryAt(p) = t[j] /\ t[j].live /\ ~t[j].dir /\ t[j].name # t[0].name
    BY <2>1, <2>2, <2>3
  <2> DEFINE found == ReadMatches(t, t[j].name, t[j].ext)
             answer == ReadResult(p[1], EntryAt(p).name, EntryAt(p).ext, MaxSize)
  <2>5. /\ found # {}
        /\ \/ Min(found) = j
           \/ /\ Min(found) \in UserSlots /\ Min(found) < j /\ t[Min(found)].dir
              /\ t[Min(found)].name = t[j].name /\ t[Min(found)].ext = t[j].ext
    BY <2>2, <2>4, FileFound
  <2>6. Valid(p[1])
    BY <2>2, <2>4 DEF TableOrdered, Valid
  <2>7. ~(t[j].size > MaxSize)
    BY <2>1, <2>4, FatConstants DEF Entries
  <2>8. answer = LET e == t[Min(found)]
                  IN  IF e.dir THEN [code |-> 1, data |-> <<>>]
                      ELSE IF e.size > MaxSize THEN [code |-> -1, data |-> <<>>]
                      ELSE [code |-> 0, data |-> DataAlong(Chain(disk.fat, e.cluster))]
    BY <2>2, <2>4, <2>5, <2>6 DEF ReadResult
  <2> HIDE DEF answer, found
  <2>9. CASE Min(found) = j
    <3>1. answer = [code |-> 0, data |-> DataAlong(ChainOf(p))]
      BY <2>4, <2>7, <2>9, <2>8 DEF ChainOf
    <3> QED
      BY <3>1 DEF answer
  <2>10. CASE /\ Min(found) \in UserSlots /\ Min(found) < j /\ t[Min(found)].dir
             /\ t[Min(found)].name = t[j].name /\ t[Min(found)].ext = t[j].ext
    <3>1. Hidden(p)
      BY <2>2, <2>3, <2>4, <2>10 DEF Hidden
    <3>2. answer.code = 1
      BY <2>10, <2>8
    <3> QED
      BY <3>1, <3>2 DEF answer
  <2> QED
    BY <2>5, <2>9, <2>10
<1> QED
  BY <1>2, <1>3, <1>4, PTL DEF FatSpec
=============================================================================
