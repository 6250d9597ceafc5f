----------------------------- MODULE Fat_proofs -----------------------------
(***************************************************************************)
(* What the operators of module Fat return, preserve and bound: the facts  *)
(* about the allocation table that the invariants of its callers rest on.  *)
(***************************************************************************)
EXTENDS Fat, FiniteSetTheorems, WellFoundedInduction, TLAPS

-----------------------------------------------------------------------------
(* A set of numbers up to m has a least element.  Its initial segments are *)
(* well founded by inclusion, and the least of them ends at its minimum.   *)
LEMMA MinOfBounded ==
  ASSUME NEW m \in Nat, NEW S \in SUBSET (0 .. m), S # {}
  PROVE  Min(S) \in S /\ \A y \in S : Min(S) <= y
<1> DEFINE R == StrictSubsetOrdering(0 .. m)
           T == {0 .. x : x \in S}
<1>1. IsWellFoundedOn(R, FiniteSubsetsOf(0 .. m))
  BY FS_StrictSubsetOrderingWellFounded
<1>2. T \subseteq FiniteSubsetsOf(0 .. m) /\ T # {}
  <2>1. \A x \in S : IsFiniteSet(0 .. x) /\ 0 .. x \subseteq 0 .. m
    BY FS_Interval
  <2>2. QED
    BY <2>1 DEF FiniteSubsetsOf
<1>3. PICK t \in T : \A u \in T : ~(<<u, t>> \in R)
  <2> HIDE DEF R, T
  <2>1. QED
    BY <1>1, <1>2, WFMin
<1>4. \E x \in S : \A y \in S : x <= y
  <2>1. PICK x \in S : t = 0 .. x
    OBVIOUS
  <2>2. ASSUME NEW y \in S, y < x
        PROVE  FALSE
    <3>1. 0 .. y \subseteq 0 .. x /\ 0 .. y # 0 .. x
      BY <2>2
    <3>2. <<0 .. y, 0 .. x>> \in R
      BY <3>1 DEF StrictSubsetOrdering
    <3>3. QED
      BY <1>3, <2>1, <3>2
  <2>3. QED
    BY <2>2
<1>5. QED
  BY <1>4, Zenon DEF Min

-----------------------------------------------------------------------------
(* The clusters of a walk are clusters, and one is that it begins at.      *)
LEMMA ReachWithin ==
  ASSUME NEW fat, NEW c \in Clusters
  PROVE  Reach(fat, c) \subseteq Clusters /\ c \in Reach(fat, c)
BY DEF Reach, Met, ClosedFrom

(* A walk stays in every set of clusters that holds its beginning and that *)
(* no link leaves.                                                         *)
LEMMA ReachLeast ==
  ASSUME NEW fat, NEW c \in Clusters, NEW S \in SUBSET Clusters, c \in S,
         \A y \in S : fat[y] \in Clusters => fat[y] \in S
  PROVE  Reach(fat, c) \subseteq S
<1>1. S \cap Met(fat, c) \in SUBSET Met(fat, c)
  OBVIOUS
<1>2. ClosedFrom(fat, c, S \cap Met(fat, c))
  BY DEF ClosedFrom, Met
<1>3. QED
  BY <1>1, <1>2 DEF Reach

(* The root directory is on no chain but its own as long as nothing links  *)
(* to it.                                                                  *)
LEMMA ReachAvoidsRoot ==
  ASSUME NEW fat, NEW c \in Clusters, c # Root, \A y \in Clusters : fat[y] # Root
  PROVE  Root \notin Reach(fat, c)
<1>1. Reach(fat, c) \subseteq Clusters \ {Root}
  BY ReachLeast
<1>2. QED
  BY <1>1

(* A walk does not stop at a cluster that links to another, and what can   *)
(* be reached from a cluster it visits it visits.                          *)
LEMMA ReachCloses ==
  ASSUME NEW fat, NEW c \in Clusters, NEW y \in Reach(fat, c)
  PROVE  /\ fat[y] \in Clusters => fat[y] \in Reach(fat, c)
         /\ Reach(fat, y) \subseteq Reach(fat, c)
<1>1. ASSUME NEW z \in Reach(fat, c), fat[z] \in Clusters
      PROVE  fat[z] \in Reach(fat, c)
  <2>1. z \in Clusters
    BY ReachWithin
  <2>2. QED
    BY <1>1, <2>1 DEF Reach, Met, ClosedFrom
<1>2. y \in Clusters /\ Reach(fat, c) \in SUBSET Clusters
  BY ReachWithin
<1>3. Reach(fat, y) \subseteq Reach(fat, c)
  BY <1>1, <1>2, ReachLeast
<1>4. QED
  BY <1>1, <1>3

(* A walk from a cluster without a link visits that cluster; from one with *)
(* a link, that cluster and what the walk from the next one visits.        *)
LEMMA ReachUnfolds ==
  ASSUME NEW fat, NEW c \in Clusters
  PROVE  Reach(fat, c) = {c} \cup (IF fat[c] \in Clusters THEN Reach(fat, fat[c]) ELSE {})
<1>1. CASE fat[c] \in Clusters
  <2> DEFINE d == fat[c]
             S == {c} \cup Reach(fat, d)
  <2>1. d \in Reach(fat, d) /\ S \in SUBSET Clusters
    BY <1>1, ReachWithin
  <2>2. \A y \in S : fat[y] \in Clusters => fat[y] \in S
    BY <1>1, <2>1, ReachCloses
  <2>3. Reach(fat, c) \subseteq S
    BY <2>1, <2>2, ReachLeast
  <2>4. c \in Reach(fat, c)
    BY ReachWithin
  <2>5. d \in Reach(fat, c)
    BY <1>1, <2>4, ReachCloses
  <2>6. Reach(fat, d) \subseteq Reach(fat, c)
    BY <2>5, ReachCloses
  <2>7. QED
    BY <1>1, <2>3, <2>4, <2>6
<1>2. CASE fat[c] \notin Clusters
  <2>1. {c} \in SUBSET Clusters /\ \A y \in {c} : fat[y] \in Clusters => fat[y] \in {c}
    BY <1>2
  <2>2. Reach(fat, c) \subseteq {c}
    BY <2>1, ReachLeast
  <2>3. QED
    BY <1>2, <2>2, ReachWithin
<1>3. QED
  BY <1>1, <1>2

(* A walk sees nothing of the table but the links of the clusters it       *)
(* visits.                                                                 *)
LEMMA ReachLocal ==
  ASSUME NEW fat, NEW fat2, NEW c \in Clusters, \A y \in Reach(fat, c) : fat2[y] = fat[y]
  PROVE  Reach(fat2, c) = Reach(fat, c)
<1>1. Reach(fat, c) \in SUBSET Clusters /\ c \in Reach(fat, c)
      /\ Reach(fat2, c) \in SUBSET Clusters /\ c \in Reach(fat2, c)
  BY ReachWithin
<1>2. \A y \in Reach(fat, c) : fat2[y] \in Clusters => fat2[y] \in Reach(fat, c)
  BY ReachCloses
<1>3. Reach(fat2, c) \subseteq Reach(fat, c)
  BY <1>1, <1>2, ReachLeast
<1>4. \A y \in Reach(fat2, c) : fat[y] \in Clusters => fat[y] \in Reach(fat2, c)
  BY <1>3, ReachCloses
<1>5. Reach(fat, c) \subseteq Reach(fat2, c)
  BY <1>1, <1>4, ReachLeast
<1>6. QED
  BY <1>3, <1>5

(* A walk that ends goes through every cluster it visits on its way to its *)
(* end, so it has one end: a chain with an end mark has no free cluster.   *)
LEMMA ChainEndsOnce ==
  ASSUME NEW fat, NEW c \in Clusters, NEW e \in Reach(fat, c), fat[e] \notin Clusters
  PROVE  \A y \in Reach(fat, c) :
           e \in Reach(fat, y) /\ (fat[y] \notin Clusters => y = e)
<1> DEFINE T == {y \in Reach(fat, c) : e \in Reach(fat, y)}
<1>1. Reach(fat, c) \subseteq Clusters /\ c \in Reach(fat, c) /\ c \in T /\ T \in SUBSET Clusters
  BY ReachWithin
<1>2. ASSUME NEW y \in T, fat[y] \in Clusters
      PROVE  fat[y] \in T
  <2>1. y \in Clusters /\ y # e /\ e \in Reach(fat, y)
    BY <1>1, <1>2
  <2>2. e \in Reach(fat, fat[y])
    BY <1>2, <2>1, ReachUnfolds
  <2>3. QED
    BY <1>2, <2>2, ReachCloses
<1>3. Reach(fat, c) \subseteq T
  BY <1>1, <1>2, ReachLeast
<1>4. ASSUME NEW y \in Reach(fat, c), fat[y] \notin Clusters
      PROVE  y = e
  BY <1>1, <1>3, <1>4, ReachUnfolds
<1>5. QED
  BY <1>3, <1>4

(* Linking the end of a chain to a cluster that ends one appends just that *)
(* cluster.                                                                *)
LEMMA ReachAppended ==
  ASSUME NEW fat, NEW fat2, NEW c \in Clusters, NEW e \in Reach(fat, c),
         NEW n \in Clusters \ Reach(fat, c), fat[e] \notin Clusters,
         fat2[e] = n, fat2[n] \notin Clusters,
         \A y \in Reach(fat, c) \ {e} : fat2[y] = fat[y]
  PROVE  Reach(fat2, c) = Reach(fat, c) \cup {n}
<1> DEFINE S == Reach(fat, c) \cup {n}
           T == Reach(fat, c) \cap Reach(fat2, c)
<1>1. /\ Reach(fat, c) \subseteq Clusters /\ c \in Reach(fat, c) /\ c \in Reach(fat2, c)
      /\ S \in SUBSET Clusters /\ T \in SUBSET Clusters /\ c \in S /\ c \in T
  BY ReachWithin
<1>2. \A y \in S : fat2[y] \in Clusters => fat2[y] \in S
  BY ReachCloses
<1>3. Reach(fat2, c) \subseteq S
  <2> HIDE DEF S
  <2> QED
    BY <1>1, <1>2, ReachLeast
<1>4. \A y \in T : fat[y] \in Clusters => fat[y] \in T
  BY ReachCloses
<1>5. Reach(fat, c) \subseteq T
  <2> HIDE DEF T
  <2> QED
    BY <1>1, <1>4, ReachLeast
<1>6. n \in Reach(fat2, c)
  BY <1>5, ReachCloses
<1>7. QED
  BY <1>3, <1>5, <1>6

(* The clusters of a walk are finitely many, so they can be counted.       *)
LEMMA ReachFinite ==
  ASSUME NEW fat, NEW c \in Clusters
  PROVE  IsFiniteSet(Reach(fat, c)) /\ Cardinality(Reach(fat, c)) \in Nat
<1>1. IsFiniteSet(Clusters)
  BY FS_Interval, MaxClusterAssumption DEF Clusters, Root
<1>2. QED
  BY <1>1, ReachWithin, FS_Subset, FS_CardinalityType

(* A walk that ends does not come back, so each of its clusters has one    *)
(* more to go than the next.                                               *)
LEMMA WalkShortens ==
  ASSUME NEW fat, NEW c \in Clusters, NEW e \in Reach(fat, c), fat[e] \notin Clusters,
         NEW y \in Reach(fat, c)
  PROVE  Cardinality(Reach(fat, y)) =
           IF fat[y] \in Clusters THEN Cardinality(Reach(fat, fat[y])) + 1 ELSE 1
<1>1. y \in Clusters /\ e \in Clusters /\ e \in Reach(fat, y)
  BY ReachWithin, ChainEndsOnce
<1>2. CASE fat[y] \notin Clusters
  <2>1. Reach(fat, y) = {y}
    BY <1>1, <1>2, ReachUnfolds
  <2>2. QED
    BY <1>2, <2>1, FS_Singleton
<1>3. CASE fat[y] \in Clusters
  <2>1. ASSUME y \in Reach(fat, fat[y])
        PROVE  FALSE
    <3> DEFINE T == {z \in Reach(fat, y) : y \in Reach(fat, z)}
    <3>1. T \in SUBSET Clusters /\ y \in T
      BY <1>1, ReachWithin
    <3>2. ASSUME NEW z \in T, fat[z] \in Clusters
          PROVE  fat[z] \in T
      <4>1. fat[z] \in Reach(fat, y)
        BY <1>1, <3>2, ReachCloses
      <4>2. y \in Reach(fat, fat[z])
        <5>1. CASE z = y
          BY <2>1, <5>1
        <5>2. CASE z # y
          <6>1. Reach(fat, z) = {z} \cup Reach(fat, fat[z])
            BY <3>1, <3>2, ReachUnfolds
          <6>2. QED
            BY <3>2, <5>2, <6>1
        <5>3. QED
          BY <5>1, <5>2
      <4>3. QED
        BY <4>1, <4>2
    <3>3. Reach(fat, y) \subseteq T
      <4> HIDE DEF T
      <4> QED
        BY <1>1, <3>1, <3>2, ReachLeast
    <3>4. y \in Reach(fat, e) /\ Reach(fat, e) = {e}
      BY <1>1, <3>3, ReachUnfolds
    <3>5. QED
      BY <1>3, <3>4
  <2>2. Reach(fat, y) = Reach(fat, fat[y]) \cup {y}
    BY <1>1, <1>3, ReachUnfolds
  <2>3. QED
    BY <1>3, <2>1, <2>2, ReachFinite, FS_AddElement
<1>4. QED
  BY <1>2, <1>3

-----------------------------------------------------------------------------
(* fat32_allocate_cluster finds a cluster that is free, and when no        *)
(* cluster below the hint is free, the first one.                          *)
LEMMA PickIsFree ==
  ASSUME NEW v \in Volume, CanAllocate(v)
  PROVE  /\ AllocPick(v) \in Clusters /\ v.fat[AllocPick(v)] = Free
         /\ Tight(v) => \A c \in Clusters : c < AllocPick(v) => v.fat[c] # Free
<1> DEFINE onward == {c \in FreeAt(v) : c >= v.next_free_cluster}
           S == IF onward # {} THEN onward ELSE FreeAt(v)
<1>1. S \in SUBSET (0 .. MaxCluster) /\ S # {} /\ S \subseteq FreeAt(v)
  BY MaxClusterAssumption DEF CanAllocate, FreeAt, Clusters, Root
<1>2. MaxCluster \in Nat
  BY MaxClusterAssumption
<1>3. AllocPick(v) = Min(S)
  BY DEF AllocPick
<1>4. AllocPick(v) \in S /\ \A y \in S : AllocPick(v) <= y
  <2> HIDE DEF S
  <2> QED
    BY <1>1, <1>2, <1>3, MinOfBounded
<1>5. \A c \in FreeAt(v) : c \in Clusters /\ v.fat[c] = Free
  BY MaxClusterAssumption DEF FreeAt, ReadEntry, Free, Eoc
<1>6. ASSUME Tight(v), NEW c \in Clusters, c < AllocPick(v), v.fat[c] = Free
      PROVE  FALSE
  <2>1. c \in FreeAt(v)
    BY <1>6 DEF FreeAt, ReadEntry, CanAllocate
  <2>2. c >= v.next_free_cluster
    BY <1>6, MaxClusterAssumption DEF Tight, Clusters, Root, Volume, Hints
  <2>3. c \in S
    BY <2>1, <2>2
  <2>4. c \in Int /\ AllocPick(v) \in Int
    BY <1>1, <1>4 DEF Clusters, Root
  <2>5. QED
    BY <1>4, <1>6, <2>3, <2>4
<1>7. QED
  BY <1>1, <1>4, <1>5, <1>6

(* An allocation leaves a volume, with no free cluster below the hint if   *)
(* there was none, and changes no link but that of the cluster it takes,   *)
(* which was free and ends a chain.                                        *)
LEMMA AllocateKeeps ==
  ASSUME NEW v \in Volume
  PROVE  /\ AfterAllocate(v) \in Volume
         /\ Allocated(v) \in {0} \cup Clusters
         /\ Allocated(v) # 0 => /\ v.mounted /\ v.fat[Allocated(v)] = Free
                                /\ AfterAllocate(v).fat[Allocated(v)] = Eoc
         /\ \A c \in Clusters : c # Allocated(v) => AfterAllocate(v).fat[c] = v.fat[c]
         /\ Tight(v) => Tight(AfterAllocate(v))
<1>1. CASE ~CanAllocate(v)
  BY <1>1 DEF AfterAllocate, Allocated
<1>2. CASE CanAllocate(v)
  <2> DEFINE p == AllocPick(v)
             w == AfterAllocate(v)
  <2>1. p \in Clusters /\ v.fat[p] = Free /\ p \in Int /\ p >= 2 /\ p <= MaxCluster
    BY <1>2, PickIsFree, MaxClusterAssumption DEF Clusters, Root
  <2>2. w = [v EXCEPT !.fat[p] = Eoc, !.free_clusters = @ - 1, !.next_free_cluster = p + 1]
    BY <1>2 DEF AfterAllocate
  <2>3. Allocated(v) = p /\ v.mounted
    BY <1>2 DEF Allocated, CanAllocate
  <2>4. /\ w.fat = [v.fat EXCEPT ![p] = Eoc]
        /\ w.free_clusters = v.free_clusters - 1
        /\ w.next_free_cluster = p + 1
        /\ w.mounted = v.mounted
    BY <2>2 DEF Volume
  <2>5. v.fat \in [Clusters -> Links]
    BY DEF Volume
  <2>6. w \in Volume
    <3>1. w.fat \in [Clusters -> Links]
      BY <2>4, <2>5 DEF Links
    <3>2. v.free_clusters - 1 \in Nat
      BY <1>2 DEF CanAllocate, Volume
    <3>3. p + 1 \in Hints
      BY <2>1, MaxClusterAssumption DEF Hints, Root
    <3>4. QED
      BY <2>2, <2>4, <3>1, <3>2, <3>3 DEF Volume
  <2>7. w.fat[p] = Eoc /\ \A c \in Clusters : c # p => w.fat[c] = v.fat[c]
    BY <2>1, <2>4, <2>5
  <2>8. ASSUME Tight(v)
        PROVE  Tight(w)
    <3>1. ASSUME NEW c \in Clusters, c < p + 1
          PROVE  w.fat[c] # Free
      <4>1. CASE c = p
        BY <4>1, <2>7, MaxClusterAssumption DEF Eoc, Free
      <4>2. CASE c # p
        <5>1. c < p
          BY <4>2, <3>1, <2>1 DEF Clusters, Root
        <5>2. v.fat[c] # Free
          BY <5>1, <2>8, <1>2, PickIsFree
        <5>3. QED
          BY <5>2, <4>2, <2>7
      <4>3. QED
        BY <4>1, <4>2
    <3>2. QED
      BY <3>1, <2>4 DEF Tight
  <2>9. QED
    BY <2>1, <2>3, <2>6, <2>7, <2>8
<1>3. QED
  BY <1>1, <1>2

-----------------------------------------------------------------------------
(* Freeing a chain leaves a volume, frees exactly the clusters of the walk *)
(* and moves the hint below all of them: no cluster below it is free if    *)
(* there was none.                                                         *)
LEMMA FreeChainKeeps ==
  ASSUME NEW v \in Volume, NEW c \in Links
  PROVE  /\ FreeChain(v, c) \in Volume
         /\ \A x \in Clusters : FreeChain(v, c).fat[x] =
              IF v.mounted /\ c \in Clusters /\ x \in Reach(v.fat, c)
              THEN Free ELSE v.fat[x]
         /\ Tight(v) => Tight(FreeChain(v, c))
<1>1. CASE ~(v.mounted /\ c \in Clusters)
  BY <1>1 DEF FreeChain
<1>2. CASE v.mounted /\ c \in Clusters
  <2> DEFINE walked == Reach(v.fat, c)
             again == IF Cyclic(v.fat, c) THEN 1 ELSE 0
             hint == Min(walked \cup {v.next_free_cluster})
             w == FreeChain(v, c)
  <2>1. /\ w.fat = [x \in Clusters |-> IF x \in walked THEN Free ELSE v.fat[x]]
        /\ w.free_clusters = v.free_clusters + Cardinality(walked) + again
        /\ w.next_free_cluster = hint
        /\ w.mounted = v.mounted
        /\ w = [v EXCEPT !.fat = w.fat, !.free_clusters = w.free_clusters,
                         !.next_free_cluster = w.next_free_cluster]
    BY <1>2 DEF FreeChain, Volume
  <2>2. walked \subseteq Clusters /\ Cardinality(walked) \in Nat
    BY <1>2, ReachWithin, ReachFinite
  <2>3. v.next_free_cluster \in Hints
    BY DEF Volume
  <2>4. hint \in walked \cup {v.next_free_cluster}
        /\ \A y \in walked \cup {v.next_free_cluster} : hint <= y
    <3> DEFINE S == walked \cup {v.next_free_cluster}
    <3>1. S \in SUBSET (0 .. MaxCluster + 1) /\ S # {} /\ MaxCluster + 1 \in Nat
      BY <2>2, <2>3, MaxClusterAssumption DEF Hints, Clusters, Root
    <3>2. Min(S) \in S /\ \A y \in S : Min(S) <= y
      <4> HIDE DEF S
      <4> QED
        BY <3>1, MinOfBounded
    <3>3. QED
      BY <3>2
  <2>5. hint \in Hints /\ hint <= v.next_free_cluster
    BY <2>2, <2>3, <2>4, MaxClusterAssumption DEF Hints, Clusters
  <2>6. w \in Volume
    <3>1. w.fat \in [Clusters -> Links]
      BY <2>1 DEF Volume, Links
    <3>2. w.free_clusters \in Nat
      BY <2>1, <2>2 DEF Volume
    <3>3. QED
      BY <2>1, <2>5, <3>1, <3>2 DEF Volume
  <2>7. ASSUME Tight(v), NEW x \in Clusters, x < hint
        PROVE  w.fat[x] # Free
    <3>1. x \in Int /\ hint \in Int /\ v.next_free_cluster \in Int
      BY <2>3, <2>5, MaxClusterAssumption DEF Clusters, Hints, Root
    <3>2. x \notin walked
      BY <2>4, <2>7, <3>1
    <3>3. v.fat[x] # Free
      BY <2>5, <2>7, <3>1 DEF Tight
    <3>4. QED
      BY <2>1, <3>2, <3>3
  <2>8. Tight(v) => Tight(w)
    BY <2>1, <2>7 DEF Tight
  <2>9. QED
    BY <1>2, <2>1, <2>6, <2>8
<1>3. QED
  BY <1>1, <1>2

(* A link to a cluster or to the end of a chain frees nothing.             *)
LEMMA WriteEntryKeeps ==
  ASSUME NEW v \in Volume, NEW c \in Links, NEW link \in Links, link # Free
  PROVE  /\ WriteEntry(v, c, link) \in Volume
         /\ \A x \in Clusters : WriteEntry(v, c, link).fat[x] \in {link, v.fat[x]}
         /\ Tight(v) => Tight(WriteEntry(v, c, link))
<1>1. CASE ~(v.mounted /\ c \in Clusters)
  BY <1>1 DEF WriteEntry
<1>2. CASE v.mounted /\ c \in Clusters
  <2>1. WriteEntry(v, c, link) = [v EXCEPT !.fat[c] = link]
    BY <1>2 DEF WriteEntry
  <2>2. v.fat \in [Clusters -> Links]
    BY DEF Volume
  <2>3. QED
    BY <2>1, <2>2 DEF Volume, Tight
<1>3. QED
  BY <1>1, <1>2

(* Mounting starts with the hint at cluster 3 and counts some number of    *)
(* clusters; neither it nor unmounting touches the table.                  *)
LEMMA MountKeeps ==
  ASSUME NEW v \in Volume
  PROVE  /\ MountVolume(v) \in Volume /\ MountVolume(v).fat = v.fat
         /\ Tight(v) /\ v.fat[Root] # Free => Tight(MountVolume(v))
         /\ UnmountVolume(v) \in Volume /\ UnmountVolume(v).fat = v.fat
         /\ Tight(v) => Tight(UnmountVolume(v))
<1>1. UnmountVolume(v) \in Volume /\ UnmountVolume(v).fat = v.fat
      /\ UnmountVolume(v).next_free_cluster = v.next_free_cluster
  BY DEF UnmountVolume, Volume
<1>2. Tight(v) => Tight(UnmountVolume(v))
  BY <1>1 DEF Tight
<1>3. Cardinality(FreeAt(v)) \in Nat
  <2>1. FreeAt(v) \subseteq Clusters /\ IsFiniteSet(Clusters)
    BY FS_Interval, MaxClusterAssumption DEF FreeAt, Clusters, Root
  <2>2. QED
    BY <2>1, FS_Subset, FS_CardinalityType
<1>4. CASE v.mounted
  BY <1>4, <1>1, <1>2 DEF MountVolume
<1>5. CASE ~v.mounted
  <2>1. MountVolume(v) = [v EXCEPT !.mounted = TRUE,
                 !.free_clusters = Cardinality(FreeAt(v)), !.next_free_cluster = 3]
    BY <1>5 DEF MountVolume
  <2>2. 3 \in Hints
    BY MaxClusterAssumption DEF Hints, Root
  <2>3. MountVolume(v) \in Volume /\ MountVolume(v).fat = v.fat
        /\ MountVolume(v).next_free_cluster = 3
    BY <1>3, <2>1, <2>2 DEF Volume
  <2>4. v.fat[Root] # Free => Tight(MountVolume(v))
    BY <2>3 DEF Tight, Clusters, Root
  <2>5. QED
    BY <1>1, <1>2, <2>3, <2>4
<1>6. QED
  BY <1>4, <1>5

-----------------------------------------------------------------------------
(* How many clusters are free beyond those that free_clusters counts.      *)
FreeOf(v) == {c \in Clusters : v.fat[c] = Free}
Uncounted(v) == Cardinality(FreeOf(v)) - v.free_clusters

LEMMA FreeOfFinite ==
  ASSUME NEW v
  PROVE  IsFiniteSet(FreeOf(v)) /\ Cardinality(FreeOf(v)) \in Nat
<1>1. IsFiniteSet(Clusters)
  BY FS_Interval, MaxClusterAssumption DEF Clusters, Root
<1>2. FreeOf(v) \in SUBSET Clusters
  BY DEF FreeOf
<1>3. QED
  BY <1>1, <1>2, FS_Subset, FS_CardinalityType

(* An allocation takes one free cluster and counts one less.               *)
LEMMA AllocateBalanced ==
  ASSUME NEW v \in Volume
  PROVE  Uncounted(AfterAllocate(v)) = Uncounted(v)
<1>1. CASE ~CanAllocate(v)
  BY <1>1 DEF AfterAllocate
<1>2. CASE CanAllocate(v)
  <2> DEFINE p == AllocPick(v)
             w == AfterAllocate(v)
  <2>1. p \in Clusters /\ v.fat[p] = Free
    BY <1>2, PickIsFree
  <2>2. w.fat = [v.fat EXCEPT ![p] = Eoc] /\ w.free_clusters = v.free_clusters - 1
    BY <1>2 DEF AfterAllocate, Volume
  <2>3. FreeOf(w) = FreeOf(v) \ {p}
    BY <2>1, <2>2, MaxClusterAssumption DEF FreeOf, Volume, Eoc, Free
  <2>4. p \in FreeOf(v)
    BY <2>1 DEF FreeOf
  <2>5. Cardinality(FreeOf(w)) = Cardinality(FreeOf(v)) - 1
    BY <2>3, <2>4, FreeOfFinite, FS_RemoveElement
  <2>6. Cardinality(FreeOf(v)) \in Nat /\ v.free_clusters \in Nat
    BY FreeOfFinite DEF Volume
  <2>7. QED
    BY <2>2, <2>5, <2>6 DEF Uncounted
<1>3. QED
  BY <1>1, <1>2

(* Freeing a chain that ends, and of which no cluster is free, counts      *)
(* every cluster it frees once.                                            *)
LEMMA FreeChainBalanced ==
  ASSUME NEW v \in Volume, NEW c \in Clusters, NEW e \in Reach(v.fat, c), v.fat[e] = Eoc
  PROVE  Uncounted(FreeChain(v, c)) = Uncounted(v)
<1>1. CASE ~v.mounted
  BY <1>1 DEF FreeChain
<1>2. CASE v.mounted
  <2> DEFINE walked == Reach(v.fat, c)
             w == FreeChain(v, c)
  <2>1. Eoc \notin Clusters /\ Free \notin Clusters /\ Eoc # Free
    BY MaxClusterAssumption DEF Eoc, Clusters, Free, Root
  <2>2. ~Cyclic(v.fat, c)
    BY <2>1 DEF Cyclic
  <2>3. /\ w.fat = [x \in Clusters |-> IF x \in walked THEN Free ELSE v.fat[x]]
        /\ w.free_clusters = v.free_clusters + Cardinality(walked) + 0
    BY <1>2, <2>2 DEF FreeChain, Volume
  <2>4. walked \subseteq Clusters
    BY ReachWithin
  <2>5. walked \cap FreeOf(v) = {}
    BY <2>1, ChainEndsOnce DEF FreeOf
  <2>6. FreeOf(w) = FreeOf(v) \cup walked
    BY <2>3, <2>4 DEF FreeOf
  <2>7. /\ IsFiniteSet(walked) /\ Cardinality(walked) \in Nat
        /\ IsFiniteSet(FreeOf(v)) /\ Cardinality(FreeOf(v)) \in Nat
    BY ReachFinite, FreeOfFinite
  <2>8. FreeOf(v) \cap walked = {}
    BY <2>5
  <2>9. Cardinality(FreeOf(w)) = Cardinality(FreeOf(v)) + Cardinality(walked) - 0
    BY <2>6, <2>7, <2>8, FS_Union, FS_EmptySet
  <2>10. v.free_clusters \in Nat
    BY DEF Volume
  <2>11. QED
    BY <2>3, <2>7, <2>9, <2>10 DEF Uncounted
<1>3. QED
  BY <1>1, <1>2

(* A link between clusters in use changes neither side.                    *)
LEMMA WriteEntryBalanced ==
  ASSUME NEW v \in Volume, NEW c, NEW link, link # Free, c \in Clusters => v.fat[c] # Free
  PROVE  Uncounted(WriteEntry(v, c, link)) = Uncounted(v)
<1> DEFINE w == WriteEntry(v, c, link)
<1>1. CASE ~(v.mounted /\ c \in Clusters)
  BY <1>1 DEF WriteEntry
<1>2. CASE v.mounted /\ c \in Clusters
  <2>1. w.fat = [v.fat EXCEPT ![c] = link] /\ w.free_clusters = v.free_clusters
    BY <1>2 DEF WriteEntry, Volume
  <2>2. FreeOf(w) = FreeOf(v)
    BY <1>2, <2>1 DEF FreeOf, Volume
  <2>3. QED
    BY <2>1, <2>2 DEF Uncounted
<1>3. QED
  BY <1>1, <1>2
=============================================================================
