--------------------------- MODULE FatLoops_proofs ---------------------------
(***************************************************************************)
(* What holds of the allocation table on every volume and for every order  *)
(* of the calls: first of the calls of FatCalls, each one step; then of    *)
(* the loops of FatLoops, which implement them for every size of the       *)
(* table.                                                                  *)
(*                                                                         *)
(* The hint needs the type invariant: only a table whose root cluster is   *)
(* in use stays tight when fs_mount sets the hint to 3.  The loops need a  *)
(* loop invariant each: what they have done to the volume `before'.        *)
(***************************************************************************)
EXTENDS FatLoops, Fat_proofs

-----------------------------------------------------------------------------
(* The calls.                                                              *)
CallsInv == CallsTypeOK /\ HintTight

LEMMA CallsInitInv == CallsInit => CallsInv
<1> SUFFICES ASSUME CallsInit PROVE CallsInv
  OBVIOUS
<1>1. vol \in Volume /\ vol.fat[Root] = Eoc /\ vol.next_free_cluster = 3
  <2>1. PICK f \in [Clusters -> Links] :
          /\ f[Root] = Eoc
          /\ vol = [mounted |-> FALSE, fat |-> f, free_clusters |-> 0,
                    next_free_cluster |-> 3]
    BY DEF CallsInit
  <2>2. 3 \in Hints
    BY MaxClusterAssumption DEF Hints, Root
  <2>3. QED
    BY <2>1, <2>2 DEF Volume
<1>2. vol.fat[Root] # Free
  BY <1>1, MaxClusterAssumption DEF Eoc, Free
<1>3. HintTight
  BY <1>1, <1>2 DEF HintTight, Tight, Clusters, Root
<1>4. QED
  BY <1>1, <1>2, <1>3 DEF CallsInv, CallsTypeOK, CallsInit

LEMMA CallsNextInv == CallsInv /\ [CallsNext]_callVars => CallsInv'
<1> SUFFICES ASSUME CallsInv, [CallsNext]_callVars PROVE CallsInv'
  OBVIOUS
<1> USE DEF CallsInv, CallsTypeOK, HintTight
<1>1. CASE MountCall
  <2>1. vol' = MountVolume(vol) /\ returned' = 0
    BY <1>1 DEF MountCall
  <2>2. QED
    BY <2>1, MountKeeps
<1>2. CASE UnmountCall
  <2>1. vol' = UnmountVolume(vol) /\ returned' = 0
    BY <1>2 DEF UnmountCall
  <2>2. QED
    BY <2>1, MountKeeps
<1>3. CASE AllocateCall
  <2>1. vol' = AfterAllocate(vol) /\ returned' = Allocated(vol)
    BY <1>3 DEF AllocateCall
  <2>2. Root \in Clusters /\ Free # Eoc
    BY MaxClusterAssumption DEF Clusters, Root, Free, Eoc
  <2>3. vol'.fat[Root] # Free
    BY <2>1, <2>2, AllocateKeeps DEF Root
  <2>4. QED
    BY <2>1, <2>3, AllocateKeeps
<1>4. ASSUME NEW c \in Clusters, FreeCall(c)
      PROVE  CallsInv'
  <2>1. vol' = FreeChain(vol, c) /\ returned' = 0 /\ Root \notin Reach(vol.fat, c)
    BY <1>4 DEF FreeCall, MayFree
  <2>2. Root \in Clusters /\ c \in Links
    BY MaxClusterAssumption DEF Clusters, Root, Links
  <2>3. vol' \in Volume /\ vol'.fat[Root] = vol.fat[Root] /\ Tight(vol')
    BY <2>1, <2>2, FreeChainKeeps
  <2>4. QED
    BY <2>1, <2>3
<1>5. ASSUME NEW last \in Clusters, NEW c \in Clusters, LinkCall(last, c)
      PROVE  CallsInv'
  <2>1. vol' = WriteEntry(vol, last, c) /\ returned' = 0
    BY <1>5 DEF LinkCall
  <2>2. last \in Links /\ c \in Links /\ c # Free /\ Root \in Clusters
    BY MaxClusterAssumption DEF Clusters, Root, Links, Free
  <2>3. vol' \in Volume /\ Tight(vol') /\ vol'.fat[Root] \in {c, vol.fat[Root]}
    BY <2>1, <2>2, WriteEntryKeeps
  <2>4. QED
    BY <2>1, <2>2, <2>3
<1>6. CASE UNCHANGED callVars
  BY <1>6 DEF callVars, Tight
<1>7. QED
  BY <1>1, <1>2, <1>3, <1>4, <1>5, <1>6 DEF CallsNext

(* Whatever calls are made, the table stays a table, free_clusters never   *)
(* goes below zero, the hint stays within bounds and the root directory is *)
(* not freed.                                                              *)
THEOREM CallsTypeCorrect == CallsSpec => []CallsTypeOK
<1>1. CallsSpec => []CallsInv
  BY CallsInitInv, CallsNextInv, PTL DEF CallsSpec
<1>2. CallsInv => CallsTypeOK
  BY DEF CallsInv
<1>3. QED
  BY <1>1, <1>2, PTL

(* fat32_allocate_cluster never passes over a free cluster: the search     *)
(* that starts over at cluster 2 finds nothing the first one missed.       *)
THEOREM CallsHintTight == CallsSpec => []HintTight
<1>1. CallsSpec => []CallsInv
  BY CallsInitInv, CallsNextInv, PTL DEF CallsSpec
<1>2. CallsInv => HintTight
  BY DEF CallsInv
<1>3. QED
  BY <1>1, <1>2, PTL

-----------------------------------------------------------------------------
(***************************************************************************)
(* The loops.  What each of them has done so far to the volume `before' it *)
(* began with, so that at its return it has done what Fat's closed form    *)
(* says.                                                                   *)
(***************************************************************************)
Counting ==
  /\ pc = "count" /\ ~before.mounted /\ cluster \in Nat
  /\ vol = [before EXCEPT !.free_clusters = 0, !.next_free_cluster = 3]

(* No cluster between the hint and the one looked at is free; in the       *)
(* second loop, none from the hint on nor below the one looked at.         *)
Searching ==
  /\ vol = before /\ before.mounted /\ before.free_clusters > 0 /\ cluster \in Nat
  /\ \/ /\ pc = "search" /\ cluster >= before.next_free_cluster
        /\ \A c \in Clusters : before.next_free_cluster <= c /\ c < cluster => before.fat[c] # Free
     \/ /\ pc = "wrap" /\ cluster >= 2
        /\ \A c \in Clusters :
             before.next_free_cluster <= c \/ c < cluster => before.fat[c] # Free

(* The walk has freed W and comes next to `cluster', which is 0 after it   *)
(* has met a cluster for the second time and counted it twice.             *)
FreedAll(W) ==
  /\ W \subseteq Reach(before.fat, origin) /\ origin \in W \cup {cluster}
  /\ vol.mounted
  /\ vol.fat = [x \in Clusters |-> IF x \in W THEN Free ELSE before.fat[x]]
  /\ vol.next_free_cluster \in W \cup {before.next_free_cluster}
  /\ \A y \in W \cup {before.next_free_cluster} : vol.next_free_cluster <= y
  /\ \A y \in W : before.fat[y] \in Clusters => before.fat[y] \in W \cup {cluster}

FreedOnce(W) ==
  /\ vol.free_clusters = before.free_clusters + Cardinality(W)
  /\ cluster \in Clusters =>
       cluster \in Reach(before.fat, origin) /\ \A y \in W : before.fat[y] \in Clusters
  /\ cluster \notin Clusters => \E y \in W : before.fat[y] = cluster

FreedTwice(W) ==
  /\ vol.free_clusters = before.free_clusters + Cardinality(W) + 1
  /\ cluster = Free /\ \A y \in W : before.fat[y] \in Clusters

Freeing ==
  /\ pc = "free" /\ before.mounted /\ origin \in Clusters
  /\ before.free_clusters < MaxCount /\ before.fat[origin] # Free
  /\ Root \notin Reach(before.fat, origin)
  /\ \E W \in SUBSET Clusters : FreedAll(W) /\ (FreedOnce(W) \/ FreedTwice(W))

Walking ==
  /\ pc = "walk" /\ vol = before /\ before.mounted /\ returned \in Clusters
  /\ origin \in Clusters
  /\ \/ cluster \in Reach(before.fat, origin)
     \/ cluster = Free /\ \E x \in Reach(before.fat, origin) : before.fat[x] = Free

VolumeOK(v) == v \in Volume /\ Tight(v) /\ v.fat[Root] # Free

ReturnedOK(v, r) ==
  r \in {0} \cup Clusters /\ (r \in Clusters => v.fat[r] # Free /\ r # Root)

LoopsInv ==
  /\ VolumeOK(before) /\ ReturnedOK(before, returned) /\ vol \in Volume
  /\ (pc = "ready" /\ vol = before) \/ Counting \/ Searching \/ Freeing \/ Walking

(* The volume as AtReturns sees it.                                        *)
View == IF pc = "ready" THEN vol ELSE before

-----------------------------------------------------------------------------
(* fs_mount counts through fat32_read_fat_entry before it sets `mounted',  *)
(* so every entry reads as the end of a chain and the count is 0.          *)
LEMMA CountedNone ==
  ASSUME NEW v \in Volume, ~v.mounted
  PROVE  /\ MountVolume(v) = [v EXCEPT !.mounted = TRUE, !.free_clusters = 0, !.next_free_cluster = 3]
         /\ \A c : ReadEntry(v, c) # Free
<1>1. \A c : ReadEntry(v, c) # Free
  BY MaxClusterAssumption DEF ReadEntry, Eoc, Free
<1>2. FreeAt(v) = {}
  BY <1>1 DEF FreeAt
<1>3. Cardinality(FreeAt(v)) = 0
  BY <1>2, FS_EmptySet
<1> QED BY <1>1, <1>3 DEF MountVolume

LEMMA MinIs ==
  ASSUME NEW S \in SUBSET Nat, NEW m \in S, \A y \in S : m <= y
  PROVE  Min(S) = m
<1>1. Min(S) \in S /\ \A y \in S : Min(S) <= y
  BY Zenon DEF Min
<1>2. Min(S) \in Nat /\ m \in Nat /\ Min(S) <= m /\ m <= Min(S)
  BY <1>1
<1> QED BY <1>2

(* What the searches find is the cluster that Fat picks.                   *)
LEMMA SearchFinds ==
  ASSUME LoopsInv, Searching, cluster < Limit, ReadEntry(vol, cluster) = Free
  PROVE  /\ cluster \in Clusters /\ Allocated(before) = cluster
         /\ [WriteEntry(vol, cluster, Eoc) EXCEPT !.free_clusters = @ - 1,
                                                 !.next_free_cluster = cluster + 1]
              = AfterAllocate(before)
<1>1. before \in Volume /\ before.mounted /\ vol = before /\ before.free_clusters > 0
  BY DEF LoopsInv, VolumeOK, Searching
<1>2. cluster \in Clusters /\ before.fat[cluster] = Free
  BY <1>1, MaxClusterAssumption DEF ReadEntry, Eoc, Free
<1>3. cluster \in FreeAt(before) /\ FreeAt(before) \subseteq Clusters
  BY <1>1, <1>2 DEF FreeAt, ReadEntry
<1>4. \A c \in FreeAt(before) : before.fat[c] = Free /\ c \in Nat
  BY <1>1, <1>3, MaxClusterAssumption DEF FreeAt, ReadEntry, Clusters, Root
<1> DEFINE onward == {c \in FreeAt(before) : c >= before.next_free_cluster}
<1>5. cluster \in Nat /\ before.next_free_cluster \in Nat /\ \A c \in Clusters : c \in Nat
  BY <1>1, <1>2, MaxClusterAssumption DEF Volume, Hints, Clusters, Root
<1>6. AllocPick(before) = cluster
  <2>1. CASE pc = "search"
    <3>1. cluster \in onward /\ \A y \in onward : cluster <= y
      BY <1>3, <1>4, <1>5, <2>1 DEF Searching
    <3>2. Min(onward) = cluster
      <4> HIDE DEF onward
      <4>1. onward \subseteq Nat
        BY <1>4 DEF onward
      <4> QED BY <3>1, <4>1, MinIs
    <3> QED BY <3>1, <3>2 DEF AllocPick
  <2>2. CASE pc = "wrap"
    <3>1. onward = {} /\ \A y \in FreeAt(before) : cluster <= y
      BY <1>3, <1>4, <1>5, <2>2 DEF Searching
    <3>2. Min(FreeAt(before)) = cluster
      <4>1. FreeAt(before) \subseteq Nat
        BY <1>4
      <4> QED BY <1>3, <3>1, <4>1, MinIs
    <3> QED BY <3>1, <3>2 DEF AllocPick
  <2> QED BY <2>1, <2>2 DEF Searching
<1>7. CanAllocate(before)
  BY <1>1, <1>3 DEF CanAllocate
<1> HIDE DEF onward
<1>8. [WriteEntry(vol, cluster, Eoc) EXCEPT !.free_clusters = @ - 1,
                                            !.next_free_cluster = cluster + 1]
        = AfterAllocate(before)
  BY <1>1, <1>2, <1>6, <1>7 DEF AfterAllocate, WriteEntry, Volume
<1> QED BY <1>2, <1>6, <1>7, <1>8 DEF Allocated

(* And they find one if there is one.                                      *)
LEMMA SearchFails ==
  ASSUME LoopsInv, Searching, pc = "wrap", cluster >= Limit
  PROVE  Allocated(before) = 0 /\ AfterAllocate(before) = before
<1>1. before \in Volume /\ vol = before
  BY DEF LoopsInv, VolumeOK, Searching
<1>2. \A c \in Clusters : before.fat[c] # Free
  BY <1>1, MaxClusterAssumption DEF Searching, Limit, Clusters, Root, Volume, Hints
<1>3. FreeAt(before) = {}
  BY <1>2, MaxClusterAssumption DEF FreeAt, ReadEntry, Eoc, Free
<1> QED BY <1>3 DEF Allocated, AfterAllocate, CanAllocate

-----------------------------------------------------------------------------
(* The numbers the table is made of.                                       *)
LEMMA Numbers ==
  /\ Clusters \subseteq Nat /\ Root = 2 /\ Free = 0 /\ Free \notin Clusters
  /\ Eoc \in Nat /\ Eoc \notin Clusters /\ Eoc # Free /\ Root \in Clusters
  /\ Hints \subseteq Nat /\ Clusters \subseteq Hints
  /\ \A S \in SUBSET Clusters : IsFiniteSet(S) /\ Cardinality(S) \in Nat
<1>1. IsFiniteSet(Clusters)
  BY FS_Interval, MaxClusterAssumption DEF Clusters, Root
<1>2. \A S \in SUBSET Clusters : IsFiniteSet(S) /\ Cardinality(S) \in Nat
  BY <1>1, FS_Subset, FS_CardinalityType
<1> QED BY <1>2, MaxClusterAssumption DEF Clusters, Root, Free, Eoc, Hints

LEMMA VolumesEqual ==
  ASSUME NEW v \in Volume, NEW w \in Volume, v.mounted = w.mounted, v.fat = w.fat,
         v.free_clusters = w.free_clusters, v.next_free_cluster = w.next_free_cluster
  PROVE  v = w
BY DEF Volume

(* fat32_free_cluster_chain begins with nothing freed.                     *)
LEMMA FreeBegins ==
  ASSUME LoopsInv, pc = "ready", NEW c \in Clusters, BeginFree(c), vol.mounted
  PROVE  Freeing' /\ before' = vol /\ returned' = returned
<1>1. /\ pc' = "free" /\ cluster' = c /\ origin' = c /\ before' = vol /\ vol' = vol
      /\ returned' = returned /\ MayFree(c) /\ vol \in Volume
  BY DEF BeginFree, Enter, LoopsInv
<1>2. c \in Reach(vol.fat, c)
  BY ReachWithin
<1>3. /\ vol.fat = [x \in Clusters |-> IF x \in {} THEN Free ELSE vol.fat[x]]
      /\ vol.free_clusters \in Nat /\ vol.next_free_cluster \in Nat
  BY <1>1, Numbers DEF Volume
<1>4. Cardinality({}) = 0
  BY FS_EmptySet
<1>5. FreedAll({})' /\ FreedOnce({})'
  BY <1>1, <1>2, <1>3, <1>4 DEF FreedAll, FreedOnce
<1>6. {} \in SUBSET Clusters
  OBVIOUS
<1> QED BY <1>1, <1>5, <1>6 DEF Freeing, MayFree

(* What an iteration does, seen in the volume's fields.                    *)
LEMMA FreeStepDoes ==
  ASSUME vol \in Volume, vol.mounted, cluster \in Clusters, FreeStep
  PROVE  /\ before' = before /\ origin' = origin /\ pc' = pc /\ returned' = returned
         /\ pc = "free" /\ cluster' = vol.fat[cluster] /\ vol' \in Volume
         /\ vol'.mounted = vol.mounted
         /\ vol'.fat = [vol.fat EXCEPT ![cluster] = Free]
         /\ vol'.free_clusters = vol.free_clusters + 1
         /\ vol'.next_free_cluster = IF cluster < vol.next_free_cluster THEN cluster
                                     ELSE vol.next_free_cluster
<1>1. /\ before' = before /\ origin' = origin /\ pc' = pc /\ returned' = returned
      /\ pc = "free" /\ cluster' = ReadEntry(vol, cluster)
      /\ vol' = [WriteEntry(vol, cluster, Free) EXCEPT
                  !.free_clusters = @ + 1,
                  !.next_free_cluster = IF cluster < @ THEN cluster ELSE @]
  BY DEF FreeStep, Iterate
<1>2. WriteEntry(vol, cluster, Free) = [vol EXCEPT !.fat[cluster] = Free]
  BY DEF WriteEntry
<1>3. cluster' = vol.fat[cluster]
  BY <1>1 DEF ReadEntry
<1>4. /\ vol'.mounted = vol.mounted
      /\ vol'.fat = [vol.fat EXCEPT ![cluster] = Free]
      /\ vol'.free_clusters = vol.free_clusters + 1
      /\ vol'.next_free_cluster = IF cluster < vol.next_free_cluster THEN cluster
                                  ELSE vol.next_free_cluster
  BY <1>1, <1>2 DEF Volume
<1>5. vol' \in Volume
  <2>1. cluster \in Hints /\ Free \in Links
    BY Numbers DEF Links
  <2>2. [vol.fat EXCEPT ![cluster] = Free] \in [Clusters -> Links]
    BY <2>1 DEF Volume
  <2>3. vol.free_clusters + 1 \in Nat
    BY DEF Volume
  <2>4. vol' = [vol EXCEPT !.fat = vol'.fat, !.free_clusters = vol'.free_clusters,
                          !.next_free_cluster = vol'.next_free_cluster]
    BY <1>1, <1>2 DEF Volume
  <2> QED BY <1>4, <2>1, <2>2, <2>3, <2>4 DEF Volume
<1> QED BY <1>1, <1>3, <1>4, <1>5

(* A cluster is freed that the walk has not been at: it goes on to what    *)
(* that cluster linked to.                                                 *)
LEMMA FreesNext ==
  ASSUME LoopsInv, cluster \in Clusters, FreeStep,
         NEW W \in SUBSET Clusters, FreedAll(W), FreedOnce(W), cluster \notin W
  PROVE  \E V \in SUBSET Clusters : FreedAll(V)' /\ FreedOnce(V)'
<1>1. PICK V \in SUBSET Clusters : V = W \cup {cluster}
  OBVIOUS
<1>2. PICK d : d = before.fat[cluster]
  OBVIOUS
<1>3. /\ vol.mounted /\ vol.fat = [x \in Clusters |-> IF x \in W THEN Free ELSE before.fat[x]]
      /\ before \in Volume /\ vol \in Volume /\ origin \in V
      /\ W \subseteq Reach(before.fat, origin) /\ cluster \in Reach(before.fat, origin)
      /\ vol.free_clusters = before.free_clusters + Cardinality(W)
      /\ \A y \in W : before.fat[y] \in Clusters
      /\ \A y \in W : before.fat[y] \in W \cup {cluster}
  BY <1>1 DEF FreedAll, FreedOnce, LoopsInv, VolumeOK
<1>4. vol.fat[cluster] = d /\ d \in Links
  BY <1>1, <1>2, <1>3 DEF Volume
<1>5. /\ before' = before /\ origin' = origin /\ cluster' = d
      /\ vol'.mounted = vol.mounted
      /\ vol'.fat = [vol.fat EXCEPT ![cluster] = Free]
      /\ vol'.free_clusters = vol.free_clusters + 1
      /\ vol'.next_free_cluster = IF cluster < vol.next_free_cluster THEN cluster
                                  ELSE vol.next_free_cluster
  BY <1>1, <1>2, <1>3, <1>4, FreeStepDoes
<1>6. origin \in Clusters
  BY <1>1, <1>2, <1>3
<1>7. d \in Clusters => d \in Reach(before.fat, origin)
  BY <1>1, <1>2, <1>3, <1>6, ReachCloses
<1>8. vol'.fat = [x \in Clusters |-> IF x \in V THEN Free ELSE before.fat[x]]
  BY <1>1, <1>2, <1>3, <1>5
<1>9. /\ vol'.next_free_cluster \in V \cup {before.next_free_cluster}
      /\ \A y \in V \cup {before.next_free_cluster} : vol'.next_free_cluster <= y
  <2>1. /\ vol.next_free_cluster \in W \cup {before.next_free_cluster}
        /\ \A y \in W \cup {before.next_free_cluster} : vol.next_free_cluster <= y
    BY DEF FreedAll
  <2>2. cluster \in Nat /\ before.next_free_cluster \in Nat /\ vol.next_free_cluster \in Nat
    BY <1>1, <1>2, <1>3, Numbers DEF Volume
  <2>3. W \subseteq Nat
    BY Numbers
  <2>4. CASE cluster < vol.next_free_cluster
    BY <1>1, <1>5, <2>1, <2>2, <2>3, <2>4
  <2>5. CASE ~(cluster < vol.next_free_cluster)
    BY <1>1, <1>5, <2>1, <2>2, <2>3, <2>5
  <2> QED BY <2>4, <2>5
<1>10. Cardinality(V) = Cardinality(W) + 1 /\ Cardinality(W) \in Nat /\ before.free_clusters \in Nat
  <2>1. IsFiniteSet(W) /\ Cardinality(W) \in Nat
    BY Numbers
  <2> QED BY <1>1, <1>2, <1>3, <2>1, FS_AddElement DEF Volume
<1>11. vol'.free_clusters = before.free_clusters + Cardinality(V)
  BY <1>1, <1>2, <1>3, <1>5, <1>10
<1>12. \A y \in V : before.fat[y] \in Clusters => before.fat[y] \in V \cup {d}
  BY <1>1, <1>2, <1>3
<1>13. V \subseteq Reach(before.fat, origin)
  BY <1>1, <1>2, <1>3
<1>14. d \in Clusters => \A y \in V : before.fat[y] \in Clusters
  BY <1>1, <1>2, <1>3
<1>15. d \notin Clusters => \E y \in V : before.fat[y] = d
  BY <1>1, <1>2, <1>3
<1>16. FreedAll(V)'
  BY <1>1, <1>2, <1>3, <1>5, <1>8, <1>9, <1>12, <1>13 DEF FreedAll
<1>17. FreedOnce(V)'
  BY <1>5, <1>7, <1>11, <1>14, <1>15 DEF FreedOnce
<1> QED BY <1>16, <1>17

(* The walk has come back: the cluster reads as free now, and is freed and *)
(* counted again.                                                          *)
LEMMA FreesAgain ==
  ASSUME LoopsInv, cluster \in Clusters, FreeStep,
         NEW W \in SUBSET Clusters, FreedAll(W), FreedOnce(W), cluster \in W
  PROVE  FreedAll(W)' /\ FreedTwice(W)'
<1>1. /\ vol.mounted /\ vol.fat = [x \in Clusters |-> IF x \in W THEN Free ELSE before.fat[x]]
      /\ before \in Volume /\ vol \in Volume /\ origin \in W
      /\ vol.free_clusters = before.free_clusters + Cardinality(W)
      /\ \A y \in W : before.fat[y] \in Clusters
      /\ \A y \in W : before.fat[y] \in W
  BY DEF FreedAll, FreedOnce, LoopsInv, VolumeOK
<1>2. vol.fat[cluster] = Free
  BY <1>1
<1>3. /\ before' = before /\ origin' = origin /\ cluster' = Free
      /\ vol'.mounted = vol.mounted
      /\ vol'.fat = [vol.fat EXCEPT ![cluster] = Free]
      /\ vol'.free_clusters = vol.free_clusters + 1
      /\ vol'.next_free_cluster = IF cluster < vol.next_free_cluster THEN cluster
                                  ELSE vol.next_free_cluster
  BY <1>1, <1>2, FreeStepDoes
<1>4. vol'.fat = vol.fat
  BY <1>1, <1>2, <1>3
<1>5. vol'.next_free_cluster = vol.next_free_cluster
  <2>1. vol.next_free_cluster <= cluster
    BY DEF FreedAll
  <2>2. cluster \in Nat /\ vol.next_free_cluster \in Nat
    BY <1>1, Numbers DEF Volume
  <2> QED BY <1>3, <2>1, <2>2
<1>6. FreedAll(W)'
  BY <1>1, <1>3, <1>4, <1>5 DEF FreedAll
<1> QED BY <1>1, <1>3, <1>6 DEF FreedTwice

(* Of each cluster freed the next one is freed too, so these are the whole *)
(* chain.                                                                  *)
LEMMA FreeEnds ==
  ASSUME LoopsInv, Freeing, cluster \notin Clusters
  PROVE  vol = FreeChain(before, origin)
<1>1. PICK W \in SUBSET Clusters : FreedAll(W) /\ (FreedOnce(W) \/ FreedTwice(W))
  BY DEF Freeing
<1>2. /\ vol.mounted /\ vol.fat = [x \in Clusters |-> IF x \in W THEN Free ELSE before.fat[x]]
      /\ before \in Volume /\ vol \in Volume /\ origin \in Clusters /\ origin \in W
      /\ before.mounted
      /\ W \subseteq Reach(before.fat, origin)
      /\ \A y \in W : before.fat[y] \in Clusters => before.fat[y] \in W
  BY <1>1 DEF FreedAll, Freeing, LoopsInv, VolumeOK
<1>3. W = Reach(before.fat, origin)
  BY <1>2, ReachLeast
<1>4. Cardinality(W) \in Nat /\ before.free_clusters \in Nat
  BY <1>2, Numbers DEF Volume
<1>5. vol.free_clusters = before.free_clusters + Cardinality(W)
                           + (IF Cyclic(before.fat, origin) THEN 1 ELSE 0)
  <2>1. CASE FreedOnce(W)
    <3>1. ~Cyclic(before.fat, origin)
      BY <1>3, <2>1 DEF FreedOnce, Cyclic
    <3> QED BY <1>4, <2>1, <3>1 DEF FreedOnce
  <2>2. CASE FreedTwice(W)
    <3>1. Cyclic(before.fat, origin)
      BY <1>2, <1>3, <2>2 DEF FreedTwice, Cyclic
    <3> QED BY <1>4, <2>2, <3>1 DEF FreedTwice
  <2> QED BY <1>1, <2>1, <2>2
<1>6. Min(W \cup {before.next_free_cluster}) = vol.next_free_cluster
  <2>1. W \cup {before.next_free_cluster} \in SUBSET Nat
    <3>1. before.next_free_cluster \in Nat
      BY <1>2, Numbers DEF Volume
    <3>2. W \subseteq Nat
      BY Numbers
    <3> QED BY <3>1, <3>2
  <2>2. /\ vol.next_free_cluster \in W \cup {before.next_free_cluster}
        /\ \A y \in W \cup {before.next_free_cluster} : vol.next_free_cluster <= y
    BY <1>1 DEF FreedAll
  <2> QED BY <2>1, <2>2, MinIs
<1>7. FreeChain(before, origin) =
        [before EXCEPT
           !.fat = [x \in Clusters |-> IF x \in W THEN Free ELSE before.fat[x]],
           !.free_clusters = before.free_clusters + Cardinality(W)
                               + (IF Cyclic(before.fat, origin) THEN 1 ELSE 0),
           !.next_free_cluster = Min(W \cup {before.next_free_cluster})]
  BY <1>2, <1>3 DEF FreeChain
<1> DEFINE w == FreeChain(before, origin)
<1>8. /\ w.mounted = vol.mounted /\ w.fat = vol.fat /\ w.free_clusters = vol.free_clusters
      /\ w.next_free_cluster = vol.next_free_cluster
  BY <1>2, <1>5, <1>6, <1>7 DEF Volume
<1>9. w \in Volume
  <2>1. origin \in Links
    BY <1>2 DEF Links
  <2> QED BY <1>2, <2>1, FreeChainKeeps
<1> HIDE DEF w
<1>10. vol = w
  BY <1>2, <1>8, <1>9, VolumesEqual
<1> QED BY <1>10 DEF w

-----------------------------------------------------------------------------
(* What a call of FatCalls may make of the volume v and the result r of    *)
(* the call before.                                                        *)
Calls(v, r, w, s) ==
  \/ w = v /\ s = r
  \/ w = MountVolume(v) /\ s = 0
  \/ v.mounted /\ w = UnmountVolume(v) /\ s = 0
  \/ w = AfterAllocate(v) /\ s = Allocated(v)
  \/ \E c \in Clusters :
       /\ v.free_clusters < MaxCount /\ v.fat[c] # Free /\ Root \notin Reach(v.fat, c)
       /\ w = FreeChain(v, c) /\ s = 0
  \/ \E last, c \in Clusters :
       /\ v.fat[last] = Eoc /\ v.fat[c] # Free /\ c # Root
       /\ w = WriteEntry(v, last, c) /\ s = 0

(* The calls keep what the loops rely on.                                  *)
LEMMA CallsKeep ==
  ASSUME NEW v, NEW r, NEW w, NEW s, VolumeOK(v), ReturnedOK(v, r), Calls(v, r, w, s)
  PROVE  VolumeOK(w) /\ ReturnedOK(w, s)
<1>1. v \in Volume /\ Tight(v) /\ v.fat[Root] # Free /\ 0 \notin Clusters /\ ReturnedOK(w, 0)
  BY Numbers DEF VolumeOK, ReturnedOK, Free
<1>2. CASE w = v /\ s = r
  BY <1>2
<1>3. CASE w = MountVolume(v) /\ s = 0
  BY <1>1, <1>3, MountKeeps DEF VolumeOK
<1>4. CASE w = UnmountVolume(v) /\ s = 0
  BY <1>1, <1>4, MountKeeps DEF VolumeOK
<1>5. CASE w = AfterAllocate(v) /\ s = Allocated(v)
  <2>1. /\ w \in Volume /\ s \in {0} \cup Clusters
        /\ s # 0 => v.fat[s] = Free /\ w.fat[s] = Eoc
        /\ \A c \in Clusters : c # s => w.fat[c] = v.fat[c]
        /\ Tight(w)
    BY <1>1, <1>5, AllocateKeeps
  <2>2. Eoc # Free /\ Root \in Clusters
    BY Numbers
  <2>3. w.fat[Root] # Free
    BY <1>1, <2>1, <2>2
  <2>4. s \in Clusters => w.fat[s] # Free /\ s # Root
    BY <1>1, <2>1, <2>2
  <2> QED BY <2>1, <2>3, <2>4 DEF VolumeOK, ReturnedOK
<1>6. ASSUME NEW c \in Clusters, Root \notin Reach(v.fat, c), w = FreeChain(v, c), s = 0
      PROVE  VolumeOK(w) /\ ReturnedOK(w, s)
  <2>1. Root \in Clusters /\ c \in Links
    BY Numbers DEF Links
  <2>2. w \in Volume /\ w.fat[Root] = v.fat[Root] /\ Tight(w)
    BY <1>1, <1>6, <2>1, FreeChainKeeps
  <2> QED BY <1>1, <1>6, <2>2 DEF VolumeOK
<1>7. ASSUME NEW last \in Clusters, NEW c \in Clusters, w = WriteEntry(v, last, c), s = 0
      PROVE  VolumeOK(w) /\ ReturnedOK(w, s)
  <2>1. last \in Links /\ c \in Links /\ c # Free /\ Root \in Clusters
    BY Numbers DEF Links
  <2>2. w \in Volume /\ Tight(w) /\ w.fat[Root] \in {c, v.fat[Root]}
    BY <1>1, <1>7, <2>1, WriteEntryKeeps
  <2> QED BY <1>1, <1>7, <2>1, <2>2 DEF VolumeOK
<1> QED BY <1>2, <1>3, <1>4, <1>5, <1>6, <1>7 DEF Calls

(* A step of a loop does nothing that its caller sees before it returns;   *)
(* the step that returns is the call.                                      *)
Stays == Freeing' \/ Counting' \/ Searching' \/ Walking'

Simulates ==
  \/ /\ before' = before /\ returned' = returned /\ vol' \in Volume /\ Stays
  \/ /\ pc' = "ready" /\ vol' = before'
     /\ Calls(before, returned, before', returned')

(* So the loops' invariant is kept by every step that simulates.           *)
LEMMA SimulatesKeeps ==
  ASSUME LoopsInv, Simulates
  PROVE  LoopsInv' /\ Calls(before, returned, before', returned')
<1>1. VolumeOK(before) /\ ReturnedOK(before, returned)
  BY DEF LoopsInv
<1>2. Calls(before, returned, before', returned')
  BY DEF Simulates, Calls
<1>3. VolumeOK(before') /\ ReturnedOK(before', returned')
  BY <1>1, <1>2, CallsKeep
<1>4. vol' \in Volume
  BY <1>3 DEF Simulates, VolumeOK
<1>5. VolumeOK(before)' /\ ReturnedOK(before, returned)'
  BY <1>3 DEF VolumeOK, ReturnedOK, Tight
<1> QED BY <1>2, <1>4, <1>5 DEF LoopsInv, Simulates, Stays

LEMMA ReadyIs ==
  ASSUME LoopsInv, pc = "ready"
  PROVE  vol = before /\ vol \in Volume /\ Tight(vol)
BY DEF LoopsInv, Counting, Searching, Freeing, Walking, VolumeOK

-----------------------------------------------------------------------------
(* One lemma for each action of the loops.                                 *)
LEMMA MountSimulates ==
  ASSUME LoopsInv, BeginMount \/ Unmount \/ CountStep
  PROVE  Simulates
<1>1. CASE BeginMount /\ vol.mounted
  <2>1. vol' = vol /\ pc = "ready" /\ pc' = "ready" /\ returned' = 0 /\ before' = vol'
    BY <1>1 DEF BeginMount, Return
  <2>2. MountVolume(vol) = vol
    BY <1>1 DEF MountVolume
  <2> QED BY <2>1, <2>2, ReadyIs DEF Simulates, Calls
<1>2. CASE BeginMount /\ ~vol.mounted
  <2>1. /\ pc = "ready" /\ pc' = "count" /\ cluster' = 2 /\ before' = vol /\ returned' = returned
        /\ vol' = [vol EXCEPT !.free_clusters = 0, !.next_free_cluster = 3]
    BY <1>2 DEF BeginMount, Enter
  <2>2. vol = before /\ vol \in Volume
    BY <2>1, ReadyIs
  <2>3. 3 \in Hints
    BY MaxClusterAssumption DEF Hints, Root
  <2>4. vol' \in Volume
    BY <2>1, <2>2, <2>3 DEF Volume
  <2>5. Counting'
    BY <1>2, <2>1, <2>2 DEF Counting
  <2> QED BY <2>1, <2>2, <2>4, <2>5 DEF Simulates, Stays
<1>3. CASE Unmount
  <2>1. /\ pc = "ready" /\ pc' = "ready" /\ before' = vol' /\ returned' = 0
        /\ vol.mounted /\ vol' = UnmountVolume(vol)
    BY <1>3 DEF Unmount, UnmountCall
  <2> QED BY <2>1, ReadyIs DEF Simulates, Calls
<1>4. CASE CountStep
  <2>1. pc = "count"
    BY <1>4 DEF CountStep, Iterate, Return
  <2>2. /\ before \in Volume /\ vol \in Volume /\ ~before.mounted /\ cluster \in Nat
        /\ vol = [before EXCEPT !.free_clusters = 0, !.next_free_cluster = 3]
    BY <2>1 DEF LoopsInv, Counting, Searching, Freeing, Walking, VolumeOK
  <2>3. ~vol.mounted
    BY <2>2 DEF Volume
  <2>4. CASE cluster \in Clusters
    <3>1. /\ pc' = "count" /\ cluster' = cluster + 1 /\ before' = before /\ returned' = returned
          /\ vol' = [vol EXCEPT !.free_clusters =
                       IF ReadEntry(vol, cluster) = Free THEN @ + 1 ELSE @]
      BY <1>4, <2>1, <2>4 DEF CountStep, Iterate
    <3>2. ReadEntry(vol, cluster) # Free
      BY <2>2, <2>3, CountedNone
    <3>3. vol' = vol
      BY <2>2, <3>1, <3>2 DEF Volume
    <3>4. Counting'
      BY <2>2, <3>1, <3>3 DEF Counting
    <3> QED BY <2>2, <3>1, <3>3, <3>4 DEF Simulates, Stays
  <2>5. CASE cluster \notin Clusters
    <3>1. /\ pc' = "ready" /\ returned' = 0 /\ before' = vol'
          /\ vol' = [vol EXCEPT !.mounted = TRUE]
      BY <1>4, <2>5 DEF CountStep, Return
    <3>2. vol' = MountVolume(before)
      BY <2>2, <3>1, CountedNone DEF Volume
    <3> QED BY <3>1, <3>2 DEF Simulates, Calls
  <2> QED BY <2>4, <2>5
<1> QED BY <1>1, <1>2, <1>3, <1>4

LEMMA AllocateSimulates ==
  ASSUME LoopsInv, BeginAllocate \/ SearchStep
  PROVE  Simulates
<1>1. CASE BeginAllocate
  <2>1. vol' = vol /\ pc = "ready" /\ vol = before /\ vol \in Volume
    <3>1. vol' = vol /\ pc = "ready"
      BY <1>1 DEF BeginAllocate, Return, Enter
    <3> QED BY <3>1, ReadyIs
  <2>2. CASE ~(vol.mounted /\ vol.free_clusters > 0)
    <3>1. pc' = "ready" /\ returned' = 0 /\ before' = vol'
      BY <1>1, <2>2 DEF BeginAllocate, Return
    <3>2. AfterAllocate(vol) = vol /\ Allocated(vol) = 0
      BY <2>2 DEF AfterAllocate, Allocated, CanAllocate
    <3> QED BY <2>1, <3>1, <3>2 DEF Simulates, Calls
  <2>3. CASE vol.mounted /\ vol.free_clusters > 0
    <3>1. /\ pc' = "search" /\ cluster' = vol.next_free_cluster /\ before' = vol
          /\ returned' = returned
      BY <1>1, <2>3 DEF BeginAllocate, Enter
    <3>2. vol.next_free_cluster \in Nat /\ \A c \in Clusters : c \in Nat
      BY <2>1, Numbers DEF Volume
    <3>3. Searching'
      BY <2>1, <2>3, <3>1, <3>2 DEF Searching
    <3> QED BY <2>1, <3>1, <3>3 DEF Simulates, Stays
  <2> QED BY <2>2, <2>3
<1>2. CASE SearchStep
  <2>1. pc \in {"search", "wrap"}
    BY <1>2 DEF SearchStep
  <2>2. Searching
    BY <2>1 DEF LoopsInv, Counting, Freeing, Walking
  <2>3. vol = before /\ before \in Volume /\ vol.mounted /\ cluster \in Nat
        /\ before.next_free_cluster \in Nat
    BY <2>2, Numbers DEF Searching, LoopsInv, VolumeOK, Volume
  <2>4. \A c \in Clusters : c \in Nat /\ c < MaxCluster + 1 /\ c >= 2
    BY MaxClusterAssumption DEF Clusters, Root
  <2>5. MaxCluster \in Nat
    BY MaxClusterAssumption
  <2>6. Limit \in Nat
    BY <2>3, <2>5 DEF Limit
  <2>7. CASE cluster < Limit /\ ReadEntry(vol, cluster) = Free
    <3>1. /\ vol' = [WriteEntry(vol, cluster, Eoc) EXCEPT
                      !.free_clusters = @ - 1, !.next_free_cluster = cluster + 1]
          /\ Return(pc, cluster)
      BY <1>2, <2>3, <2>7, <2>6 DEF SearchStep
    <3>2. vol' = AfterAllocate(before) /\ cluster = Allocated(before)
      BY <2>2, <2>7, <3>1, SearchFinds
    <3> QED BY <3>1, <3>2 DEF Return, Simulates, Calls
  <2>8. CASE cluster < Limit /\ ReadEntry(vol, cluster) # Free
    <3>1. /\ pc' = pc /\ cluster' = cluster + 1 /\ before' = before /\ returned' = returned
          /\ vol' = vol
      BY <1>2, <2>3, <2>8, <2>6 DEF SearchStep, Iterate
    <3>2. cluster \in Clusters => before.fat[cluster] # Free
      BY <2>3, <2>8 DEF ReadEntry
    <3>3. Searching'
      BY <2>2, <2>3, <2>4, <3>1, <3>2 DEF Searching
    <3> QED BY <2>3, <3>1, <3>3 DEF Simulates, Stays
  <2>9. CASE cluster >= Limit /\ pc = "search"
    <3>1. CASE pc' = "wrap"
      <4>1. cluster' = 2 /\ vol' = vol /\ before' = before /\ returned' = returned
        BY <1>2, <2>3, <2>5, <2>9, <3>1 DEF SearchStep, Limit, Return, Iterate
      <4>2. cluster >= MaxCluster + 1
        BY <2>9 DEF Limit
      <4>3. \A c \in Clusters : before.next_free_cluster <= c => before.fat[c] # Free
        BY <2>2, <2>3, <2>4, <2>5, <2>9, <4>2 DEF Searching
      <4>4. Searching'
        BY <2>2, <2>4, <3>1, <4>1, <4>3 DEF Searching
      <4> QED BY <2>3, <4>1, <4>4 DEF Simulates, Stays
    <3>2. CASE pc' # "wrap"
      BY <1>2, <2>3, <2>5, <2>9, <3>2 DEF SearchStep, Limit, Return, Iterate
    <3> QED BY <3>1, <3>2
  <2>10. CASE cluster >= Limit /\ pc = "wrap"
    <3>1. vol' = vol /\ Return("wrap", 0)
      BY <1>2, <2>3, <2>10 DEF SearchStep, Limit
    <3>2. vol' = AfterAllocate(before) /\ Allocated(before) = 0
      BY <2>2, <2>3, <2>10, <3>1, SearchFails
    <3> QED BY <3>1, <3>2 DEF Return, Simulates, Calls
  <2>11. cluster < Limit \/ cluster >= Limit
    BY <2>3, <2>6
  <2> QED BY <2>1, <2>7, <2>8, <2>9, <2>10, <2>11
<1> QED BY <1>1, <1>2

LEMMA FreeSimulates ==
  ASSUME LoopsInv, (\E c \in Clusters : BeginFree(c)) \/ FreeStep
  PROVE  Simulates
<1>1. ASSUME NEW c \in Clusters, BeginFree(c)
      PROVE  Simulates
  <2>1. pc = "ready" /\ vol' = vol /\ vol = before /\ vol \in Volume /\ MayFree(c)
    <3>1. pc = "ready" /\ vol' = vol /\ MayFree(c)
      BY <1>1 DEF BeginFree, Return, Enter
    <3> QED BY <3>1, ReadyIs
  <2>2. CASE vol.mounted
    BY <1>1, <2>1, <2>2, FreeBegins DEF Simulates, Stays
  <2>3. CASE ~vol.mounted
    <3>1. pc' = "ready" /\ returned' = 0 /\ before' = vol'
      BY <1>1, <2>3 DEF BeginFree, Return
    <3>2. FreeChain(vol, c) = vol
      BY <2>3 DEF FreeChain
    <3> QED BY <2>1, <3>1, <3>2 DEF MayFree, Simulates, Calls
  <2> QED BY <2>2, <2>3
<1>2. CASE FreeStep
  <2>1. pc = "free"
    BY <1>2 DEF FreeStep, Iterate, Return
  <2>2. Freeing /\ vol \in Volume /\ before \in Volume
    BY <2>1 DEF LoopsInv, Counting, Searching, Walking, VolumeOK
  <2>3. PICK W \in SUBSET Clusters : FreedAll(W) /\ (FreedOnce(W) \/ FreedTwice(W))
    BY <2>2 DEF Freeing
  <2>4. CASE cluster \in Clusters
    <3>1. FreedOnce(W) /\ vol.mounted
      BY <2>3, <2>4, Numbers DEF FreedTwice, FreedAll
    <3>2. /\ before' = before /\ origin' = origin /\ pc' = pc /\ returned' = returned
          /\ vol' \in Volume
      BY <1>2, <2>2, <2>4, <3>1, FreeStepDoes
    <3>3. CASE cluster \in W
      <4>1. FreedAll(W)' /\ FreedTwice(W)'
        BY <1>2, <2>3, <2>4, <3>1, <3>3, FreesAgain
      <4>2. Freeing'
        BY <2>2, <3>2, <4>1 DEF Freeing
      <4> QED BY <3>2, <4>2 DEF Simulates, Stays
    <3>4. CASE cluster \notin W
      <4>1. \E V \in SUBSET Clusters : FreedAll(V)' /\ FreedOnce(V)'
        BY <1>2, <2>3, <2>4, <3>1, <3>4, FreesNext
      <4>2. Freeing'
        BY <2>2, <3>2, <4>1 DEF Freeing
      <4> QED BY <3>2, <4>2 DEF Simulates, Stays
    <3> QED BY <3>3, <3>4
  <2>5. CASE cluster \notin Clusters
    <3>1. vol' = vol /\ pc' = "ready" /\ returned' = 0 /\ before' = vol'
      BY <1>2, <2>5 DEF FreeStep, Return
    <3>2. vol = FreeChain(before, origin)
      BY <2>2, <2>5, FreeEnds
    <3> QED BY <2>2, <3>1, <3>2 DEF Freeing, Simulates, Calls
  <2> QED BY <2>4, <2>5
<1> QED BY <1>1, <1>2

(* The walk ends at a cluster that IsLastOf names, and writing behind      *)
(* entry 0 is no write.                                                    *)
LEMMA WalkFinds ==
  ASSUME LoopsInv, pc = "walk", ReadEntry(vol, cluster) = Eoc
  PROVE  /\ IsLastOf(vol, origin, cluster)
         /\ cluster \in Clusters => vol.fat[cluster] = Eoc
         /\ cluster \notin Clusters => WriteEntry(vol, cluster, returned) = vol
<1>1. Walking /\ vol.mounted
  BY DEF LoopsInv, Counting, Searching, Freeing, Walking
<1>2. cluster \in Clusters => vol.fat[cluster] = Eoc
  BY <1>1 DEF ReadEntry
<1>3. Reach(vol.fat, origin) \subseteq Clusters
  BY <1>1, ReachWithin DEF Walking
<1>4. IsLastOf(vol, origin, cluster)
  BY <1>1, <1>2, <1>3 DEF Walking, IsLastOf
<1> QED BY <1>2, <1>4 DEF WriteEntry

LEMMA LinkSimulates ==
  ASSUME LoopsInv, (\E c \in Clusters : BeginLink(c)) \/ WalkStep
  PROVE  Simulates
<1>1. ASSUME NEW c \in Clusters, BeginLink(c)
      PROVE  Simulates
  <2>1. /\ pc = "ready" /\ pc' = "walk" /\ cluster' = c /\ origin' = c /\ before' = vol
        /\ vol' = vol /\ returned' = returned /\ returned \in Clusters /\ vol.mounted
    BY <1>1 DEF BeginLink, Enter
  <2>2. vol = before /\ vol \in Volume /\ c \in Reach(vol.fat, c)
    BY <2>1, ReadyIs, ReachWithin
  <2>3. Walking'
    BY <2>1, <2>2 DEF Walking
  <2> QED BY <2>1, <2>2, <2>3 DEF Simulates, Stays
<1>2. CASE WalkStep
  <2>1. pc = "walk"
    BY <1>2 DEF WalkStep, Iterate, Return
  <2>2. /\ Walking /\ vol = before /\ vol \in Volume /\ vol.mounted /\ origin \in Clusters
        /\ returned \in Clusters
    BY <2>1 DEF LoopsInv, Counting, Searching, Freeing, Walking
  <2>3. CASE ReadEntry(vol, cluster) # Eoc
    <3>1. /\ pc' = pc /\ cluster' = vol.fat[cluster] /\ vol' = vol /\ before' = before
          /\ origin' = origin /\ returned' = returned /\ cluster \in Clusters
          /\ vol.fat[cluster] # Eoc
      BY <1>2, <2>2, <2>3 DEF WalkStep, Iterate, ReadEntry
    <3>2. cluster \in Reach(vol.fat, origin)
      BY <2>2, <3>1, Numbers DEF Walking
    <3>3. vol.fat[cluster] \in Clusters \/ vol.fat[cluster] = Free
      BY <2>2, <3>1 DEF Volume, Links
    <3>4. vol.fat[cluster] \in Clusters => vol.fat[cluster] \in Reach(vol.fat, origin)
      BY <2>2, <3>2, ReachCloses
    <3>5. Walking'
      BY <2>1, <2>2, <3>1, <3>2, <3>3, <3>4 DEF Walking
    <3> QED BY <2>2, <3>1, <3>5 DEF Simulates, Stays
  <2>4. CASE ReadEntry(vol, cluster) = Eoc
    <3>1. /\ vol' = WriteEntry(vol, cluster, returned) /\ pc' = "ready" /\ returned' = 0
          /\ before' = vol'
      BY <1>2, <2>4 DEF WalkStep, Return
    <3>2. CASE cluster \in Clusters
      <4>1. vol.fat[returned] # Free /\ returned # Root /\ vol.fat[cluster] = Eoc
        BY <2>1, <2>2, <2>4, <3>2, WalkFinds DEF LoopsInv, ReturnedOK
      <4> QED BY <2>2, <3>1, <3>2, <4>1 DEF Simulates, Calls
    <3>3. CASE cluster \notin Clusters
      <4>1. vol' = vol
        BY <2>1, <2>4, <3>1, <3>3, WalkFinds
      <4>2. MountVolume(vol) = vol
        BY <2>2 DEF MountVolume
      <4> QED BY <2>2, <3>1, <4>1, <4>2 DEF Simulates, Calls
    <3> QED BY <3>2, <3>3
  <2> QED BY <2>3, <2>4
<1> QED BY <1>1, <1>2

LEMMA LoopsInitInv == LoopsInit => LoopsInv
<1> SUFFICES ASSUME LoopsInit PROVE LoopsInv
  OBVIOUS
<1>1. CallsInv /\ returned = 0 /\ pc = "ready" /\ before = vol
  BY CallsInitInv DEF LoopsInit, CallsInit
<1>2. 0 \notin Clusters
  BY Numbers DEF Free
<1> QED BY <1>1, <1>2 DEF CallsInv, CallsTypeOK, HintTight, LoopsInv, VolumeOK, ReturnedOK

LEMMA LoopsNextInv ==
  LoopsInv /\ [LoopsNext]_loopVars => LoopsInv' /\ Calls(before, returned, before', returned')
<1> SUFFICES ASSUME LoopsInv, [LoopsNext]_loopVars
             PROVE  LoopsInv' /\ Calls(before, returned, before', returned')
  OBVIOUS
<1>1. CASE LoopsNext
  <2>1. Simulates
    BY <1>1, MountSimulates, AllocateSimulates, FreeSimulates, LinkSimulates
       DEF LoopsNext, LoopStep
  <2> QED BY <2>1, SimulatesKeeps
<1>2. CASE UNCHANGED loopVars
  BY <1>2 DEF loopVars, LoopsInv, Calls, VolumeOK, ReturnedOK, Tight, Counting, Searching,
              Freeing, FreedAll, FreedOnce, FreedTwice, Walking
<1> QED BY <1>1, <1>2

(* The operators of Fat, as the instance of FatCalls names them.           *)
LEMMA SameConstants ==
  /\ AtReturns!Root = Root /\ AtReturns!Clusters = Clusters /\ AtReturns!Free = Free
  /\ AtReturns!Eoc = Eoc /\ AtReturns!Links = Links
<1>1. AtReturns!Root = Root /\ AtReturns!Free = Free /\ AtReturns!Eoc = Eoc
  BY DEF AtReturns!Root, Root, AtReturns!Free, Free, AtReturns!Eoc, Eoc
<1>2. AtReturns!Clusters = Clusters
  BY <1>1 DEF AtReturns!Clusters, Clusters
<1> QED BY <1>1, <1>2 DEF AtReturns!Links, Links

LEMMA SameReach ==
  ASSUME NEW fat, NEW c
  PROVE  AtReturns!Reach(fat, c) = Reach(fat, c) /\ AtReturns!Cyclic(fat, c) = Cyclic(fat, c)
<1>1. AtReturns!Met(fat, c) = Met(fat, c)
  BY SameConstants DEF AtReturns!Met, Met
<1>2. ASSUME NEW S
      PROVE  AtReturns!ClosedFrom(fat, c, S) = ClosedFrom(fat, c, S)
  BY SameConstants DEF AtReturns!ClosedFrom, ClosedFrom
<1>3. AtReturns!Reach(fat, c) = Reach(fat, c)
  BY <1>1, <1>2 DEF AtReturns!Reach, Reach
<1> QED BY <1>3, SameConstants DEF AtReturns!Cyclic, Cyclic

LEMMA SameSets ==
  ASSUME NEW S
  PROVE  AtReturns!Min(S) = Min(S) /\ AtReturns!Cardinality(S) = Cardinality(S)
<1>1. AtReturns!Min(S) = Min(S)
  BY DEF AtReturns!Min, Min
<1>2. AtReturns!Cardinality(S) = Cardinality(S)
  BY DEF AtReturns!Cardinality, Cardinality
<1> QED BY <1>1, <1>2

LEMMA SameFree ==
  ASSUME NEW v
  PROVE  AtReturns!FreeAt(v) = FreeAt(v)
<1>1. \A c : AtReturns!ReadEntry(v, c) = ReadEntry(v, c)
  BY SameConstants DEF AtReturns!ReadEntry, ReadEntry
<1> QED BY <1>1, SameConstants DEF AtReturns!FreeAt, FreeAt

LEMMA SameAllocate ==
  ASSUME NEW v
  PROVE  /\ AtReturns!AfterAllocate(v) = AfterAllocate(v)
         /\ AtReturns!Allocated(v) = Allocated(v)
<1>1. AtReturns!AllocPick(v) = AllocPick(v)
  BY SameFree, SameSets DEF AtReturns!AllocPick, AllocPick
<1>2. AtReturns!CanAllocate(v) <=> CanAllocate(v)
  BY SameFree DEF AtReturns!CanAllocate, CanAllocate
<1> QED BY <1>1, <1>2, SameConstants
        DEF AtReturns!AfterAllocate, AfterAllocate, AtReturns!Allocated, Allocated

LEMMA SameMount ==
  ASSUME NEW v
  PROVE  /\ AtReturns!MountVolume(v) = MountVolume(v)
         /\ AtReturns!UnmountVolume(v) = UnmountVolume(v)
BY SameFree, SameSets DEF AtReturns!MountVolume, MountVolume, AtReturns!UnmountVolume, UnmountVolume

LEMMA SameChain ==
  ASSUME NEW v, NEW c, NEW link
  PROVE  /\ AtReturns!FreeChain(v, c) = FreeChain(v, c)
         /\ AtReturns!WriteEntry(v, c, link) = WriteEntry(v, c, link)
<1>1. AtReturns!WriteEntry(v, c, link) = WriteEntry(v, c, link)
  BY SameConstants DEF AtReturns!WriteEntry, WriteEntry
<1>2. AtReturns!Reach(v.fat, c) = Reach(v.fat, c) /\ AtReturns!Cyclic(v.fat, c) = Cyclic(v.fat, c)
  BY SameReach
<1>3. AtReturns!FreeChain(v, c) = FreeChain(v, c)
  BY <1>2, SameConstants, SameSets DEF AtReturns!FreeChain, FreeChain
<1> QED BY <1>1, <1>3

(* What the calls see of a step, in the words of the calls.                *)
LEMMA CallsSeen ==
  ASSUME LoopsInv, LoopsInv', Calls(before, returned, before', returned')
  PROVE  [AtReturns!CallsNext]_AtReturns!callVars
<1>1. View = before /\ View' = before'
  <2>1. pc = "ready" => vol = before
    BY ReadyIs
  <2>2. (pc = "ready" => vol = before)'
    BY DEF LoopsInv, Counting, Searching, Freeing, Walking
  <2> QED BY <2>1, <2>2 DEF View
<1>2. CASE before' = before /\ returned' = returned
  BY <1>1, <1>2 DEF AtReturns!callVars, View
<1>3. CASE before' = MountVolume(before) /\ returned' = 0
  <2>1. AtReturns!MountCall
    BY <1>1, <1>3, SameMount DEF AtReturns!MountCall, View
  <2> QED BY <2>1, SameConstants DEF AtReturns!CallsNext
<1>4. CASE before.mounted /\ before' = UnmountVolume(before) /\ returned' = 0
  <2>1. AtReturns!UnmountCall
    BY <1>1, <1>4, SameMount DEF AtReturns!UnmountCall, View
  <2> QED BY <2>1, SameConstants DEF AtReturns!CallsNext
<1>5. CASE before' = AfterAllocate(before) /\ returned' = Allocated(before)
  <2>1. AtReturns!AllocateCall
    BY <1>1, <1>5, SameAllocate DEF AtReturns!AllocateCall, View
  <2> QED BY <2>1, SameConstants DEF AtReturns!CallsNext
<1>6. ASSUME NEW c \in Clusters, before.free_clusters < MaxCount, before.fat[c] # Free,
             Root \notin Reach(before.fat, c), before' = FreeChain(before, c), returned' = 0
      PROVE  AtReturns!CallsNext
  <2>1. AtReturns!FreeCall(c)
    BY <1>1, <1>6, SameConstants, SameReach, SameChain DEF AtReturns!FreeCall, AtReturns!MayFree, View
  <2> QED BY <2>1, SameConstants DEF AtReturns!CallsNext
<1>7. ASSUME NEW last \in Clusters, NEW c \in Clusters, before.fat[last] = Eoc,
             before.fat[c] # Free, c # Root, before' = WriteEntry(before, last, c),
             returned' = 0
      PROVE  AtReturns!CallsNext
  <2>1. AtReturns!LinkCall(last, c)
    BY <1>1, <1>7, SameConstants, SameChain DEF AtReturns!LinkCall, View
  <2> QED BY <2>1, SameConstants DEF AtReturns!CallsNext
<1> QED BY <1>2, <1>3, <1>4, <1>5, <1>6, <1>7 DEF Calls

(* The loops' invariant holds in every state.                              *)
LEMMA LoopsAlways == LoopsSpec => []LoopsInv
<1>1. LoopsInv /\ [LoopsNext]_loopVars => LoopsInv'
  BY LoopsNextInv
<1> QED BY <1>1, LoopsInitInv, PTL DEF LoopsSpec

(* Seen at the return of each call, the loops of fs_mount,                 *)
(* fat32_allocate_cluster, fat32_free_cluster_chain and fs_write are the   *)
(* calls of FatCalls: Fat's closed forms are what the code computes, on    *)
(* tables of every size, with chains that end, run into a free cluster or  *)
(* come back.                                                              *)
THEOREM LoopsImplement == LoopsSpec => LoopsImplementCalls
<1>1. LoopsInit => AtReturns!CallsInit
  BY SameConstants DEF LoopsInit, CallsInit, AtReturns!CallsInit
<1>2. LoopsInv /\ LoopsInv' /\ [LoopsNext]_loopVars => [AtReturns!CallsNext]_AtReturns!callVars
  BY LoopsNextInv, CallsSeen
<1> QED BY <1>1, <1>2, LoopsAlways, PTL DEF LoopsSpec, LoopsImplementCalls, AtReturns!CallsSpec

(* Where fs_write's walk to the end of a chain stops, it is at that        *)
(* chain's end, or at entry 0 behind a free cluster, where it writes       *)
(* nothing.                                                                *)
THEOREM LoopsWalkEnds == LoopsSpec => WalkEndsAtLast
<1>1. ASSUME LoopsInv, [LoopsNext]_loopVars, pc = "walk", pc' = "ready"
      PROVE  IsLastOf(vol, origin, cluster)
  <2>1. LoopsNext
    BY <1>1 DEF loopVars
  <2>2. WalkStep
    BY <1>1, <2>1 DEF LoopsNext, LoopStep, BeginMount, Unmount, BeginAllocate, BeginFree,
       BeginLink, CountStep, SearchStep, FreeStep, Enter, Return, Iterate
  <2>3. ReadEntry(vol, cluster) = Eoc
    BY <1>1, <2>2 DEF WalkStep, Iterate
  <2> QED BY <1>1, <2>3, WalkFinds
<1>2. LoopsInv /\ [LoopsNext]_loopVars
        => [pc = "walk" /\ pc' = "ready" => IsLastOf(vol, origin, cluster)]_loopVars
  BY <1>1
<1> QED BY <1>2, LoopsAlways, PTL DEF LoopsSpec, WalkEndsAtLast

(* Within a loop the table is typed and the hint tight, too: the walk that *)
(* frees a chain lowers the hint in the iteration that frees the cluster.  *)
LEMMA LoopsKeepHint == LoopsInv => CallsTypeOK /\ HintTight
<1> SUFFICES ASSUME LoopsInv PROVE CallsTypeOK /\ HintTight
  OBVIOUS
<1>1. /\ vol \in Volume /\ before \in Volume /\ Tight(before) /\ before.fat[Root] # Free
      /\ returned \in {0} \cup Clusters
  BY DEF LoopsInv, VolumeOK, ReturnedOK
<1>2. vol.fat[Root] # Free /\ Tight(vol)
  <2>1. CASE vol = before
    BY <1>1, <2>1
  <2>2. CASE Counting
    <3>1. vol.fat = before.fat /\ vol.next_free_cluster = 3
      BY <1>1, <2>2 DEF Counting, Volume
    <3> QED BY <1>1, <3>1 DEF Tight, Clusters, Root
  <2>3. CASE Freeing
    <3>1. PICK W \in SUBSET Clusters : FreedAll(W)
      BY <2>3 DEF Freeing
    <3>2. Root \in Clusters /\ Root \notin W /\ Clusters \subseteq Nat /\ Hints \subseteq Nat
      BY <2>3, <3>1, Numbers DEF Freeing, FreedAll
    <3>3. vol.fat[Root] = before.fat[Root]
      BY <3>1, <3>2 DEF FreedAll
    <3>4. ASSUME NEW c \in Clusters, c < vol.next_free_cluster
          PROVE  vol.fat[c] # Free
      <4>1. /\ vol.next_free_cluster \in Nat /\ before.next_free_cluster \in Nat /\ c \in Nat
            /\ vol.next_free_cluster <= before.next_free_cluster
            /\ c \in W => vol.next_free_cluster <= c
        BY <1>1, <3>1, <3>2 DEF FreedAll, Volume
      <4>2. c \notin W /\ c < before.next_free_cluster
        BY <3>4, <4>1
      <4> QED BY <1>1, <3>1, <4>2 DEF FreedAll, Tight
    <3> QED BY <1>1, <3>3, <3>4 DEF Tight
  <2> QED BY <2>1, <2>2, <2>3 DEF LoopsInv, Searching, Walking
<1> QED BY <1>1, <1>2 DEF CallsTypeOK, HintTight

(* The hint passes over no free cluster between two iterations either.     *)
THEOREM LoopsHintTight == LoopsSpec => [](CallsTypeOK /\ HintTight)
BY LoopsAlways, LoopsKeepHint, PTL
=============================================================================
