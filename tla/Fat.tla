-------------------------------- MODULE Fat --------------------------------
(***************************************************************************)
(* The FAT32 allocation table of src/kernel/filesystem.c: the part of g_fs *)
(* that tracks clusters and the table itself, as one value `v', and the    *)
(* functions fat32_* that read and change it, as operators on that value.  *)
(* The loops of the code are given here in closed form; module FatLoops    *)
(* runs them iteration by iteration and is proved to agree.                *)
(***************************************************************************)
EXTENDS Integers, FiniteSetsExt

CONSTANT MaxCluster   \* the last valid cluster, total_clusters + 1

ASSUME MaxClusterAssumption == MaxCluster \in Nat /\ MaxCluster >= 3

Root     == 2                   \* boot_sector.root_cluster
Clusters == Root .. MaxCluster  \* the clusters the accessors accept
Free     == 0                   \* FAT32_FREE
Eoc      == MaxCluster + 1      \* FAT32_EOC, above every cluster
Links    == {Free, Eoc} \cup Clusters

(* The hint never drops below Root nor rises past the end of the table.    *)
Hints == Root .. MaxCluster + 1

Volume == [mounted : BOOLEAN, fat : [Clusters -> Links],
           free_clusters : Nat, next_free_cluster : Hints]

(* No cluster below the hint is free.                                      *)
Tight(v) == \A c \in Clusters : c < v.next_free_cluster => v.fat[c] # Free

-----------------------------------------------------------------------------
(* fat32_read_fat_entry and fat32_write_fat_entry: unmounted or out of     *)
(* range, a read answers "end of chain" and a write does nothing.          *)
ReadEntry(v, c) == IF v.mounted /\ c \in Clusters THEN v.fat[c] ELSE Eoc

WriteEntry(v, c, link) ==
  IF v.mounted /\ c \in Clusters THEN [v EXCEPT !.fat[c] = link] ELSE v

(* Mutant: a mask that takes the end of a chain for a free cluster.        *)
FreeAtMasked(v) == {c \in Clusters : ReadEntry(v, c) \notin Clusters}

(* The clusters a search through the accessor finds free.                  *)
FreeAt(v) == {c \in Clusters : ReadEntry(v, c) = Free}

-----------------------------------------------------------------------------
(* Mutant: the count is not looked at.                                     *)
CanAllocateUncounted(v) == v.mounted /\ FreeAt(v) # {}

(* fat32_allocate_cluster: refused when the count says nothing is free;    *)
(* else the first free cluster from the hint on, else from the beginning.  *)
CanAllocate(v) == v.mounted /\ v.free_clusters > 0 /\ FreeAt(v) # {}

AllocPick(v) ==
  LET onward == {c \in FreeAt(v) : c >= v.next_free_cluster}
  IN  Min(IF onward # {} THEN onward ELSE FreeAt(v))

Allocated(v) == IF CanAllocate(v) THEN AllocPick(v) ELSE 0

(* Mutants: the cluster is not marked as in use; the count is not lowered. *)
AfterAllocateUnmarked(v) ==
  IF CanAllocate(v)
  THEN [v EXCEPT !.free_clusters = @ - 1, !.next_free_cluster = AllocPick(v) + 1] ELSE v

AfterAllocateUncounted(v) ==
  IF CanAllocate(v)
  THEN [v EXCEPT !.fat[AllocPick(v)] = Eoc, !.next_free_cluster = AllocPick(v) + 1] ELSE v

AfterAllocate(v) ==
  IF CanAllocate(v)
  THEN [v EXCEPT !.fat[AllocPick(v)] = Eoc,
                 !.free_clusters     = @ - 1,
                 !.next_free_cluster = AllocPick(v) + 1]
  ELSE v

-----------------------------------------------------------------------------
(* The clusters a walk along the links visits from `c': the least set that *)
(* holds c and, of each of its clusters, the cluster it links to.          *)
Met(fat, c) == ({c} \cup {fat[y] : y \in Clusters}) \cap Clusters

ClosedFrom(fat, c, S) ==
  /\ c \in Clusters => c \in S
  /\ \A y \in S : fat[y] \in Clusters => fat[y] \in S

Reach(fat, c) ==
  LET closed == {S \in SUBSET Met(fat, c) : ClosedFrom(fat, c, S)}
  IN  {x \in Met(fat, c) : \A S \in closed : x \in S}

(* A walk that never meets FAT32_FREE or FAT32_EOC comes back to a cluster *)
(* it has visited.                                                         *)
Cyclic(fat, c) == c \in Clusters /\ \A x \in Reach(fat, c) : fat[x] \in Clusters

(* Mutant: the hint is not lowered.                                        *)
FreeChainHintKept(v, c) ==
  IF v.mounted /\ c \in Clusters
  THEN [v EXCEPT !.fat = [x \in Clusters |-> IF x \in Reach(v.fat, c) THEN Free ELSE @[x]],
                 !.free_clusters = @ + Cardinality(Reach(v.fat, c))]
  ELSE v

(* fat32_free_cluster_chain.  The walk frees what it leaves, so on a cycle *)
(* it comes back to a freed cluster, frees it again, counts it again and   *)
(* stops there.                                                            *)
FreeChain(v, c) ==
  IF v.mounted /\ c \in Clusters
  THEN LET walked == Reach(v.fat, c)
       IN  [v EXCEPT
              !.fat = [x \in Clusters |-> IF x \in walked THEN Free ELSE @[x]],
              !.free_clusters = @ + Cardinality(walked)
                                  + (IF Cyclic(v.fat, c) THEN 1 ELSE 0),
              !.next_free_cluster = Min(walked \cup {@})]
  ELSE v

(* The walk of fs_write that looks for the last cluster of a chain: it     *)
(* stops at the first cluster that reads as FAT32_EOC.  A chain that runs  *)
(* into a free cluster leads it to entry 0, which is out of range and      *)
(* reads as FAT32_EOC.  On a cyclic chain there is no last cluster.        *)
IsLastOf(v, c, last) ==
  \/ last \in Reach(v.fat, c) /\ v.fat[last] = Eoc
  \/ last = Free /\ \E x \in Reach(v.fat, c) : v.fat[x] = Free

-----------------------------------------------------------------------------
(* fs_mount.  The free clusters are counted through fat32_read_fat_entry   *)
(* before `mounted' is set.                                                *)
MountVolume(v) ==
  IF v.mounted THEN v
  ELSE [v EXCEPT !.mounted = TRUE,
                 !.free_clusters = Cardinality(FreeAt(v)),
                 !.next_free_cluster = 3]

UnmountVolume(v) == [v EXCEPT !.mounted = FALSE]
=============================================================================
