------------------------------ MODULE FatCalls ------------------------------
(***************************************************************************)
(* The allocation table as its callers see it: any volume, mounted and     *)
(* unmounted at will, and the fat32_* functions called in any order the    *)
(* rest of the filesystem could call them in, each as one step.            *)
(***************************************************************************)
EXTENDS Fat

CONSTANT MaxCount   \* bound: chains are freed while free_clusters is below it

ASSUME MaxCountAssumption == MaxCount \in Nat

VARIABLES vol,      \* g_fs and the table on the disk
          returned  \* what the last call returned: a cluster, or 0

callVars == <<vol, returned>>

(* A volume as a storage driver may hand it over: any links at all, the    *)
(* root directory being one cluster long.                                  *)
CallsInit ==
  /\ vol \in [mounted : {FALSE}, fat : {f \in [Clusters -> Links] : f[Root] = Eoc},
              free_clusters : {0}, next_free_cluster : {3}]
  /\ returned = 0

MountCall == vol' = MountVolume(vol) /\ returned' = 0

UnmountCall == vol.mounted /\ vol' = UnmountVolume(vol) /\ returned' = 0

AllocateCall ==
  /\ vol' = AfterAllocate(vol)
  /\ returned' = Allocated(vol)

(* The callers free the chain of a directory entry, never the root's.      *)
MayFree(c) ==
  vol.free_clusters < MaxCount /\ vol.fat[c] # Free /\ Root \notin Reach(vol.fat, c)

FreeCall(c) ==
  /\ MayFree(c)
  /\ vol' = FreeChain(vol, c)
  /\ returned' = 0

(* fs_write links the last cluster of a chain to a cluster in use.         *)
LinkCall(last, c) ==
  /\ vol.fat[last] = Eoc
  /\ vol.fat[c] # Free /\ c # Root
  /\ vol' = WriteEntry(vol, last, c)
  /\ returned' = 0

CallsNext ==
  \/ MountCall
  \/ UnmountCall
  \/ AllocateCall
  \/ \E c \in Clusters : FreeCall(c)
  \/ \E last, c \in Clusters : LinkCall(last, c)

CallsSpec == CallsInit /\ [][CallsNext]_callVars

-----------------------------------------------------------------------------
(* The state is of its type and the root directory is never freed.         *)
CallsTypeOK ==
  /\ vol \in Volume
  /\ returned \in {0} \cup Clusters
  /\ vol.fat[Root] # Free

(* No cluster below next_free_cluster is free, on any volume and whatever  *)
(* the order of the calls: the hint alone finds a free cluster when there  *)
(* is one, and the second search loop of fat32_allocate_cluster is dead.   *)
HintTight == Tight(vol)
=============================================================================
