------------------------------ MODULE FatLoops ------------------------------
(***************************************************************************)
(* The loops behind the operators of module Fat, one iteration a step, as  *)
(* src/kernel/filesystem.c runs them: the count of fs_mount, the two       *)
(* searches of fat32_allocate_cluster, the walk of                         *)
(* fat32_free_cluster_chain and the walk of fs_write to the end of a       *)
(* chain.  The system has one thread: a call runs to its end before the    *)
(* next one starts.                                                        *)
(***************************************************************************)
EXTENDS FatCalls

VARIABLES
  pc,      \* the loop that runs, or "ready"
  cluster, \* its loop variable
  before,  \* the volume when the call began
  origin   \* the cluster it began at

loopVars == <<vol, returned, pc, cluster, before, origin>>

LoopsInit == CallsInit /\ pc = "ready" /\ cluster = 0 /\ origin = 0 /\ before = vol

Enter(loop, c) ==
  /\ pc = "ready" /\ pc' = loop
  /\ cluster' = c /\ origin' = c /\ before' = vol

Iterate(loop, c) ==
  pc = loop /\ cluster' = c /\ UNCHANGED <<pc, returned, before, origin>>

Return(loop, r) ==
  /\ pc = loop /\ pc' = "ready"
  /\ cluster' = 0 /\ origin' = 0
  /\ returned' = r /\ before' = vol'

-----------------------------------------------------------------------------
BeginMount ==
  \/ vol.mounted /\ UNCHANGED vol /\ Return("ready", 0)
  \/ /\ ~vol.mounted
     /\ Enter("count", 2)
     /\ vol' = [vol EXCEPT !.free_clusters = 0, !.next_free_cluster = 3]
     /\ UNCHANGED returned

CountStep ==
  \/ /\ cluster \in Clusters
     /\ Iterate("count", cluster + 1)
     /\ vol' = [vol EXCEPT !.free_clusters =
                  IF ReadEntry(vol, cluster) = Free THEN @ + 1 ELSE @]
  \/ /\ cluster \notin Clusters
     /\ vol' = [vol EXCEPT !.mounted = TRUE]
     /\ Return("count", 0)

Unmount == pc = "ready" /\ UnmountCall /\ before' = vol' /\ UNCHANGED <<pc, cluster, origin>>

-----------------------------------------------------------------------------
(* Mutant: the count is not looked at.                                     *)
BeginAllocateUncounted ==
  vol.mounted /\ Enter("search", vol.next_free_cluster) /\ UNCHANGED <<vol, returned>>

BeginAllocate ==
  /\ UNCHANGED vol
  /\ \/ /\ ~(vol.mounted /\ vol.free_clusters > 0)
        /\ Return("ready", 0)
     \/ /\ vol.mounted /\ vol.free_clusters > 0
        /\ Enter("search", vol.next_free_cluster)
        /\ UNCHANGED returned

(* The first loop searches from the hint to the end of the table, the      *)
(* second one from the beginning up to the hint.                           *)
Limit == IF pc = "search" THEN MaxCluster + 1 ELSE vol.next_free_cluster

(* Mutant: the second search starts over when it has found nothing.        *)
SearchStepAgain ==
  /\ pc \in {"search", "wrap"} /\ UNCHANGED vol
  /\ cluster' = IF cluster < MaxCluster + 1 THEN cluster + 1 ELSE 2
  /\ pc' = "wrap" /\ UNCHANGED <<returned, before, origin>>

SearchStep ==
  /\ pc \in {"search", "wrap"}
  /\ \/ /\ cluster < Limit /\ ReadEntry(vol, cluster) = Free
        /\ vol' = [WriteEntry(vol, cluster, Eoc) EXCEPT
                     !.free_clusters = @ - 1, !.next_free_cluster = cluster + 1]
        /\ Return(pc, cluster)
     \/ /\ cluster < Limit /\ ReadEntry(vol, cluster) # Free
        /\ Iterate(pc, cluster + 1)
        /\ UNCHANGED vol
     \/ /\ cluster >= Limit /\ pc = "search" /\ pc' = "wrap" /\ cluster' = 2
        /\ UNCHANGED <<vol, returned, before, origin>>
     \/ /\ cluster >= Limit /\ UNCHANGED vol
        /\ Return("wrap", 0)

-----------------------------------------------------------------------------
BeginFree(c) ==
  /\ MayFree(c)
  /\ UNCHANGED vol
  /\ \/ ~vol.mounted /\ Return("ready", 0)
     \/ vol.mounted /\ Enter("free", c) /\ UNCHANGED returned

(* Mutant: the hint is not lowered.                                        *)
FreeStepHintKept ==
  \/ /\ cluster \in Clusters
     /\ Iterate("free", ReadEntry(vol, cluster))
     /\ vol' = [WriteEntry(vol, cluster, Free) EXCEPT !.free_clusters = @ + 1]
  \/ cluster \notin Clusters /\ UNCHANGED vol /\ Return("free", 0)

(* Mutant: the link is read after its cluster has been freed.              *)
FreeStepLate ==
  \/ /\ cluster \in Clusters
     /\ vol' = [WriteEntry(vol, cluster, Free) EXCEPT
                  !.free_clusters = @ + 1,
                  !.next_free_cluster = IF cluster < @ THEN cluster ELSE @]
     /\ Iterate("free", ReadEntry(vol', cluster))
  \/ cluster \notin Clusters /\ UNCHANGED vol /\ Return("free", 0)

FreeStep ==
  \/ /\ cluster \in Clusters
     /\ Iterate("free", ReadEntry(vol, cluster))
     /\ vol' = [WriteEntry(vol, cluster, Free) EXCEPT
                  !.free_clusters = @ + 1,
                  !.next_free_cluster = IF cluster < @ THEN cluster ELSE @]
  \/ /\ cluster \notin Clusters
     /\ UNCHANGED vol
     /\ Return("free", 0)

-----------------------------------------------------------------------------
(* fs_write has just been handed the cluster `returned' and looks for the  *)
(* end of the chain of its file.                                           *)
BeginLink(c) ==
  /\ returned \in Clusters /\ vol.mounted /\ c # Root
  /\ Enter("walk", c)
  /\ UNCHANGED <<vol, returned>>

(* Mutant: the walk stops before any link that leads to no cluster.        *)
WalkStepShort ==
  \/ /\ ReadEntry(vol, cluster) \in Clusters
     /\ Iterate("walk", ReadEntry(vol, cluster))
     /\ UNCHANGED vol
  \/ /\ ReadEntry(vol, cluster) \notin Clusters
     /\ vol' = WriteEntry(vol, cluster, returned)
     /\ Return("walk", 0)

WalkStep ==
  \/ /\ ReadEntry(vol, cluster) # Eoc
     /\ Iterate("walk", ReadEntry(vol, cluster))
     /\ UNCHANGED vol
  \/ /\ ReadEntry(vol, cluster) = Eoc
     /\ vol' = WriteEntry(vol, cluster, returned)
     /\ Return("walk", 0)

-----------------------------------------------------------------------------
LoopStep == CountStep \/ SearchStep \/ FreeStep \/ WalkStep

LoopsNext ==
  \/ BeginMount \/ Unmount \/ BeginAllocate
  \/ \E c \in Clusters : BeginFree(c) \/ BeginLink(c)
  \/ LoopStep

(* A call that runs keeps running: nothing else has the processor.         *)
LoopsSpec == LoopsInit /\ [][LoopsNext]_loopVars /\ WF_loopVars(LoopStep)

-----------------------------------------------------------------------------
(* Every loop computes what module Fat says of it: seen at the return of   *)
(* each call, the loops are calls of FatCalls.  So Fat's closed forms, the *)
(* cyclic chains and the hint included, are what the code does.            *)
AtReturns == INSTANCE FatCalls WITH vol <- IF pc = "ready" THEN vol ELSE before

LoopsImplementCalls == AtReturns!CallsSpec

(* The walk of fs_write to the end of a chain stops at a cluster IsLastOf *)
(* names: the end of that chain, or entry 0, and the new cluster is linked *)
(* nowhere else.                                                           *)
WalkEndsAtLast ==
  [][pc = "walk" /\ pc' = "ready" => IsLastOf(vol, origin, cluster)]_loopVars

(* Mounting, allocating and freeing always return, on cyclic tables too;   *)
(* the walk of fs_write need not.                                          *)
LoopsReturn == pc \in {"count", "search", "wrap", "free"} ~> pc = "ready"
=============================================================================
