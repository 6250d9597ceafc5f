---------------------------- MODULE FatFS_proofs ----------------------------
(***************************************************************************)
(* Every operation of FatFS, called with any arguments in any state,       *)
(* keeps the types, the root directory's cluster and the tightness of the  *)
(* allocation hint: one lemma for each action, for the specifications that *)
(* call them, FatApi (at the end of this module) and Shell.  The three go  *)
(* together: an allocated cluster is not the root because the root is not  *)
(* free, the chains that are freed avoid the root because nothing links to *)
(* it, and the hint stays tight as long as fs_mount finds the root in use. *)
(* Then the same for the chains of files and for the entries.              *)
(***************************************************************************)
EXTENDS FatApi, Fat_proofs

VolInv(v) == /\ v \in Volume /\ Tight(v)
             /\ v.fat[Root] # Free
             /\ \A c \in Clusters : v.fat[c] # Root

EntryInv(e)  == e \in Entry /\ e.first # Root
HandleInv(f) == f \in Handle /\ f.first # Root /\ f.current # Root

CallInv(c) == /\ c \in Call
              /\ c.op # "none" => c.h \in Handles
              /\ c.op = "write" => c.size = Len(c.data)

FsInv == /\ VolInv(vol)
         /\ dir \in [Slots -> Entry] /\ \A i \in Slots : EntryInv(dir[i])
         /\ data \in [Clusters -> [Offsets -> Cell]] /\ buf \in [Offsets -> Cell]
         /\ handles \in [Handles -> Handle] /\ \A h \in Handles : HandleInv(handles[h])
         /\ CallInv(call)

(* The invariant is the conjunction of the three properties.               *)
LEMMA FsInvSays == FsInv => FsTypeOK /\ RootKept /\ HintTight
<1> SUFFICES ASSUME FsInv PROVE FsTypeOK /\ RootKept /\ HintTight
  OBVIOUS
<1>1. FsTypeOK
  BY DEF FsInv, FsTypeOK, VolInv, CallInv
<1>2. RootKept
  BY DEF FsInv, RootKept, VolInv, EntryInv, HandleInv
<1>3. QED
  BY <1>1, <1>2 DEF FsInv, VolInv, HintTight

(* The constants, as the proofs use them.                                  *)
LEMMA Constants ==
  /\ MaxCluster \in Nat /\ MaxCluster >= 3 /\ Root \in Clusters /\ 0 \notin Clusters
  /\ Eoc \notin Clusters /\ Free \notin Clusters /\ Eoc # Free /\ Clusters \subseteq Nat
  /\ Links = {Free, Eoc} \cup Clusters /\ First = {Free} \cup Clusters
  /\ Free # Root /\ Eoc # Root
  /\ ClusterCells \in Nat /\ ClusterCells > 0 /\ DirSlots \in Nat /\ NumHandles \in Nat
BY MaxClusterAssumption, SizesAssumption DEF Clusters, Root, Eoc, Free, Links, First

LEMMA FixedValues ==
  /\ Closed \in Handle /\ HandleInv(Closed) /\ CallInv(NoCall)
  /\ \A st \in {"end", "deleted", "used"} : EntryInv(Blank(st))
  /\ {Zeroes, DirImage, Dots} \subseteq [Offsets -> Cell]
<1> DEFINE n == CHOOSE x \in Name : TRUE
<1>1. n \in Name
  BY NamesAssumption
<1>2. Free \in Links /\ Free \in First /\ Free # Root
  BY Constants
<1>3. Closed \in Handle /\ HandleInv(Closed)
  <2>1. 0 \in 0 .. ClusterCells
    BY Constants
  <2>2. QED
    BY <1>1, <1>2, <2>1 DEF Closed, Handle, HandleInv
<1>4. CallInv(NoCall)
  <2>1. 0 \in 0 .. NumHandles /\ <<>> \in Seq(Cell)
    BY Constants
  <2>2. QED
    BY <2>1 DEF CallInv, NoCall, Call
<1>5. ASSUME NEW st \in {"end", "deleted", "used"}
      PROVE  EntryInv(Blank(st))
  <2>1. [slash |-> FALSE, name |-> n] \in DirName
    BY <1>1 DEF DirName
  <2>2. QED
    BY <1>2, <2>1 DEF EntryInv, Blank, Entry
<1>6. {Zeroes, DirImage, Dots} \subseteq [Offsets -> Cell]
  BY DEF Zeroes, DirImage, Dots, Cell
<1>7. QED
  BY <1>3, <1>4, <1>5, <1>6

-----------------------------------------------------------------------------
(* What the searches of the directory and of the handles return.           *)
LEMMA SearchesReturn ==
  /\ \A n : Lookup(n) \in {0} \cup Slots
  /\ \A p : Find(p) \in {0} \cup Slots
  /\ FreeSlot \in {0} \cup Slots
  /\ FreeHandle \in {0} \cup Handles
<1>1. \A n : Lookup(n) \in {0} \cup Slots
  <2>1. ASSUME NEW n
        PROVE  Lookup(n) \in {0} \cup Slots
    <3> DEFINE hits == {i \in Searched : dir[i].st = "used" /\ dir[i].name = n}
    <3>1. hits \in SUBSET Slots /\ Slots \subseteq 0 .. DirSlots /\ DirSlots \in Nat
      BY Constants DEF Searched, Slots
    <3>2. CASE hits = {}
      BY <3>2 DEF Lookup
    <3>3. CASE hits # {}
      <4>1. Min(hits) \in hits
        <5> HIDE DEF hits
        <5> QED
          BY <3>1, <3>3, MinOfBounded
      <4>2. QED
        BY <3>1, <3>3, <4>1 DEF Lookup
    <3>4. QED
      BY <3>2, <3>3
  <2>2. QED
    BY <2>1
<1>2. FreeSlot \in {0} \cup Slots
  <2> DEFINE unused == {i \in Slots : dir[i].st # "used"}
  <2>1. unused \in SUBSET Slots /\ Slots \subseteq 0 .. DirSlots /\ DirSlots \in Nat
    BY Constants DEF Slots
  <2>2. CASE unused = {}
    BY <2>2 DEF FreeSlot
  <2>3. CASE unused # {}
    <3>1. Min(unused) \in unused
      <4> HIDE DEF unused
      <4> QED
        BY <2>1, <2>3, MinOfBounded
    <3>2. QED
      BY <2>1, <2>3, <3>1 DEF FreeSlot
  <2>4. QED
    BY <2>2, <2>3
<1>3. FreeHandle \in {0} \cup Handles
  <2> DEFINE closed == {h \in Handles : ~handles[h].in_use}
  <2>1. closed \in SUBSET Handles /\ Handles \subseteq 0 .. NumHandles /\ NumHandles \in Nat
    BY Constants DEF Handles
  <2>2. CASE closed = {}
    BY <2>2 DEF FreeHandle
  <2>3. CASE closed # {}
    <3>1. Min(closed) \in closed
      <4> HIDE DEF closed
      <4> QED
        BY <2>1, <2>3, MinOfBounded
    <3>2. QED
      BY <2>1, <2>3, <3>1 DEF FreeHandle
  <2>4. QED
    BY <2>2, <2>3
<1>4. QED
  BY <1>1, <1>2, <1>3 DEF Find

(* What the table's operations keep of the table.                          *)
LEMMA AllocateInv ==
  ASSUME NEW v, VolInv(v)
  PROVE  /\ VolInv(AfterAllocate(v))
         /\ Allocated(v) \in {0} \cup (Clusters \ {Root})
<1>1. v \in Volume
  BY DEF VolInv
<1>2. Allocated(v) \in {0} \cup (Clusters \ {Root})
  BY <1>1, AllocateKeeps, Constants DEF VolInv
<1>3. AfterAllocate(v) \in Volume /\ Tight(AfterAllocate(v))
  BY <1>1, AllocateKeeps DEF VolInv
<1>4. AfterAllocate(v).fat[Root] = v.fat[Root]
  BY <1>1, <1>2, AllocateKeeps, Constants
<1>5. \A c \in Clusters : AfterAllocate(v).fat[c] \in {Eoc, v.fat[c]}
  BY <1>1, AllocateKeeps, Constants
<1>6. QED
  BY <1>2, <1>3, <1>4, <1>5, Constants DEF VolInv

LEMMA FreeChainInv ==
  ASSUME NEW v, VolInv(v), NEW c \in Links, c # Root
  PROVE  VolInv(FreeChain(v, c))
<1>1. v \in Volume /\ Tight(v) /\ v.fat[Root] # Free /\ \A x \in Clusters : v.fat[x] # Root
  BY DEF VolInv
<1>2. FreeChain(v, c) \in Volume /\ Tight(FreeChain(v, c))
  BY <1>1, FreeChainKeeps
<1>3. c \in Clusters => Root \notin Reach(v.fat, c)
  BY <1>1, ReachAvoidsRoot
<1>4. FreeChain(v, c).fat[Root] = v.fat[Root]
  BY <1>1, <1>3, FreeChainKeeps, Constants
<1>5. \A x \in Clusters : FreeChain(v, c).fat[x] \in {Free, v.fat[x]}
  BY <1>1, FreeChainKeeps
<1>6. QED
  BY <1>1, <1>2, <1>4, <1>5, Constants DEF VolInv

LEMMA WriteEntryInv ==
  ASSUME NEW v, VolInv(v), NEW c \in Links, NEW link \in Links, link # Free, link # Root
  PROVE  VolInv(WriteEntry(v, c, link))
<1>1. v \in Volume /\ Tight(v) /\ v.fat[Root] # Free /\ \A x \in Clusters : v.fat[x] # Root
  BY DEF VolInv
<1>2. /\ WriteEntry(v, c, link) \in Volume /\ Tight(WriteEntry(v, c, link))
      /\ \A x \in Clusters : WriteEntry(v, c, link).fat[x] \in {link, v.fat[x]}
  BY <1>1, WriteEntryKeeps
<1>3. QED
  BY <1>1, <1>2, Constants DEF VolInv

LEMMA ReadEntryInv ==
  ASSUME NEW v, VolInv(v), NEW c \in Links
  PROVE  ReadEntry(v, c) \in Links \ {Root}
BY Constants DEF VolInv, ReadEntry, Volume

-----------------------------------------------------------------------------
(* Going on through a cluster keeps a handle a handle.                     *)
LEMMA AdvancedInv ==
  ASSUME NEW v, VolInv(v), NEW f, HandleInv(f), NEW k \in Nat, k <= ClusterCells - f.offset
  PROVE  HandleInv(Advanced(v, f, k))
<1> DEFINE g == Advanced(v, f, k)
<1>1. f \in Handle /\ f.offset \in Nat /\ f.offset <= ClusterCells
  BY Constants DEF HandleInv, Handle
<1>2. f.position + k \in Nat
  BY <1>1 DEF Handle
<1>3. (IF f.offset + k >= ClusterCells THEN 0 ELSE f.offset + k) \in 0 .. ClusterCells
  BY <1>1, Constants
<1>4. ReadEntry(v, f.current) \in Links \ {Root}
  BY <1>1, ReadEntryInv DEF Handle
<1>5. (IF f.offset + k >= ClusterCells THEN ReadEntry(v, f.current) ELSE f.current)
         \in Links \ {Root}
  BY <1>1, <1>4 DEF HandleInv, Handle
<1>6. QED
  BY <1>1, <1>2, <1>3, <1>5 DEF Advanced, HandleInv, Handle

(* An iteration moves no more than is left to move and than the cluster    *)
(* holds.                                                                  *)
LEMMA ChunkBounds ==
  ASSUME CallInv(call), call.done < call.size, NEW f, HandleInv(f)
  PROVE  /\ Chunk(f) \in Nat
         /\ Chunk(f) <= ClusterCells - f.offset
         /\ Chunk(f) <= call.size - call.done
<1>1. call.done \in Nat /\ call.size \in Nat
  BY DEF CallInv, Call
<1>2. f.offset \in Nat /\ f.offset <= ClusterCells
  BY Constants DEF HandleInv, Handle
<1>3. QED
  BY <1>1, <1>2, Constants DEF Chunk, Least

-----------------------------------------------------------------------------
(* The initial state, whatever volume the storage driver hands over.       *)
LEMMA FsInitInv == FsInit => FsInv
<1> SUFFICES ASSUME FsInit PROVE FsInv
  OBVIOUS
<1>1. VolInv(vol)
  <2>1. vol = [mounted |-> FALSE, fat |-> Image.fat, free_clusters |-> 0,
               next_free_cluster |-> 3]
    BY DEF FsInit
  <2>2. 3 \in Hints
    BY Constants DEF Hints, Root
  <2>3. vol \in Volume
    BY <2>1, <2>2, ImageAssumption DEF Volume
  <2>4. vol.fat = Image.fat /\ vol.next_free_cluster = 3
    BY <2>1
  <2>5. Tight(vol)
    BY <2>4, ImageAssumption DEF Tight, Clusters, Root
  <2>6. QED
    BY <2>3, <2>4, <2>5, ImageAssumption DEF VolInv
<1>2. QED
  BY <1>1, FixedValues, ImageAssumption DEF FsInit, FsInv, EntryInv

LEMMA MountInv == FsInv /\ (Mount \/ Unmount) => FsInv'
<1> SUFFICES ASSUME FsInv, Mount \/ Unmount PROVE FsInv'
  OBVIOUS
<1>1. vol \in Volume /\ Tight(vol) /\ vol.fat[Root] # Free
  BY DEF FsInv, VolInv
<1>2. vol' \in {MountVolume(vol), UnmountVolume(vol)}
  BY DEF Mount, Unmount
<1>3. VolInv(vol')
  BY <1>1, <1>2, MountKeeps DEF FsInv, VolInv
<1>4. handles' \in {handles, [h \in Handles |-> Closed]}
  BY DEF Mount, Unmount
<1>5. handles' \in [Handles -> Handle] /\ \A h \in Handles : HandleInv(handles'[h])
  BY <1>4, FixedValues DEF FsInv
<1>6. UNCHANGED <<dir, data, buf, call>>
  BY DEF Mount, Unmount
<1>7. QED
  BY <1>3, <1>5, <1>6 DEF FsInv

-----------------------------------------------------------------------------
(* A new entry, or a cluster given back.                                   *)
LEMMA EnterNewInv ==
  ASSUME FsInv, NEW name \in DirName, NEW isdir \in BOOLEAN,
         NEW contents \in [Offsets -> Cell], NEW ok, EnterNew(name, isdir, contents, ok)
  PROVE  /\ VolInv(vol')
         /\ dir' \in [Slots -> Entry] /\ \A i \in Slots : EntryInv(dir'[i])
         /\ data' \in [Clusters -> [Offsets -> Cell]]
         /\ Allocated(vol) \in Clusters \ {Root}
         /\ ok \in BOOLEAN
<1> DEFINE c == Allocated(vol)
<1>1. VolInv(vol) /\ VolInv(AfterAllocate(vol)) /\ c \in Clusters \ {Root}
  BY AllocateInv DEF FsInv, EnterNew
<1>2. c \in Links /\ c # Root
  BY <1>1, Constants
<1>3. VolInv(FreeChain(AfterAllocate(vol), c))
  BY <1>1, <1>2, FreeChainInv
<1>4. vol' \in {AfterAllocate(vol), FreeChain(AfterAllocate(vol), c)}
  BY DEF EnterNew
<1>5. VolInv(vol')
  BY <1>1, <1>3, <1>4
<1>6. data' = [data EXCEPT ![c] = contents]
  BY DEF EnterNew
<1>7. data' \in [Clusters -> [Offsets -> Cell]]
  BY <1>6 DEF FsInv
<1>8. EntryInv(NewEntry(name, isdir, c))
  <2>1. c \in First
    BY <1>1, Constants
  <2> HIDE DEF c
  <2>2. QED
    BY <1>2, <2>1 DEF NewEntry, EntryInv, Entry
<1>9. \/ dir' = dir
      \/ FreeSlot # 0 /\ dir' = [dir EXCEPT ![FreeSlot] = NewEntry(name, isdir, c)]
  BY DEF EnterNew
<1>10. dir' \in [Slots -> Entry] /\ \A i \in Slots : EntryInv(dir'[i])
  BY <1>8, <1>9, SearchesReturn DEF FsInv, EntryInv
<1>11. ok \in BOOLEAN
  BY DEF EnterNew
<1>12. QED
  BY <1>1, <1>5, <1>7, <1>10, <1>11

(* A handle on an entry or on a new cluster.                               *)
LEMMA OpenedInv ==
  ASSUME FsInv, NEW h \in Handles, NEW isdir \in BOOLEAN, NEW first \in First \ {Root},
         NEW size \in Nat, NEW name \in Name, Opened(h, isdir, first, size, name)
  PROVE  handles' \in [Handles -> Handle] /\ \A x \in Handles : HandleInv(handles'[x])
<1> DEFINE f == [in_use |-> TRUE, is_directory |-> isdir, first |-> first, current |-> first,
                 offset |-> 0, size |-> size, position |-> 0, name |-> name]
<1>1. 0 \in 0 .. ClusterCells
  BY Constants
<1>2. f \in Handle /\ HandleInv(f)
  BY <1>1, Constants DEF Handle, HandleInv
<1>3. handles' = [handles EXCEPT ![h] = f]
  BY DEF Opened
<1> HIDE DEF f
<1>4. QED
  BY <1>2, <1>3 DEF FsInv

LEMMA OpenInv ==
  ASSUME FsInv, NEW p \in Path, NEW m, NEW r, Open(p, m, r)
  PROVE  FsInv'
<1>0. p.text \in Text /\ To83[p.text] \in Name
  BY NamesAssumption DEF Path
<1>1. CASE OpenRefused(r)
  BY <1>1 DEF OpenRefused, fsVars, FsInv
<1>2. CASE OpenExisting(p, m, r)
  <2> DEFINE e == dir[Find(p)]
  <2>1. Find(p) \in Slots /\ r \in Handles /\ r = FreeHandle
    BY <1>2, SearchesReturn DEF OpenExisting
  <2>2. EntryInv(e) /\ e \in Entry
    BY <2>1 DEF FsInv
  <2>3. e.isdir \in BOOLEAN /\ e.first \in First \ {Root} /\ e.size \in Nat
        /\ Reopened[e.name.name] \in Name
    BY <2>2, NamesAssumption DEF EntryInv, Entry, DirName
  <2>4. Opened(r, e.isdir, e.first, e.size, Reopened[e.name.name])
    BY <1>2 DEF OpenExisting
  <2>5. handles' \in [Handles -> Handle] /\ \A x \in Handles : HandleInv(handles'[x])
    <3> HIDE DEF e
    <3> QED
      BY <2>1, <2>3, <2>4, OpenedInv
  <2>6. CallInv([NoCall EXCEPT !.op = "seek", !.h = r, !.size = e.size])
    <3>1. r \in 0 .. NumHandles /\ 0 \in Nat /\ <<>> \in Seq(Cell)
      BY <2>1, Constants DEF Handles
    <3>2. QED
      BY <2>1, <2>3, <3>1 DEF CallInv, Call, NoCall
  <2>7. CallInv(call')
    BY <1>2, <2>6 DEF OpenExisting, FsInv
  <2>8. buf' \in [Offsets -> Cell] /\ UNCHANGED <<vol, dir, data>>
    BY <1>2, FixedValues DEF OpenExisting, LoadDir
  <2>9. QED
    BY <2>5, <2>7, <2>8 DEF FsInv
<1>3. CASE OpenMissing(p, m, r)
  <2>1. buf' \in [Offsets -> Cell] /\ UNCHANGED <<vol, dir, data, handles, call>>
    BY <1>3, FixedValues DEF OpenMissing, LoadDir
  <2>2. QED
    BY <2>1 DEF FsInv
<1>4. CASE OpenCreate(p, m, r)
  <2> DEFINE name == To83[p.text]
             c == Allocated(vol)
  <2>1. PICK ok \in BOOLEAN :
          /\ EnterNew([slash |-> FALSE, name |-> name], FALSE, Zeroes, ok)
          /\ r = IF ok THEN FreeHandle ELSE 0
          /\ IF ok THEN Opened(r, FALSE, c, 0, name) ELSE UNCHANGED handles
    BY <1>4 DEF OpenCreate
  <2>2. [slash |-> FALSE, name |-> name] \in DirName
    BY <1>0 DEF DirName
  <2>3. /\ VolInv(vol')
        /\ dir' \in [Slots -> Entry] /\ \A i \in Slots : EntryInv(dir'[i])
        /\ data' \in [Clusters -> [Offsets -> Cell]]
        /\ c \in Clusters \ {Root}
    BY <2>1, <2>2, FixedValues, EnterNewInv
  <2>4. handles' \in [Handles -> Handle] /\ \A x \in Handles : HandleInv(handles'[x])
    <3>1. CASE ok
      <4>1. r \in Handles
        BY <1>4, <2>1, <3>1, SearchesReturn DEF OpenCreate
      <4>2. c \in First \ {Root} /\ 0 \in Nat
        BY <2>3, Constants
      <4>3. Opened(r, FALSE, c, 0, name)
        BY <2>1, <3>1
      <4> HIDE DEF c, name
      <4>4. name \in Name
        BY <1>0 DEF name
      <4>5. QED
        BY <4>1, <4>2, <4>3, <4>4, OpenedInv
    <3>2. CASE ~ok
      BY <2>1, <3>2 DEF FsInv
    <3>3. QED
      BY <3>1, <3>2
  <2>5. buf' \in [Offsets -> Cell] /\ UNCHANGED call
    BY <1>4, FixedValues DEF OpenCreate, LoadDir
  <2>6. QED
    BY <2>3, <2>4, <2>5 DEF FsInv
<1>5. QED
  BY <1>1, <1>2, <1>3, <1>4 DEF Open

LEMMA CloseInv ==
  ASSUME FsInv, NEW h \in Handles, Close(h)
  PROVE  FsInv'
<1>1. handles' = [handles EXCEPT ![h] = Closed] /\ UNCHANGED <<vol, dir, data, buf, call>>
  BY DEF Close
<1>2. QED
  BY <1>1, FixedValues DEF FsInv

-----------------------------------------------------------------------------
(* fs_read, and the calls that are refused.                                *)
LEMMA RefusedInv ==
  ASSUME FsInv, NEW h, ReadNothing(h) \/ WriteNothing(h)
  PROVE  FsInv'
BY DEF ReadNothing, WriteNothing, fsVars, FsInv

LEMMA ReadBeginInv ==
  ASSUME FsInv, NEW h \in Handles, NEW n \in Nat, ReadBegin(h, n)
  PROVE  FsInv'
<1> DEFINE k == Least(n, handles[h].size - handles[h].position)
<1>1. call' = [NoCall EXCEPT !.op = "read", !.h = h, !.size = k]
      /\ UNCHANGED <<vol, dir, data, buf, handles>>
  BY DEF ReadBegin
<1>2. k \in Nat
  <2>1. handles[h].size \in Nat /\ handles[h].position \in Nat
        /\ handles[h].position < handles[h].size
    BY DEF FsInv, Handle, ReadBegin, Readable
  <2>2. QED
    BY <2>1 DEF Least
<1>3. h \in 0 .. NumHandles /\ <<>> \in Seq(Cell)
  BY Constants DEF Handles
<1> HIDE DEF k
<1>4. CallInv(call')
  BY <1>1, <1>2, <1>3 DEF CallInv, Call, NoCall
<1>5. QED
  BY <1>1, <1>4 DEF FsInv

LEMMA ReadStepInv == FsInv /\ ReadStep => FsInv'
<1> SUFFICES ASSUME FsInv, ReadStep PROVE FsInv'
  OBVIOUS
<1> DEFINE f == handles[call.h]
           k == Chunk(f)
           b == Loaded(f.current, f.offset)
           read == [i \in 1 .. k |-> b[f.offset + i]]
<1>1. call.op = "read" /\ call.done < call.size /\ f.current \in Clusters
  BY DEF ReadStep, InLoop
<1>2. call.h \in Handles /\ CallInv(call) /\ HandleInv(f) /\ VolInv(vol)
  BY <1>1 DEF FsInv, CallInv
<1>3. k \in Nat /\ k <= ClusterCells - f.offset
  BY <1>1, <1>2, ChunkBounds
<1>4. b \in [Offsets -> Cell]
  BY <1>1 DEF FsInv, Loaded
<1>5. HandleInv(Advanced(vol, f, k))
  BY <1>2, <1>3, AdvancedInv
<1>6. handles' = [handles EXCEPT ![call.h] = Advanced(vol, f, k)]
  BY DEF ReadStep
<1>7. handles' \in [Handles -> Handle] /\ \A h \in Handles : HandleInv(handles'[h])
  <2> HIDE DEF f, k
  <2> QED
    BY <1>2, <1>5, <1>6 DEF FsInv, HandleInv
<1>8. read \in Seq(Cell)
  <2>1. f.offset \in Nat
    BY <1>2, Constants DEF HandleInv, Handle
  <2>2. \A i \in 1 .. k : f.offset + i \in Offsets
    BY <1>3, <2>1, Constants DEF Offsets
  <2>3. read \in [1 .. k -> Cell]
    <3> HIDE DEF f, k, b
    <3> QED
      BY <1>4, <2>2
  <2>4. QED
    <3> HIDE DEF f, k, b, read
    <3> QED
      BY <1>3, <2>3
<1>9. CallInv(call')
  <2>1. call' = [call EXCEPT !.done = @ + k, !.data = @ \o read]
    BY DEF ReadStep
  <2> HIDE DEF f, k, b, read
  <2>2. call.data \o read \in Seq(Cell)
    BY <1>2, <1>8 DEF CallInv, Call
  <2>3. call.done + k \in Nat
    BY <1>2, <1>3 DEF CallInv, Call
  <2>4. call' \in Call /\ call'.op = "read" /\ call'.h = call.h
    BY <1>1, <1>2, <2>1, <2>2, <2>3 DEF CallInv, Call
  <2>5. QED
    BY <1>2, <2>4 DEF CallInv
<1>10. buf' = b /\ UNCHANGED <<vol, dir, data>>
  BY DEF ReadStep
<1>11. QED
  BY <1>4, <1>7, <1>9, <1>10 DEF FsInv

LEMMA ReadReturnInv ==
  ASSUME FsInv, NEW out, ReadReturn(out)
  PROVE  FsInv'
BY FixedValues DEF ReadReturn, Returns, FsInv

-----------------------------------------------------------------------------
(* fs_write                                                                *)
LEMMA WriteBeginInv ==
  ASSUME FsInv, NEW h \in Handles, NEW text \in Seq(Cell), WriteBegin(h, text)
  PROVE  FsInv'
<1>1. call' = [NoCall EXCEPT !.op = "write", !.h = h, !.size = Len(text), !.data = text]
      /\ UNCHANGED <<vol, dir, data, buf, handles>>
  BY DEF WriteBegin
<1>2. h \in 0 .. NumHandles /\ Len(text) \in Nat
  BY Constants DEF Handles
<1>3. CallInv(call')
  BY <1>1, <1>2 DEF CallInv, Call, NoCall
<1>4. QED
  BY <1>1, <1>3 DEF FsInv

(* Storing a chunk through a handle whose cluster is found, in a table     *)
(* that may have been extended for it.                                     *)
LEMMA StoreChunkInv ==
  ASSUME FsInv, InLoop("write"), NEW v, VolInv(v), NEW f, HandleInv(f),
         f.current \in Clusters, StoreChunk(f, v, Chunk(f)), dir' = dir
  PROVE  FsInv'
<1> DEFINE k == Chunk(f)
           g == Advanced(v, f, k)
           b == [i \in Offsets |-> IF i \in f.offset + 1 .. f.offset + k
                                   THEN call.data[call.done + i - f.offset]
                                   ELSE Loaded(f.current, f.offset)[i]]
           size == IF g.position > g.size THEN g.position ELSE g.size
<1>1. call.op = "write" /\ call.done < call.size
  BY DEF InLoop
<1>2. call.h \in Handles /\ CallInv(call) /\ call \in Call /\ call.size = Len(call.data)
  BY <1>1 DEF FsInv, CallInv
<1>3. k \in Nat /\ k <= ClusterCells - f.offset /\ k <= call.size - call.done
  BY <1>1, <1>2, ChunkBounds
<1>4. HandleInv(g) /\ g \in Handle
  BY <1>3, AdvancedInv DEF HandleInv
<1>5. b \in [Offsets -> Cell]
  <2>1. ASSUME NEW i \in Offsets, i \in f.offset + 1 .. f.offset + k
        PROVE  call.data[call.done + i - f.offset] \in Cell
    <3>1. f.offset \in Nat /\ call.done \in Nat /\ call.data \in Seq(Cell)
      BY <1>2, Constants DEF HandleInv, Handle, Call
    <3>2. call.done + i - f.offset \in 1 .. Len(call.data)
      BY <1>2, <1>3, <2>1, <3>1 DEF Offsets
    <3> HIDE DEF k
    <3>3. QED
      BY <3>1, <3>2
  <2>2. Loaded(f.current, f.offset) \in [Offsets -> Cell]
    BY DEF FsInv, Loaded
  <2> HIDE DEF k
  <2>3. QED
    BY <2>1, <2>2
<1>6. [g EXCEPT !.size = size] \in Handle /\ HandleInv([g EXCEPT !.size = size])
  <2> HIDE DEF g
  <2> QED
    BY <1>4 DEF HandleInv, Handle
<1>7. /\ buf' = b
      /\ data' = [data EXCEPT ![f.current] = b]
      /\ handles' = [handles EXCEPT ![call.h] = [g EXCEPT !.size = size]]
      /\ call' = [call EXCEPT !.done = @ + k]
      /\ vol' = v
  BY DEF StoreChunk
<1> HIDE DEF k, g, b, size
<1>8. data' \in [Clusters -> [Offsets -> Cell]]
  BY <1>5, <1>7 DEF FsInv
<1>9. handles' \in [Handles -> Handle] /\ \A h \in Handles : HandleInv(handles'[h])
  BY <1>2, <1>6, <1>7 DEF FsInv
<1>10. CallInv(call')
  BY <1>2, <1>3, <1>7 DEF CallInv, Call
<1>11. QED
  BY <1>5, <1>7, <1>8, <1>9, <1>10 DEF FsInv

LEMMA WriteInPlaceInv == FsInv /\ WriteInPlace => FsInv'
<1> SUFFICES ASSUME FsInv, WriteInPlace PROVE FsInv'
  OBVIOUS
<1>1. /\ InLoop("write") /\ handles[call.h].current \in Clusters /\ dir' = dir
      /\ StoreChunk(handles[call.h], vol, Chunk(handles[call.h]))
  BY DEF WriteInPlace, Extends
<1>2. VolInv(vol) /\ HandleInv(handles[call.h])
  BY <1>1 DEF FsInv, InLoop, CallInv
<1>3. QED
  BY <1>1, <1>2, StoreChunkInv

LEMMA WriteExtendingInv == FsInv /\ WriteExtending => FsInv'
<1> SUFFICES ASSUME FsInv, WriteExtending PROVE FsInv'
  OBVIOUS
<1> DEFINE f == handles[call.h]
           c == Allocated(vol)
           g == [f EXCEPT !.first = IF @ \in Clusters THEN @ ELSE c, !.current = c,
                          !.offset = 0]
<1>1. PICK last \in First : StoreChunk(g, Linked(f, last), Chunk(g))
  BY DEF WriteExtending
<1>2. InLoop("write") /\ c # 0 /\ dir' = dir
  BY DEF WriteExtending
<1>3. call.h \in Handles /\ VolInv(vol) /\ HandleInv(f)
  BY <1>2 DEF FsInv, InLoop, CallInv
<1>4. c \in Clusters \ {Root} /\ c \in Links /\ c # Free /\ VolInv(AfterAllocate(vol))
  BY <1>2, <1>3, AllocateInv, Constants
<1>5. VolInv(Linked(f, last))
  <2>1. last \in Links
    BY <1>1, Constants
  <2>2. QED
    BY <1>4, <2>1, WriteEntryInv DEF Linked
<1>6. HandleInv(g) /\ g.current \in Clusters
  <2>1. 0 \in 0 .. ClusterCells
    BY Constants
  <2> HIDE DEF f, c
  <2>2. QED
    BY <1>3, <1>4, <2>1, Constants DEF HandleInv, Handle
<1> HIDE DEF g
<1>7. QED
  BY <1>1, <1>2, <1>5, <1>6, StoreChunkInv

LEMMA WriteReturnInv ==
  ASSUME FsInv, NEW n, WriteReturn(n)
  PROVE  FsInv'
<1> DEFINE f == handles[call.h]
           i == Lookup([slash |-> FALSE, name |-> f.name])
<1>1. call.op = "write" /\ call' = NoCall /\ UNCHANGED <<vol, data, handles>>
      /\ dir' = (IF i = 0 THEN dir ELSE [dir EXCEPT ![i].size = f.size])
      /\ buf' = DirImage
  BY DEF WriteReturn, Returns, LoadDir
<1>2. f.size \in Nat
  BY <1>1 DEF FsInv, CallInv, Handle
<1>3. i \in {0} \cup Slots
  BY SearchesReturn
<1> HIDE DEF f, i
<1>4. dir' \in [Slots -> Entry] /\ \A x \in Slots : EntryInv(dir'[x])
  BY <1>1, <1>2, <1>3 DEF FsInv, EntryInv, Entry
<1>5. QED
  BY <1>1, <1>4, FixedValues DEF FsInv

-----------------------------------------------------------------------------
(* fs_seek                                                                 *)
LEMMA SeekBeginInv ==
  ASSUME FsInv, NEW h \in Handles, NEW n \in Nat, SeekBegin(h, n)
  PROVE  FsInv'
<1> DEFINE f == handles[h]
           k == Least(n, f.size)
           g == [f EXCEPT !.current = f.first, !.offset = 0, !.position = 0]
<1>1. /\ call' = [NoCall EXCEPT !.op = "seek", !.h = h, !.size = k]
      /\ handles' = [handles EXCEPT ![h] = g]
      /\ UNCHANGED <<vol, dir, data, buf>>
  BY DEF SeekBegin
<1>2. HandleInv(f) /\ f \in Handle
  BY DEF FsInv, HandleInv
<1>3. k \in Nat
  BY <1>2 DEF Least, Handle
<1>4. HandleInv(g) /\ g \in Handle
  <2>1. 0 \in 0 .. ClusterCells
    BY Constants
  <2> HIDE DEF f
  <2>2. QED
    BY <1>2, <2>1, Constants DEF HandleInv, Handle
<1>5. h \in 0 .. NumHandles /\ <<>> \in Seq(Cell)
  BY Constants DEF Handles
<1> HIDE DEF f, k, g
<1>6. CallInv(call')
  BY <1>1, <1>3, <1>5 DEF CallInv, Call, NoCall
<1>7. handles' \in [Handles -> Handle] /\ \A x \in Handles : HandleInv(handles'[x])
  BY <1>1, <1>4 DEF FsInv
<1>8. QED
  BY <1>1, <1>6, <1>7 DEF FsInv

LEMMA SeekStepInv == FsInv /\ (SeekStep \/ SeekReturn) => FsInv'
<1> SUFFICES ASSUME FsInv, SeekStep \/ SeekReturn PROVE FsInv'
  OBVIOUS
<1> DEFINE f == handles[call.h]
           k == Chunk(f)
<1>1. CASE SeekStep
  <2>1. /\ call.op = "seek" /\ call.done < call.size
        /\ handles' = [handles EXCEPT ![call.h] = Advanced(vol, f, k)]
        /\ call' = [call EXCEPT !.done = @ + k]
        /\ UNCHANGED <<vol, dir, data, buf>>
    BY <1>1 DEF SeekStep, InLoop
  <2>2. call.h \in Handles /\ CallInv(call) /\ HandleInv(f) /\ VolInv(vol)
    BY <2>1 DEF FsInv, CallInv
  <2>3. k \in Nat /\ k <= ClusterCells - f.offset
    BY <2>1, <2>2, ChunkBounds
  <2>4. HandleInv(Advanced(vol, f, k))
    BY <2>2, <2>3, AdvancedInv
  <2> HIDE DEF f, k
  <2>5. handles' \in [Handles -> Handle] /\ \A h \in Handles : HandleInv(handles'[h])
    BY <2>1, <2>2, <2>4 DEF FsInv, HandleInv
  <2>6. CallInv(call')
    BY <2>1, <2>2, <2>3 DEF CallInv, Call
  <2>7. QED
    BY <2>1, <2>5, <2>6 DEF FsInv
<1>2. CASE SeekReturn
  BY <1>2, FixedValues DEF SeekReturn, Returns, FsInv
<1>3. QED
  BY <1>1, <1>2

-----------------------------------------------------------------------------
(* The calls on the directory.                                             *)
LEMMA ExistsInv ==
  ASSUME FsInv, NEW p, NEW r, Exists(p, r)
  PROVE  FsInv'
<1>1. buf' \in {buf, DirImage} /\ UNCHANGED <<vol, dir, data, handles, call>>
  BY DEF Exists, LoadDir
<1>2. QED
  BY <1>1, FixedValues DEF FsInv

LEMMA MkdirInv ==
  ASSUME FsInv, NEW p \in Path, NEW r, Mkdir(p, r)
  PROVE  FsInv'
<1> DEFINE name == [slash |-> p.abs, name |-> To83[p.text]]
<1>1. buf' \in {buf, DirImage} /\ UNCHANGED <<handles, call>>
  BY DEF Mkdir, LoadDir
<1>2. name \in DirName
  BY NamesAssumption DEF Path, DirName
<1>3. /\ VolInv(vol')
      /\ dir' \in [Slots -> Entry] /\ \A i \in Slots : EntryInv(dir'[i])
      /\ data' \in [Clusters -> [Offsets -> Cell]]
  <2>1. UNCHANGED <<vol, dir, data>> \/ EnterNew(name, TRUE, Dots, r)
    BY DEF Mkdir
  <2>2. CASE UNCHANGED <<vol, dir, data>>
    BY <2>2 DEF FsInv
  <2>3. CASE EnterNew(name, TRUE, Dots, r)
    BY <1>2, <2>3, FixedValues, EnterNewInv
  <2>4. QED
    BY <2>1, <2>2, <2>3
<1>4. QED
  BY <1>1, <1>3, FixedValues DEF FsInv

LEMMA EraseInv ==
  ASSUME FsInv, NEW i \in Slots, Erase(i)
  PROVE  /\ VolInv(vol')
         /\ dir' \in [Slots -> Entry] /\ \A x \in Slots : EntryInv(dir'[x])
<1>1. vol' = FreeChain(vol, dir[i].first) /\ dir' = [dir EXCEPT ![i] = Blank("deleted")]
  BY DEF Erase
<1>2. dir[i].first \in Links /\ dir[i].first # Root /\ VolInv(vol)
  BY Constants DEF FsInv, EntryInv, Entry
<1>3. VolInv(vol')
  BY <1>1, <1>2, FreeChainInv
<1>4. EntryInv(Blank("deleted"))
  BY FixedValues
<1>5. QED
  BY <1>1, <1>3, <1>4 DEF FsInv, EntryInv

LEMMA DeleteInv ==
  ASSUME FsInv, NEW p, NEW r, Delete(p, r) \/ Rmdir(p, r)
  PROVE  FsInv'
<1>1. UNCHANGED <<data, handles, call>>
  BY DEF Delete, Rmdir
<1>2. buf' \in [Offsets -> Cell]
  <2>1. CASE Delete(p, r)
    <3>1. buf' \in {buf, DirImage}
      BY <2>1 DEF Delete, LoadDir
    <3>2. QED
      BY <3>1, FixedValues DEF FsInv
  <2>2. CASE Rmdir(p, r)
    BY <2>2, FixedValues DEF Rmdir, FsInv
  <2>3. QED
    BY <2>1, <2>2
<1>3. UNCHANGED <<vol, dir>> \/ (Find(p) # 0 /\ Erase(Find(p)))
  <2>1. CASE Delete(p, r)
    BY <2>1, Zenon DEF Delete
  <2>2. CASE Rmdir(p, r)
    BY <2>2, Zenon DEF Rmdir
  <2>3. QED
    BY <2>1, <2>2
<1>4. CASE UNCHANGED <<vol, dir>>
  BY <1>1, <1>2, <1>4 DEF FsInv
<1>5. CASE Find(p) # 0 /\ Erase(Find(p))
  <2>1. Find(p) \in Slots
    BY <1>5, SearchesReturn
  <2>2. /\ VolInv(vol')
        /\ dir' \in [Slots -> Entry] /\ \A x \in Slots : EntryInv(dir'[x])
    BY <1>5, <2>1, EraseInv
  <2>3. QED
    BY <1>1, <1>2, <2>2 DEF FsInv
<1>6. QED
  BY <1>3, <1>4, <1>5

LEMMA RenameInv ==
  ASSUME FsInv, NEW p, NEW q \in Path, NEW r, Rename(p, q, r)
  PROVE  FsInv'
<1>1. buf' \in {buf, DirImage} /\ UNCHANGED <<vol, data, handles, call>>
  BY DEF Rename, LoadDir
<1>2. \/ dir' = dir
      \/ Find(p) # 0 /\ dir' = [dir EXCEPT ![Find(p)].name.name = To83[q.text]]
  BY Zenon DEF Rename
<1>3. CASE dir' = dir
  BY <1>1, <1>3, FixedValues DEF FsInv
<1>4. CASE Find(p) # 0 /\ dir' = [dir EXCEPT ![Find(p)].name.name = To83[q.text]]
  <2> DEFINE i == Find(p)
             e == [dir[i] EXCEPT !.name.name = To83[q.text]]
  <2>1. i \in Slots /\ To83[q.text] \in Name
    BY <1>4, SearchesReturn, NamesAssumption DEF Path
  <2>2. EntryInv(dir[i])
    BY <2>1 DEF FsInv
  <2>3. EntryInv(e)
    BY <2>1, <2>2 DEF EntryInv, Entry, DirName
  <2>4. dir' = [dir EXCEPT ![i] = e]
    BY <1>4
  <2> HIDE DEF i, e
  <2>5. dir' \in [Slots -> Entry] /\ \A x \in Slots : EntryInv(dir'[x])
    BY <2>1, <2>3, <2>4 DEF FsInv, EntryInv
  <2>6. QED
    BY <1>1, <2>5, FixedValues DEF FsInv
<1>5. QED
  BY <1>2, <1>3, <1>4

-----------------------------------------------------------------------------
(***************************************************************************)
(* The chains of clusters and the entries of the directory.  Whatever the  *)
(* caller, a call does one of five things to them (ApiStep): it leaves     *)
(* them alone, renames an entry, enters a new one with a cluster of its    *)
(* own, appends a cluster to a chain, or erases an entry and frees its     *)
(* chain.  Each of the five keeps the chains sound, the entries findable   *)
(* and the count of free clusters balanced.                                *)
(***************************************************************************)

(* The functions of the API with any arguments.                            *)
ApiCall ==
  \/ Mount \/ Unmount \/ Iterate
  \/ ReadReturn(call.data) \/ WriteReturn(call.done) \/ SeekReturn
  \/ \E p \in Path, r \in BOOLEAN :
       \/ Exists(p, r) \/ Mkdir(p, r) \/ Delete(p, r) \/ Rmdir(p, r)
       \/ \E q \in Path : Rename(p, q, r)
  \/ \E p \in Path, m \in {"r", "w", "a"}, r \in 0 .. NumHandles : Open(p, m, r)
  \/ \E h \in Handles :
       \/ Close(h) \/ ReadNothing(h) \/ WriteNothing(h)
       \/ \E n \in Nat : ReadBegin(h, n) \/ SeekBegin(h, n)
       \/ \E text \in Seq(Cell) : WriteBegin(h, text)

Rests ==
  /\ vol'.fat = vol.fat
  /\ vol.mounted /\ vol'.mounted => vol' = vol
  /\ \A i \in Slots : /\ dir'[i].st = dir[i].st /\ dir'[i].name = dir[i].name
                      /\ dir'[i].first = dir[i].first
  /\ dir' = dir \/ WriteReturn(call.done)

Renames ==
  /\ vol' = vol
  /\ \E i \in UsedSlots, n \in Name :
       /\ ~dir[i].name.slash /\ Lookup([slash |-> FALSE, name |-> n]) = 0
       /\ dir' = [dir EXCEPT ![i].name.name = n]

Enters ==
  \E name \in DirName, isdir \in BOOLEAN, contents \in [Offsets -> Cell], ok \in BOOLEAN :
    /\ ~name.slash => Lookup(name) = 0
    /\ EnterNew(name, isdir, contents, ok)

(* A new cluster is linked to the end of a chain, or to none.              *)
GrowsFrom(last) ==
  LET a == AfterAllocate(vol) IN
  /\ Allocated(vol) # 0 /\ dir' = dir
  /\ last \in Clusters => a.fat[last] = Eoc
  /\ vol' = WriteEntry(a, last, Allocated(vol))

Grows == WriteExtending /\ \E last \in First : GrowsFrom(last)

Erases == \E i \in UsedSlots : vol.mounted /\ Erase(i)

ApiStep == Rests \/ Renames \/ Enters \/ Grows \/ Erases

-----------------------------------------------------------------------------
(* The searches of a directory `d', and the directories in which the names *)
(* without a '/' lead to the entries that have them: none of these entries *)
(* is behind an END entry, and no two have one name.                       *)
SearchedIn(d) == {i \in Slots : \A j \in 1 .. i : d[j].st # "end"}
NamedIn(d, n) == {i \in SearchedIn(d) : d[i].st = "used" /\ d[i].name = n}
LookupIn(d, n) == IF NamedIn(d, n) = {} THEN 0 ELSE Min(NamedIn(d, n))
PlainIn(d) == {i \in Slots : d[i].st = "used" /\ ~d[i].name.slash}

Findable(d) ==
  /\ PlainIn(d) \subseteq SearchedIn(d)
  /\ \A i, j \in PlainIn(d) : d[i].name = d[j].name => i = j

(* What a search finds has what it looks for; where it finds nothing there *)
(* is none.                                                                *)
LEMMA LookupInFinds ==
  ASSUME NEW d, NEW n
  PROVE  /\ LookupIn(d, n) # 0 => LookupIn(d, n) \in NamedIn(d, n)
         /\ LookupIn(d, n) = 0 => NamedIn(d, n) = {}
<1>1. NamedIn(d, n) \in SUBSET (0 .. DirSlots) /\ DirSlots \in Nat /\ 0 \notin NamedIn(d, n)
  BY Constants DEF NamedIn, SearchedIn, Slots
<1>2. NamedIn(d, n) # {} => Min(NamedIn(d, n)) \in NamedIn(d, n)
  BY <1>1, MinOfBounded
<1>3. QED
  BY <1>1, <1>2 DEF LookupIn

LEMMA LookupFinds ==
  ASSUME NEW n
  PROVE  /\ Lookup(n) # 0 => Lookup(n) \in Searched \cap UsedSlots /\ dir[Lookup(n)].name = n
         /\ Lookup(n) = 0 => \A i \in Searched : dir[i].st = "used" => dir[i].name # n
<1>1. Lookup(n) = LookupIn(dir, n)
  BY DEF Lookup, Searched, LookupIn, NamedIn, SearchedIn
<1>2. /\ Lookup(n) # 0 => Lookup(n) \in NamedIn(dir, n)
      /\ Lookup(n) = 0 => NamedIn(dir, n) = {}
  BY <1>1, LookupInFinds
<1>3. QED
  BY <1>2 DEF NamedIn, SearchedIn, Searched, UsedSlots

LEMMA FindableSays ==
  ASSUME NEW d
  PROVE  Findable(d) <=> \A i \in PlainIn(d) : LookupIn(d, d[i].name) = i
<1>1. ASSUME Findable(d), NEW i \in PlainIn(d)
      PROVE  LookupIn(d, d[i].name) = i
  <2>1. i \in NamedIn(d, d[i].name)
    BY <1>1 DEF Findable, NamedIn, PlainIn
  <2>2. LookupIn(d, d[i].name) \in NamedIn(d, d[i].name)
    BY <2>1, LookupInFinds
  <2>3. \A k \in NamedIn(d, d[i].name) : k \in PlainIn(d) /\ d[k].name = d[i].name
    BY <1>1 DEF NamedIn, PlainIn, SearchedIn
  <2>4. QED
    BY <1>1, <2>2, <2>3 DEF Findable
<1>2. ASSUME \A i \in PlainIn(d) : LookupIn(d, d[i].name) = i
      PROVE  Findable(d)
  <2>1. PlainIn(d) \subseteq SearchedIn(d)
    <3>1. ASSUME NEW i \in PlainIn(d)
          PROVE  i \in SearchedIn(d)
      <4>1. LookupIn(d, d[i].name) = i /\ i # 0
        BY <1>2, Constants DEF PlainIn, Slots
      <4>2. i \in NamedIn(d, d[i].name)
        BY <4>1, LookupInFinds
      <4>3. QED
        BY <4>2 DEF NamedIn
    <3>2. QED
      BY <3>1
  <2>2. QED
    BY <1>2, <2>1 DEF Findable
<1>3. QED
  BY <1>1, <1>2

(* The slot for a new entry is the first that is not in use.               *)
LEMMA FreeSlotFirst ==
  FreeSlot # 0 => /\ FreeSlot \in Slots /\ FreeSlot \notin UsedSlots
                  /\ \A j \in 1 .. FreeSlot : j # FreeSlot => j \in UsedSlots
<1> DEFINE unused == {i \in Slots : dir[i].st # "used"}
<1>1. unused \in SUBSET (0 .. DirSlots) /\ DirSlots \in Nat /\ Slots = 1 .. DirSlots
  BY Constants DEF Slots
<1>2. CASE unused = {}
  BY <1>2 DEF FreeSlot
<1>3. CASE unused # {}
  <2>1. Min(unused) \in unused /\ \A y \in unused : Min(unused) <= y
    <3> HIDE DEF unused
    <3> QED
      BY <1>1, <1>3, MinOfBounded
  <2>2. FreeSlot = Min(unused)
    BY <1>3 DEF FreeSlot
  <2>3. FreeSlot \in Slots /\ FreeSlot \notin UsedSlots
    BY <2>1, <2>2 DEF UsedSlots
  <2>4. ASSUME NEW j \in 1 .. FreeSlot, j # FreeSlot
        PROVE  j \in UsedSlots
    <3>1. j \in Slots /\ ~(FreeSlot <= j)
      BY <1>1, <2>3, <2>4
    <3>2. j \notin unused
      BY <2>1, <2>2, <3>1
    <3>3. QED
      BY <3>1, <3>2 DEF UsedSlots
  <2>5. QED
    BY <2>3, <2>4
<1>4. QED
  BY <1>2, <1>3

-----------------------------------------------------------------------------
(* Every call is such a step.                                              *)
LEMMA OpenSteps ==
  ASSUME FsInv, NEW p \in Path, NEW m, NEW r, Open(p, m, r)
  PROVE  ApiStep
<1>1. CASE OpenRefused(r) \/ OpenExisting(p, m, r) \/ OpenMissing(p, m, r)
  <2>1. vol' = vol /\ dir' = dir
    BY <1>1 DEF OpenRefused, OpenExisting, OpenMissing, fsVars
  <2>2. QED
    BY <2>1 DEF ApiStep, Rests
<1>2. CASE OpenCreate(p, m, r)
  <2> DEFINE name == [slash |-> FALSE, name |-> To83[p.text]]
  <2>1. name \in DirName /\ Lookup(name) = 0
    BY <1>2, NamesAssumption DEF OpenCreate, Find, Path, DirName
  <2>2. PICK ok \in BOOLEAN : EnterNew(name, FALSE, Zeroes, ok)
    BY <1>2 DEF OpenCreate
  <2>3. Zeroes \in [Offsets -> Cell]
    BY FixedValues
  <2> HIDE DEF name
  <2>4. QED
    BY <2>1, <2>2, <2>3 DEF ApiStep, Enters
<1>3. QED
  BY <1>1, <1>2 DEF Open

LEMMA DirectorySteps ==
  ASSUME FsInv, NEW p \in Path, NEW r,
         \/ Exists(p, r) \/ Mkdir(p, r) \/ Delete(p, r) \/ Rmdir(p, r)
         \/ \E q \in Path : Rename(p, q, r)
  PROVE  ApiStep
<1>1. CASE Exists(p, r)
  BY <1>1 DEF Exists, ApiStep, Rests
<1>2. CASE Mkdir(p, r)
  <2> DEFINE name == [slash |-> p.abs, name |-> To83[p.text]]
  <2>1. CASE UNCHANGED <<vol, dir, data>>
    BY <2>1 DEF ApiStep, Rests
  <2>2. CASE Find(p) = 0 /\ EnterNew(name, TRUE, Dots, r)
    <3>1. name \in DirName /\ (~name.slash => Lookup(name) = 0)
      BY <2>2, NamesAssumption DEF Find, Path, DirName
    <3>2. Dots \in [Offsets -> Cell] /\ r \in BOOLEAN /\ TRUE \in BOOLEAN
      BY <2>2, FixedValues DEF EnterNew
    <3> HIDE DEF name
    <3>3. QED
      BY <2>2, <3>1, <3>2 DEF ApiStep, Enters
  <2>3. QED
    BY <1>2, <2>1, <2>2 DEF Mkdir
<1>3. CASE Delete(p, r) \/ Rmdir(p, r)
  <2>1. UNCHANGED <<vol, dir>> \/ (vol.mounted /\ Find(p) # 0 /\ Erase(Find(p)))
    <3>1. CASE Delete(p, r)
      BY <3>1, Zenon DEF Delete
    <3>2. CASE Rmdir(p, r)
      BY <3>2, Zenon DEF Rmdir
    <3>3. QED
      BY <1>3, <3>1, <3>2
  <2>2. CASE UNCHANGED <<vol, dir>>
    BY <2>2 DEF ApiStep, Rests
  <2>3. CASE vol.mounted /\ Find(p) # 0 /\ Erase(Find(p))
    <3>1. Find(p) \in UsedSlots
      BY <2>3, LookupFinds DEF Find
    <3>2. QED
      BY <2>3, <3>1 DEF ApiStep, Erases
  <2>4. QED
    BY <2>1, <2>2, <2>3
<1>4. ASSUME NEW q \in Path, Rename(p, q, r)
      PROVE  ApiStep
  <2>1. vol' = vol /\ (dir' = dir \/ (/\ Find(q) = 0 /\ Find(p) # 0
                                    /\ dir' = [dir EXCEPT ![Find(p)].name.name = To83[q.text]]))
    BY <1>4, Zenon DEF Rename
  <2>2. CASE dir' = dir
    BY <2>1, <2>2 DEF ApiStep, Rests
  <2>3. CASE /\ Find(q) = 0 /\ Find(p) # 0
             /\ dir' = [dir EXCEPT ![Find(p)].name.name = To83[q.text]]
    <3>1. Find(p) \in UsedSlots /\ ~dir[Find(p)].name.slash
      BY <2>3, LookupFinds DEF Find
    <3>2. To83[q.text] \in Name /\ Lookup([slash |-> FALSE, name |-> To83[q.text]]) = 0
      BY <2>3, NamesAssumption DEF Find, Path
    <3>3. Renames
      BY <2>1, <2>3, <3>1, <3>2 DEF Renames
    <3>4. QED
      BY <3>3 DEF ApiStep
  <2>4. QED
    BY <2>1, <2>2, <2>3
<1>5. QED
  BY <1>1, <1>2, <1>3, <1>4

LEMMA ExtendingSteps == FsInv /\ WriteExtending => Grows
<1> SUFFICES ASSUME FsInv, WriteExtending PROVE Grows
  OBVIOUS
<1> DEFINE f == handles[call.h]
           a == AfterAllocate(vol)
<1>1. PICK last \in First :
        /\ f.first \in Clusters => IsLastOf(a, f.first, last)
        /\ f.first \notin Clusters => last = Free
        /\ vol' = Linked(f, last)
  BY DEF WriteExtending, StoreChunk
<1>2. Allocated(vol) # 0 /\ dir' = dir
  BY DEF WriteExtending
<1>3. last \in Clusters => a.fat[last] = Eoc
  BY <1>1, Constants DEF IsLastOf
<1>4. vol' = WriteEntry(a, last, Allocated(vol))
  BY <1>1, Constants DEF Linked, WriteEntry
<1>5. QED
  BY <1>2, <1>3, <1>4 DEF Grows, GrowsFrom

LEMMA ReturnSteps ==
  FsInv /\ (ReadReturn(call.data) \/ WriteReturn(call.done) \/ SeekReturn) => Rests
<1> SUFFICES ASSUME FsInv, ReadReturn(call.data) \/ WriteReturn(call.done) \/ SeekReturn
             PROVE  Rests
  OBVIOUS
<1>1. CASE ReadReturn(call.data) \/ SeekReturn
  BY <1>1 DEF ReadReturn, SeekReturn, Rests
<1>2. CASE WriteReturn(call.done)
  <2> DEFINE f == handles[call.h]
             i == Lookup([slash |-> FALSE, name |-> f.name])
  <2>1. vol' = vol /\ dir' = (IF i = 0 THEN dir ELSE [dir EXCEPT ![i].size = f.size])
    BY <1>2 DEF WriteReturn
  <2>2. dir \in [Slots -> Entry]
    BY DEF FsInv
  <2> HIDE DEF f, i
  <2>3. QED
    BY <1>2, <2>1, <2>2 DEF Rests, Entry
<1>3. QED
  BY <1>1, <1>2

LEMMA ApiSteps == FsInv /\ ApiCall => ApiStep
<1> SUFFICES ASSUME FsInv, ApiCall PROVE ApiStep
  OBVIOUS
<1>1. CASE Mount \/ Unmount
  <2>1. vol'.fat = vol.fat /\ dir' = dir /\ vol'.mounted # vol.mounted
    <3>1. vol \in Volume
      BY DEF FsInv, VolInv
    <3>2. CASE Mount
      BY <3>1, <3>2, MountKeeps DEF Mount, MountVolume, Volume
    <3>3. CASE Unmount
      BY <3>1, <3>3, MountKeeps DEF Unmount, UnmountVolume, Volume
    <3>4. QED
      BY <1>1, <3>2, <3>3
  <2>2. ~(vol.mounted /\ vol'.mounted)
    <3>1. vol.mounted \in BOOLEAN /\ vol'.mounted \in BOOLEAN
      BY <1>1, MountInv DEF FsInv, VolInv, Volume
    <3>2. QED
      BY <2>1, <3>1
  <2>3. QED
    BY <2>1, <2>2 DEF ApiStep, Rests
<1>2. CASE ReadStep \/ SeekStep
  BY <1>2 DEF ReadStep, SeekStep, ApiStep, Rests
<1>3. CASE WriteInPlace
  BY <1>3 DEF WriteInPlace, StoreChunk, ApiStep, Rests
<1>4. CASE WriteExtending
  BY <1>4, ExtendingSteps DEF ApiStep
<1>5. CASE ReadReturn(call.data) \/ WriteReturn(call.done) \/ SeekReturn
  BY <1>5, ReturnSteps DEF ApiStep
<1>6. CASE \E p \in Path, r \in BOOLEAN :
             \/ Exists(p, r) \/ Mkdir(p, r) \/ Delete(p, r) \/ Rmdir(p, r)
             \/ \E q \in Path : Rename(p, q, r)
  BY <1>6, DirectorySteps
<1>7. CASE \E p \in Path, m \in {"r", "w", "a"}, r \in 0 .. NumHandles : Open(p, m, r)
  BY <1>7, OpenSteps
<1>8. ASSUME NEW h \in Handles,
             \/ Close(h) \/ ReadNothing(h) \/ WriteNothing(h)
             \/ \E n \in Nat : ReadBegin(h, n) \/ SeekBegin(h, n)
             \/ \E text \in Seq(Cell) : WriteBegin(h, text)
      PROVE  ApiStep
  <2>1. vol' = vol /\ dir' = dir
    BY <1>8 DEF Close, ReadNothing, WriteNothing, ReadBegin, SeekBegin, WriteBegin, fsVars
  <2>2. QED
    BY <2>1 DEF ApiStep, Rests
<1>9. QED
  BY <1>1, <1>2, <1>3, <1>4, <1>5, <1>6, <1>7, <1>8 DEF ApiCall, Iterate

-----------------------------------------------------------------------------
(* What a step leaves of the chain of an entry it does not touch, and the  *)
(* clusters that are in use.                                               *)
Kept(i) == /\ dir'[i].first = dir[i].first
           /\ \A c \in ChainOf(i) : vol'.fat[c] = vol.fat[c]

InUse(v) == {c \in Clusters : v.fat[c] # Free}

(* A sound chain is one of clusters in use, of which only the last does    *)
(* not link to another of them.                                            *)
LEMMA SoundChain ==
  ASSUME ChainsSound, NEW i \in UsedSlots
  PROVE  /\ dir[i].first \in Clusters /\ dir[i].first \in ChainOf(i)
         /\ ChainOf(i) \subseteq Clusters /\ Root \notin ChainOf(i)
         /\ \A y \in ChainOf(i) : vol.fat[y] # Free
         /\ \E e \in ChainOf(i) : vol.fat[e] = Eoc
<1>1. dir[i].first \in Clusters /\ Root \notin ChainOf(i)
  BY DEF ChainsSound
<1>2. PICK e \in ChainOf(i) : vol.fat[e] = Eoc
  BY DEF ChainsSound
<1>3. \A y \in ChainOf(i) : vol.fat[y] \notin Clusters => y = e
  BY <1>1, <1>2, Constants, ChainEndsOnce DEF ChainOf
<1>4. \A y \in ChainOf(i) : vol.fat[y] # Free
  BY <1>2, <1>3, Constants
<1>5. QED
  BY <1>1, <1>2, <1>4, ReachWithin DEF ChainOf

LEMMA KeptChain ==
  ASSUME ChainsSound, NEW i \in UsedSlots, Kept(i)
  PROVE  ChainOf(i)' = ChainOf(i)
<1>1. dir[i].first \in Clusters /\ dir'[i].first = dir[i].first
  BY SoundChain DEF Kept
<1>2. \A y \in Reach(vol.fat, dir[i].first) : vol'.fat[y] = vol.fat[y]
  BY DEF Kept, ChainOf
<1>3. Reach(vol'.fat, dir[i].first) = Reach(vol.fat, dir[i].first)
  BY <1>1, <1>2, ReachLocal
<1>4. QED
  BY <1>1, <1>3 DEF ChainOf

(* When no entry comes and every one that stays keeps its chain, the       *)
(* chains stay sound.                                                      *)
LEMMA KeptSound ==
  ASSUME ChainsSound, UsedSlots' \subseteq UsedSlots, \A i \in UsedSlots' : Kept(i)
  PROVE  ChainsSound'
<1>1. \A i \in UsedSlots' : ChainOf(i)' = ChainOf(i)
  BY KeptChain
<1>2. ASSUME NEW i \in UsedSlots'
      PROVE  /\ dir'[i].first \in Clusters
             /\ \E c \in ChainOf(i)' : vol'.fat[c] = Eoc
             /\ Root \notin ChainOf(i)'
             /\ \A j \in UsedSlots' \ {i} : ChainOf(i)' \cap ChainOf(j)' = {}
  <2>1. ChainOf(i)' = ChainOf(i) /\ i \in UsedSlots
    BY <1>1
  <2>2. dir'[i].first \in Clusters /\ Root \notin ChainOf(i)'
    BY <2>1, SoundChain DEF Kept
  <2>3. \E c \in ChainOf(i)' : vol'.fat[c] = Eoc
    BY <2>1, SoundChain DEF Kept
  <2>4. \A j \in UsedSlots' \ {i} : ChainOf(i)' \cap ChainOf(j)' = {}
    BY <1>1, <2>1 DEF ChainsSound
  <2>5. QED
    BY <2>2, <2>3, <2>4
<1>3. QED
  BY <1>2 DEF ChainsSound

-----------------------------------------------------------------------------
(* A call that rests or renames keeps every entry's chain.                 *)
LEMMA RestsEffect ==
  ASSUME FsInv, Rests \/ Renames
  PROVE  vol'.fat = vol.fat /\ UsedSlots' = UsedSlots /\ \A i \in UsedSlots : Kept(i)
<1>1. vol'.fat = vol.fat
  BY DEF Rests, Renames
<1>2. \A i \in Slots : dir'[i].st = dir[i].st /\ dir'[i].first = dir[i].first
  <2>1. CASE Rests
    BY <2>1 DEF Rests
  <2>2. CASE Renames
    <3>1. PICK i \in UsedSlots, n \in Name : dir' = [dir EXCEPT ![i].name.name = n]
      BY <2>2 DEF Renames
    <3>2. dir \in [Slots -> Entry]
      BY DEF FsInv
    <3>3. QED
      BY <3>1, <3>2 DEF Entry
  <2>3. QED
    BY <2>1, <2>2
<1>3. QED
  BY <1>1, <1>2 DEF UsedSlots, Kept

(* The cluster an allocation takes is in no chain of an entry.             *)
LEMMA AllocatedApart ==
  ASSUME FsInv, Allocated(vol) # 0
  PROVE  /\ Allocated(vol) \in Clusters \ {Root} /\ vol.mounted /\ AfterAllocate(vol).mounted
         /\ vol.fat[Allocated(vol)] = Free /\ AfterAllocate(vol).fat[Allocated(vol)] = Eoc
         /\ \A x \in Clusters : x # Allocated(vol) => AfterAllocate(vol).fat[x] = vol.fat[x]
         /\ ChainsSound => \A i \in UsedSlots : Allocated(vol) \notin ChainOf(i)
<1>1. vol \in Volume /\ Allocated(vol) \in Clusters \ {Root}
  BY AllocateInv DEF FsInv, VolInv
<1>2. /\ vol.mounted /\ vol.fat[Allocated(vol)] = Free
      /\ AfterAllocate(vol).fat[Allocated(vol)] = Eoc
      /\ \A x \in Clusters : x # Allocated(vol) => AfterAllocate(vol).fat[x] = vol.fat[x]
  BY <1>1, AllocateKeeps
<1>3. AfterAllocate(vol).mounted
  BY <1>1, <1>2 DEF AfterAllocate, Volume
<1>4. ChainsSound => \A i \in UsedSlots : Allocated(vol) \notin ChainOf(i)
  BY <1>2, SoundChain
<1>5. QED
  BY <1>1, <1>2, <1>3, <1>4

(* A new entry has a chain of one cluster; on a full directory the table   *)
(* is what it was.                                                         *)
LEMMA EntersEffect ==
  ASSUME FsInv, ChainsSound, NEW name, NEW isdir, NEW contents, NEW ok,
         EnterNew(name, isdir, contents, ok)
  PROVE  /\ \A i \in UsedSlots : Kept(i)
         /\ ok => /\ vol'.fat[Allocated(vol)] = Eoc
                  /\ InUse(vol)' = InUse(vol) \cup {Allocated(vol)}
                  /\ \E s \in Slots \ UsedSlots :
                       /\ UsedSlots' = UsedSlots \cup {s} /\ s = FreeSlot
                       /\ dir' = [dir EXCEPT ![s] = NewEntry(name, isdir, Allocated(vol))]
                       /\ ChainOf(s)' = {Allocated(vol)}
         /\ ~ok => dir' = dir /\ UsedSlots' = UsedSlots /\ InUse(vol)' = InUse(vol)
<1> DEFINE c == Allocated(vol)
           a == AfterAllocate(vol)
<1>1. c # 0 /\ ok = (FreeSlot # 0)
  BY DEF EnterNew
<1>2. /\ c \in Clusters \ {Root} /\ a.mounted /\ vol.fat[c] = Free /\ a.fat[c] = Eoc
      /\ \A x \in Clusters : x # c => a.fat[x] = vol.fat[x]
      /\ \A i \in UsedSlots : c \notin ChainOf(i)
  BY <1>1, AllocatedApart
<1>3. \A i \in UsedSlots : ChainOf(i) \subseteq Clusters
  BY SoundChain
<1>4. dir \in [Slots -> Entry] /\ UsedSlots \subseteq Slots
  BY DEF FsInv, UsedSlots
<1>5. CASE ok
  <2>1. PICK s \in Slots \ UsedSlots : s = FreeSlot
    BY <1>1, <1>5, FreeSlotFirst
  <2>2. vol' = a /\ dir' = [dir EXCEPT ![s] = NewEntry(name, isdir, c)]
    BY <1>5, <2>1 DEF EnterNew
  <2>3. dir'[s] = NewEntry(name, isdir, c) /\ \A i \in Slots \ {s} : dir'[i] = dir[i]
    BY <1>4, <2>2
  <2>4. UsedSlots' = UsedSlots \cup {s}
    BY <2>3 DEF UsedSlots, NewEntry
  <2>5. \A i \in UsedSlots : Kept(i)
    BY <1>2, <1>3, <1>4, <2>2, <2>3 DEF Kept
  <2>6. ChainOf(s)' = {c}
    <3>1. dir'[s].first = c
      BY <2>3 DEF NewEntry
    <3>2. Reach(a.fat, c) = {c}
      BY <1>2, Constants, ReachUnfolds
    <3>3. QED
      BY <2>2, <3>1, <3>2 DEF ChainOf
  <2>7. InUse(vol)' = InUse(vol) \cup {c}
    BY <1>2, <2>2, Constants DEF InUse
  <2>8. QED
    BY <1>2, <1>5, <2>1, <2>2, <2>4, <2>5, <2>6, <2>7
<1>6. CASE ~ok
  <2>1. vol' = FreeChain(a, c) /\ dir' = dir
    BY <1>6 DEF EnterNew
  <2>2. a \in Volume /\ c \in Links
    BY <1>2, AllocateKeeps, Constants DEF FsInv, VolInv
  <2>3. Reach(a.fat, c) = {c}
    <3>1. c \in Clusters /\ a.fat[c] \notin Clusters
      BY <1>2, Constants
    <3>2. QED
      BY <3>1, ReachUnfolds
  <2>4. \A x \in Clusters : vol'.fat[x] = vol.fat[x]
    <3>1. \A x \in Clusters : vol'.fat[x] =
            IF a.mounted /\ c \in Clusters /\ x \in Reach(a.fat, c) THEN Free ELSE a.fat[x]
      BY <2>1, <2>2, FreeChainKeeps
    <3>2. QED
      BY <1>2, <2>3, <3>1
  <2>5. InUse(vol)' = InUse(vol)
    BY <2>4 DEF InUse
  <2>6. UsedSlots' = UsedSlots /\ \A i \in UsedSlots : Kept(i)
    BY <1>3, <2>1, <2>4 DEF UsedSlots, Kept
  <2>7. QED
    BY <1>6, <2>1, <2>5, <2>6
<1>7. QED
  BY <1>5, <1>6

(* The chain that ended where the new cluster is linked to has that        *)
(* cluster in addition; every other chain is what it was.                  *)
LEMMA GrowsEffect ==
  ASSUME FsInv, ChainsSound, NEW last \in First, GrowsFrom(last)
  PROVE  /\ UsedSlots' = UsedSlots
         /\ last # Allocated(vol) => vol'.fat[Allocated(vol)] = Eoc
         /\ InUse(vol)' = InUse(vol) \cup {Allocated(vol)}
         /\ \A i \in UsedSlots :
              IF last \in ChainOf(i)
              THEN /\ ChainOf(i)' = ChainOf(i) \cup {Allocated(vol)}
                   /\ vol'.fat[Allocated(vol)] = Eoc
              ELSE Kept(i)
<1> DEFINE c == Allocated(vol)
           a == AfterAllocate(vol)
<1>1. /\ c \in Clusters \ {Root} /\ vol.mounted /\ a.mounted
      /\ vol.fat[c] = Free /\ a.fat[c] = Eoc
      /\ \A x \in Clusters : x # c => a.fat[x] = vol.fat[x]
      /\ \A i \in UsedSlots : c \notin ChainOf(i)
  BY AllocatedApart DEF GrowsFrom
<1>2. a \in Volume /\ a.fat \in [Clusters -> Links]
  BY AllocateKeeps DEF FsInv, VolInv, Volume
<1>3. dir' = dir /\ UsedSlots' = UsedSlots /\ (last \in Clusters => a.fat[last] = Eoc)
  BY DEF GrowsFrom, UsedSlots
<1>4. vol'.fat = IF last \in Clusters THEN [a.fat EXCEPT ![last] = c] ELSE a.fat
  BY <1>1, <1>2 DEF GrowsFrom, WriteEntry, Volume
<1>5. last # c => vol'.fat[c] = Eoc
  BY <1>1, <1>2, <1>4
<1>6. \A x \in Clusters : x # c /\ x # last => vol'.fat[x] = vol.fat[x]
  BY <1>1, <1>2, <1>4
<1>7. InUse(vol)' = InUse(vol) \cup {c}
  <2>1. ASSUME NEW x \in Clusters
        PROVE  vol'.fat[x] # Free <=> vol.fat[x] # Free \/ x = c
    <3>1. CASE x = last
      BY <1>1, <1>2, <1>3, <1>4, <2>1, <3>1, Constants
    <3>2. CASE x # last
      BY <1>1, <1>5, <1>6, <3>2, Constants
    <3>3. QED
      BY <3>1, <3>2
  <2>2. QED
    BY <1>1, <2>1 DEF InUse
<1>8. ASSUME NEW i \in UsedSlots, last \in ChainOf(i)
      PROVE  ChainOf(i)' = ChainOf(i) \cup {c} /\ vol'.fat[c] = Eoc
  <2>1. dir[i].first \in Clusters /\ ChainOf(i) \subseteq Clusters /\ c \notin ChainOf(i)
    BY <1>1, SoundChain
  <2>2. last \in Clusters /\ last # c /\ vol.fat[last] = Eoc /\ vol'.fat[last] = c
    BY <1>1, <1>2, <1>3, <1>4, <1>8, <2>1
  <2>3. vol'.fat[c] = Eoc /\ Eoc \notin Clusters
    BY <1>5, <2>2, Constants
  <2>4. \A y \in ChainOf(i) \ {last} : vol'.fat[y] = vol.fat[y]
    BY <1>6, <2>1
  <2>5. Reach(vol'.fat, dir[i].first) = Reach(vol.fat, dir[i].first) \cup {c}
    BY <1>1, <1>8, <2>1, <2>2, <2>3, <2>4, ReachAppended DEF ChainOf
  <2>6. QED
    BY <1>3, <2>3, <2>5 DEF ChainOf
<1>9. ASSUME NEW i \in UsedSlots, last \notin ChainOf(i)
      PROVE  Kept(i)
  BY <1>1, <1>3, <1>6, <1>9, SoundChain DEF Kept
<1>10. QED
  BY <1>3, <1>5, <1>7, <1>8, <1>9

(* An erased entry gives its chain back and no other cluster.              *)
LEMMA ErasesEffect ==
  ASSUME FsInv, ChainsSound, NEW i \in UsedSlots, vol.mounted, Erase(i)
  PROVE  /\ UsedSlots' = UsedSlots \ {i}
         /\ InUse(vol)' = InUse(vol) \ ChainOf(i)
         /\ \A j \in UsedSlots \ {i} : Kept(j)
<1>1. vol' = FreeChain(vol, dir[i].first) /\ dir' = [dir EXCEPT ![i] = Blank("deleted")]
  BY DEF Erase
<1>2. /\ dir \in [Slots -> Entry] /\ i \in Slots /\ vol \in Volume
      /\ dir[i].first \in Clusters /\ dir[i].first \in Links
  BY SoundChain, Constants DEF FsInv, VolInv, UsedSlots
<1>3. \A x \in Clusters : vol'.fat[x] = IF x \in ChainOf(i) THEN Free ELSE vol.fat[x]
  BY <1>1, <1>2, FreeChainKeeps DEF ChainOf
<1>4. UsedSlots' = UsedSlots \ {i}
  BY <1>1, <1>2 DEF UsedSlots, Blank
<1>5. InUse(vol)' = InUse(vol) \ ChainOf(i)
  BY <1>3 DEF InUse
<1>6. ASSUME NEW j \in UsedSlots \ {i}
      PROVE  Kept(j)
  <2>1. ChainOf(j) \cap ChainOf(i) = {} /\ ChainOf(j) \subseteq Clusters
    BY SoundChain DEF ChainsSound
  <2>2. \A x \in ChainOf(j) : vol'.fat[x] = vol.fat[x]
    BY <1>3, <2>1
  <2>3. QED
    BY <1>1, <1>2, <2>2 DEF Kept, UsedSlots
<1>7. QED
  BY <1>4, <1>5, <1>6

-----------------------------------------------------------------------------
(* Each of the five kinds of steps keeps the chains sound.                 *)
LEMMA EntersSound ==
  ASSUME FsInv, ChainsSound, NEW name, NEW isdir, NEW contents, NEW ok,
         EnterNew(name, isdir, contents, ok)
  PROVE  ChainsSound'
<1>1. \A i \in UsedSlots : Kept(i)
  BY EntersEffect
<1>2. CASE ~ok
  <2>1. UsedSlots' = UsedSlots
    BY <1>2, EntersEffect
  <2>2. QED
    BY <1>1, <2>1, KeptSound
<1>3. CASE ok
  <2> DEFINE c == Allocated(vol)
  <2>1. PICK s \in Slots \ UsedSlots :
          /\ UsedSlots' = UsedSlots \cup {s} /\ ChainOf(s)' = {c} /\ vol'.fat[c] = Eoc
          /\ dir' = [dir EXCEPT ![s] = NewEntry(name, isdir, c)]
    BY <1>3, EntersEffect
  <2>2. c \in Clusters \ {Root} /\ \A i \in UsedSlots : c \notin ChainOf(i)
    BY AllocatedApart DEF EnterNew
  <2>3. dir'[s].first = c
    BY <2>1 DEF FsInv, NewEntry
  <2>4. \A i \in UsedSlots : ChainOf(i)' = ChainOf(i)
    BY <1>1, KeptChain
  <2>5. ASSUME NEW i \in UsedSlots'
        PROVE  /\ dir'[i].first \in Clusters
               /\ \E e \in ChainOf(i)' : vol'.fat[e] = Eoc
               /\ Root \notin ChainOf(i)'
               /\ \A j \in UsedSlots' \ {i} : ChainOf(i)' \cap ChainOf(j)' = {}
    <3>1. CASE i = s
      BY <2>1, <2>2, <2>3, <2>4, <3>1
    <3>2. CASE i \in UsedSlots
      <4>1. dir'[i].first \in Clusters /\ Root \notin ChainOf(i)'
        BY <1>1, <2>4, <3>2, SoundChain DEF Kept
      <4>2. \E e \in ChainOf(i)' : vol'.fat[e] = Eoc
        BY <1>1, <2>4, <3>2, SoundChain DEF Kept
      <4>3. \A j \in UsedSlots' \ {i} : ChainOf(i)' \cap ChainOf(j)' = {}
        BY <2>1, <2>2, <2>4, <3>2 DEF ChainsSound
      <4>4. QED
        BY <4>1, <4>2, <4>3
    <3>3. QED
      BY <2>1, <3>1, <3>2
  <2>6. QED
    BY <2>5 DEF ChainsSound
<1>4. QED
  BY <1>2, <1>3 DEF EnterNew

LEMMA GrowsSound == FsInv /\ ChainsSound /\ Grows => ChainsSound'
<1> SUFFICES ASSUME FsInv, ChainsSound, Grows PROVE ChainsSound'
  OBVIOUS
<1> DEFINE c == Allocated(vol)
<1>1. PICK last \in First : GrowsFrom(last)
  BY DEF Grows
<1>2. dir' = dir /\ UsedSlots' = UsedSlots
  BY <1>1 DEF GrowsFrom, UsedSlots
<1>3. c \in Clusters \ {Root} /\ \A i \in UsedSlots : c \notin ChainOf(i)
  BY <1>1, AllocatedApart DEF GrowsFrom
<1>4. \A i \in UsedSlots :
        IF last \in ChainOf(i)
        THEN ChainOf(i)' = ChainOf(i) \cup {c} /\ vol'.fat[c] = Eoc
        ELSE Kept(i)
  BY <1>1, GrowsEffect
<1>5. \A i \in UsedSlots :
        ChainOf(i)' = IF last \in ChainOf(i) THEN ChainOf(i) \cup {c} ELSE ChainOf(i)
  BY <1>4, KeptChain
<1>6. ASSUME NEW i \in UsedSlots
      PROVE  /\ dir'[i].first \in Clusters
             /\ \E e \in ChainOf(i)' : vol'.fat[e] = Eoc
             /\ Root \notin ChainOf(i)'
             /\ \A j \in UsedSlots \ {i} : ChainOf(i)' \cap ChainOf(j)' = {}
  <2>1. dir'[i].first \in Clusters /\ Root \notin ChainOf(i)'
    BY <1>2, <1>3, <1>5, SoundChain
  <2>2. \E e \in ChainOf(i)' : vol'.fat[e] = Eoc
    BY <1>4, <1>5, SoundChain DEF Kept
  <2>3. \A j \in UsedSlots \ {i} : ChainOf(i)' \cap ChainOf(j)' = {}
    <3>1. ASSUME NEW j \in UsedSlots \ {i}
          PROVE  ChainOf(i)' \cap ChainOf(j)' = {}
      <4>1. ChainOf(i) \cap ChainOf(j) = {} /\ c \notin ChainOf(i) /\ c \notin ChainOf(j)
        BY <1>3 DEF ChainsSound
      <4>2. QED
        BY <1>5, <4>1
    <3>2. QED
      BY <3>1
  <2>4. QED
    BY <2>1, <2>2, <2>3
<1>7. QED
  BY <1>2, <1>6 DEF ChainsSound

LEMMA StepSound == FsInv /\ ChainsSound /\ ApiStep => ChainsSound'
<1> SUFFICES ASSUME FsInv, ChainsSound, ApiStep PROVE ChainsSound'
  OBVIOUS
<1>1. CASE Rests \/ Renames
  BY <1>1, RestsEffect, KeptSound
<1>2. CASE Enters
  BY <1>2, EntersSound DEF Enters
<1>3. CASE Grows
  BY <1>3, GrowsSound
<1>4. CASE Erases
  <2>1. PICK i \in UsedSlots : vol.mounted /\ Erase(i)
    BY <1>4 DEF Erases
  <2>2. UsedSlots' = UsedSlots \ {i} /\ \A j \in UsedSlots \ {i} : Kept(j)
    BY <2>1, ErasesEffect
  <2>3. QED
    BY <2>2, KeptSound
<1>5. QED
  BY <1>1, <1>2, <1>3, <1>4 DEF ApiStep

-----------------------------------------------------------------------------
(* While the chains are sound, a step that leaves the volume mounted       *)
(* counts the clusters it frees and takes.                                 *)
LEMMA StepBalanced ==
  ASSUME FsInv, ChainsSound, ApiStep, vol.mounted, vol'.mounted
  PROVE  TrulyFree' - vol'.free_clusters = TrulyFree - vol.free_clusters
<1> DEFINE c == Allocated(vol)
           a == AfterAllocate(vol)
<1>1. vol \in Volume /\ a \in Volume /\ Uncounted(a) = Uncounted(vol)
  BY AllocateKeeps, AllocateBalanced DEF FsInv, VolInv
<1>2. CASE Rests \/ Renames
  BY <1>2 DEF Rests, Renames, TrulyFree
<1>3. CASE Enters
  <2>1. PICK name, isdir, contents, ok : EnterNew(name, isdir, contents, ok)
    BY <1>3 DEF Enters
  <2>2. c \in Clusters /\ a.fat[c] = Eoc
    BY <2>1, AllocatedApart DEF EnterNew
  <2>3. vol' = a \/ vol' = FreeChain(a, c)
    BY <2>1 DEF EnterNew
  <2>4. c \in Reach(a.fat, c)
    BY <2>2, ReachWithin
  <2>5. Uncounted(FreeChain(a, c)) = Uncounted(a)
    BY <1>1, <2>2, <2>4, FreeChainBalanced
  <2>6. QED
    BY <1>1, <2>3, <2>5 DEF Uncounted, FreeOf, TrulyFree
<1>4. CASE Grows
  <2>1. PICK last \in First : GrowsFrom(last)
    BY <1>4 DEF Grows
  <2>2. c # Free /\ Eoc # Free /\ (last \in Clusters => a.fat[last] # Free)
    BY <2>1, AllocatedApart, Constants DEF GrowsFrom
  <2>3. Uncounted(WriteEntry(a, last, c)) = Uncounted(a)
    BY <1>1, <2>2, WriteEntryBalanced
  <2>4. QED
    BY <1>1, <2>1, <2>3 DEF GrowsFrom, Uncounted, FreeOf, TrulyFree
<1>5. CASE Erases
  <2>1. PICK i \in UsedSlots : vol' = FreeChain(vol, dir[i].first)
    BY <1>5 DEF Erases, Erase
  <2>2. dir[i].first \in Clusters
        /\ \E e \in Reach(vol.fat, dir[i].first) : vol.fat[e] = Eoc
    BY SoundChain DEF ChainOf
  <2>3. Uncounted(FreeChain(vol, dir[i].first)) = Uncounted(vol)
    BY <1>1, <2>2, FreeChainBalanced
  <2>4. QED
    BY <2>1, <2>3 DEF Uncounted, FreeOf, TrulyFree
<1>6. QED
  BY <1>2, <1>3, <1>4, <1>5 DEF ApiStep

-----------------------------------------------------------------------------
(* Every step keeps the entries findable.                                  *)
LEMMA EnteredFindable ==
  ASSUME dir \in [Slots -> Entry], Findable(dir), FreeSlot # 0, NEW e \in Entry, e.st = "used",
         ~e.name.slash => Lookup(e.name) = 0
  PROVE  Findable([dir EXCEPT ![FreeSlot] = e])
<1> DEFINE s == FreeSlot
           d == [dir EXCEPT ![s] = e]
<1>1. s \in Slots /\ s \notin UsedSlots /\ \A j \in 1 .. s : j # s => j \in UsedSlots
  BY FreeSlotFirst
<1>2. d[s] = e /\ \A i \in Slots : i # s => d[i] = dir[i]
  BY <1>1
<1>3. \A j \in 1 .. s : j \in Slots /\ d[j].st = "used"
  BY <1>1, <1>2 DEF UsedSlots
<1>4. s \in SearchedIn(d) /\ SearchedIn(dir) \subseteq SearchedIn(d)
  <2>1. ASSUME NEW i \in SearchedIn(dir), NEW j \in 1 .. i
        PROVE  d[j].st # "end"
    <3>1. j \in Slots /\ dir[j].st # "end"
      BY <2>1, Constants DEF SearchedIn, Slots
    <3>2. QED
      BY <1>2, <3>1
  <2>2. QED
    BY <1>1, <1>3, <2>1 DEF SearchedIn
<1>5. PlainIn(d) \subseteq PlainIn(dir) \cup {s}
  BY <1>2 DEF PlainIn
<1>6. PlainIn(dir) \subseteq SearchedIn(dir)
  BY DEF Findable
<1>7. ASSUME ~e.name.slash, NEW i \in PlainIn(dir)
      PROVE  dir[i].name # e.name
  <2>1. i \in Searched /\ dir[i].st = "used"
    BY <1>6, <1>7 DEF PlainIn, Searched, SearchedIn
  <2>2. QED
    BY <1>7, <2>1, LookupFinds
<1>8. ASSUME NEW i \in PlainIn(d), NEW j \in PlainIn(d), d[i].name = d[j].name
      PROVE  i = j
  <2>1. CASE i = s /\ j # s
    BY <1>2, <1>5, <1>7, <1>8, <2>1 DEF PlainIn
  <2>2. CASE i # s /\ j = s
    BY <1>2, <1>5, <1>7, <1>8, <2>2 DEF PlainIn
  <2>3. CASE i # s /\ j # s
    BY <1>2, <1>5, <1>8, <2>3 DEF PlainIn, Findable
  <2>4. QED
    BY <2>1, <2>2, <2>3
<1>9. PlainIn(d) \subseteq SearchedIn(d)
  BY <1>4, <1>5, <1>6
<1>10. Findable(d)
  <2> HIDE DEF d
  <2> QED
    BY <1>8, <1>9 DEF Findable
<1>11. QED
  BY <1>10

LEMMA RenamedFindable ==
  ASSUME dir \in [Slots -> Entry], Findable(dir), NEW i \in UsedSlots, NEW n \in Name,
         ~dir[i].name.slash, Lookup([slash |-> FALSE, name |-> n]) = 0
  PROVE  Findable([dir EXCEPT ![i].name.name = n])
<1> DEFINE d == [dir EXCEPT ![i].name.name = n]
<1>1. /\ i \in Slots /\ dir[i].st = "used"
      /\ d[i].st = "used" /\ d[i].name = [slash |-> FALSE, name |-> n]
      /\ \A j \in Slots : j # i => d[j] = dir[j]
  BY DEF UsedSlots, Entry, DirName
<1>2. \A j \in Slots : d[j].st = dir[j].st
  BY <1>1
<1>3. PlainIn(d) = PlainIn(dir)
  BY <1>1 DEF PlainIn
<1>4. SearchedIn(d) = SearchedIn(dir)
  BY <1>2, Constants DEF SearchedIn, Slots
<1>5. ASSUME NEW j \in PlainIn(dir), j # i
      PROVE  d[j].name # [slash |-> FALSE, name |-> n]
  <2>1. j \in Searched /\ dir[j].st = "used" /\ d[j] = dir[j]
    BY <1>1, <1>5 DEF Findable, PlainIn, Searched, SearchedIn
  <2>2. QED
    BY <2>1, LookupFinds
<1>6. ASSUME NEW j \in PlainIn(d), NEW k \in PlainIn(d), d[j].name = d[k].name
      PROVE  j = k
  <2> HIDE DEF d
  <2>1. CASE j = i \/ k = i
    BY <1>1, <1>3, <1>5, <1>6, <2>1
  <2>2. CASE j # i /\ k # i
    <3>1. d[j] = dir[j] /\ d[k] = dir[k]
      BY <1>1, <1>6, <2>2 DEF PlainIn
    <3>2. QED
      BY <1>3, <1>6, <3>1 DEF Findable
  <2>3. QED
    BY <2>1, <2>2
<1>7. Findable(d)
  <2> HIDE DEF d
  <2> QED
    BY <1>3, <1>4, <1>6 DEF Findable
<1>8. QED
  BY <1>7

LEMMA StepFindable == FsInv /\ EntriesFindable /\ ApiStep => EntriesFindable'
<1> SUFFICES ASSUME FsInv, EntriesFindable, ApiStep PROVE EntriesFindable'
  OBVIOUS
<1>1. dir \in [Slots -> Entry]
  BY DEF FsInv
<1>2. Findable(dir)
  <2>1. \A i \in PlainIn(dir) : LookupIn(dir, dir[i].name) = i
    BY DEF EntriesFindable, UsedSlots, Lookup, Searched, PlainIn, LookupIn, NamedIn, SearchedIn
  <2>2. QED
    BY <2>1, FindableSays
<1>3. Findable(dir')
  <2>1. CASE Rests
    <3>1. \A i \in Slots : dir'[i].st = dir[i].st /\ dir'[i].name = dir[i].name
      BY <2>1 DEF Rests
    <3>2. PlainIn(dir') = PlainIn(dir) /\ SearchedIn(dir') = SearchedIn(dir)
      BY <3>1, Constants DEF PlainIn, SearchedIn, Slots
    <3>3. QED
      BY <1>2, <3>1, <3>2 DEF Findable, PlainIn
  <2>2. CASE Renames
    BY <1>1, <1>2, <2>2, RenamedFindable DEF Renames
  <2>3. CASE Enters
    <3>1. PICK name \in DirName, isdir \in BOOLEAN, contents \in [Offsets -> Cell], ok \in BOOLEAN :
            (~name.slash => Lookup(name) = 0) /\ EnterNew(name, isdir, contents, ok)
      BY <2>3 DEF Enters
    <3>2. CASE dir' = dir
      BY <1>2, <3>2
    <3>3. CASE FreeSlot # 0 /\ dir' = [dir EXCEPT ![FreeSlot] =
                                          NewEntry(name, isdir, Allocated(vol))]
      <4>1. Allocated(vol) \in First
        BY <3>1, AllocatedApart, Constants DEF EnterNew
      <4>2. NewEntry(name, isdir, Allocated(vol)) \in Entry
        BY <4>1 DEF NewEntry, Entry
      <4>3. /\ NewEntry(name, isdir, Allocated(vol)).st = "used"
            /\ NewEntry(name, isdir, Allocated(vol)).name = name
        BY DEF NewEntry
      <4>4. QED
        BY <1>1, <1>2, <3>1, <3>3, <4>2, <4>3, EnteredFindable
    <3>4. QED
      BY <3>1, <3>2, <3>3 DEF EnterNew
  <2>4. CASE Grows
    BY <1>2, <2>4 DEF Grows, GrowsFrom
  <2>5. CASE Erases
    <3>1. PICK i \in UsedSlots : dir' = [dir EXCEPT ![i] = Blank("deleted")]
      BY <2>5 DEF Erases, Erase
    <3>2. /\ \A j \in Slots : j # i => dir'[j] = dir[j]
          /\ dir'[i].st = "deleted" /\ i \in Slots
      BY <1>1, <3>1 DEF UsedSlots, Blank
    <3>3. PlainIn(dir') \subseteq PlainIn(dir) \ {i}
      BY <3>2 DEF PlainIn
    <3>4. SearchedIn(dir) \subseteq SearchedIn(dir')
      BY <3>2, Constants DEF SearchedIn, Slots
    <3>5. QED
      BY <1>2, <3>2, <3>3, <3>4 DEF Findable, PlainIn
  <2>6. QED
    BY <2>1, <2>2, <2>3, <2>4, <2>5 DEF ApiStep
<1>4. \A i \in PlainIn(dir') : LookupIn(dir', dir'[i].name) = i
  BY <1>3, FindableSays
<1>5. QED
  BY <1>4
  DEF EntriesFindable, UsedSlots, Lookup, Searched, PlainIn, LookupIn, NamedIn, SearchedIn
-----------------------------------------------------------------------------
(* When the handle that is written has the first cluster of an entry, the  *)
(* walk of fs_write ends at the end of that entry's chain.                 *)
LEMMA ExtendsChain ==
  ASSUME FsInv, ChainsSound, WriteExtending, NEW i \in UsedSlots,
         dir[i].first = handles[call.h].first
  PROVE  \E last \in ChainOf(i) : GrowsFrom(last)
<1> DEFINE f == handles[call.h]
           c == Allocated(vol)
           a == AfterAllocate(vol)
<1>1. PICK last \in First :
        /\ f.first \in Clusters => IsLastOf(a, f.first, last)
        /\ vol' = Linked(f, last)
  BY DEF WriteExtending, StoreChunk
<1>2. c # 0 /\ dir' = dir
  BY DEF WriteExtending
<1>3. /\ f.first \in Clusters /\ ChainOf(i) \subseteq Clusters
      /\ \A y \in ChainOf(i) : vol.fat[y] # Free
      /\ ChainOf(i) = Reach(vol.fat, f.first)
  BY SoundChain DEF ChainOf
<1>4. \A y \in ChainOf(i) : a.fat[y] = vol.fat[y]
  BY <1>2, <1>3, AllocatedApart
<1>5. Reach(a.fat, f.first) = ChainOf(i)
  BY <1>3, <1>4, ReachLocal
<1>6. last \in ChainOf(i) /\ a.fat[last] = Eoc
  BY <1>1, <1>3, <1>4, <1>5 DEF IsLastOf
<1>7. GrowsFrom(last)
  BY <1>1, <1>2, <1>3, <1>6 DEF GrowsFrom, Linked
<1>8. QED
  BY <1>6, <1>7

(* The clusters in use are the root directory's and those of the chains.   *)
Owned == InUse(vol) = {Root} \cup UNION {ChainOf(i) : i \in UsedSlots}

(* It stays so, as long as only handles of entries are written.            *)
LEMMA StepOwned ==
  ASSUME FsInv, ChainsSound, Owned, ApiStep,
         WriteExtending => \E i \in UsedSlots : dir[i].first = handles[call.h].first
  PROVE  Owned'
<1> DEFINE U == UNION {ChainOf(i) : i \in UsedSlots}
           c == Allocated(vol)
<1>1. \A i \in UsedSlots : Kept(i) => ChainOf(i)' = ChainOf(i)
  BY KeptChain
<1>2. InUse(vol) = {Root} \cup U
  BY DEF Owned
<1>3. CASE Rests \/ Renames
  <2>1. UsedSlots' = UsedSlots /\ vol'.fat = vol.fat /\ \A i \in UsedSlots : Kept(i)
    BY <1>3, RestsEffect
  <2>2. U' = U
    BY <1>1, <2>1
  <2>3. InUse(vol)' = InUse(vol)
    BY <2>1 DEF InUse
  <2>4. QED
    BY <1>2, <2>2, <2>3 DEF Owned
<1>4. CASE Enters
  <2>1. PICK name, isdir, contents, ok : EnterNew(name, isdir, contents, ok)
    BY <1>4 DEF Enters
  <2>2. \A i \in UsedSlots : ChainOf(i)' = ChainOf(i)
    BY <1>1, <2>1, EntersEffect
  <2>3. CASE ok
    <3>1. InUse(vol)' = InUse(vol) \cup {c}
      BY <2>1, <2>3, EntersEffect
    <3>2. PICK s \in Slots \ UsedSlots : UsedSlots' = UsedSlots \cup {s} /\ ChainOf(s)' = {c}
      BY <2>1, <2>3, EntersEffect
    <3>3. U' = U \cup {c}
      BY <2>2, <3>2
    <3>4. QED
      BY <1>2, <3>1, <3>3 DEF Owned
  <2>4. CASE ~ok
    <3>1. InUse(vol)' = InUse(vol) /\ UsedSlots' = UsedSlots
      BY <2>1, <2>4, EntersEffect
    <3>2. U' = U
      BY <2>2, <3>1
    <3>3. QED
      BY <1>2, <3>1, <3>2 DEF Owned
  <2>5. QED
    BY <2>1, <2>3, <2>4 DEF EnterNew
<1>5. CASE Grows
  <2>1. PICK i \in UsedSlots : dir[i].first = handles[call.h].first
    BY <1>5 DEF Grows
  <2>2. PICK last \in ChainOf(i) : GrowsFrom(last)
    BY <1>5, <2>1, ExtendsChain DEF Grows
  <2>3. last \in First
    BY SoundChain, Constants
  <2>4. /\ UsedSlots' = UsedSlots /\ InUse(vol)' = InUse(vol) \cup {c}
        /\ \A j \in UsedSlots : IF last \in ChainOf(j) THEN ChainOf(j)' = ChainOf(j) \cup {c}
                                ELSE Kept(j)
    BY <2>2, <2>3, GrowsEffect
  <2>5. ChainOf(i)' = ChainOf(i) \cup {c}
    BY <2>2, <2>4
  <2>6. \A j \in UsedSlots : ChainOf(j)' = ChainOf(j) \/ ChainOf(j)' = ChainOf(j) \cup {c}
    BY <1>1, <2>4
  <2>7. U' = U \cup {c}
    BY <2>4, <2>5, <2>6
  <2>8. QED
    BY <1>2, <2>4, <2>7 DEF Owned
<1>6. CASE Erases
  <2>1. PICK i \in UsedSlots : vol.mounted /\ Erase(i)
    BY <1>6 DEF Erases
  <2>2. /\ UsedSlots' = UsedSlots \ {i} /\ InUse(vol)' = InUse(vol) \ ChainOf(i)
        /\ \A j \in UsedSlots \ {i} : Kept(j)
    BY <2>1, ErasesEffect
  <2>3. Root \notin ChainOf(i) /\ \A j \in UsedSlots \ {i} : ChainOf(i) \cap ChainOf(j) = {}
    BY DEF ChainsSound
  <2>4. U' = UNION {ChainOf(j) : j \in UsedSlots \ {i}}
    BY <1>1, <2>2
  <2>5. U' = U \ ChainOf(i)
    BY <2>3, <2>4
  <2>6. QED
    BY <1>2, <2>2, <2>3, <2>5 DEF Owned
<1>7. QED
  BY <1>3, <1>4, <1>5, <1>6 DEF ApiStep
-----------------------------------------------------------------------------
(* Going on through a cluster moves a handle and changes nothing else.     *)
LEMMA AdvancedSays ==
  ASSUME NEW v, NEW f \in Handle, NEW k
  PROVE  LET g == Advanced(v, f, k)
             full == f.offset + k >= ClusterCells
         IN  /\ g.in_use = f.in_use /\ g.name = f.name /\ g.first = f.first /\ g.size = f.size
             /\ g.position = f.position + k
             /\ g.offset = IF full THEN 0 ELSE f.offset + k
             /\ g.current = IF full THEN ReadEntry(v, f.current) ELSE f.current
             /\ DOMAIN g = DOMAIN f
BY DEF Advanced, Handle

(* The handle of the loop that runs when its cluster is found: fs_write    *)
(* gives it one when it has none left.                                     *)
Starting ==
  LET f == handles[call.h]
      c == Allocated(vol)
  IN  IF Extends(f)
      THEN [f EXCEPT !.first = IF @ \in Clusters THEN @ ELSE c, !.current = c, !.offset = 0]
      ELSE f

(* An iteration moves that handle by a chunk of its cluster, and no other. *)
Moves(f, k) ==
  LET g == handles'[call.h]
      full == f.offset + k >= ClusterCells
  IN  /\ g.in_use = f.in_use /\ g.name = f.name /\ g.first = f.first
      /\ g.position = f.position + k
      /\ g.offset = IF full THEN 0 ELSE f.offset + k
      /\ g.current = IF full THEN ReadEntry(vol', f.current) ELSE f.current
      /\ g.size = IF call.op = "write" /\ f.position + k > f.size THEN f.position + k ELSE f.size

LEMMA StartingSays ==
  ASSUME FsInv, Iterate
  PROVE  /\ call.op # "none" /\ call.h \in Handles /\ call.done < call.size
         /\ Starting \in Handle /\ Starting.current \in Clusters /\ HandleInv(Starting)
         /\ Starting.in_use = handles[call.h].in_use /\ Starting.name = handles[call.h].name
         /\ Starting.position = handles[call.h].position
         /\ Starting.size = handles[call.h].size
         /\ IF Extends(handles[call.h])
            THEN /\ WriteExtending
                 /\ Starting.current = Allocated(vol) /\ Starting.offset = 0
                 /\ Starting.first = IF handles[call.h].first \in Clusters
                                     THEN handles[call.h].first ELSE Allocated(vol)
            ELSE vol' = vol /\ Starting = handles[call.h]
<1> DEFINE f == handles[call.h]
           c == Allocated(vol)
<1>1. call.op # "none" /\ call.done < call.size
  BY DEF Iterate, ReadStep, WriteInPlace, WriteExtending, SeekStep, InLoop
<1>2. call.h \in Handles /\ f \in Handle /\ HandleInv(f)
  BY <1>1 DEF FsInv, CallInv
<1>3. CASE Extends(f)
  <2>1. WriteExtending
    BY <1>3 DEF Iterate, ReadStep, SeekStep, WriteInPlace, Extends
  <2>2. c \in Clusters \ {Root}
    BY <2>1, AllocatedApart DEF WriteExtending
  <2>3. c \in First /\ c \in Links /\ 0 \in 0 .. ClusterCells
    BY <2>2, Constants
  <2>4. Starting = [f EXCEPT !.first = IF @ \in Clusters THEN @ ELSE c,
                             !.current = c, !.offset = 0]
    BY <1>3 DEF Starting
  <2>5. /\ Starting \in Handle /\ Starting.current = c /\ Starting.offset = 0
        /\ Starting.first = IF f.first \in Clusters THEN f.first ELSE c
        /\ Starting.in_use = f.in_use /\ Starting.name = f.name
        /\ Starting.position = f.position /\ Starting.size = f.size
    BY <1>2, <2>3, <2>4 DEF Handle
  <2>6. HandleInv(Starting)
    BY <1>2, <2>2, <2>5 DEF HandleInv
  <2>7. QED
    BY <1>1, <1>2, <1>3, <2>1, <2>2, <2>5, <2>6
<1>4. CASE ~Extends(f)
  <2>1. Starting = f /\ f.current \in Clusters
    BY <1>4 DEF Starting, Extends
  <2>2. vol' = vol
    BY <1>4 DEF Iterate, ReadStep, SeekStep, WriteInPlace, WriteExtending, StoreChunk
  <2>3. QED
    BY <1>1, <1>2, <1>4, <2>1, <2>2
<1>5. QED
  BY <1>3, <1>4

LEMMA IterateMoves ==
  ASSUME FsInv, Iterate
  PROVE  /\ call'.op = call.op /\ call'.h = call.h /\ dir' = dir
         /\ \A h \in Handles \ {call.h} : handles'[h] = handles[h]
         /\ Chunk(Starting) \in Nat /\ Chunk(Starting) <= ClusterCells - Starting.offset
         /\ Moves(Starting, Chunk(Starting))
<1> DEFINE f == Starting
           k == Chunk(f)
<1>1. /\ call.h \in Handles /\ f \in Handle /\ f.current \in Clusters /\ HandleInv(f)
      /\ call.done < call.size
  BY StartingSays
<1>2. handles \in [Handles -> Handle] /\ call \in Call /\ CallInv(call)
  BY DEF FsInv, CallInv
<1>3. call'.op = call.op /\ call'.h = call.h /\ dir' = dir
  BY <1>2 DEF Iterate, ReadStep, WriteInPlace, WriteExtending, StoreChunk, SeekStep, Call
<1>4. k \in Nat /\ k <= ClusterCells - f.offset
  BY <1>1, <1>2, ChunkBounds
<1>5. f.position \in Nat /\ f.size \in Nat
  BY <1>1 DEF Handle
<1>6. CASE ReadStep \/ SeekStep
  <2>1. f = handles[call.h] /\ vol' = vol
    BY <1>6, StartingSays DEF ReadStep, SeekStep, Extends
  <2>2. handles' = [handles EXCEPT ![call.h] = Advanced(vol', f, k)] /\ call.op # "write"
    BY <1>6, <2>1 DEF ReadStep, SeekStep, InLoop
  <2>3. handles'[call.h] = Advanced(vol', f, k)
        /\ \A h \in Handles \ {call.h} : handles'[h] = handles[h]
    BY <1>1, <1>2, <2>2
  <2>4. Moves(f, k)
    <3> HIDE DEF f, k
    <3> QED
      BY <1>1, <2>2, <2>3, AdvancedSays DEF Moves
  <2>5. QED
    BY <1>3, <1>4, <2>3, <2>4
<1>7. CASE WriteInPlace \/ WriteExtending
  <2>1. call.op = "write" /\ StoreChunk(f, vol', k)
    <3>1. CASE WriteInPlace
      <4>1. f = handles[call.h] /\ vol' = vol
        BY <3>1, StartingSays DEF WriteInPlace
      <4>2. QED
        BY <3>1, <4>1 DEF WriteInPlace, InLoop
    <3>2. CASE WriteExtending
      <4>1. f = [handles[call.h] EXCEPT !.first = IF @ \in Clusters THEN @ ELSE Allocated(vol),
                                        !.current = Allocated(vol), !.offset = 0]
        BY <3>2 DEF WriteExtending, Starting
      <4>2. PICK v : StoreChunk(f, v, k)
        BY <3>2, <4>1 DEF WriteExtending
      <4>3. vol' = v
        BY <4>2 DEF StoreChunk
      <4>4. QED
        BY <3>2, <4>2, <4>3 DEF WriteExtending, InLoop
    <3>3. QED
      BY <1>7, <3>1, <3>2
  <2> DEFINE a == Advanced(vol', f, k)
             g == [a EXCEPT !.size = IF a.position > @ THEN a.position ELSE @]
  <2>2. handles' = [handles EXCEPT ![call.h] = g]
    BY <2>1 DEF StoreChunk
  <2>3. handles'[call.h] = g /\ \A h \in Handles \ {call.h} : handles'[h] = handles[h]
    BY <1>1, <1>2, <2>2
  <2>4. /\ a.in_use = f.in_use /\ a.name = f.name /\ a.first = f.first /\ a.size = f.size
        /\ a.position = f.position + k
        /\ a.offset = IF f.offset + k >= ClusterCells THEN 0 ELSE f.offset + k
        /\ a.current = IF f.offset + k >= ClusterCells THEN ReadEntry(vol', f.current)
                                                       ELSE f.current
        /\ DOMAIN a = DOMAIN f
    <3> HIDE DEF f, k
    <3> QED
      BY <1>1, AdvancedSays
  <2>5. "size" \in DOMAIN a
    BY <1>1, <2>4 DEF Handle
  <2>6. /\ g.in_use = a.in_use /\ g.name = a.name /\ g.first = a.first
        /\ g.position = a.position /\ g.offset = a.offset /\ g.current = a.current
        /\ g.size = IF a.position > a.size THEN a.position ELSE a.size
    BY <1>1 DEF Advanced, Handle
  <2>7. Moves(f, k)
    <3> HIDE DEF f, k, g, a
    <3> QED
      BY <2>1, <2>3, <2>4, <2>6 DEF Moves
  <2>8. QED
    BY <1>3, <1>4, <2>3, <2>7
<1>8. QED
  BY <1>6, <1>7 DEF Iterate
(* A handle that is somewhere in the chain of an entry stays there.        *)
LEMMA IterateStands ==
  ASSUME FsInv, ChainsSound, Iterate, NEW i \in UsedSlots,
         dir[i].first = handles[call.h].first,
         handles[call.h].current \in Clusters => handles[call.h].current \in ChainOf(i)
  PROVE  /\ UsedSlots' = UsedSlots
         /\ \A j \in UsedSlots : ChainOf(j) \subseteq ChainOf(j)'
         /\ handles'[call.h].first = handles[call.h].first
         /\ handles'[call.h].current \in Clusters => handles'[call.h].current \in ChainOf(i)'
<1> DEFINE f == handles[call.h]
           c == Allocated(vol)
           k == Chunk(Starting)
<1>1. dir' = dir /\ UsedSlots' = UsedSlots
  BY IterateMoves DEF UsedSlots
<1>2. /\ handles'[call.h].first = Starting.first
      /\ handles'[call.h].current \in {Starting.current, ReadEntry(vol', Starting.current)}
  BY IterateMoves DEF Moves
<1>3. Starting.first = f.first
  BY StartingSays, SoundChain
<1>4. CASE ~Extends(f)
  <2>1. vol' = vol /\ Starting = f /\ f.current \in ChainOf(i)
    BY <1>4, StartingSays DEF Extends
  <2>2. \A j \in UsedSlots : ChainOf(j)' = ChainOf(j)
    BY <1>1, <2>1 DEF ChainOf
  <2>3. dir[i].first \in Clusters
    BY SoundChain
  <2>4. ReadEntry(vol, f.current) \in Clusters => ReadEntry(vol, f.current) \in ChainOf(i)
    BY <2>1, <2>3, Constants, ReachCloses DEF ReadEntry, ChainOf
  <2>5. QED
    BY <1>1, <1>2, <1>3, <2>1, <2>2, <2>4
<1>5. CASE Extends(f)
  <2>1. WriteExtending /\ Starting.current = c
    BY <1>5, StartingSays
  <2>2. PICK last \in ChainOf(i) : GrowsFrom(last)
    BY <2>1, ExtendsChain
  <2>3. last \in First
    BY SoundChain, Constants
  <2>4. \A j \in UsedSlots : IF last \in ChainOf(j) THEN ChainOf(j)' = ChainOf(j) \cup {c}
                             ELSE Kept(j)
    BY <2>2, <2>3, GrowsEffect
  <2>5. ChainOf(i)' = ChainOf(i) \cup {c} /\ vol'.fat[c] = Eoc
    BY <2>2, <2>3, GrowsEffect
  <2>6. \A j \in UsedSlots : ChainOf(j) \subseteq ChainOf(j)'
    BY <2>4, KeptChain
  <2>7. ReadEntry(vol', c) \notin Clusters
    BY <2>5, Constants DEF ReadEntry
  <2>8. QED
    BY <1>1, <1>2, <1>3, <2>1, <2>5, <2>6, <2>7
<1>6. QED
  BY <1>4, <1>5
-----------------------------------------------------------------------------
(* How much a handle knows of its file in a table: its size is within the  *)
(* chain, and its position is what it has passed of it; a handle that has  *)
(* no cluster has passed all of it.                                        *)
LengthIn(fat, c) == Cardinality(Reach(fat, c))
LeftIn(fat, f) == IF f.current \in Clusters THEN LengthIn(fat, f.current) ELSE 0

SizedIn(fat, f) ==
  /\ f.size <= ClusterCells * LengthIn(fat, f.first)
  /\ f.position = ClusterCells * (LengthIn(fat, f.first) - LeftIn(fat, f)) + f.offset
  /\ f.current \notin Clusters => f.offset = 0

LEMMA Products ==
  /\ \A n \in Nat : ClusterCells * n \in Nat /\ ClusterCells * (n + 1) = ClusterCells * n + ClusterCells
  /\ \A n, m \in Nat : ClusterCells * (n - m) = ClusterCells * n - ClusterCells * m
  /\ \A n, m \in Nat : n <= m => ClusterCells * n <= ClusterCells * m
<1>1. ClusterCells \in Nat
  BY Constants
<1>2. \A n \in Nat : ClusterCells * n \in Nat /\ ClusterCells * (n + 1) = ClusterCells * n + ClusterCells
  BY <1>1
<1>3. \A n, m \in Nat : ClusterCells * (n - m) = ClusterCells * n - ClusterCells * m
  BY <1>1
<1>4. ASSUME NEW n \in Nat, NEW m \in Nat, n <= m
      PROVE  ClusterCells * n <= ClusterCells * m
  <2>1. ClusterCells * (m - n) = ClusterCells * m - ClusterCells * n
    BY <1>3
  <2>2. m - n \in Nat
    BY <1>4
  <2>3. ClusterCells * (m - n) \in Nat /\ ClusterCells * m \in Nat /\ ClusterCells * n \in Nat
    BY <1>2, <2>2
  <2>4. QED
    BY <2>1, <2>3
<1>5. QED
  BY <1>2, <1>3, <1>4

(* Appending a cluster to a chain that a handle has passed.                *)
LEMMA StartingSized ==
  ASSUME FsInv, ChainsSound, Iterate, NEW i \in UsedSlots,
         dir[i].first = handles[call.h].first,
         handles[call.h].current \in Clusters => handles[call.h].current \in ChainOf(i),
         SizedIn(vol.fat, handles[call.h])
  PROVE  /\ SizedIn(vol'.fat, Starting) /\ Starting.first = dir[i].first
         /\ Starting.current \in ChainOf(i)'
<1> DEFINE f == handles[call.h]
           c == Allocated(vol)
           n == LengthIn(vol.fat, f.first)
<1>1. dir' = dir /\ dir[i].first \in Clusters /\ f.first \in Clusters
  BY IterateMoves, SoundChain
<1>2. n \in Nat
  BY <1>1, ReachFinite DEF LengthIn
<1>3. CASE ~Extends(f)
  <2>1. vol' = vol /\ Starting = f /\ f.current \in ChainOf(i)
    BY <1>3, StartingSays DEF Extends
  <2>2. QED
    BY <1>1, <2>1 DEF ChainOf
<1>4. CASE Extends(f)
  <2>1. /\ WriteExtending /\ Starting.current = c /\ Starting.offset = 0
        /\ Starting.first = f.first /\ Starting.size = f.size /\ Starting.position = f.position
        /\ f.current \notin Clusters /\ c \in Clusters
    BY <1>1, <1>4, StartingSays DEF Extends
  <2>2. PICK last \in ChainOf(i) : GrowsFrom(last)
    BY <2>1, ExtendsChain
  <2>3. last \in First
    BY SoundChain, Constants
  <2>4. ChainOf(i)' = ChainOf(i) \cup {c} /\ vol'.fat[c] = Eoc
    BY <2>2, <2>3, GrowsEffect
  <2>5. c \notin ChainOf(i)
    BY <2>2, AllocatedApart DEF GrowsFrom
  <2>6. LengthIn(vol'.fat, f.first) = n + 1
    <3>1. /\ ChainOf(i) = Reach(vol.fat, f.first)
          /\ ChainOf(i)' = Reach(vol'.fat, f.first)
      BY <1>1 DEF ChainOf
    <3>2. IsFiniteSet(ChainOf(i)) /\ Cardinality(ChainOf(i)) = n
      BY <1>1, <3>1, ReachFinite DEF LengthIn
    <3>3. Cardinality(ChainOf(i) \cup {c}) = n + 1
      BY <2>5, <3>2, FS_AddElement
    <3>4. QED
      BY <2>4, <3>1, <3>3 DEF LengthIn
  <2>7. LengthIn(vol'.fat, c) = 1
    <3>1. Reach(vol'.fat, c) = {c}
      BY <2>1, <2>4, Constants, ReachUnfolds
    <3>2. QED
      BY <3>1, FS_Singleton DEF LengthIn
  <2>8. f.size <= ClusterCells * n /\ f.position = ClusterCells * (n - 0) + 0
    BY <2>1 DEF SizedIn, LeftIn
  <2> HIDE DEF n
  <2>9. ClusterCells * n <= ClusterCells * (n + 1) /\ n - 0 = n /\ (n + 1) - 1 = n
    <3>1. n + 1 \in Nat /\ n <= n + 1 /\ n - 0 = n /\ (n + 1) - 1 = n
      BY <1>2
    <3>2. QED
      BY <1>2, <3>1, Products
  <2>10. f.size \in Nat /\ ClusterCells * n \in Nat /\ ClusterCells * (n + 1) \in Nat
    <3>1. f.size \in Nat
      BY <2>1, StartingSays DEF Handle
    <3>2. n + 1 \in Nat
      BY <1>2
    <3>3. QED
      BY <1>2, <3>1, <3>2, Products
  <2>11. f.size <= ClusterCells * (n + 1)
    BY <2>8, <2>9, <2>10
  <2>12. f.position = ClusterCells * ((n + 1) - 1) + 0
    BY <2>8, <2>9
  <2> HIDE DEF f, c
  <2>13. SizedIn(vol'.fat, Starting)
    BY <2>1, <2>6, <2>7, <2>11, <2>12 DEF SizedIn, LeftIn
  <2>14. QED
    BY <1>1, <2>1, <2>4, <2>13 DEF f, c
<1>5. QED
  BY <1>3, <1>4

(* Moving on through a chain.                                              *)
LEMMA MovesSized ==
  ASSUME NEW fat, NEW f \in Handle, f.first \in Clusters, f.current \in Reach(fat, f.first),
         NEW e \in Reach(fat, f.first), fat[e] \notin Clusters, SizedIn(fat, f),
         NEW k \in Nat, k <= ClusterCells - f.offset,
         NEW g, g.first = f.first, g.position = f.position + k,
         g.offset = IF f.offset + k >= ClusterCells THEN 0 ELSE f.offset + k,
         IF f.offset + k >= ClusterCells
         THEN g.current = fat[f.current] ELSE g.current = f.current,
         g.size = f.size \/ g.size = g.position
  PROVE  SizedIn(fat, g)
<1> DEFINE n == LengthIn(fat, f.first)
           l == LengthIn(fat, f.current)
           m == LeftIn(fat, g)
<1>1. f.current \in Clusters /\ Reach(fat, f.current) \subseteq Reach(fat, f.first)
  BY ReachWithin, ReachCloses
<1>2. n \in Nat /\ l \in Nat /\ l <= n
  BY <1>1, ReachFinite, FS_Subset DEF LengthIn
<1>3. l = IF fat[f.current] \in Clusters THEN LengthIn(fat, fat[f.current]) + 1 ELSE 1
  BY WalkShortens DEF LengthIn
<1>4. f.size <= ClusterCells * n /\ f.position = ClusterCells * (n - l) + f.offset
  BY <1>1 DEF SizedIn, LeftIn
<1>5. ClusterCells \in Nat /\ ClusterCells > 0 /\ f.offset \in Nat /\ f.offset <= ClusterCells
      /\ f.size \in Nat
  BY Constants DEF Handle
<1>6. ASSUME f.offset + k >= ClusterCells
      PROVE  m \in Nat /\ l = m + 1 /\ g.offset = 0 /\ f.offset + k = ClusterCells
  <2>1. g.current = fat[f.current] /\ g.offset = 0 /\ f.offset + k = ClusterCells
    BY <1>5, <1>6
  <2>2. CASE fat[f.current] \in Clusters
    BY <1>3, <2>1, <2>2, ReachFinite DEF LeftIn, LengthIn
  <2>3. CASE fat[f.current] \notin Clusters
    BY <1>3, <2>1, <2>3 DEF LeftIn
  <2>4. QED
    BY <2>1, <2>2, <2>3
<1>7. ASSUME ~(f.offset + k >= ClusterCells)
      PROVE  m = l /\ l >= 1 /\ g.offset = f.offset + k /\ g.current = f.current
  <2>1. g.current = f.current /\ m = l
    BY <1>1, <1>7 DEF LeftIn
  <2>2. l >= 1
    <3>1. CASE fat[f.current] \in Clusters
      <4>1. LengthIn(fat, fat[f.current]) \in Nat
        BY <3>1, ReachFinite DEF LengthIn
      <4>2. QED
        BY <1>3, <3>1, <4>1
    <3>2. CASE fat[f.current] \notin Clusters
      BY <1>3, <3>2
    <3>3. QED
      BY <3>1, <3>2
  <2>3. QED
    BY <1>7, <2>1, <2>2
<1> HIDE DEF n, l, m
<1>8. m \in Nat /\ m <= n /\ g.position = ClusterCells * (n - m) + g.offset
      /\ g.position <= ClusterCells * n
  <2>1. CASE f.offset + k >= ClusterCells
    <3>1. m \in Nat /\ l = m + 1 /\ g.offset = 0 /\ f.offset + k = ClusterCells
      BY <1>6, <2>1
    <3>2. ClusterCells * (n - l) = ClusterCells * n - ClusterCells * l
      BY <1>2, Products
    <3>3. ClusterCells * (n - m) = ClusterCells * n - ClusterCells * m
      BY <1>2, <3>1, Products
    <3>4. ClusterCells * l = ClusterCells * m + ClusterCells
      BY <3>1, Products
    <3>5. ClusterCells * n \in Nat /\ ClusterCells * m \in Nat /\ ClusterCells * l \in Nat
      BY <1>2, <3>1, Products
    <3>6. g.position = f.position + k
      OBVIOUS
    <3>7. QED
      BY <1>2, <1>4, <1>5, <3>1, <3>2, <3>3, <3>4, <3>5, <3>6
  <2>2. CASE ~(f.offset + k >= ClusterCells)
    <3>1. m = l /\ l >= 1 /\ g.offset = f.offset + k
      BY <1>7, <2>2
    <3>2. ClusterCells * (n - l) = ClusterCells * n - ClusterCells * l
      BY <1>2, Products
    <3>3. ClusterCells * n \in Nat /\ ClusterCells * l \in Nat
      BY <1>2, Products
    <3>4. ClusterCells <= ClusterCells * l
      <4>1. ClusterCells * 1 <= ClusterCells * l
        BY <1>2, <3>1, Products
      <4>2. ClusterCells * 1 = ClusterCells
        BY <1>5
      <4>3. QED
        BY <4>1, <4>2
    <3>5. g.position = f.position + k
      OBVIOUS
    <3>6. QED
      BY <1>2, <1>4, <1>5, <2>2, <3>1, <3>2, <3>3, <3>4, <3>5
  <2>3. QED
    BY <2>1, <2>2
<1>9. g.size <= ClusterCells * n
  BY <1>4, <1>8
<1>10. g.current \notin Clusters => g.offset = 0
  BY <1>1, <1>6, <1>7
<1>11. QED
  BY <1>8, <1>9, <1>10 DEF SizedIn, n, m

LEMMA IterateSized ==
  ASSUME FsInv, ChainsSound, Iterate, vol'.mounted, NEW i \in UsedSlots,
         dir[i].first = handles[call.h].first,
         handles[call.h].current \in Clusters => handles[call.h].current \in ChainOf(i),
         SizedIn(vol.fat, handles[call.h])
  PROVE  SizedIn(vol'.fat, handles'[call.h])
<1> DEFINE f == Starting
           k == Chunk(Starting)
           g == handles'[call.h]
<1>1. /\ f \in Handle /\ SizedIn(vol'.fat, f) /\ f.first = dir[i].first
      /\ f.first \in Clusters /\ f.current \in ChainOf(i)' /\ f.current \in Clusters
  BY StartingSays, StartingSized, SoundChain
<1>2. dir' = dir /\ UsedSlots' = UsedSlots
  BY IterateMoves DEF UsedSlots
<1>3. PICK e \in ChainOf(i)' : vol'.fat[e] = Eoc
  <2>1. ApiStep
    BY ApiSteps DEF ApiCall
  <2>2. ChainsSound'
    BY <2>1, StepSound
  <2>3. QED
    BY <1>2, <2>2 DEF ChainsSound
<1>4. ChainOf(i)' = Reach(vol'.fat, f.first)
  BY <1>1, <1>2 DEF ChainOf
<1>5. k \in Nat /\ k <= ClusterCells - f.offset /\ Moves(f, k)
  BY IterateMoves
<1>6. ReadEntry(vol', f.current) = vol'.fat[f.current]
  BY <1>1 DEF ReadEntry
<1>7. Eoc \notin Clusters
  BY Constants
<1> HIDE DEF f, k
<1>8. /\ g.first = f.first /\ g.position = f.position + k
      /\ g.offset = IF f.offset + k >= ClusterCells THEN 0 ELSE f.offset + k
      /\ IF f.offset + k >= ClusterCells
         THEN g.current = vol'.fat[f.current] ELSE g.current = f.current
      /\ g.size = f.size \/ g.size = g.position
  BY <1>5, <1>6 DEF Moves
<1> HIDE DEF g
<1>9. SizedIn(vol'.fat, g)
  BY <1>1, <1>3, <1>4, <1>5, <1>7, <1>8, MovesSized
<1>10. QED
  BY <1>9 DEF g

-----------------------------------------------------------------------------
(* Now FatApi: any caller.  What a volume is like when it is mounted       *)
(* depends on who made it: that its chains are sound and its entries can   *)
(* be found is kept if it is so at the beginning.                          *)
LEMMA DirectoryCallInv == FsInv /\ DirectoryCall => FsInv'
<1> SUFFICES ASSUME FsInv, DirectoryCall PROVE FsInv'
  OBVIOUS
<1>1. PICK p \in Path, r \in BOOLEAN :
        \/ Exists(p, r) \/ Mkdir(p, r) \/ Delete(p, r) \/ Rmdir(p, r)
        \/ \E q \in Path : Rename(p, q, r)
  BY CallersAssumption DEF DirectoryCall
<1>2. QED
  BY <1>1, ExistsInv, MkdirInv, DeleteInv, RenameInv

LEMMA HandleCallInv == FsInv /\ HandleCall => FsInv'
<1> SUFFICES ASSUME FsInv, NEW h \in Handles,
                    \/ \E p \in Opens, m \in Modes : Open(p, m, h)
                    \/ handles[h].in_use /\ Close(h)
                    \/ \E n \in ReadSizes : ReadBegin(h, n)
                    \/ \E text \in Contents : handles[h].position < MaxSize /\ WriteBegin(h, text)
                    \/ \E n \in ReadSizes : SeekBegin(h, n)
             PROVE  FsInv'
  BY DEF HandleCall
<1>1. ReadSizes \subseteq Nat /\ Contents \subseteq Seq(Cell) /\ Opens \subseteq Path
  BY CallersAssumption
<1>2. QED
  BY <1>1, OpenInv, CloseInv, ReadBeginInv, WriteBeginInv, SeekBeginInv

LEMMA FsNextInv == FsInv /\ [FsNext]_fsVars => FsInv'
<1> SUFFICES ASSUME FsInv, [FsNext]_fsVars PROVE FsInv'
  OBVIOUS
<1>1. CASE Mount \/ Unmount
  BY <1>1, MountInv
<1>2. CASE DirectoryCall \/ HandleCall
  BY <1>2, DirectoryCallInv, HandleCallInv
<1>3. CASE Refusal
  BY <1>3, CallersAssumption, OpenInv, RefusedInv DEF Refusal
<1>4. CASE Iterate
  BY <1>4, ReadStepInv, WriteInPlaceInv, WriteExtendingInv, SeekStepInv DEF Iterate
<1>5. CASE LoopReturn
  BY <1>5, ReadReturnInv, WriteReturnInv, SeekStepInv DEF LoopReturn
<1>6. CASE UNCHANGED fsVars
  BY <1>6 DEF fsVars, FsInv
<1>7. QED
  BY <1>1, <1>2, <1>3, <1>4, <1>5, <1>6 DEF FsNext

(* Whatever is called with whatever handles, on a volume of any size, the  *)
(* state is of its type: no handle leaves its cluster (the offset stays    *)
(* within it) and no write takes bytes from beyond its buffer.             *)
THEOREM FsTypeCorrect == FsSpec => []FsTypeOK
<1>1. FsSpec => []FsInv
  BY FsInitInv, FsNextInv, PTL DEF FsSpec
<1>2. FsInv => FsTypeOK
  BY FsInvSays
<1>3. QED
  BY <1>1, <1>2, PTL

(* The root directory's cluster is never freed, allocated or linked to,    *)
(* stale handles and deletions under open handles included.                *)
THEOREM FsRootKept == FsSpec => []RootKept
<1>1. FsSpec => []FsInv
  BY FsInitInv, FsNextInv, PTL DEF FsSpec
<1>2. FsInv => RootKept
  BY FsInvSays
<1>3. QED
  BY <1>1, <1>2, PTL

(* No cluster below the allocation hint is free, through every call, every *)
(* failure of a call and every mount.                                      *)
THEOREM FsHintTight == FsSpec => []HintTight
<1>1. FsSpec => []FsInv
  BY FsInitInv, FsNextInv, PTL DEF FsSpec
<1>2. FsInv => HintTight
  BY FsInvSays
<1>3. QED
  BY <1>1, <1>2, PTL

-----------------------------------------------------------------------------
LEMMA FsNextSteps == FsInv /\ FsNext => ApiStep
<1> SUFFICES ASSUME FsInv, FsNext PROVE ApiStep
  OBVIOUS
<1>1. /\ ReadSizes \subseteq Nat /\ Contents \subseteq Seq(Cell)
      /\ Paths \subseteq Path /\ Opens \subseteq Path
      /\ 0 \in 0 .. NumHandles
  BY CallersAssumption, SizesAssumption
<1>2. Handles \subseteq 0 .. NumHandles
  BY SizesAssumption DEF Handles
<1>3. CASE DirectoryCall
  BY <1>1, <1>3, ApiSteps DEF DirectoryCall, ApiCall
<1>4. CASE HandleCall
  <2>1. PICK h \in Handles :
          \/ \E p \in Opens, m \in Modes : Open(p, m, h)
          \/ Close(h)
          \/ \E n \in ReadSizes : ReadBegin(h, n)
          \/ \E text \in Contents : WriteBegin(h, text)
          \/ \E n \in ReadSizes : SeekBegin(h, n)
    BY <1>4 DEF HandleCall
  <2>2. CASE \E p \in Opens, m \in Modes : Open(p, m, h)
    BY <1>1, <1>2, <2>2, ApiSteps DEF Modes, ApiCall
  <2>3. CASE Close(h) \/ (\E n \in ReadSizes : ReadBegin(h, n) \/ SeekBegin(h, n))
    BY <1>1, <2>3, ApiSteps DEF ApiCall
  <2>4. CASE \E text \in Contents : WriteBegin(h, text)
    BY <1>1, <2>4, ApiSteps DEF ApiCall
  <2>5. QED
    BY <2>1, <2>2, <2>3, <2>4
<1>5. CASE Refusal
  BY <1>1, <1>5, ApiSteps DEF Refusal, Modes, ApiCall
<1>6. CASE Mount \/ Unmount \/ Iterate \/ LoopReturn
  BY <1>6, ApiSteps DEF LoopReturn, ApiCall
<1>7. QED
  BY <1>3, <1>4, <1>5, <1>6 DEF FsNext

(* On a volume whose chains are sound they stay so, whatever is deleted,   *)
(* re-created and extended under open handles: no file runs into a free    *)
(* cluster, into the root directory or into another file.                  *)
THEOREM FsChainsSound == FsSpec /\ ChainsSound => []ChainsSound
<1>1. FsInv /\ ChainsSound /\ [FsNext]_fsVars => ChainsSound'
  <2>1. FsInv /\ ChainsSound /\ FsNext => ChainsSound'
    BY FsNextSteps, StepSound
  <2>2. ChainsSound /\ UNCHANGED fsVars => ChainsSound'
    BY DEF fsVars, ChainsSound, UsedSlots, ChainOf
  <2>3. QED
    BY <2>1, <2>2
<1>2. QED
  BY <1>1, FsInitInv, FsNextInv, PTL DEF FsSpec

(* And while it stays mounted, no call loses or counts twice a cluster,    *)
(* the calls that fail half way included.                                  *)
THEOREM FsCountBalanced == FsSpec /\ ChainsSound => CountBalanced
<1> DEFINE Balances == vol.mounted /\ vol'.mounted =>
                         TrulyFree' - vol'.free_clusters = TrulyFree - vol.free_clusters
<1>1. FsInv /\ ChainsSound /\ [FsNext]_fsVars => [Balances]_fsVars
  BY FsNextSteps, StepBalanced
<1>2. FsSpec /\ ChainsSound => [][Balances]_fsVars
  BY <1>1, FsChainsSound, FsInitInv, FsNextInv, PTL DEF FsSpec
<1>3. QED
  BY <1>2 DEF CountBalanced

(* Where every name without a leading '/' leads to its entry it goes on    *)
(* doing so: no call enters a name twice or puts an entry behind an END    *)
(* entry, and none leaves an END entry before another.                     *)
THEOREM FsEntriesFindable == FsSpec /\ EntriesFindable => []EntriesFindable
<1>1. FsInv /\ EntriesFindable /\ [FsNext]_fsVars => EntriesFindable'
  <2>1. FsInv /\ EntriesFindable /\ FsNext => EntriesFindable'
    BY FsNextSteps, StepFindable
  <2>2. EntriesFindable /\ UNCHANGED fsVars => EntriesFindable'
    BY DEF fsVars, EntriesFindable, UsedSlots, Lookup, Searched
  <2>3. QED
    BY <2>1, <2>2
<1>2. QED
  BY <1>1, FsInitInv, FsNextInv, PTL DEF FsSpec
=============================================================================
