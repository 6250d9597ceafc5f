------------------------------- MODULE FatFS -------------------------------
(***************************************************************************)
(* The FAT32 filesystem of src/kernel/filesystem.c behind its API: the     *)
(* root directory, the data clusters, the 32 file handles and the one      *)
(* cluster buffer all operations share.  An operation is one action,       *)
(* except that fs_read, fs_write and the fs_seek of an append run their    *)
(* loops one iteration (one cluster) a step; the system has one thread, so *)
(* nothing else runs until the loop returns.                               *)
(*                                                                         *)
(* A cell stands for a run of bytes; only which bytes they are is kept.    *)
(* The working directory is always the root: fs_chdir goes nowhere else.   *)
(* No storage access fails: every cluster lies inside the volume.          *)
(***************************************************************************)
EXTENDS Fat, Sequences

CONSTANTS
  ClusterCells, \* bytes_per_cluster, in cells
  DirSlots,     \* entries_per_cluster
  NumHandles,   \* the size of g_file_handles
  Text, Name,   \* file names as typed (without a leading '/'), 8.3 names
  To83,         \* fat32_name_to_83, which truncates and capitalises
  Reopened,     \* the 8.3 name that fat32_83_to_name's result converts to
  Byte,         \* the cells programs write
  Image         \* the volume as the storage driver hands it over

ASSUME SizesAssumption ==
  /\ ClusterCells \in Nat \ {0} /\ DirSlots \in Nat \ {0} /\ NumHandles \in Nat \ {0}
ASSUME NamesAssumption ==
  /\ Text # {} /\ Name # {} /\ To83 \in [Text -> Name] /\ Reopened \in [Name -> Name]

Offsets == 1 .. ClusterCells
Slots   == 1 .. DirSlots
Handles == 1 .. NumHandles

(* What a cluster may hold: zeroes, bytes of programs, a part of the root  *)
(* directory, the "." and ".." entries.                                    *)
Cell == Byte \cup {"zero", "dirent", "dots"}
Zeroes   == [i \in Offsets |-> "zero"]
DirImage == [i \in Offsets |-> "dirent"]
Dots     == [i \in Offsets |-> IF i = 1 THEN "dots" ELSE "zero"]

(* A path may begin with one '/', and so may the name fs_mkdir stores.     *)
Path    == [abs : BOOLEAN, text : Text]
DirName == [slash : BOOLEAN, name : Name]

(* A first cluster is a cluster or below 2, which means there is none.     *)
First == {Free} \cup Clusters

Entry == [st : {"end", "deleted", "used"}, name : DirName, isdir : BOOLEAN,
          first : First, size : Nat]
Handle == [in_use : BOOLEAN, is_directory : BOOLEAN, first : First, current : Links,
           offset : 0 .. ClusterCells, size : Nat, position : Nat, name : Name]

(* Fields that the code never reads again get one fixed value.             *)
Blank(st) == [st |-> st, isdir |-> FALSE, first |-> Free, size |-> 0,
              name |-> [slash |-> FALSE, name |-> CHOOSE n \in Name : TRUE]]
Closed == [in_use |-> FALSE, is_directory |-> FALSE, first |-> Free, current |-> Free,
           offset |-> 0, size |-> 0, position |-> 0, name |-> CHOOSE n \in Name : TRUE]

(* The loop that runs: of which call, on which handle, with which buffer,  *)
(* how many cells it is to move (or reach) and how many it has moved.      *)
Call == [op : {"none", "read", "write", "seek"}, h : 0 .. NumHandles,
         size : Nat, done : Nat, data : Seq(Cell)]
NoCall == [op |-> "none", h |-> 0, size |-> 0, done |-> 0, data |-> <<>>]

ASSUME ImageAssumption ==
  /\ Image.fat \in [Clusters -> Links]
  /\ Image.dir \in [Slots -> Entry]
  /\ Image.data \in [Clusters -> [Offsets -> Cell]]
  /\ Image.fat[Root] # Free
  /\ \A c \in Clusters : Image.fat[c] # Root
  /\ \A i \in Slots : Image.dir[i].first # Root

VARIABLES
  vol,     \* g_fs and the table
  dir,     \* the root directory, on the disk
  data,    \* the other clusters, on the disk
  buf,     \* g_cluster_buffer
  handles, \* g_file_handles
  call     \* the loop that runs

fsVars == <<vol, dir, data, buf, handles, call>>

FsInit ==
  /\ vol = [mounted |-> FALSE, fat |-> Image.fat, free_clusters |-> 0, next_free_cluster |-> 3]
  /\ dir = Image.dir
  /\ data = Image.data
  /\ buf = Zeroes
  /\ handles = [h \in Handles |-> Closed]
  /\ call = NoCall

Quiet == call.op = "none"

-----------------------------------------------------------------------------
(* Directory searches: they stop at the first END entry.                   *)
Searched == {i \in Slots : \A j \in 1 .. i : dir[j].st # "end"}

Lookup(n) ==
  LET hits == {i \in Searched : dir[i].st = "used" /\ dir[i].name = n}
  IN  IF hits = {} THEN 0 ELSE Min(hits)

Find(p) == Lookup([slash |-> FALSE, name |-> To83[p.text]])

(* find_free_dir_entry_slot                                                *)
FreeSlot ==
  LET unused == {i \in Slots : dir[i].st # "used"}
  IN  IF unused = {} THEN 0 ELSE Min(unused)

NewEntry(name, isdir, c) ==
  [st |-> "used", name |-> name, isdir |-> isdir, first |-> c, size |-> 0]

FreeHandle ==
  LET closed == {h \in Handles : ~handles[h].in_use}
  IN  IF closed = {} THEN 0 ELSE Min(closed)

LoadDir == buf' = DirImage

(* Mutant: the cluster is not given back.                                  *)
EnterNewKept(name, isdir, contents, ok) ==
  LET c == Allocated(vol) IN
  /\ c # 0 /\ ok = (FreeSlot # 0)
  /\ data' = [data EXCEPT ![c] = contents]
  /\ vol' = AfterAllocate(vol)
  /\ dir' = IF ok THEN [dir EXCEPT ![FreeSlot] = NewEntry(name, isdir, c)] ELSE dir

(* A new cluster gets its first contents and an entry in the directory,    *)
(* or is given back when the directory is full.                            *)
EnterNew(name, isdir, contents, ok) ==
  LET c == Allocated(vol) IN
  /\ c # 0
  /\ ok = (FreeSlot # 0)
  /\ data' = [data EXCEPT ![c] = contents]
  /\ IF ok
     THEN /\ vol' = AfterAllocate(vol)
          /\ dir' = [dir EXCEPT ![FreeSlot] = NewEntry(name, isdir, c)]
     ELSE /\ vol' = FreeChain(AfterAllocate(vol), c)
          /\ UNCHANGED dir

-----------------------------------------------------------------------------
(* fs_mount and fs_unmount, which closes every handle.                     *)
Mount ==
  /\ Quiet /\ ~vol.mounted
  /\ vol' = MountVolume(vol)
  /\ UNCHANGED <<dir, data, buf, handles, call>>

Unmount ==
  /\ Quiet /\ vol.mounted
  /\ vol' = UnmountVolume(vol)
  /\ handles' = [h \in Handles |-> Closed]
  /\ UNCHANGED <<dir, data, buf, call>>

-----------------------------------------------------------------------------
(* fs_open(p, m) returns handle r, or 0.                                   *)
Opened(h, isdir, first, size, name) ==
  handles' = [handles EXCEPT ![h] =
    [in_use |-> TRUE, is_directory |-> isdir, first |-> first, current |-> first,
     offset |-> 0, size |-> size, position |-> 0, name |-> name]]

OpenRefused(r) ==
  /\ ~vol.mounted \/ FreeHandle = 0
  /\ r = 0
  /\ UNCHANGED fsVars

OpenExisting(p, m, r) ==
  LET e == dir[Find(p)] IN
  /\ vol.mounted /\ FreeHandle # 0 /\ Find(p) # 0
  /\ r = FreeHandle
  /\ Opened(r, e.isdir, e.first, e.size, Reopened[e.name.name])
  /\ call' = IF m = "a" /\ ~e.isdir
             THEN [NoCall EXCEPT !.op = "seek", !.h = r, !.size = e.size] ELSE call
  /\ LoadDir
  /\ UNCHANGED <<vol, dir, data>>

OpenMissing(p, m, r) ==
  /\ vol.mounted /\ FreeHandle # 0 /\ Find(p) = 0
  /\ m = "r" \/ Allocated(vol) = 0
  /\ r = 0
  /\ LoadDir
  /\ UNCHANGED <<vol, dir, data, handles, call>>

OpenCreate(p, m, r) ==
  LET name == To83[p.text] IN
  /\ vol.mounted /\ FreeHandle # 0 /\ Find(p) = 0 /\ m \in {"w", "a"}
  /\ \E ok \in BOOLEAN :
       /\ EnterNew([slash |-> FALSE, name |-> name], FALSE, Zeroes, ok)
       /\ r = IF ok THEN FreeHandle ELSE 0
       /\ IF ok THEN Opened(r, FALSE, Allocated(vol), 0, name) ELSE UNCHANGED handles
  /\ LoadDir
  /\ UNCHANGED call

Open(p, m, r) ==
  /\ Quiet
  /\ \/ OpenRefused(r) \/ OpenExisting(p, m, r)
     \/ OpenMissing(p, m, r) \/ OpenCreate(p, m, r)

Close(h) ==
  /\ Quiet
  /\ handles' = [handles EXCEPT ![h] = Closed]
  /\ UNCHANGED <<vol, dir, data, buf, call>>

-----------------------------------------------------------------------------
(* The three loops share how they go through a cluster: `moved' cells on,  *)
(* to the next cluster of table `v' when this one is exhausted.            *)
Least(a, b) == IF a < b THEN a ELSE b

Chunk(h) == Least(call.size - call.done, ClusterCells - h.offset)

(* Mutants: the handle stays at the end of a cluster it has exhausted; the *)
(* clusters of a file are taken to be consecutive.                         *)
AdvancedLate(v, h, moved) == [h EXCEPT !.position = @ + moved, !.offset = @ + moved]

AdvancedConsecutive(v, h, moved) ==
  LET full == h.offset + moved >= ClusterCells IN
  [h EXCEPT !.position = @ + moved,
            !.offset   = IF full THEN 0 ELSE @ + moved,
            !.current  = IF full THEN @ + 1 ELSE @]

Advanced(v, h, moved) ==
  LET full == h.offset + moved >= ClusterCells IN
  [h EXCEPT !.position = @ + moved,
            !.offset   = IF full THEN 0 ELSE @ + moved,
            !.current  = IF full THEN ReadEntry(v, @) ELSE @]

(* Mutants: only the first cluster of a call is loaded; none is.           *)
LoadedOnce(c, offset) == IF offset = 0 /\ call.done = 0 THEN data[c] ELSE buf

LoadedNever(c, offset) == buf

(* g_cluster_buffer as the loops of fs_read and fs_write use it: the       *)
(* cluster is loaded when the position is at its beginning, and is taken   *)
(* to be in the buffer otherwise.                                          *)
Loaded(c, offset) == IF offset = 0 THEN data[c] ELSE buf

InLoop(op) == call.op = op /\ call.done < call.size
Returns(op) == call.op = op /\ call' = NoCall

-----------------------------------------------------------------------------
(* fs_read(h, ., n): refused on closed handles and directories, nothing at *)
(* the end of the file.                                                    *)
Readable(h) ==
  LET f == handles[h] IN f.in_use /\ ~f.is_directory /\ f.position < f.size

ReadNothing(h) == Quiet /\ ~Readable(h) /\ UNCHANGED fsVars

ReadBegin(h, n) ==
  /\ Quiet /\ Readable(h)
  /\ call' = [NoCall EXCEPT !.op = "read", !.h = h,
                            !.size = Least(n, handles[h].size - handles[h].position)]
  /\ UNCHANGED <<vol, dir, data, buf, handles>>

ReadStep ==
  LET f == handles[call.h]
      k == Chunk(f)
      b == Loaded(f.current, f.offset)
  IN
  /\ InLoop("read") /\ f.current \in Clusters
  /\ buf' = b
  /\ handles' = [handles EXCEPT ![call.h] = Advanced(vol, f, k)]
  /\ call' = [call EXCEPT !.done = @ + k,
                          !.data = @ \o [i \in 1 .. k |-> b[f.offset + i]]]
  /\ UNCHANGED <<vol, dir, data>>

ReadReturn(out) ==
  /\ Returns("read")
  /\ ~(InLoop("read") /\ handles[call.h].current \in Clusters)
  /\ out = call.data
  /\ UNCHANGED <<vol, dir, data, buf, handles>>

-----------------------------------------------------------------------------
(* fs_write(h, text): refused on closed handles and directories.           *)
Writable(h) == handles[h].in_use /\ ~handles[h].is_directory

WriteNothing(h) == Quiet /\ ~Writable(h) /\ UNCHANGED fsVars

WriteBegin(h, text) ==
  /\ Quiet /\ Writable(h)
  /\ call' = [NoCall EXCEPT !.op = "write", !.h = h,
                            !.size = Len(text), !.data = text]
  /\ UNCHANGED <<vol, dir, data, buf, handles>>

(* The cluster of this iteration, the table and the handle's first cluster *)
(* once it is found: `last' is where the walk from the first cluster to    *)
(* the end of the chain stops.  If the chain is cyclic there is no such    *)
(* cluster and the loop of the code never ends: the step cannot be taken.  *)
Extends(f) == f.current \notin Clusters

Linked(f, last) ==
  IF f.first \in Clusters THEN WriteEntry(AfterAllocate(vol), last, Allocated(vol))
                          ELSE AfterAllocate(vol)

(* Mutant: the size does not grow with the position.                       *)
StoreChunkSizeKept(f, v, k) ==
  /\ buf' = [i \in Offsets |-> IF i \in f.offset + 1 .. f.offset + k
                               THEN call.data[call.done + i - f.offset]
                               ELSE Loaded(f.current, f.offset)[i]]
  /\ data' = [data EXCEPT ![f.current] = buf']
  /\ handles' = [handles EXCEPT ![call.h] = Advanced(v, f, k)]
  /\ call' = [call EXCEPT !.done = @ + k]
  /\ vol' = v

StoreChunk(f, v, k) ==
  LET b == [i \in Offsets |-> IF i \in f.offset + 1 .. f.offset + k
                              THEN call.data[call.done + i - f.offset]
                              ELSE Loaded(f.current, f.offset)[i]]
      g == Advanced(v, f, k)
  IN
  /\ buf' = b
  /\ data' = [data EXCEPT ![f.current] = b]
  /\ handles' = [handles EXCEPT ![call.h] =
                   [g EXCEPT !.size = IF g.position > @ THEN g.position ELSE @]]
  /\ call' = [call EXCEPT !.done = @ + k]
  /\ vol' = v

WriteInPlace ==
  LET f == handles[call.h] IN
  /\ InLoop("write") /\ ~Extends(f)
  /\ StoreChunk(f, vol, Chunk(f))
  /\ UNCHANGED dir

WriteExtending ==
  LET f == handles[call.h]
      c == Allocated(vol)
      g == [f EXCEPT !.first = IF @ \in Clusters THEN @ ELSE c, !.current = c, !.offset = 0]
  IN
  /\ InLoop("write") /\ Extends(f) /\ c # 0
  /\ \E last \in First :
       /\ f.first \in Clusters => IsLastOf(AfterAllocate(vol), f.first, last)
       /\ f.first \notin Clusters => last = Free
       /\ StoreChunk(g, Linked(f, last), Chunk(g))
  /\ UNCHANGED dir

(* Mutants: the first entry in use gets the size; the size counts what was *)
(* asked for, also when the disk is full.                                  *)
WriteReturnFirst(n) ==
  /\ Returns("write")
  /\ ~InLoop("write") \/ (Extends(handles[call.h]) /\ Allocated(vol) = 0)
  /\ n = call.done
  /\ dir' = [dir EXCEPT ![Min({i \in Slots : dir[i].st = "used"})].size = handles[call.h].size]
  /\ LoadDir
  /\ UNCHANGED <<vol, data, handles>>

WriteReturnAsked(n) ==
  LET f == handles[call.h]
      i == Lookup([slash |-> FALSE, name |-> f.name])
  IN
  /\ Returns("write")
  /\ ~InLoop("write") \/ (Extends(f) /\ Allocated(vol) = 0)
  /\ n = call.done
  /\ dir' = IF i = 0 THEN dir ELSE [dir EXCEPT ![i].size = f.position + call.size - call.done]
  /\ LoadDir
  /\ UNCHANGED <<vol, data, handles>>

(* The loop is over, or no cluster is left.  update_file_size looks the    *)
(* file up by the handle's name and sets the size of the entry it finds.   *)
WriteReturn(n) ==
  LET f == handles[call.h]
      i == Lookup([slash |-> FALSE, name |-> f.name])
  IN
  /\ Returns("write")
  /\ ~InLoop("write") \/ (Extends(f) /\ Allocated(vol) = 0)
  /\ n = call.done
  /\ dir' = IF i = 0 THEN dir ELSE [dir EXCEPT ![i].size = f.size]
  /\ LoadDir
  /\ UNCHANGED <<vol, data, handles>>

-----------------------------------------------------------------------------
(* fs_seek(h, position)                                                    *)
SeekBegin(h, position) ==
  LET f == handles[h] IN
  /\ Quiet /\ Writable(h)
  /\ call' = [NoCall EXCEPT !.op = "seek", !.h = h, !.size = Least(position, f.size)]
  /\ handles' = [handles EXCEPT ![h] =
                   [f EXCEPT !.current = f.first, !.offset = 0, !.position = 0]]
  /\ UNCHANGED <<vol, dir, data, buf>>

SeekStep ==
  LET f == handles[call.h] IN
  /\ InLoop("seek") /\ f.current \in Clusters
  /\ handles' = [handles EXCEPT ![call.h] = Advanced(vol, f, Chunk(f))]
  /\ call' = [call EXCEPT !.done = @ + Chunk(f)]
  /\ UNCHANGED <<vol, dir, data, buf>>

SeekReturn ==
  /\ Returns("seek")
  /\ ~(InLoop("seek") /\ handles[call.h].current \in Clusters)
  /\ UNCHANGED <<vol, dir, data, buf, handles>>

Iterate == ReadStep \/ WriteInPlace \/ WriteExtending \/ SeekStep

-----------------------------------------------------------------------------
(* fs_exists(p), and fs_get_file_size, fs_list_directory, which load the   *)
(* directory just the same.                                                *)
Exists(p, r) ==
  /\ Quiet
  /\ r = (vol.mounted /\ Find(p) # 0)
  /\ IF vol.mounted THEN LoadDir ELSE UNCHANGED buf
  /\ UNCHANGED <<vol, dir, data, handles, call>>

(* Mutant: the name is not looked up.                                      *)
MkdirUnchecked(p, r) ==
  /\ Quiet /\ vol.mounted
  /\ EnterNew([slash |-> p.abs, name |-> To83[p.text]], TRUE, Dots, r)
  /\ LoadDir
  /\ UNCHANGED <<handles, call>>

(* fs_mkdir(p) looks p up without its '/', and stores it with it.          *)
Mkdir(p, r) ==
  /\ Quiet
  /\ \/ /\ ~vol.mounted \/ Find(p) # 0 \/ Allocated(vol) = 0
        /\ r = FALSE
        /\ UNCHANGED <<vol, dir, data>>
     \/ /\ vol.mounted /\ Find(p) = 0
        /\ EnterNew([slash |-> p.abs, name |-> To83[p.text]], TRUE, Dots, r)
  /\ IF vol.mounted THEN LoadDir ELSE UNCHANGED buf
  /\ UNCHANGED <<handles, call>>

(* Mutant: the entry is marked as the last one.                            *)
EraseEnding(i) ==
  vol' = FreeChain(vol, dir[i].first) /\ dir' = [dir EXCEPT ![i] = Blank("end")]

(* fs_delete and fs_rmdir free the clusters, then mark the entry.          *)
Erase(i) ==
  /\ vol' = FreeChain(vol, dir[i].first)
  /\ dir' = [dir EXCEPT ![i] = Blank("deleted")]

Delete(p, r) ==
  /\ Quiet
  /\ r = (vol.mounted /\ Find(p) # 0 /\ ~dir[Find(p)].isdir)
  /\ IF r THEN Erase(Find(p)) ELSE UNCHANGED <<vol, dir>>
  /\ IF vol.mounted THEN LoadDir ELSE UNCHANGED buf
  /\ UNCHANGED <<data, handles, call>>

EmptyDir(c) == c \in Clusters /\ \A i \in Offsets : data[c][i] \in {"zero", "dots"}

Rmdir(p, r) ==
  LET found == vol.mounted /\ Find(p) # 0 /\ dir[Find(p)].isdir
      c == dir[Find(p)].first
  IN
  /\ Quiet
  /\ r = (found /\ EmptyDir(c))
  /\ IF r THEN Erase(Find(p)) ELSE UNCHANGED <<vol, dir>>
  /\ buf' = IF found /\ ~r /\ c \in Clusters THEN data[c]
            ELSE IF vol.mounted THEN DirImage ELSE buf
  /\ UNCHANGED <<data, handles, call>>

Rename(p, q, r) ==
  /\ Quiet
  /\ r = (vol.mounted /\ Find(q) = 0 /\ Find(p) # 0)
  /\ dir' = IF r THEN [dir EXCEPT ![Find(p)].name.name = To83[q.text]] ELSE dir
  /\ IF vol.mounted THEN LoadDir ELSE UNCHANGED buf
  /\ UNCHANGED <<vol, data, handles, call>>

-----------------------------------------------------------------------------
(* Every part of the state is of its type, and the loop that runs has a    *)
(* handle, and when it writes, all it is to write in its buffer.           *)
FsTypeOK ==
  /\ vol \in Volume
  /\ dir \in [Slots -> Entry]
  /\ data \in [Clusters -> [Offsets -> Cell]]
  /\ buf \in [Offsets -> Cell]
  /\ handles \in [Handles -> Handle]
  /\ call \in Call
  /\ call.op # "none" => call.h \in Handles
  /\ call.op = "write" => call.size = Len(call.data)

(* The hint of fat32_allocate_cluster never passes over a free cluster, so *)
(* an allocation that fails while clusters are counted free finds none:    *)
(* fs_open, fs_write, fs_mkdir, fs_delete and fs_rmdir keep it so in any   *)
(* order, through every mount.                                             *)
HintTight == Tight(vol)

(* The cluster of the root directory is neither freed, nor given to a      *)
(* file, nor linked to from one, whatever the stale handles callers hold.  *)
RootKept ==
  /\ vol.fat[Root] # Free
  /\ \A c \in Clusters : vol.fat[c] # Root
  /\ \A i \in Slots : dir[i].first # Root
  /\ \A h \in Handles : Root \notin {handles[h].first, handles[h].current}

-----------------------------------------------------------------------------
UsedSlots == {i \in Slots : dir[i].st = "used"}
ChainOf(i) == Reach(vol.fat, dir[i].first)

(* The chain of every entry runs over allocated clusters to an end of      *)
(* chain, and no cluster is in the chains of two entries: even deleting,   *)
(* re-creating and extending files under open handles cross-links nothing. *)
ChainsSound ==
  \A i \in UsedSlots :
    /\ dir[i].first \in Clusters
    /\ \E c \in ChainOf(i) : vol.fat[c] = Eoc
    /\ Root \notin ChainOf(i)
    /\ \A j \in UsedSlots \ {i} : ChainOf(i) \cap ChainOf(j) = {}

(* While the volume stays mounted, free_clusters moves by exactly the      *)
(* number of clusters that become free or in use: no call loses or counts  *)
(* twice a cluster, the ones that fail half way included.                  *)
TrulyFree == Cardinality({c \in Clusters : vol.fat[c] = Free})
CountBalanced ==
  [][vol.mounted /\ vol'.mounted =>
       TrulyFree' - vol'.free_clusters = TrulyFree - vol.free_clusters]_fsVars

(* Every entry in use can be found by its name: no entry hides behind an   *)
(* END entry, and the paths without a leading '/' name at most one.        *)
EntriesFindable ==
  \A i \in UsedSlots : ~dir[i].name.slash => Lookup(dir[i].name) = i
=============================================================================
