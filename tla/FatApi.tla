------------------------------- MODULE FatApi -------------------------------
(***************************************************************************)
(* The filesystem API under any caller: its functions called in any order, *)
(* with any handle, several handles open at once on one file, files        *)
(* deleted and renamed and the volume unmounted under an open handle.      *)
(***************************************************************************)
EXTENDS FatFS

CONSTANTS
  Paths,     \* the paths callers use
  Opens,     \* those of them they give to fs_open
  Contents,  \* what they write with one fs_write
  ReadSizes, \* what they ask of one fs_read
  MaxSize    \* bound: they write while a handle is below it

ASSUME CallersAssumption ==
  /\ Paths \subseteq Path /\ Opens \subseteq Path /\ Contents \subseteq Seq(Cell)
  /\ ReadSizes \subseteq Nat /\ MaxSize \in Nat

Modes == {"r", "w", "a"}

DirectoryCall ==
  \E p \in Paths, r \in BOOLEAN :
    \/ Exists(p, r) \/ Mkdir(p, r) \/ Delete(p, r) \/ Rmdir(p, r)
    \/ \E q \in Paths : Rename(p, q, r)

HandleCall ==
  \E h \in Handles :
    \/ \E p \in Opens, m \in Modes : Open(p, m, h)
    \/ handles[h].in_use /\ Close(h)
    \/ \E n \in ReadSizes : ReadBegin(h, n)
    \/ \E text \in Contents : handles[h].position < MaxSize /\ WriteBegin(h, text)
    \/ \E n \in ReadSizes : SeekBegin(h, n)

(* Calls that are refused; they may still load the directory.              *)
Refusal ==
  \/ \E p \in Opens, m \in Modes : Open(p, m, 0)
  \/ \E h \in Handles : ReadNothing(h) \/ WriteNothing(h)

LoopReturn == ReadReturn(call.data) \/ WriteReturn(call.done) \/ SeekReturn

FsNext ==
  \/ Mount \/ Unmount
  \/ DirectoryCall \/ HandleCall \/ Refusal
  \/ Iterate \/ LoopReturn

FsSpec == FsInit /\ [][FsNext]_fsVars
=============================================================================
