------------------------------- MODULE Shell -------------------------------
(***************************************************************************)
(* The shell commands of src/commands/ that use the FAT32 filesystem, one  *)
(* filesystem call a step: write, touch, echo with > and >>, cp, mv, rm,   *)
(* read, wc, mkdir, mount and unmount.  The main loop of the kernel runs   *)
(* one command to its end before it takes the next line.  While the        *)
(* filesystem is unmounted the file commands work on the older in-memory   *)
(* tree, which this module leaves out.                                     *)
(***************************************************************************)
EXTENDS FatFS

CONSTANTS
  Commands,  \* the commands users enter
  Lines,     \* what users give write and echo to write, never empty
  Newline,   \* the cell of the "\n" echo adds
  CopyChunk, \* the 512-byte buffer of cp and wc
  ReadChunk  \* the 1023 bytes read asks for

ASSUME ShellAssumption ==
  /\ Newline \in Byte /\ Lines \subseteq Seq(Byte)
  /\ CopyChunk \in Nat \ {0} /\ ReadChunk \in Nat \ {0}

VARIABLE cmd \* the command that runs

shellVars == <<fsVars, cmd>>

Ops == {"none", "write", "touch", "echo", "append", "cp", "mv", "rm", "mkdir", "read", "wc"}
Steps == {"prompt", "check", "checkdst", "act", "opensrc", "opendst", "get", "getting",
          "put", "putting", "closesrc", "closedst"}

(* p and q are the arguments, text what write was given; todo is what is   *)
(* left to write, shown what read has put on the screen.                   *)
Command == [op : Ops, at : Steps, p : Path, q : Path, src : 0 .. NumHandles,
            dst : 0 .. NumHandles, text : Seq(Cell), todo : Seq(Seq(Cell)), shown : Seq(Cell)]

Prompt == cmd.op = "none"

AnyPath == CHOOSE p \in Path : ~p.abs
Idle == [op |-> "none", at |-> "prompt", p |-> AnyPath, q |-> AnyPath, src |-> 0,
         dst |-> 0, text |-> <<>>, todo |-> <<>>, shown |-> <<>>]

ShellInit == FsInit /\ cmd = Idle

-----------------------------------------------------------------------------
(* The user enters a command line.                                         *)
Enter(op, at, p, q, text, todo) ==
  /\ Prompt /\ vol.mounted /\ op \in Commands
  /\ cmd' = [Idle EXCEPT !.op = op, !.at = at, !.p = p, !.q = q, !.text = text, !.todo = todo]
  /\ UNCHANGED fsVars

(* Only mkdir tells a path with a leading '/' from one without.            *)
Relative == {p \in Path : ~p.abs}

UserTypes ==
  \/ \E p \in Relative, line \in Lines :
       \/ Enter("write", "opendst", p, AnyPath, line, <<line>>)
       \/ \E op \in {"echo", "append"} :
            Enter(op, "opendst", p, AnyPath, line, <<line, <<Newline>>>>)
  \/ \E p \in Relative :
       \/ Enter("write", "opendst", p, AnyPath, <<>>, <<>>)
       \/ Enter("read", "opensrc", p, AnyPath, <<>>, <<>>)
       \/ \E op \in {"touch", "rm", "wc"} : Enter(op, "check", p, AnyPath, <<>>, <<>>)
       \/ \E q \in Relative, op \in {"mv", "cp"} : Enter(op, "check", p, q, <<>>, <<>>)
  \/ \E p \in Path : Enter("mkdir", "check", p, AnyPath, <<>>, <<>>)

UserMounts == Prompt /\ (Mount \/ Unmount) /\ UNCHANGED cmd

-----------------------------------------------------------------------------
Finish == cmd' = Idle
Goto(step) == cmd' = [cmd EXCEPT !.at = step]

(* The commands that want their argument to exist give up when it does     *)
(* not, the others when it does.                                           *)
WantsExisting == cmd.op \in {"rm", "mv", "cp", "wc"}

AfterCheck ==
  CASE cmd.op = "touch"         -> "opendst"
    [] cmd.op \in {"rm", "mkdir"} -> "act"
    [] cmd.op = "wc"            -> "opensrc"
    [] OTHER                    -> "checkdst"

Check ==
  /\ cmd.at = "check"
  /\ \E r \in BOOLEAN :
       /\ Exists(cmd.p, r)
       /\ IF r = WantsExisting THEN Goto(AfterCheck) ELSE Finish

CheckDst ==
  /\ cmd.at = "checkdst"
  /\ \E r \in BOOLEAN :
       /\ Exists(cmd.q, r)
       /\ IF r THEN Finish ELSE Goto(IF cmd.op = "mv" THEN "act" ELSE "opensrc")

(* The commands that end in one call, whatever it answers.                 *)
Act ==
  /\ cmd.at = "act"
  /\ \E r \in BOOLEAN :
       \/ cmd.op = "rm" /\ Delete(cmd.p, r)
       \/ cmd.op = "mkdir" /\ Mkdir(cmd.p, r)
       \/ cmd.op = "mv" /\ Rename(cmd.p, cmd.q, r)
  /\ Finish

-----------------------------------------------------------------------------
OpenSrc ==
  /\ cmd.at = "opensrc"
  /\ \E r \in 0 .. NumHandles :
       /\ Open(cmd.p, "r", r)
       /\ IF r = 0 THEN Finish
          ELSE cmd' = [cmd EXCEPT !.src = r,
                 !.at = CASE cmd.op = "cp" -> "opendst"
                          [] cmd.op = "read" /\ handles'[r].is_directory -> "closesrc"
                          [] OTHER -> "get"]

(* Mutant: cp returns with its source open when it cannot create.          *)
OpenDstReturning ==
  /\ cmd.at = "opendst" /\ cmd.op = "cp"
  /\ \E r \in 0 .. NumHandles :
       /\ Open(cmd.q, "w", r)
       /\ IF r = 0 THEN Finish ELSE cmd' = [cmd EXCEPT !.dst = r, !.at = "get"]

(* write, touch and echo open their file here, cp its destination.         *)
OpenDst ==
  /\ cmd.at = "opendst"
  /\ \E r \in 0 .. NumHandles :
       /\ Open(IF cmd.op = "cp" THEN cmd.q ELSE cmd.p,
               IF cmd.op = "append" THEN "a" ELSE "w", r)
       /\ IF r = 0
          THEN IF cmd.op = "cp" THEN Goto("closesrc") ELSE Finish
          ELSE cmd' = [cmd EXCEPT !.dst = r,
                 !.at = CASE cmd.op = "cp" -> "get"
                          [] cmd.op # "cp" /\ cmd.todo = <<>> -> "closedst"
                          [] OTHER -> "put"]

Get ==
  /\ cmd.at = "get"
  /\ \/ ReadBegin(cmd.src, IF cmd.op = "read" THEN ReadChunk ELSE CopyChunk) /\ Goto("getting")
     \/ ReadNothing(cmd.src) /\ Goto("closesrc")

Getting ==
  /\ cmd.at = "getting"
  /\ ReadReturn(call.data)
  /\ cmd' = IF call.data = <<>> THEN [cmd EXCEPT !.at = "closesrc"]
            ELSE CASE cmd.op = "cp"   -> [cmd EXCEPT !.at = "put", !.todo = <<call.data>>]
                   [] cmd.op = "read" -> [cmd EXCEPT !.at = "get", !.shown = @ \o call.data]
                   [] OTHER           -> [cmd EXCEPT !.at = "get"]

(* cp gives up when less was written than it asked for; write and echo do  *)
(* not look.                                                               *)
Wrote(n) ==
  cmd' = [cmd EXCEPT !.todo = Tail(@),
            !.at = CASE cmd.op = "cp" -> IF n = Len(Head(cmd.todo)) THEN "get" ELSE "closesrc"
                     [] cmd.op # "cp" /\ Len(cmd.todo) = 1 -> "closedst"
                     [] OTHER -> "put"]

Put ==
  /\ cmd.at = "put"
  /\ \/ WriteBegin(cmd.dst, Head(cmd.todo)) /\ Goto("putting")
     \/ WriteNothing(cmd.dst) /\ Wrote(0)

Putting == cmd.at = "putting" /\ WriteReturn(call.done) /\ Wrote(call.done)

CloseSrc ==
  /\ cmd.at = "closesrc"
  /\ Close(cmd.src)
  /\ IF cmd.dst # 0 THEN Goto("closedst") ELSE Finish

CloseDst == cmd.at = "closedst" /\ Close(cmd.dst) /\ Finish

-----------------------------------------------------------------------------
InCall == (Iterate \/ SeekReturn) /\ UNCHANGED cmd

CommandStep ==
  \/ Check \/ CheckDst \/ Act \/ OpenSrc \/ OpenDst \/ Get \/ Getting
  \/ Put \/ Putting \/ CloseSrc \/ CloseDst \/ InCall

ShellNext == UserTypes \/ UserMounts \/ CommandStep

(* A command that runs has the processor; the user may type nothing.       *)
ShellSpec == ShellInit /\ [][ShellNext]_shellVars /\ WF_shellVars(CommandStep)

-----------------------------------------------------------------------------
(* Every part of the state is of its type.                                 *)
ShellTypeOK == FsTypeOK /\ cmd \in Command

(* A command closes what it opened, on every path out of it; a handle that *)
(* is open is the running command's and stands for an entry that is still  *)
(* in the directory: between commands none of the 32 handles is in use.    *)
HandlesLive ==
  \A h \in Handles : handles[h].in_use =>
    /\ h \in {cmd.src, cmd.dst}
    /\ \E i \in UsedSlots : dir[i].first = handles[h].first

(* Between commands every allocated cluster belongs to the root directory  *)
(* or to the chain of an entry: a command that fails half way (directory   *)
(* full, no cluster left in the middle of a write or a copy) leaks none.   *)
NoClusterLeaked ==
  Prompt => {c \in Clusters : vol.fat[c] # Free}
              = {Root} \cup UNION {ChainOf(i) : i \in UsedSlots}

(* The size of an entry never exceeds what its chain can hold, so reading  *)
(* a file never stops before its end.                                      *)
SizeCovered ==
  \A i \in UsedSlots : dir[i].size <= ClusterCells * Cardinality(ChainOf(i))

-----------------------------------------------------------------------------
(* Cell k of the file of entry i, k counted from 1.                        *)
CellAt(i, k) ==
  LET left == Cardinality(ChainOf(i)) - (k - 1) \div ClusterCells
      c == CHOOSE x \in ChainOf(i) : Cardinality(Reach(vol.fat, x)) = left
  IN  data[c][((k - 1) % ClusterCells) + 1]

(* The names whose entries the running command may change.                 *)
Plain(p) == [slash |-> FALSE, name |-> To83[p.text]]
Targets == CASE cmd.op \in {"write", "echo", "append", "rm", "mv"} -> {Plain(cmd.p)}
             [] cmd.op = "cp" -> {Plain(cmd.q)}
             [] OTHER -> {}

(* No command, no mount and no unmount changes the entry, the clusters or  *)
(* the contents of a file or directory other than the one it was asked to  *)
(* write, delete or rename, however many clusters change hands.            *)
FileState(i) == <<dir[i], [c \in ChainOf(i) |-> <<vol.fat[c], data[c]>>]>>

FilesIsolated ==
  [][\A i \in UsedSlots : dir[i].name \notin Targets => FileState(i)' = FileState(i)]_shellVars

(* What read gets from a regular file is the file, cell by cell and in     *)
(* order, over all of its clusters, though the chunks it asks for straddle *)
(* clusters and the cluster is loaded only at its beginning.               *)
ReadGetsFile ==
  cmd.op = "read" /\ cmd.at = "closesrc" /\ ~handles[cmd.src].is_directory =>
    LET i == Find(cmd.p) IN cmd.shown = [k \in 1 .. dir[i].size |-> CellAt(i, k)]

(* When write has written what it could, the file begins with it and its   *)
(* entry covers it, over all of its clusters and also when the disk was    *)
(* full before the end.                                                    *)
WriteStored ==
  cmd.op = "write" /\ cmd.at = "closedst" =>
    LET i == Find(cmd.p) IN
    \A k \in 1 .. handles[cmd.dst].position :
      k <= dir[i].size /\ CellAt(i, k) = cmd.text[k]

(* cp of a file of at most one chunk makes a copy when the disk does not   *)
(* run full.                                                               *)
SmallCopyEqual ==
  cmd.op = "cp" /\ cmd.at = "closedst" =>
    LET i == Find(cmd.p)
        j == Find(cmd.q)
    IN  dir[i].size <= CopyChunk /\ dir[j].size = dir[i].size =>
          \A k \in 1 .. dir[i].size : CellAt(j, k) = CellAt(i, k)

(* Every command comes back to the prompt: in particular the walk of       *)
(* fs_write along a chain always ends.                                     *)
CommandsReturn == ~Prompt ~> Prompt

-----------------------------------------------------------------------------
(* "// Append to file" (src/commands/echo.c): echo with >> leaves what was *)
(* in the file as it was.                                                  *)
AppendKeepsFile ==
  [][cmd.op = "append" =>
       \A i \in UsedSlots : \A k \in 1 .. dir[i].size : CellAt(i, k)' = CellAt(i, k)]_shellVars

(* "// Count free clusters" (fs_mount), "Number of free clusters"          *)
(* (filesystem.h): a mounted volume knows how many of its clusters are     *)
(* free.                                                                   *)
FreeClustersCounted == vol.mounted => vol.free_clusters = TrulyFree
=============================================================================
