---------------------------- MODULE Shell_proofs ----------------------------
(***************************************************************************)
(* The invariants of FatFS carry over to the shell, and the type of the    *)
(* running command: at every call it makes, it has the handle and the text *)
(* that the call needs.                                                    *)
(***************************************************************************)
EXTENDS Shell, FatFS_proofs

(* What a command holds when it is about to make, or makes, a call.        *)
HoldsSrc(c) ==
  \/ c.at \in {"get", "getting", "closesrc"}
  \/ c.op = "cp" /\ c.at \in {"opendst", "put", "putting"}
HoldsDst(c) ==
  \/ c.at \in {"put", "putting", "closedst"}
  \/ c.op = "cp" /\ c.at \in {"get", "getting"}

CmdInv(c) ==
  /\ c \in Command
  /\ HoldsSrc(c) => c.src \in Handles
  /\ HoldsDst(c) => c.dst \in Handles
  /\ c.at \in {"put", "putting"} => c.todo # <<>>

ShellInv == FsInv /\ CmdInv(cmd)

-----------------------------------------------------------------------------
LEMMA ShellConstants ==
  /\ AnyPath \in Path /\ Relative \subseteq Path
  /\ \A r : r \in 0 .. NumHandles /\ r # 0 <=> r \in Handles
  /\ Lines \subseteq Seq(Cell) /\ Newline \in Cell
  /\ CopyChunk \in Nat /\ ReadChunk \in Nat
<1>1. Byte \subseteq Cell
  BY DEF Cell
<1>2. Lines \subseteq Seq(Cell) /\ Newline \in Cell /\ CopyChunk \in Nat /\ ReadChunk \in Nat
  BY <1>1, ShellAssumption
<1>3. \A r : r \in 0 .. NumHandles /\ r # 0 <=> r \in Handles
  BY SizesAssumption DEF Handles
<1>4. PICK t \in Text : TRUE
  BY NamesAssumption
<1>5. [abs |-> FALSE, text |-> t] \in Path /\ ~[abs |-> FALSE, text |-> t].abs
  BY <1>4 DEF Path
<1>6. AnyPath \in Path
  BY <1>5 DEF AnyPath
<1>7. QED
  BY <1>2, <1>3, <1>6 DEF Relative

LEMMA IdleInv == CmdInv(Idle)
<1>1. 0 \in 0 .. NumHandles /\ <<>> \in Seq(Cell) /\ <<>> \in Seq(Seq(Cell))
  BY SizesAssumption
<1>2. AnyPath \in Path /\ "none" \in Ops /\ "prompt" \in Steps
  BY ShellConstants DEF Ops, Steps
<1>3. Idle \in Command
  BY <1>1, <1>2 DEF Idle, Command
<1>4. QED
  BY <1>3 DEF CmdInv, HoldsSrc, HoldsDst, Idle

(* A command goes on to a step for which it holds what it needs.           *)
LEMMA GotoInv ==
  ASSUME CmdInv(cmd), NEW step \in Steps, Goto(step),
         HoldsSrc([cmd EXCEPT !.at = step]) => cmd.src \in Handles,
         HoldsDst([cmd EXCEPT !.at = step]) => cmd.dst \in Handles,
         step \in {"put", "putting"} => cmd.todo # <<>>
  PROVE  CmdInv(cmd')
<1>1. cmd \in Command /\ cmd' = [cmd EXCEPT !.at = step]
  BY DEF CmdInv, Goto
<1>2. cmd' \in Command
  BY <1>1 DEF Command
<1>3. cmd'.src = cmd.src /\ cmd'.dst = cmd.dst /\ cmd'.todo = cmd.todo /\ cmd'.at = step
  BY <1>1 DEF Command
<1>4. QED
  BY <1>1, <1>2, <1>3 DEF CmdInv

-----------------------------------------------------------------------------
LEMMA UserInv == ShellInv /\ (UserTypes \/ UserMounts) => ShellInv'
<1> SUFFICES ASSUME ShellInv, UserTypes \/ UserMounts PROVE ShellInv'
  OBVIOUS
<1>1. ASSUME NEW op \in Ops, NEW at \in {"opendst", "opensrc", "check"}, NEW p \in Path,
             NEW q \in Path, NEW text \in Seq(Cell), NEW todo \in Seq(Seq(Cell)),
             Enter(op, at, p, q, text, todo), at = "opendst" => op # "cp"
      PROVE  ShellInv'
  <2>1. cmd' = [Idle EXCEPT !.op = op, !.at = at, !.p = p, !.q = q, !.text = text,
                            !.todo = todo]
    BY <1>1 DEF Enter
  <2>2. at \in Steps /\ Idle \in Command
    BY IdleInv DEF Steps, CmdInv
  <2>3. cmd' \in Command /\ cmd'.op = op /\ cmd'.at = at
    BY <2>1, <2>2 DEF Command
  <2>4. CmdInv(cmd')
    BY <2>3, <1>1 DEF CmdInv, HoldsSrc, HoldsDst
  <2>5. FsInv'
    BY <1>1 DEF Enter, ShellInv, FsInv, fsVars
  <2>6. QED
    BY <2>4, <2>5 DEF ShellInv
<1>2. CASE UserTypes
  <2>1. <<>> \in Seq(Cell) /\ <<>> \in Seq(Seq(Cell)) /\ AnyPath \in Path
        /\ Relative \subseteq Path
    BY ShellConstants
  <2>2. ASSUME NEW line \in Lines
        PROVE  /\ line \in Seq(Cell) /\ <<line>> \in Seq(Seq(Cell))
               /\ <<line, <<Newline>>>> \in Seq(Seq(Cell))
    <3>1. line \in Seq(Cell) /\ <<Newline>> \in Seq(Cell)
      BY ShellConstants
    <3>2. QED
      BY <3>1
  <2>3. {"write", "read", "touch", "rm", "wc", "mv", "cp", "mkdir", "echo", "append"} \subseteq Ops
    BY DEF Ops
  <2>4. CASE \E p \in Relative, line \in Lines :
               \/ Enter("write", "opendst", p, AnyPath, line, <<line>>)
               \/ \E op \in {"echo", "append"} :
                    Enter(op, "opendst", p, AnyPath, line, <<line, <<Newline>>>>)
    BY <2>1, <2>2, <2>3, <2>4, <1>1
  <2>5. CASE \E p \in Relative :
               \/ Enter("write", "opendst", p, AnyPath, <<>>, <<>>)
               \/ Enter("read", "opensrc", p, AnyPath, <<>>, <<>>)
               \/ \E op \in {"touch", "rm", "wc"} : Enter(op, "check", p, AnyPath, <<>>, <<>>)
               \/ \E q \in Relative, op \in {"mv", "cp"} : Enter(op, "check", p, q, <<>>, <<>>)
    BY <2>1, <2>3, <2>5, <1>1
  <2>6. CASE \E p \in Path : Enter("mkdir", "check", p, AnyPath, <<>>, <<>>)
    BY <2>1, <2>3, <2>6, <1>1
  <2>7. QED
    BY <1>2, <2>4, <2>5, <2>6 DEF UserTypes
<1>3. CASE UserMounts
  BY <1>3, MountInv DEF UserMounts, ShellInv
<1>4. QED
  BY <1>2, <1>3

-----------------------------------------------------------------------------
LEMMA CheckInv == ShellInv /\ (Check \/ CheckDst) => ShellInv'
<1> SUFFICES ASSUME ShellInv, Check \/ CheckDst PROVE ShellInv'
  OBVIOUS
<1>1. PICK p, r : Exists(p, r)
  BY DEF Check, CheckDst
<1>2. FsInv'
  BY <1>1, ExistsInv DEF ShellInv
<1>3. \/ Finish
      \/ \E step \in {"opendst", "act", "opensrc", "checkdst"} :
           Goto(step) /\ (step = "opendst" => cmd.op # "cp")
  <2>1. CASE Check
    BY <2>1 DEF Check, AfterCheck
  <2>2. CASE CheckDst
    BY <2>2 DEF CheckDst
  <2>3. QED
    BY <2>1, <2>2
<1>4. CmdInv(cmd')
  <2>1. CASE Finish
    BY <2>1, IdleInv DEF Finish
  <2>2. ASSUME NEW step \in {"opendst", "act", "opensrc", "checkdst"}, Goto(step),
               step = "opendst" => cmd.op # "cp"
        PROVE  CmdInv(cmd')
    <3>1. step \in Steps /\ cmd \in Command
      BY DEF Steps, ShellInv, CmdInv
    <3>2. ~HoldsSrc([cmd EXCEPT !.at = step]) /\ ~HoldsDst([cmd EXCEPT !.at = step])
      BY <3>1, <2>2 DEF HoldsSrc, HoldsDst, Command
    <3>3. QED
      BY <3>1, <3>2, <2>2, GotoInv DEF ShellInv
  <2>3. QED
    BY <1>3, <2>1, <2>2
<1>5. QED
  BY <1>2, <1>4 DEF ShellInv

LEMMA ActInv == ShellInv /\ Act => ShellInv'
<1> SUFFICES ASSUME ShellInv, Act PROVE ShellInv'
  OBVIOUS
<1>1. cmd.p \in Path /\ cmd.q \in Path
  BY DEF ShellInv, CmdInv, Command
<1>2. FsInv'
  BY <1>1, DeleteInv, MkdirInv, RenameInv DEF Act, ShellInv
<1>3. CmdInv(cmd')
  BY IdleInv DEF Act, Finish
<1>4. QED
  BY <1>2, <1>3 DEF ShellInv

-----------------------------------------------------------------------------
LEMMA OpenSrcInv == ShellInv /\ OpenSrc => ShellInv'
<1> SUFFICES ASSUME ShellInv, OpenSrc PROVE ShellInv'
  OBVIOUS
<1>1. cmd \in Command /\ cmd.p \in Path
  BY DEF ShellInv, CmdInv, Command
<1>2. PICK r \in 0 .. NumHandles :
        /\ Open(cmd.p, "r", r)
        /\ IF r = 0 THEN Finish
           ELSE cmd' = [cmd EXCEPT !.src = r,
                  !.at = CASE cmd.op = "cp" -> "opendst"
                           [] cmd.op = "read" /\ handles'[r].is_directory -> "closesrc"
                           [] OTHER -> "get"]
  BY DEF OpenSrc
<1>3. FsInv'
  BY <1>1, <1>2, OpenInv DEF ShellInv
<1>4. CASE r = 0
  BY <1>2, <1>3, <1>4, IdleInv DEF Finish, ShellInv
<1>5. CASE r # 0
  <2>1. PICK step \in {"opendst", "closesrc", "get"} :
          /\ cmd' = [cmd EXCEPT !.src = r, !.at = step]
          /\ step = "get" => cmd.op # "cp"
    BY <1>2, <1>5
  <2>2. cmd' \in Command /\ cmd'.src = r /\ cmd'.at = step /\ cmd'.op = cmd.op
    BY <1>1, <2>1 DEF Command, Steps
  <2>3. r \in Handles
    BY <1>5, ShellConstants
  <2>4. CmdInv(cmd')
    BY <2>1, <2>2, <2>3 DEF CmdInv, HoldsSrc, HoldsDst
  <2>5. QED
    BY <1>3, <2>4 DEF ShellInv
<1>6. QED
  BY <1>4, <1>5

LEMMA OpenDstInv == ShellInv /\ OpenDst => ShellInv'
<1> SUFFICES ASSUME ShellInv, OpenDst PROVE ShellInv'
  OBVIOUS
<1>1. cmd \in Command /\ cmd.p \in Path /\ cmd.q \in Path /\ cmd.at = "opendst"
      /\ (cmd.op = "cp" => cmd.src \in Handles)
  BY DEF ShellInv, CmdInv, Command, HoldsSrc, OpenDst
<1>2. PICK r \in 0 .. NumHandles :
        /\ Open(IF cmd.op = "cp" THEN cmd.q ELSE cmd.p,
                IF cmd.op = "append" THEN "a" ELSE "w", r)
        /\ IF r = 0
           THEN IF cmd.op = "cp" THEN Goto("closesrc") ELSE Finish
           ELSE cmd' = [cmd EXCEPT !.dst = r,
                  !.at = CASE cmd.op = "cp" -> "get"
                           [] cmd.op # "cp" /\ cmd.todo = <<>> -> "closedst"
                           [] OTHER -> "put"]
  BY DEF OpenDst
<1>3. FsInv'
  <2>1. (IF cmd.op = "cp" THEN cmd.q ELSE cmd.p) \in Path
    BY <1>1
  <2>2. QED
    BY <1>2, <2>1, OpenInv DEF ShellInv
<1>4. CASE r = 0 /\ cmd.op # "cp"
  BY <1>2, <1>3, <1>4, IdleInv DEF Finish, ShellInv
<1>5. CASE r = 0 /\ cmd.op = "cp"
  <2>1. Goto("closesrc") /\ cmd.src \in Handles /\ "closesrc" \in Steps
    BY <1>1, <1>2, <1>5 DEF Steps
  <2>2. ~HoldsDst([cmd EXCEPT !.at = "closesrc"])
    BY <1>1 DEF HoldsDst, Command
  <2>3. CmdInv(cmd')
    BY <2>1, <2>2, GotoInv DEF ShellInv
  <2>4. QED
    BY <1>3, <2>3 DEF ShellInv
<1>6. CASE r # 0
  <2>1. PICK step \in {"get", "closedst", "put"} :
          /\ cmd' = [cmd EXCEPT !.dst = r, !.at = step]
          /\ step = "get" <=> cmd.op = "cp"
          /\ step = "put" => cmd.todo # <<>>
    <3>1. CASE cmd.op = "cp"
      BY <1>2, <1>6, <3>1
    <3>2. CASE cmd.op # "cp" /\ cmd.todo = <<>>
      BY <1>2, <1>6, <3>2
    <3>3. CASE cmd.op # "cp" /\ cmd.todo # <<>>
      BY <1>2, <1>6, <3>3
    <3>4. QED
      BY <3>1, <3>2, <3>3
  <2>2. /\ cmd' \in Command /\ cmd'.dst = r /\ cmd'.at = step
        /\ cmd'.op = cmd.op /\ cmd'.src = cmd.src /\ cmd'.todo = cmd.todo
    BY <1>1, <2>1 DEF Command, Steps
  <2>3. r \in Handles
    BY <1>6, ShellConstants
  <2>4. CmdInv(cmd')
    BY <1>1, <2>1, <2>2, <2>3 DEF CmdInv, HoldsSrc, HoldsDst
  <2>5. QED
    BY <1>3, <2>4 DEF ShellInv
<1>7. QED
  BY <1>4, <1>5, <1>6

-----------------------------------------------------------------------------
LEMMA GetInv == ShellInv /\ Get => ShellInv'
<1> SUFFICES ASSUME ShellInv, Get PROVE ShellInv'
  OBVIOUS
<1>1. /\ cmd \in Command /\ cmd.at = "get" /\ cmd.src \in Handles
      /\ cmd.op = "cp" => cmd.dst \in Handles
  BY DEF ShellInv, CmdInv, HoldsSrc, HoldsDst, Get
<1>2. PICK step \in {"getting", "closesrc"} : Goto(step)
  BY DEF Get
<1>3. FsInv'
  <2>1. (IF cmd.op = "read" THEN ReadChunk ELSE CopyChunk) \in Nat
    BY ShellConstants
  <2>2. QED
    BY <1>1, <2>1, ReadBeginInv, RefusedInv DEF Get, ShellInv
<1>4. step \in Steps
  BY DEF Steps
<1>5. HoldsDst([cmd EXCEPT !.at = step]) => cmd.op = "cp"
  BY <1>1 DEF HoldsDst, Command
<1>6. CmdInv(cmd')
  BY <1>1, <1>2, <1>4, <1>5, GotoInv DEF ShellInv
<1>7. QED
  BY <1>3, <1>6 DEF ShellInv

LEMMA GettingInv == ShellInv /\ Getting => ShellInv'
<1> SUFFICES ASSUME ShellInv, Getting PROVE ShellInv'
  OBVIOUS
<1>1. /\ cmd \in Command /\ cmd.at = "getting" /\ cmd.src \in Handles
      /\ cmd.op = "cp" => cmd.dst \in Handles
  BY DEF ShellInv, CmdInv, HoldsSrc, HoldsDst, Getting
<1>2. FsInv'
  BY ReadReturnInv DEF Getting, ShellInv
<1>3. call.data \in Seq(Cell)
  BY DEF ShellInv, FsInv, CallInv, Call
<1>4. PICK step \in {"closesrc", "put", "get"}, todo \in {cmd.todo, <<call.data>>},
           shown \in {cmd.shown, cmd.shown \o call.data} :
        /\ cmd' = [cmd EXCEPT !.at = step, !.todo = todo, !.shown = shown]
        /\ step = "put" => cmd.op = "cp" /\ todo = <<call.data>>
  <2>1. /\ cmd = [cmd EXCEPT !.todo = cmd.todo] /\ cmd = [cmd EXCEPT !.shown = cmd.shown]
        /\ \A step, todo : [cmd EXCEPT !.at = step, !.todo = todo]
                             = [cmd EXCEPT !.at = step, !.todo = todo, !.shown = cmd.shown]
        /\ \A step, shown : [cmd EXCEPT !.at = step, !.shown = shown]
                             = [cmd EXCEPT !.at = step, !.todo = cmd.todo, !.shown = shown]
        /\ \A step : [cmd EXCEPT !.at = step]
                       = [cmd EXCEPT !.at = step, !.todo = cmd.todo, !.shown = cmd.shown]
    BY <1>1 DEF Command
  <2>2. \/ \E step \in {"closesrc", "get"} : cmd' = [cmd EXCEPT !.at = step]
        \/ cmd.op = "cp" /\ cmd' = [cmd EXCEPT !.at = "put", !.todo = <<call.data>>]
        \/ cmd' = [cmd EXCEPT !.at = "get", !.shown = cmd.shown \o call.data]
    BY DEF Getting
  <2>3. CASE \E step \in {"closesrc", "get"} : cmd' = [cmd EXCEPT !.at = step]
    <3>1. PICK step \in {"closesrc", "get"} :
            cmd' = [cmd EXCEPT !.at = step, !.todo = cmd.todo, !.shown = cmd.shown]
      BY <2>1, <2>3
    <3>2. QED
      BY <3>1
  <2>4. CASE cmd.op = "cp" /\ cmd' = [cmd EXCEPT !.at = "put", !.todo = <<call.data>>]
    <3>1. cmd' = [cmd EXCEPT !.at = "put", !.todo = <<call.data>>, !.shown = cmd.shown]
      BY <2>1, <2>4
    <3>2. QED
      BY <2>4, <3>1
  <2>5. CASE cmd' = [cmd EXCEPT !.at = "get", !.shown = cmd.shown \o call.data]
    <3>1. cmd' = [cmd EXCEPT !.at = "get", !.todo = cmd.todo,
                             !.shown = cmd.shown \o call.data]
      BY <2>1, <2>5
    <3>2. QED
      BY <3>1
  <2>6. QED
    BY <2>2, <2>3, <2>4, <2>5
<1>5. /\ cmd' \in Command /\ cmd'.at = step /\ cmd'.op = cmd.op /\ cmd'.src = cmd.src
      /\ cmd'.dst = cmd.dst /\ cmd'.todo = todo
  <2>1. todo \in Seq(Seq(Cell)) /\ shown \in Seq(Cell) /\ step \in Steps
    <3>1. <<call.data>> \in Seq(Seq(Cell)) /\ cmd.shown \o call.data \in Seq(Cell)
          /\ cmd.todo \in Seq(Seq(Cell)) /\ cmd.shown \in Seq(Cell)
      BY <1>1, <1>3 DEF Command
    <3>2. QED
      BY <1>4, <3>1 DEF Steps
  <2>2. QED
    BY <1>1, <1>4, <2>1 DEF Command
<1>6. CmdInv(cmd')
  <2>1. <<call.data>> # <<>>
    OBVIOUS
  <2>2. QED
    BY <1>1, <1>4, <1>5, <2>1 DEF CmdInv, HoldsSrc, HoldsDst
<1>7. QED
  BY <1>2, <1>6 DEF ShellInv

-----------------------------------------------------------------------------
LEMMA WroteInv ==
  ASSUME CmdInv(cmd), cmd.at \in {"put", "putting"}, NEW n, Wrote(n)
  PROVE  CmdInv(cmd')
<1>1. /\ cmd \in Command /\ cmd.dst \in Handles /\ cmd.todo \in Seq(Seq(Cell))
      /\ cmd.todo # <<>> /\ (cmd.op = "cp" => cmd.src \in Handles)
  BY DEF CmdInv, HoldsSrc, HoldsDst, Command
<1>2. PICK step \in {"get", "closesrc", "closedst", "put"} :
        /\ cmd' = [cmd EXCEPT !.todo = Tail(@), !.at = step]
        /\ step \in {"get", "closesrc"} <=> cmd.op = "cp"
        /\ step = "put" => Len(cmd.todo) # 1
  <2>1. CASE cmd.op = "cp"
    BY <2>1 DEF Wrote
  <2>2. CASE cmd.op # "cp" /\ Len(cmd.todo) = 1
    BY <2>2 DEF Wrote
  <2>3. CASE cmd.op # "cp" /\ Len(cmd.todo) # 1
    BY <2>3 DEF Wrote
  <2>4. QED
    BY <2>1, <2>2, <2>3
<1>3. Tail(cmd.todo) \in Seq(Seq(Cell)) /\ (Len(cmd.todo) # 1 => Tail(cmd.todo) # <<>>)
  <2> DEFINE Texts == Seq(Cell)
             s == cmd.todo
  <2>1. s \in Seq(Texts) /\ s # <<>>
    BY <1>1
  <2> HIDE DEF Texts, s
  <2>2. Tail(s) \in Seq(Texts) /\ Len(Tail(s)) = Len(s) - 1
    BY <2>1
  <2>3. Len(s) # 1 => Tail(s) # <<>>
    BY <2>1, <2>2
  <2>4. QED
    BY <2>2, <2>3 DEF Texts, s
<1>4. /\ cmd' \in Command /\ cmd'.at = step /\ cmd'.op = cmd.op /\ cmd'.src = cmd.src
      /\ cmd'.dst = cmd.dst /\ cmd'.todo = Tail(cmd.todo)
  BY <1>1, <1>2, <1>3 DEF Command, Steps
<1>5. QED
  BY <1>1, <1>2, <1>3, <1>4 DEF CmdInv, HoldsSrc, HoldsDst

LEMMA PutInv == ShellInv /\ (Put \/ Putting) => ShellInv'
<1> SUFFICES ASSUME ShellInv, Put \/ Putting PROVE ShellInv'
  OBVIOUS
<1>1. /\ CmdInv(cmd) /\ cmd \in Command /\ cmd.at \in {"put", "putting"}
      /\ cmd.dst \in Handles /\ cmd.todo # <<>> /\ cmd.todo \in Seq(Seq(Cell))
  BY DEF ShellInv, CmdInv, HoldsDst, Command, Put, Putting
<1>2. Head(cmd.todo) \in Seq(Cell)
  BY <1>1
<1>3. FsInv'
  BY <1>1, <1>2, WriteBeginInv, RefusedInv, WriteReturnInv DEF Put, Putting, ShellInv
<1>4. CmdInv(cmd')
  <2>1. CASE \E n : Wrote(n)
    BY <1>1, <2>1, WroteInv
  <2>2. CASE Goto("putting") /\ cmd.at = "put"
    <3>1. "putting" \in Steps
      BY DEF Steps
    <3>2. HoldsSrc([cmd EXCEPT !.at = "putting"]) => cmd.src \in Handles
      BY <1>1, <2>2 DEF HoldsSrc, CmdInv, Command
    <3>3. QED
      BY <1>1, <2>2, <3>1, <3>2, GotoInv
  <2>3. QED
    BY <2>1, <2>2 DEF Put, Putting
<1>5. QED
  BY <1>3, <1>4 DEF ShellInv

LEMMA CloseSrcInv == ShellInv /\ (CloseSrc \/ CloseDst) => ShellInv'
<1> SUFFICES ASSUME ShellInv, CloseSrc \/ CloseDst PROVE ShellInv'
  OBVIOUS
<1>1. cmd \in Command
  BY DEF ShellInv, CmdInv
<1>2. CASE CloseSrc
  <2>1. cmd.at = "closesrc" /\ cmd.src \in Handles /\ cmd.dst \in 0 .. NumHandles
        /\ "closedst" \in Steps
    BY <1>2 DEF ShellInv, CmdInv, HoldsSrc, CloseSrc, Command, Steps
  <2>2. FsInv'
    BY <1>2, <2>1, CloseInv DEF CloseSrc, ShellInv
  <2>3. CASE cmd.dst = 0
    BY <1>2, <2>2, <2>3, IdleInv DEF CloseSrc, Finish, ShellInv
  <2>4. CASE cmd.dst # 0
    <3>1. Goto("closedst") /\ cmd.dst \in Handles
      BY <1>2, <2>1, <2>4, ShellConstants DEF CloseSrc
    <3>2. ~HoldsSrc([cmd EXCEPT !.at = "closedst"])
      BY <1>1 DEF HoldsSrc, Command
    <3>3. QED
      BY <2>1, <2>2, <3>1, <3>2, GotoInv DEF ShellInv
  <2>5. QED
    BY <2>3, <2>4
<1>3. CASE CloseDst
  <2>1. cmd.dst \in Handles
    BY <1>3 DEF ShellInv, CmdInv, HoldsDst, CloseDst
  <2>2. QED
    BY <1>3, <2>1, CloseInv, IdleInv DEF CloseDst, Finish, ShellInv
<1>4. QED
  BY <1>2, <1>3

LEMMA InCallInv == ShellInv /\ InCall => ShellInv'
BY ReadStepInv, WriteInPlaceInv, WriteExtendingInv, SeekStepInv DEF InCall, Iterate, ShellInv

-----------------------------------------------------------------------------
LEMMA ShellNextInv == ShellInv /\ [ShellNext]_shellVars => ShellInv'
<1> SUFFICES ASSUME ShellInv, [ShellNext]_shellVars PROVE ShellInv'
  OBVIOUS
<1>1. CASE UserTypes \/ UserMounts
  BY <1>1, UserInv
<1>2. CASE Check \/ CheckDst \/ Act
  BY <1>2, CheckInv, ActInv
<1>3. CASE OpenSrc \/ OpenDst
  BY <1>3, OpenSrcInv, OpenDstInv
<1>4. CASE Get \/ Getting \/ Put \/ Putting
  BY <1>4, GetInv, GettingInv, PutInv
<1>5. CASE CloseSrc \/ CloseDst \/ InCall
  BY <1>5, CloseSrcInv, InCallInv
<1>6. CASE UNCHANGED shellVars
  BY <1>6 DEF shellVars, fsVars, ShellInv, FsInv
<1>7. QED
  BY <1>1, <1>2, <1>3, <1>4, <1>5, <1>6 DEF ShellNext, CommandStep

LEMMA ShellInitInv == ShellInit => ShellInv
BY FsInitInv, IdleInv DEF ShellInit, ShellInv

LEMMA ShellInvHolds == ShellSpec => []ShellInv
BY ShellInitInv, ShellNextInv, PTL DEF ShellSpec

(* Whatever users type, on a volume of any size, every part of the state   *)
(* of the filesystem and of the running command is of its type.            *)
THEOREM ShellTypeCorrect == ShellSpec => []ShellTypeOK
<1>1. ShellInv => ShellTypeOK
  BY FsInvSays DEF ShellInv, CmdInv, ShellTypeOK
<1>2. QED
  BY <1>1, ShellInvHolds, PTL

(* No command passes to fs_read, fs_write or fs_close the NULL of an       *)
(* fs_open that was refused, nor writes when nothing is left to write.     *)
THEOREM ShellHoldsHandles ==
  ShellSpec => [](/\ HoldsSrc(cmd) => cmd.src \in Handles
                  /\ HoldsDst(cmd) => cmd.dst \in Handles
                  /\ cmd.at \in {"put", "putting"} => cmd.todo # <<>>)
<1>1. ShellInv => /\ HoldsSrc(cmd) => cmd.src \in Handles
                  /\ HoldsDst(cmd) => cmd.dst \in Handles
                  /\ cmd.at \in {"put", "putting"} => cmd.todo # <<>>
  BY DEF ShellInv, CmdInv
<1>2. QED
  BY <1>1, ShellInvHolds, PTL

(* No command, mount or unmount frees, links to or hands out the root      *)
(* directory's cluster, nor moves the hint past a free cluster.            *)
THEOREM ShellKeepsVolume == ShellSpec => [](RootKept /\ HintTight)
<1>1. ShellInv => RootKept /\ HintTight
  BY FsInvSays DEF ShellInv
<1>2. QED
  BY <1>1, ShellInvHolds, PTL

-----------------------------------------------------------------------------
(* Every step is one of the API or none of the filesystem's, so what       *)
(* FatFS_proofs says of the chains and the entries holds of it.        *)
LEMMA ShellSteps == ShellInv /\ [ShellNext]_shellVars => ApiStep \/ UNCHANGED fsVars
<1> SUFFICES ASSUME ShellInv, [ShellNext]_shellVars PROVE ApiStep \/ UNCHANGED fsVars
  OBVIOUS
<1>1. FsInv /\ CmdInv(cmd) /\ cmd \in Command /\ cmd.p \in Path /\ cmd.q \in Path
  BY DEF ShellInv, CmdInv, Command
<1>2. CASE UserTypes
  BY <1>2 DEF UserTypes, Enter
<1>3. CASE UserMounts
  BY <1>1, <1>3, ApiSteps DEF UserMounts, ApiCall
<1>4. CASE Check \/ CheckDst \/ Act
  BY <1>1, <1>4, ApiSteps DEF Check, CheckDst, Act, ApiCall
<1>5. CASE OpenSrc
  BY <1>1, <1>5, ApiSteps DEF OpenSrc, ApiCall
<1>6. CASE OpenDst
  <2>1. PICK r \in 0 .. NumHandles :
          Open(IF cmd.op = "cp" THEN cmd.q ELSE cmd.p, IF cmd.op = "append" THEN "a" ELSE "w", r)
    BY <1>6 DEF OpenDst
  <2>2. /\ (IF cmd.op = "cp" THEN cmd.q ELSE cmd.p) \in Path
        /\ (IF cmd.op = "append" THEN "a" ELSE "w") \in {"r", "w", "a"}
    BY <1>1
  <2>3. QED
    BY <1>1, <2>1, <2>2, ApiSteps DEF ApiCall
<1>7. CASE Get
  <2>1. cmd.src \in Handles /\ (IF cmd.op = "read" THEN ReadChunk ELSE CopyChunk) \in Nat
    BY <1>1, <1>7, ShellConstants DEF CmdInv, HoldsSrc, Get
  <2>2. QED
    BY <1>1, <1>7, <2>1, ApiSteps DEF Get, ApiCall
<1>8. CASE Put
  <2>1. cmd.dst \in Handles /\ Head(cmd.todo) \in Seq(Cell)
    BY <1>1, <1>8 DEF CmdInv, HoldsDst, Put, Command
  <2>2. QED
    BY <1>1, <1>8, <2>1, ApiSteps DEF Put, ApiCall
<1>9. CASE Getting \/ Putting \/ InCall
  BY <1>1, <1>9, ApiSteps DEF Getting, Putting, InCall, ApiCall
<1>10. CASE CloseSrc \/ CloseDst
  <2>1. PICK h \in Handles : Close(h)
    BY <1>1, <1>10 DEF CloseSrc, CloseDst, CmdInv, HoldsSrc, HoldsDst
  <2>2. QED
    BY <1>1, <2>1, ApiSteps DEF ApiCall
<1>11. CASE UNCHANGED shellVars
  BY <1>11 DEF shellVars
<1>12. QED
  BY <1>2, <1>3, <1>4, <1>5, <1>6, <1>7, <1>8, <1>9, <1>10, <1>11 DEF ShellNext, CommandStep

LEMMA ShellNextSound == ShellInv /\ ChainsSound /\ [ShellNext]_shellVars => ChainsSound'
<1>1. ChainsSound /\ UNCHANGED fsVars => ChainsSound'
  BY DEF fsVars, ChainsSound, UsedSlots, ChainOf
<1>2. QED
  BY <1>1, ShellSteps, StepSound DEF ShellInv

LEMMA ShellNextFindable == ShellInv /\ EntriesFindable /\ [ShellNext]_shellVars => EntriesFindable'
<1>1. EntriesFindable /\ UNCHANGED fsVars => EntriesFindable'
  BY DEF fsVars, EntriesFindable, UsedSlots, Lookup, Searched
<1>2. QED
  BY <1>1, ShellSteps, StepFindable DEF ShellInv

(* Whatever users type, the chains of the files stay sound if they were    *)
(* when the machine was started.                                           *)
THEOREM ShellChainsSound == ShellSpec /\ ChainsSound => []ChainsSound
BY ShellInvHolds, ShellNextSound, PTL DEF ShellSpec

(* And each file goes on to be found under its name.                       *)
THEOREM ShellEntriesFindable == ShellSpec /\ EntriesFindable => []EntriesFindable
BY ShellInvHolds, ShellNextFindable, PTL DEF ShellSpec

-----------------------------------------------------------------------------
(* Which command can be where, and which handles are open then: the ones   *)
(* it has opened, until it closes them.                                    *)
OpsAt(at) ==
  CASE at = "prompt"   -> {"none"}
    [] at = "check"    -> {"touch", "rm", "wc", "mv", "cp", "mkdir"}
    [] at = "checkdst" -> {"mv", "cp"}
    [] at = "act"      -> {"rm", "mkdir", "mv"}
    [] at \in {"opensrc", "get", "getting", "closesrc"} -> {"read", "wc", "cp"}
    [] at \in {"put", "putting"} -> {"write", "echo", "append", "cp"}
    [] OTHER -> {"write", "touch", "echo", "append", "cp"}

OpenHandles == {h \in Handles : handles[h].in_use}

FlowInv ==
  /\ cmd.op \in OpsAt(cmd.at) /\ (cmd.op = "touch" => cmd.todo = <<>>)
  /\ Prompt => cmd = Idle
  /\ cmd.at \in {"check", "checkdst", "act", "opensrc"} => cmd.src = 0 /\ cmd.dst = 0
  /\ cmd.at = "opendst" => cmd.dst = 0
  /\ cmd.op \notin {"cp", "read", "wc"} => cmd.src = 0
  /\ cmd.op \in {"read", "wc"} => cmd.dst = 0
  /\ OpenHandles \subseteq {cmd.src, cmd.dst}
  /\ cmd.at = "closedst" => OpenHandles \subseteq {cmd.dst}
  /\ call.op # "none" => call.h \in OpenHandles
  /\ call.op = "read" => cmd.at = "getting" /\ call.h = cmd.src
  /\ call.op = "write" => cmd.at = "putting" /\ call.h = cmd.dst
  /\ call.op = "seek" => cmd.at \in {"put", "closedst"} /\ call.h = cmd.dst

(* What fs_open does to the handles and to the loop that runs.             *)
LEMMA OpenHandle ==
  ASSUME FsInv, NEW p \in Path, NEW m, NEW r, Open(p, m, r)
  PROVE  /\ call.op = "none"
         /\ r = 0 => handles' = handles /\ call' = call
         /\ r # 0 => /\ r \in Handles /\ handles'[r].in_use
                     /\ \A h \in Handles \ {r} : handles'[h] = handles[h]
                     /\ \/ call' = call
                        \/ call'.op = "seek" /\ call'.h = r
<1>1. handles \in [Handles -> Handle] /\ call.op = "none"
  BY DEF FsInv, Open, Quiet
<1>2. FreeHandle \in {0} \cup Handles /\ 0 \notin Handles
  BY SearchesReturn DEF Handles
<1>3. CASE OpenRefused(r) \/ OpenMissing(p, m, r)
  BY <1>1, <1>3 DEF OpenRefused, OpenMissing, fsVars
<1>4. CASE OpenExisting(p, m, r)
  BY <1>1, <1>2, <1>4 DEF OpenExisting, Opened, NoCall
<1>5. CASE OpenCreate(p, m, r)
  BY <1>1, <1>2, <1>5 DEF OpenCreate, Opened
<1>6. QED
  BY <1>1, <1>3, <1>4, <1>5 DEF Open

-----------------------------------------------------------------------------
(* A command begins with no handle open and no loop running, and whatever  *)
(* makes it finish leaves none.                                            *)
LEMMA IdleFlow ==
  ASSUME cmd' = Idle, call'.op = "none", OpenHandles' = {}
  PROVE  FlowInv'
<1>1. Idle.op = "none" /\ Idle.at = "prompt" /\ Idle.src = 0
  BY DEF Idle
<1>2. QED
  BY <1>1 DEF FlowInv, OpsAt, Prompt

LEMMA UserFlow ==
  ShellInv /\ FlowInv /\ (UserTypes \/ UserMounts) => FlowInv' /\ OpenHandles' = {}
<1> SUFFICES ASSUME ShellInv, FlowInv, UserTypes \/ UserMounts
             PROVE  FlowInv' /\ OpenHandles' = {}
  OBVIOUS
<1>1. cmd = Idle /\ Idle.src = 0 /\ Idle.dst = 0 /\ Idle.at = "prompt"
  BY DEF FlowInv, UserTypes, Enter, UserMounts, Idle
<1>2. OpenHandles = {} /\ call.op = "none"
  BY <1>1, Constants DEF FlowInv, OpenHandles, Handles, ShellInv, FsInv, CallInv, Call
<1>3. CASE UserTypes
  <2>1. PICK op, at, p, q, text, todo :
          /\ Enter(op, at, p, q, text, todo)
          /\ \/ at = "opendst" /\ op \in {"write", "echo", "append"}
             \/ at = "opensrc" /\ op = "read"
             \/ at = "check" /\ op \in {"touch", "rm", "wc", "mv", "cp", "mkdir"}
          /\ op = "touch" => todo = <<>>
    <3>1. CASE \E p \in Relative, line \in Lines :
                 \/ Enter("write", "opendst", p, AnyPath, line, <<line>>)
                 \/ \E op \in {"echo", "append"} :
                      Enter(op, "opendst", p, AnyPath, line, <<line, <<Newline>>>>)
      BY <3>1
    <3>2. CASE \E p \in Relative :
                 \/ Enter("write", "opendst", p, AnyPath, <<>>, <<>>)
                 \/ Enter("read", "opensrc", p, AnyPath, <<>>, <<>>)
                 \/ \E op \in {"touch", "rm", "wc"} : Enter(op, "check", p, AnyPath, <<>>, <<>>)
                 \/ \E q \in Relative, op \in {"mv", "cp"} : Enter(op, "check", p, q, <<>>, <<>>)
      BY <3>2
    <3>3. CASE \E p \in Path : Enter("mkdir", "check", p, AnyPath, <<>>, <<>>)
      BY <3>3
    <3>4. QED
      BY <1>3, <3>1, <3>2, <3>3 DEF UserTypes
  <2>2. cmd' = [Idle EXCEPT !.op = op, !.at = at, !.p = p, !.q = q, !.text = text, !.todo = todo]
        /\ UNCHANGED fsVars
    BY <2>1 DEF Enter
  <2>3. cmd'.op = op /\ cmd'.at = at /\ cmd'.todo = todo /\ cmd'.src = 0 /\ cmd'.dst = 0
    BY <2>2 DEF Idle
  <2>4. op # "none"
    BY <2>1 DEF OpsAt
  <2>5. OpenHandles' = {} /\ call'.op = "none"
    BY <1>2, <2>2 DEF OpenHandles, fsVars
  <2>6. QED
    BY <2>1, <2>3, <2>4, <2>5 DEF FlowInv, OpsAt, Prompt
<1>4. CASE UserMounts
  <2>1. cmd' = Idle /\ call' = call
    BY <1>1, <1>4 DEF UserMounts, Mount, Unmount
  <2>2. OpenHandles' = {}
    <3>1. handles' = handles \/ handles' = [h \in Handles |-> Closed]
      BY <1>4 DEF UserMounts, Mount, Unmount
    <3>2. QED
      BY <1>2, <3>1 DEF OpenHandles, Closed
  <2>3. QED
    BY <1>2, <2>1, <2>2, IdleFlow
<1>5. QED
  BY <1>3, <1>4

LEMMA CheckFlow ==
  ShellInv /\ FlowInv /\ (Check \/ CheckDst \/ Act) => FlowInv' /\ OpenHandles' = {}
<1> SUFFICES ASSUME ShellInv, FlowInv, Check \/ CheckDst \/ Act
             PROVE  FlowInv' /\ OpenHandles' = {}
  OBVIOUS
<1>1. cmd.at \in {"check", "checkdst", "act"} /\ cmd \in Command
  BY DEF Check, CheckDst, Act, ShellInv, CmdInv
<1>2. handles' = handles /\ call' = call /\ call.op = "none"
  BY DEF Check, CheckDst, Act, Exists, Delete, Mkdir, Rename, Quiet
<1>3. cmd.src = 0 /\ cmd.dst = 0 /\ OpenHandles = {} /\ OpenHandles' = {}
  BY <1>1, <1>2, Constants DEF FlowInv, OpenHandles, Handles
<1>4. CASE cmd' = Idle
  BY <1>2, <1>3, <1>4, IdleFlow
<1>5. ASSUME NEW step, Goto(step), cmd.op \in OpsAt(step), cmd.op # "none",
             step \in {"opendst", "act", "opensrc", "checkdst"}
      PROVE  FlowInv'
  <2>1. /\ cmd'.at = step /\ cmd'.op = cmd.op /\ cmd'.todo = cmd.todo
        /\ cmd'.src = 0 /\ cmd'.dst = 0
    BY <1>1, <1>3, <1>5 DEF Goto, Command
  <2>2. QED
    BY <1>2, <1>3, <1>5, <2>1 DEF FlowInv, Prompt
<1>6. CASE Check
  <2>1. cmd.op \in {"touch", "rm", "wc", "mv", "cp", "mkdir"}
    BY <1>6 DEF Check, FlowInv, OpsAt
  <2>2. cmd' = Idle \/ Goto(AfterCheck)
    BY <1>6 DEF Check, Finish
  <2>3. cmd.op \in OpsAt(AfterCheck) /\ AfterCheck \in {"opendst", "act", "opensrc", "checkdst"}
    BY <2>1 DEF AfterCheck, OpsAt
  <2>4. QED
    BY <1>3, <1>4, <1>5, <2>1, <2>2, <2>3
<1>7. CASE CheckDst
  <2>1. cmd.op \in {"mv", "cp"}
    BY <1>7 DEF CheckDst, FlowInv, OpsAt
  <2>2. \/ cmd' = Idle
        \/ cmd.op = "mv" /\ Goto("act")
        \/ cmd.op = "cp" /\ Goto("opensrc")
    BY <1>7, <2>1 DEF CheckDst, Finish
  <2>3. QED
    BY <1>3, <1>4, <1>5, <2>1, <2>2 DEF OpsAt
<1>8. CASE Act
  BY <1>4, <1>8 DEF Act, Finish
<1>9. QED
  BY <1>3, <1>6, <1>7, <1>8

LEMMA OpenFlow == ShellInv /\ FlowInv /\ (OpenSrc \/ OpenDst) => FlowInv'
<1> SUFFICES ASSUME ShellInv, FlowInv, OpenSrc \/ OpenDst PROVE FlowInv'
  OBVIOUS
<1>1. FsInv /\ cmd \in Command /\ cmd.p \in Path /\ cmd.q \in Path
  BY DEF ShellInv, CmdInv, Command
<1>2. OpenHandles \subseteq {cmd.src, cmd.dst} /\ 0 \notin Handles /\ cmd.dst = 0
  <2>1. cmd.at \in {"opensrc", "opendst"}
    BY DEF OpenSrc, OpenDst
  <2>2. QED
    BY <2>1 DEF FlowInv, Handles
<1>3. CASE OpenSrc
  <2>1. PICK r \in 0 .. NumHandles :
          /\ Open(cmd.p, "r", r)
          /\ IF r = 0 THEN Finish
             ELSE cmd' = [cmd EXCEPT !.src = r,
                    !.at = CASE cmd.op = "cp" -> "opendst"
                             [] cmd.op = "read" /\ handles'[r].is_directory -> "closesrc"
                             [] OTHER -> "get"]
    BY <1>3 DEF OpenSrc
  <2>2. cmd.at = "opensrc" /\ cmd.op \in {"read", "wc", "cp"} /\ cmd.src = 0 /\ OpenHandles = {}
    BY <1>2, <1>3 DEF OpenSrc, FlowInv, OpsAt, OpenHandles
  <2>3. CASE r = 0
    BY <1>1, <2>1, <2>2, <2>3, OpenHandle, IdleFlow DEF Finish, OpenHandles
  <2>4. CASE r # 0
    <3>1. /\ cmd' = [cmd EXCEPT !.src = r, !.at = cmd'.at] /\ cmd'.at \in {"opendst", "closesrc", "get"}
          /\ cmd'.at = "opendst" => cmd.op = "cp"
      BY <1>1, <2>1, <2>4 DEF Command
    <3>2. /\ cmd'.op = cmd.op /\ cmd'.todo = cmd.todo /\ cmd'.src = r /\ cmd'.dst = 0
      BY <1>1, <1>2, <3>1 DEF Command
    <3>3. OpenHandles' \subseteq {r}
      BY <1>1, <2>1, <2>2, <2>4, OpenHandle DEF OpenHandles
    <3>4. call'.op = "none"
      <4>1. ~OpenCreate(cmd.p, "r", r) /\ call.op = "none"
        BY <2>1 DEF OpenCreate, Open, Quiet
      <4>2. call' = call
        BY <2>1, <4>1 DEF Open, OpenRefused, OpenExisting, OpenMissing, fsVars
      <4>3. QED
        BY <4>1, <4>2
    <3>5. QED
      BY <2>2, <3>1, <3>2, <3>3, <3>4 DEF FlowInv, OpsAt, Prompt
  <2>5. QED
    BY <2>3, <2>4
<1>4. CASE OpenDst
  <2> DEFINE p == IF cmd.op = "cp" THEN cmd.q ELSE cmd.p
  <2>1. PICK r \in 0 .. NumHandles :
          /\ Open(p, IF cmd.op = "append" THEN "a" ELSE "w", r)
          /\ IF r = 0
             THEN IF cmd.op = "cp" THEN Goto("closesrc") ELSE Finish
             ELSE cmd' = [cmd EXCEPT !.dst = r,
                    !.at = CASE cmd.op = "cp" -> "get"
                             [] cmd.op # "cp" /\ cmd.todo = <<>> -> "closedst"
                             [] OTHER -> "put"]
    BY <1>4 DEF OpenDst
  <2>2. /\ cmd.at = "opendst" /\ cmd.op \in {"write", "touch", "echo", "append", "cp"}
        /\ cmd.op # "cp" => cmd.src = 0
        /\ OpenHandles \subseteq {cmd.src} /\ p \in Path
        /\ cmd.op = "touch" => cmd.todo = <<>>
    BY <1>1, <1>2, <1>4 DEF OpenDst, FlowInv, OpsAt, OpenHandles
  <2>3. /\ r = 0 => OpenHandles' = OpenHandles /\ call'.op = "none"
        /\ r # 0 => /\ OpenHandles' \subseteq OpenHandles \cup {r} /\ r \in OpenHandles'
                    /\ call'.op = "none" \/ (call'.op = "seek" /\ call'.h = r)
    BY <1>1, <2>1, <2>2, OpenHandle DEF OpenHandles
  <2>4. CASE r = 0 /\ cmd.op # "cp"
    <3>1. OpenHandles = {}
      BY <1>2, <2>2, <2>4 DEF OpenHandles
    <3>2. QED
      BY <2>1, <2>3, <2>4, <3>1, IdleFlow DEF Finish
  <2>5. CASE r = 0 /\ cmd.op = "cp"
    <3>1. /\ cmd'.at = "closesrc" /\ cmd'.op = cmd.op /\ cmd'.todo = cmd.todo
          /\ cmd'.src = cmd.src /\ cmd'.dst = cmd.dst
      BY <1>1, <2>1, <2>5 DEF Goto, Command
    <3>2. QED
      BY <1>2, <2>2, <2>3, <2>5, <3>1 DEF FlowInv, OpsAt, Prompt
  <2>6. CASE r # 0
    <3>1. /\ cmd' = [cmd EXCEPT !.dst = r, !.at = cmd'.at]
          /\ \/ cmd'.at = "get" /\ cmd.op = "cp"
             \/ cmd'.at = "closedst" /\ cmd.op # "cp"
             \/ cmd'.at = "put" /\ cmd.op # "cp" /\ cmd.todo # <<>>
      <4>1. CASE cmd.op = "cp"
        BY <1>1, <2>1, <2>6, <4>1 DEF Command
      <4>2. CASE cmd.op # "cp" /\ cmd.todo = <<>>
        BY <1>1, <2>1, <2>6, <4>2 DEF Command
      <4>3. CASE cmd.op # "cp" /\ cmd.todo # <<>>
        BY <1>1, <2>1, <2>6, <4>3 DEF Command
      <4>4. QED
        BY <4>1, <4>2, <4>3
    <3>2. cmd'.op = cmd.op /\ cmd'.todo = cmd.todo /\ cmd'.src = cmd.src /\ cmd'.dst = r
      BY <1>1, <3>1 DEF Command
    <3>3. cmd'.op \in OpsAt(cmd'.at) /\ cmd'.op # "none"
      BY <2>2, <3>1, <3>2 DEF OpsAt
    <3>4. cmd'.at = "get" => call'.op = "none"
      <4>1. ASSUME cmd.op = "cp"
            PROVE  call' = call
        <5>1. Open(p, "w", r)
          BY <2>1, <4>1
        <5>2. QED
          BY <5>1 DEF Open, OpenRefused, OpenExisting, OpenMissing, OpenCreate, fsVars
      <4>2. QED
        BY <2>1, <3>1, <4>1 DEF Open, Quiet
    <3>5. cmd'.at = "closedst" => OpenHandles' \subseteq {r}
      BY <1>2, <2>2, <2>3, <2>6, <3>1 DEF OpenHandles
    <3>6. QED
      BY <2>2, <2>3, <2>6, <3>1, <3>2, <3>3, <3>4, <3>5 DEF FlowInv, Prompt
  <2>7. QED
    BY <2>4, <2>5, <2>6
<1>5. QED
  BY <1>3, <1>4

LEMMA GetFlow == ShellInv /\ FlowInv /\ (Get \/ Getting) => FlowInv'
<1> SUFFICES ASSUME ShellInv, FlowInv, Get \/ Getting PROVE FlowInv'
  OBVIOUS
<1>1. cmd \in Command /\ cmd.op \in {"read", "wc", "cp"} /\ cmd.at \in {"get", "getting"}
  BY DEF ShellInv, CmdInv, FlowInv, OpsAt, Get, Getting
<1>2. handles' = handles /\ OpenHandles' = OpenHandles
  BY DEF Get, Getting, ReadBegin, ReadNothing, ReadReturn, fsVars, OpenHandles
<1>3. ASSUME NEW step \in {"getting", "closesrc", "put", "get"}, cmd'.at = step,
             cmd'.op = cmd.op, cmd'.src = cmd.src, cmd'.dst = cmd.dst,
             step = "put" => cmd.op = "cp",
             \/ call'.op = "none"
             \/ call'.op = "read" /\ step = "getting" /\ call'.h = cmd.src /\ cmd.src \in OpenHandles
      PROVE  FlowInv'
  BY <1>1, <1>2, <1>3 DEF FlowInv, OpsAt, Prompt
<1>4. CASE Get
  <2>1. CASE ReadBegin(cmd.src, IF cmd.op = "read" THEN ReadChunk ELSE CopyChunk) /\ Goto("getting")
    <3>1. /\ cmd'.at = "getting" /\ cmd'.op = cmd.op /\ cmd'.src = cmd.src /\ cmd'.dst = cmd.dst
      BY <1>1, <2>1 DEF Goto, Command
    <3>2. call'.op = "read" /\ call'.h = cmd.src /\ handles[cmd.src].in_use
      BY <2>1 DEF ReadBegin, Readable, NoCall
    <3>3. cmd.src \in Handles
      BY <1>4 DEF Get, ShellInv, CmdInv, HoldsSrc
    <3>4. QED
      BY <1>3, <3>1, <3>2, <3>3 DEF OpenHandles
  <2>2. CASE ReadNothing(cmd.src) /\ Goto("closesrc")
    <3>1. /\ cmd'.at = "closesrc" /\ cmd'.op = cmd.op /\ cmd'.src = cmd.src /\ cmd'.dst = cmd.dst
      BY <1>1, <2>2 DEF Goto, Command
    <3>2. call'.op = "none"
      BY <2>2 DEF ReadNothing, Quiet, fsVars
    <3>3. QED
      BY <1>3, <3>1, <3>2
  <2>3. QED
    BY <1>4, <2>1, <2>2 DEF Get
<1>5. CASE Getting
  <2>1. call'.op = "none"
    BY <1>5 DEF Getting, ReadReturn, Returns, NoCall
  <2>2. PICK step \in {"closesrc", "put", "get"} :
          /\ cmd'.at = step /\ cmd'.op = cmd.op /\ cmd'.src = cmd.src /\ cmd'.dst = cmd.dst
          /\ step = "put" => cmd.op = "cp"
    <3>1. \/ cmd' = [cmd EXCEPT !.at = "closesrc"] \/ cmd' = [cmd EXCEPT !.at = "get"]
          \/ cmd' = [cmd EXCEPT !.at = "get", !.shown = @ \o call.data]
          \/ cmd.op = "cp" /\ cmd' = [cmd EXCEPT !.at = "put", !.todo = <<call.data>>]
      <4>1. CASE call.data = <<>>
        BY <1>5, <4>1 DEF Getting
      <4>2. CASE call.data # <<>> /\ cmd.op = "cp"
        BY <1>5, <4>2 DEF Getting
      <4>3. CASE call.data # <<>> /\ cmd.op = "read"
        BY <1>5, <4>3 DEF Getting
      <4>4. CASE call.data # <<>> /\ cmd.op \notin {"cp", "read"}
        BY <1>5, <4>4 DEF Getting
      <4>5. QED
        BY <4>1, <4>2, <4>3, <4>4
    <3>2. QED
      BY <1>1, <3>1 DEF Command
  <2>3. QED
    BY <1>3, <2>1, <2>2
<1>6. QED
  BY <1>4, <1>5

LEMMA PutFlow == ShellInv /\ FlowInv /\ (Put \/ Putting) => FlowInv'
<1> SUFFICES ASSUME ShellInv, FlowInv, Put \/ Putting PROVE FlowInv'
  OBVIOUS
<1>1. /\ cmd \in Command /\ cmd.op \in {"write", "echo", "append", "cp"}
      /\ cmd.at \in {"put", "putting"} /\ cmd.dst \in Handles
  BY DEF ShellInv, CmdInv, HoldsDst, FlowInv, OpsAt, Put, Putting
<1>2. handles' = handles /\ OpenHandles' = OpenHandles
  BY DEF Put, Putting, WriteBegin, WriteNothing, WriteReturn, fsVars, OpenHandles
<1>3. CASE \E n : Wrote(n) /\ call'.op = "none"
  <2>1. PICK n : Wrote(n) /\ call'.op = "none"
    BY <1>3
  <2>2. PICK step \in {"get", "closesrc", "closedst", "put"} :
          /\ cmd' = [cmd EXCEPT !.todo = Tail(@), !.at = step]
          /\ step \in {"get", "closesrc"} <=> cmd.op = "cp"
    <3>1. CASE cmd.op = "cp"
      BY <2>1, <3>1 DEF Wrote
    <3>2. CASE cmd.op # "cp" /\ Len(cmd.todo) = 1
      BY <2>1, <3>2 DEF Wrote
    <3>3. CASE cmd.op # "cp" /\ Len(cmd.todo) # 1
      BY <2>1, <3>3 DEF Wrote
    <3>4. QED
      BY <3>1, <3>2, <3>3
  <2>3. cmd'.at = step /\ cmd'.op = cmd.op /\ cmd'.src = cmd.src /\ cmd'.dst = cmd.dst
    BY <1>1, <2>2 DEF Command
  <2>4. step = "closedst" => cmd.src = 0 /\ 0 \notin Handles
    BY <1>1, <2>2 DEF FlowInv, Handles
  <2>5. cmd.op \in OpsAt(step) /\ cmd.op # "none" /\ cmd.op # "touch"
    BY <1>1, <2>2 DEF OpsAt
  <2>6. step = "closedst" => OpenHandles \subseteq {cmd.dst}
    BY <2>4 DEF FlowInv, OpenHandles
  <2>7. QED
    BY <1>2, <2>1, <2>2, <2>3, <2>5, <2>6 DEF FlowInv, Prompt
<1>4. CASE WriteBegin(cmd.dst, Head(cmd.todo)) /\ Goto("putting")
  <2>1. /\ cmd'.at = "putting" /\ cmd'.op = cmd.op /\ cmd'.src = cmd.src /\ cmd'.dst = cmd.dst
        /\ cmd'.todo = cmd.todo
    BY <1>1, <1>4 DEF Goto, Command
  <2>2. call'.op = "write" /\ call'.h = cmd.dst /\ cmd.dst \in OpenHandles
    BY <1>1, <1>4 DEF WriteBegin, Writable, NoCall, OpenHandles
  <2>3. QED
    BY <1>1, <1>2, <2>1, <2>2 DEF FlowInv, OpsAt, Prompt
<1>5. CASE WriteNothing(cmd.dst) /\ Wrote(0)
  BY <1>3, <1>5 DEF WriteNothing, Quiet, fsVars
<1>6. CASE Putting
  BY <1>3, <1>6 DEF Putting, WriteReturn, Returns, NoCall
<1>7. QED
  BY <1>4, <1>5, <1>6 DEF Put

LEMMA CloseFlow == ShellInv /\ FlowInv /\ (CloseSrc \/ CloseDst) => FlowInv'
<1> SUFFICES ASSUME ShellInv, FlowInv, CloseSrc \/ CloseDst PROVE FlowInv'
  OBVIOUS
<1>1. cmd \in Command /\ OpenHandles \subseteq {cmd.src, cmd.dst} /\ 0 \notin Handles
  BY DEF ShellInv, CmdInv, FlowInv, Handles
<1>2. ASSUME NEW h \in Handles, Close(h)
      PROVE  OpenHandles' = OpenHandles \ {h} /\ call'.op = "none"
  BY <1>2 DEF Close, Quiet, Closed, OpenHandles, ShellInv, FsInv
<1>3. CASE CloseSrc
  <2>1. cmd.op \in {"read", "wc", "cp"} /\ cmd.src \in Handles /\ cmd.at = "closesrc"
    BY <1>3 DEF CloseSrc, FlowInv, OpsAt, ShellInv, CmdInv, HoldsSrc
  <2>2. OpenHandles' \subseteq {cmd.dst} /\ call'.op = "none"
    BY <1>1, <1>2, <1>3, <2>1 DEF CloseSrc
  <2>3. CASE cmd.dst # 0
    <3>1. /\ cmd'.at = "closedst" /\ cmd'.op = cmd.op /\ cmd'.src = cmd.src /\ cmd'.dst = cmd.dst
          /\ cmd'.todo = cmd.todo
      BY <1>1, <1>3, <2>3 DEF CloseSrc, Goto, Command
    <3>2. cmd.op = "cp"
      BY <2>1, <2>3 DEF FlowInv
    <3>3. QED
      BY <2>1, <2>2, <3>1, <3>2 DEF FlowInv, OpsAt, Prompt
  <2>4. CASE cmd.dst = 0
    <3>1. OpenHandles' = {}
      BY <1>1, <2>2, <2>4 DEF OpenHandles
    <3>2. QED
      BY <1>3, <2>2, <2>4, <3>1, IdleFlow DEF CloseSrc, Finish
  <2>5. QED
    BY <2>3, <2>4
<1>4. CASE CloseDst
  <2>1. cmd.dst \in Handles /\ OpenHandles \subseteq {cmd.dst}
    BY <1>4 DEF CloseDst, FlowInv, ShellInv, CmdInv, HoldsDst
  <2>2. OpenHandles' = {} /\ call'.op = "none"
    BY <1>2, <1>4, <2>1 DEF CloseDst
  <2>3. QED
    BY <1>4, <2>2, IdleFlow DEF CloseDst, Finish
<1>5. QED
  BY <1>3, <1>4

LEMMA InCallFlow == ShellInv /\ FlowInv /\ InCall => FlowInv'
<1> SUFFICES ASSUME ShellInv, FlowInv, InCall PROVE FlowInv'
  OBVIOUS
<1>1. cmd' = cmd /\ FsInv
  BY DEF InCall, ShellInv
<1>2. CASE Iterate
  <2>1. OpenHandles' = OpenHandles
    BY <1>1, <1>2, StartingSays, IterateMoves DEF Moves, OpenHandles
  <2>2. call'.op = call.op /\ call'.h = call.h
    BY <1>1, <1>2, IterateMoves
  <2>3. QED
    BY <1>1, <2>1, <2>2 DEF FlowInv, Prompt
<1>3. CASE SeekReturn
  <2>1. OpenHandles' = OpenHandles /\ call'.op = "none"
    BY <1>3 DEF SeekReturn, Returns, NoCall, OpenHandles
  <2>2. QED
    BY <1>1, <2>1 DEF FlowInv, Prompt
<1>4. QED
  BY <1>2, <1>3 DEF InCall

LEMMA ShellNextFlow == ShellInv /\ FlowInv /\ [ShellNext]_shellVars => FlowInv'
<1> SUFFICES ASSUME ShellInv, FlowInv, [ShellNext]_shellVars PROVE FlowInv'
  OBVIOUS
<1>1. CASE UNCHANGED shellVars
  BY <1>1 DEF shellVars, fsVars, FlowInv, OpenHandles, Prompt
<1>2. CASE ShellNext
  BY <1>2, UserFlow, CheckFlow, OpenFlow, GetFlow, PutFlow, CloseFlow, InCallFlow
  DEF ShellNext, CommandStep
<1>3. QED
  BY <1>1, <1>2

LEMMA ShellInitFlow == ShellInit => FlowInv
<1> SUFFICES ASSUME ShellInit PROVE FlowInv
  OBVIOUS
<1>1. OpenHandles = {} /\ call.op = "none" /\ cmd = Idle
  BY DEF ShellInit, FsInit, OpenHandles, Closed, NoCall
<1>2. Idle.op = "none" /\ Idle.at = "prompt" /\ Idle.src = 0
  BY DEF Idle
<1>3. QED
  BY <1>1, <1>2 DEF FlowInv, OpsAt, Prompt
-----------------------------------------------------------------------------
(* Between two lines of a command, its operation and arguments stay.       *)
SameCommand == cmd'.op = cmd.op /\ cmd'.p = cmd.p /\ cmd'.q = cmd.q

LEMMA CommandStays ==
  ASSUME ShellInv, OpenSrc \/ OpenDst \/ Get \/ Getting \/ Put \/ Putting
                   \/ CloseSrc \/ CloseDst \/ InCall
  PROVE  \/ cmd' = Idle
         \/ SameCommand /\ (cmd'.dst = cmd.dst \/ OpenDst)
<1>1. cmd \in Command
  BY DEF ShellInv, CmdInv
<1>2. \A step : Goto(step) => SameCommand /\ cmd'.dst = cmd.dst
  BY <1>1 DEF Goto, Command, SameCommand
<1>3. CASE OpenSrc
  <2>1. PICK r : \/ r = 0 /\ cmd' = Idle
                 \/ cmd' = [cmd EXCEPT !.src = r, !.at = cmd'.at]
    <3>1. PICK r :
            IF r = 0 THEN Finish
            ELSE cmd' = [cmd EXCEPT !.src = r,
                   !.at = CASE cmd.op = "cp" -> "opendst"
                            [] cmd.op = "read" /\ handles'[r].is_directory -> "closesrc"
                            [] OTHER -> "get"]
      BY <1>3 DEF OpenSrc
    <3>2. CASE r # 0
      <4> DEFINE next == CASE cmd.op = "cp" -> "opendst"
                           [] cmd.op = "read" /\ handles'[r].is_directory -> "closesrc"
                           [] OTHER -> "get"
      <4>1. cmd' = [cmd EXCEPT !.src = r, !.at = next]
        BY <3>1, <3>2
      <4> HIDE DEF next
      <4>2. QED
        BY <1>1, <4>1 DEF Command
    <3>3. QED
      BY <3>1, <3>2 DEF Finish
  <2>2. QED
    BY <1>1, <2>1 DEF Command, SameCommand
<1>4. CASE OpenDst
  <2>1. PICK r :
          IF r = 0
          THEN IF cmd.op = "cp" THEN Goto("closesrc") ELSE Finish
          ELSE cmd' = [cmd EXCEPT !.dst = r,
                 !.at = CASE cmd.op = "cp" -> "get"
                          [] cmd.op # "cp" /\ cmd.todo = <<>> -> "closedst"
                          [] OTHER -> "put"]
    BY <1>4 DEF OpenDst
  <2>2. CASE r = 0
    BY <1>2, <2>1, <2>2 DEF Finish
  <2>3. CASE r # 0
    <3> DEFINE next == CASE cmd.op = "cp" -> "get"
                         [] cmd.op # "cp" /\ cmd.todo = <<>> -> "closedst"
                         [] OTHER -> "put"
    <3>1. cmd' = [cmd EXCEPT !.dst = r, !.at = next]
      BY <2>1, <2>3
    <3> HIDE DEF next
    <3>2. QED
      BY <1>1, <1>4, <3>1 DEF Command, SameCommand
  <2>4. QED
    BY <2>2, <2>3
<1>5. CASE Get
  BY <1>2, <1>5 DEF Get
<1>6. CASE Getting
  <2>1. \/ cmd' = [cmd EXCEPT !.at = "closesrc"] \/ cmd' = [cmd EXCEPT !.at = "get"]
        \/ cmd' = [cmd EXCEPT !.at = "get", !.shown = @ \o call.data]
        \/ cmd' = [cmd EXCEPT !.at = "put", !.todo = <<call.data>>]
    <3>1. CASE call.data = <<>>
      BY <1>6, <3>1 DEF Getting
    <3>2. CASE call.data # <<>> /\ cmd.op = "cp"
      BY <1>6, <3>2 DEF Getting
    <3>3. CASE call.data # <<>> /\ cmd.op = "read"
      BY <1>6, <3>3 DEF Getting
    <3>4. CASE call.data # <<>> /\ cmd.op \notin {"cp", "read"}
      BY <1>6, <3>4 DEF Getting
    <3>5. QED
      BY <3>1, <3>2, <3>3, <3>4
  <2>2. QED
    BY <1>1, <2>1 DEF Command, SameCommand
<1>7. ASSUME NEW n, Wrote(n)
      PROVE  SameCommand /\ cmd'.dst = cmd.dst
  <2> DEFINE next == CASE cmd.op = "cp" -> IF n = Len(Head(cmd.todo)) THEN "get" ELSE "closesrc"
                       [] cmd.op # "cp" /\ Len(cmd.todo) = 1 -> "closedst"
                       [] OTHER -> "put"
  <2>1. cmd' = [cmd EXCEPT !.todo = Tail(@), !.at = next]
    BY <1>7 DEF Wrote
  <2> HIDE DEF next
  <2>2. QED
    BY <1>1, <2>1 DEF Command, SameCommand
<1>8. CASE Put \/ Putting
  BY <1>2, <1>7, <1>8 DEF Put, Putting
<1>9. CASE CloseSrc \/ CloseDst
  BY <1>2, <1>9 DEF CloseSrc, CloseDst, Finish
<1>10. CASE InCall
  BY <1>10 DEF InCall, SameCommand
<1>11. QED
  BY <1>3, <1>4, <1>5, <1>6, <1>8, <1>9, <1>10

-----------------------------------------------------------------------------
(* Every open handle stands for an entry of the directory and is somewhere *)
(* in its chain; the one that is written stands for the file the command   *)
(* names.  WriteReturn finds that file by the handle's name only when the  *)
(* name that fs_open got back from the entry converts to the entry's again *)
(* (it does not for a name with a space in it, or with a second '.' at its *)
(* end).                                                                   *)
NamesStable == \A t \in Text : Reopened[To83[t]] = To83[t]

DstPath == IF cmd.op = "cp" THEN cmd.q ELSE cmd.p

Stands(h, i) ==
  /\ dir[i].first = handles[h].first
  /\ handles[h].current \in Clusters => handles[h].current \in ChainOf(i)
  /\ h = cmd.dst => /\ dir[i].name = Plain(DstPath)
                    /\ NamesStable => handles[h].name = To83[DstPath.text]

FileInv == \A h \in OpenHandles : \E i \in UsedSlots : Stands(h, i)

(* An open handle that stays where it is in a chain that stays.            *)
LEMMA StandsKept ==
  ASSUME ChainsSound, NEW h \in OpenHandles, NEW i \in UsedSlots, Stands(h, i),
         Kept(i), dir'[i].name = dir[i].name, handles'[h] = handles[h],
         h = cmd'.dst => h = cmd.dst /\ SameCommand
  PROVE  Stands(h, i)'
<1>1. ChainOf(i)' = ChainOf(i) /\ dir'[i].first = dir[i].first
  BY KeptChain DEF Kept
<1>2. h = cmd'.dst => Plain(DstPath)' = Plain(DstPath) /\ DstPath' = DstPath
  BY DEF SameCommand, DstPath, Plain
<1>3. QED
  BY <1>1, <1>2 DEF Stands

(* What fs_open returns stands for the entry that the path leads to, and   *)
(* the other entries are as they were.                                     *)
LEMMA OpenedStands ==
  ASSUME FsInv, ChainsSound, NEW p \in Path, NEW m, NEW r \in Handles, Open(p, m, r)
  PROVE  /\ \A i \in UsedSlots : i \in UsedSlots' /\ Kept(i) /\ dir'[i].name = dir[i].name
         /\ \E i \in UsedSlots' :
              /\ dir'[i].name = Plain(p)
              /\ dir'[i].first = handles'[r].first /\ handles'[r].current = handles'[r].first
              /\ handles'[r].first \in ChainOf(i)'
              /\ NamesStable => handles'[r].name = To83[p.text]
              /\ handles'[r].size = dir'[i].size
              /\ handles'[r].offset = 0 /\ handles'[r].position = 0
<1>1. dir \in [Slots -> Entry] /\ handles \in [Handles -> Handle] /\ 0 \notin Handles
      /\ p.text \in Text
  BY DEF FsInv, Handles, Path
<1>2. CASE OpenExisting(p, m, r)
  <2>1. PICK i \in UsedSlots : i = Find(p) /\ dir[i].name = Plain(p)
    BY <1>2, LookupFinds DEF OpenExisting, Find, Plain
  <2> DEFINE e == dir[i]
  <2>2. vol' = vol /\ dir' = dir
        /\ handles' = [handles EXCEPT ![r] =
             [in_use |-> TRUE, is_directory |-> e.isdir, first |-> e.first, current |-> e.first,
              offset |-> 0, size |-> e.size, position |-> 0, name |-> Reopened[e.name.name]]]
    BY <1>2, <2>1 DEF OpenExisting, Opened
  <2>3. \A j \in UsedSlots : j \in UsedSlots' /\ Kept(j) /\ dir'[j].name = dir[j].name
    BY <2>2 DEF UsedSlots, Kept
  <2>4. /\ handles'[r].first = e.first /\ handles'[r].current = e.first
        /\ handles'[r].name = Reopened[e.name.name] /\ handles'[r].size = e.size
        /\ handles'[r].offset = 0 /\ handles'[r].position = 0
    BY <1>1, <2>2
  <2>5. e.first \in ChainOf(i) /\ ChainOf(i)' = ChainOf(i)
    BY <2>1, <2>3, SoundChain, KeptChain
  <2>6. NamesStable => handles'[r].name = To83[p.text]
    BY <1>1, <2>1, <2>4 DEF NamesStable, Plain
  <2>7. QED
    BY <2>1, <2>2, <2>3, <2>4, <2>5, <2>6
<1>3. CASE OpenCreate(p, m, r)
  <2> DEFINE name == [slash |-> FALSE, name |-> To83[p.text]]
             c == Allocated(vol)
  <2>1. /\ EnterNew(name, FALSE, Zeroes, TRUE)
        /\ handles' = [handles EXCEPT ![r] =
             [in_use |-> TRUE, is_directory |-> FALSE, first |-> c, current |-> c,
              offset |-> 0, size |-> 0, position |-> 0, name |-> To83[p.text]]]
    BY <1>1, <1>3 DEF OpenCreate, Opened
  <2>2. PICK s \in Slots \ UsedSlots :
          /\ UsedSlots' = UsedSlots \cup {s} /\ ChainOf(s)' = {c}
          /\ dir' = [dir EXCEPT ![s] = NewEntry(name, FALSE, c)]
    <3> HIDE DEF name
    <3> QED
      BY <2>1, EntersEffect
  <2>3. dir'[s].name = Plain(p) /\ dir'[s].first = c /\ dir'[s].size = 0
    BY <1>1, <2>2 DEF NewEntry, Plain
  <2>4. \A j \in UsedSlots : j \in UsedSlots' /\ Kept(j) /\ dir'[j].name = dir[j].name
    <3>1. \A j \in UsedSlots : Kept(j)
      <4> HIDE DEF name
      <4> QED
        BY <2>1, EntersEffect
    <3>2. \A j \in UsedSlots : j # s /\ j \in Slots
      BY DEF UsedSlots
    <3>3. QED
      BY <1>1, <2>2, <3>1, <3>2
  <2>5. /\ handles'[r].first = c /\ handles'[r].current = c
        /\ handles'[r].name = To83[p.text] /\ handles'[r].size = 0
        /\ handles'[r].offset = 0 /\ handles'[r].position = 0
    BY <1>1, <2>1
  <2>6. QED
    BY <2>2, <2>3, <2>4, <2>5
<1>4. CASE OpenRefused(r) \/ OpenMissing(p, m, r)
  BY <1>1, <1>4 DEF OpenRefused, OpenMissing
<1>5. QED
  BY <1>2, <1>3, <1>4 DEF Open
LEMMA OpenFiles ==
  ASSUME ShellInv, FlowInv, ChainsSound, FileInv, OpenSrc \/ OpenDst, cmd' # Idle
  PROVE  FileInv'
<1>1. FsInv /\ cmd \in Command /\ cmd.p \in Path /\ cmd.q \in Path /\ 0 \notin Handles
  BY DEF ShellInv, CmdInv, Command, Handles
<1>2. SameCommand /\ (cmd'.dst = cmd.dst \/ OpenDst)
  BY CommandStays
<1>3. PICK p \in Path, m \in {"r", "w", "a"}, r \in 0 .. NumHandles :
        /\ Open(p, m, r)
        /\ r # 0 /\ OpenDst => cmd'.dst = r /\ p = DstPath
        /\ r = 0 => cmd'.dst = cmd.dst
        /\ OpenSrc => cmd'.dst = cmd.dst
  <2>1. CASE OpenSrc
    <3>1. PICK r \in 0 .. NumHandles : Open(cmd.p, "r", r)
      BY <2>1 DEF OpenSrc
    <3>2. ~OpenDst
      BY <2>1 DEF OpenSrc, OpenDst
    <3>3. QED
      BY <1>1, <1>2, <3>1, <3>2
  <2>2. CASE OpenDst
    <3> DEFINE m == IF cmd.op = "append" THEN "a" ELSE "w"
    <3>1. PICK r \in 0 .. NumHandles :
            /\ Open(DstPath, m, r)
            /\ IF r = 0
               THEN IF cmd.op = "cp" THEN Goto("closesrc") ELSE Finish
               ELSE cmd' = [cmd EXCEPT !.dst = r,
                      !.at = CASE cmd.op = "cp" -> "get"
                               [] cmd.op # "cp" /\ cmd.todo = <<>> -> "closedst"
                               [] OTHER -> "put"]
      BY <2>2 DEF OpenDst, DstPath
    <3>2. r = 0 => cmd'.dst = cmd.dst
      BY <1>1, <3>1 DEF Goto, Finish, Command
    <3>3. ASSUME r # 0
          PROVE  cmd'.dst = r
      <4> DEFINE next == CASE cmd.op = "cp" -> "get"
                           [] cmd.op # "cp" /\ cmd.todo = <<>> -> "closedst"
                           [] OTHER -> "put"
      <4>1. cmd' = [cmd EXCEPT !.dst = r, !.at = next]
        BY <3>1, <3>3
      <4> HIDE DEF next
      <4>2. QED
        BY <1>1, <4>1 DEF Command
    <3>4. ~OpenSrc /\ DstPath \in Path /\ m \in {"r", "w", "a"}
      BY <1>1, <2>2 DEF OpenSrc, OpenDst, DstPath
    <3> HIDE DEF m
    <3>5. QED
      BY <3>1, <3>2, <3>3, <3>4
  <2>3. QED
    BY <2>1, <2>2
<1>4. cmd.dst = 0
  BY DEF FlowInv, OpenSrc, OpenDst
<1>5. ASSUME NEW h \in OpenHandles, handles'[h] = handles[h], h # cmd'.dst,
             \A i \in UsedSlots : i \in UsedSlots' /\ Kept(i) /\ dir'[i].name = dir[i].name
      PROVE  \E i \in UsedSlots' : Stands(h, i)'
  BY <1>2, <1>5, StandsKept DEF FileInv
<1>6. CASE r = 0
  <2>1. handles' = handles /\ cmd'.dst = 0
    BY <1>1, <1>3, <1>4, <1>6, OpenHandle
  <2>2. \A i \in UsedSlots : i \in UsedSlots' /\ Kept(i) /\ dir'[i].name = dir[i].name
    <3>1. CASE OpenRefused(r) \/ OpenMissing(p, m, r) \/ OpenExisting(p, m, r)
      <4>1. vol' = vol /\ dir' = dir
        BY <3>1 DEF OpenRefused, OpenMissing, OpenExisting, fsVars
      <4>2. QED
        BY <4>1 DEF UsedSlots, Kept
    <3>2. CASE OpenCreate(p, m, r)
      <4>1. FreeHandle # 0
        BY <3>2 DEF OpenCreate
      <4>2. PICK name : EnterNew(name, FALSE, Zeroes, FALSE)
        BY <1>6, <3>2, <4>1 DEF OpenCreate
      <4>3. QED
        BY <1>1, <4>2, EntersEffect DEF EnterNew
    <3>3. QED
      BY <1>3, <3>1, <3>2 DEF Open
  <2>3. OpenHandles' = OpenHandles /\ \A h \in OpenHandles : h # cmd'.dst
    BY <1>1, <2>1 DEF OpenHandles
  <2>4. QED
    BY <1>5, <2>1, <2>2, <2>3 DEF FileInv
<1>7. CASE r # 0
  <2>1. r \in Handles /\ \A h \in Handles \ {r} : handles'[h] = handles[h]
    BY <1>1, <1>3, <1>7, OpenHandle
  <2>2. \A i \in UsedSlots : i \in UsedSlots' /\ Kept(i) /\ dir'[i].name = dir[i].name
    BY <1>1, <1>3, <2>1, OpenedStands
  <2>3. PICK i \in UsedSlots' :
          /\ dir'[i].name = Plain(p)
          /\ dir'[i].first = handles'[r].first /\ handles'[r].current = handles'[r].first
          /\ handles'[r].first \in ChainOf(i)'
          /\ NamesStable => handles'[r].name = To83[p.text]
    BY <1>1, <1>3, <2>1, OpenedStands
  <2>4. Stands(r, i)'
    <3>1. r = cmd'.dst => p = DstPath'
      BY <1>1, <1>2, <1>3, <1>4, <1>7, <2>1 DEF SameCommand, DstPath
    <3>2. r = cmd'.dst => Plain(p) = Plain(DstPath)'
      BY <3>1 DEF Plain
    <3>3. QED
      BY <2>3, <3>1, <3>2 DEF Stands
  <2>5. ASSUME NEW h \in OpenHandles', h # r
        PROVE  \E j \in UsedSlots' : Stands(h, j)'
    <3>1. h \in OpenHandles /\ handles'[h] = handles[h]
      BY <2>1, <2>5 DEF OpenHandles
    <3>2. h # cmd'.dst
      BY <1>1, <1>2, <1>3, <1>4, <1>7, <2>5, <3>1 DEF OpenHandles
    <3>3. QED
      BY <1>5, <2>2, <3>1, <3>2
  <2>6. QED
    BY <2>3, <2>4, <2>5 DEF FileInv
<1>8. QED
  BY <1>6, <1>7

LEMMA CallFiles ==
  ASSUME ShellInv, FlowInv, ChainsSound, FileInv, SameCommand, cmd'.dst = cmd.dst,
         Get \/ Getting \/ Put \/ Putting \/ CloseSrc \/ CloseDst \/ InCall
  PROVE  FileInv'
<1>1. FsInv /\ cmd \in Command
  BY DEF ShellInv, CmdInv
<1>2. CASE Iterate /\ cmd' = cmd
  <2>1. PICK h \in OpenHandles : h = call.h
    BY <1>1, <1>2, StartingSays DEF FlowInv
  <2>2. PICK i \in UsedSlots : Stands(h, i)
    BY DEF FileInv
  <2>3. /\ dir' = dir /\ OpenHandles' = OpenHandles
        /\ \A g \in Handles \ {h} : handles'[g] = handles[g]
        /\ handles'[h].name = handles[h].name
    BY <1>1, <1>2, <2>1, IterateMoves, StartingSays DEF Moves, OpenHandles
  <2>4. /\ UsedSlots' = UsedSlots
        /\ \A j \in UsedSlots : ChainOf(j) \subseteq ChainOf(j)'
        /\ handles'[h].first = handles[h].first
        /\ handles'[h].current \in Clusters => handles'[h].current \in ChainOf(i)'
    BY <1>1, <1>2, <2>1, <2>2, IterateStands DEF Stands
  <2>5. Plain(DstPath)' = Plain(DstPath) /\ DstPath' = DstPath
    BY <1>2 DEF DstPath, Plain
  <2>6. Stands(h, i)'
    BY <1>2, <2>2, <2>3, <2>4, <2>5 DEF Stands
  <2>7. ASSUME NEW g \in OpenHandles, g # h
        PROVE  \E j \in UsedSlots : Stands(g, j)'
    <3>1. PICK j \in UsedSlots : Stands(g, j)
      BY DEF FileInv
    <3>2. handles'[g] = handles[g]
      BY <2>3, <2>7 DEF OpenHandles
    <3>3. Stands(g, j)'
      BY <1>2, <2>3, <2>4, <2>5, <3>1, <3>2 DEF Stands
    <3>4. QED
      BY <3>3
  <2>8. QED
    BY <2>3, <2>4, <2>6, <2>7 DEF FileInv
<1>3. ASSUME Rests, \A h \in OpenHandles' : h \in OpenHandles /\ handles'[h] = handles[h]
      PROVE  FileInv'
  <2>1. UsedSlots' = UsedSlots /\ \A i \in UsedSlots : Kept(i)
    BY <1>1, <1>3, RestsEffect
  <2>2. \A i \in UsedSlots : dir'[i].name = dir[i].name
    BY <1>3 DEF Rests, UsedSlots
  <2>3. ASSUME NEW h \in OpenHandles'
        PROVE  \E i \in UsedSlots' : Stands(h, i)'
    <3>1. h \in OpenHandles /\ handles'[h] = handles[h]
      BY <1>3
    <3>2. PICK i \in UsedSlots : Stands(h, i)
      BY <3>1 DEF FileInv
    <3>3. Stands(h, i)'
      BY <2>1, <2>2, <3>1, <3>2, StandsKept
    <3>4. QED
      BY <2>1, <3>3
  <2>4. QED
    BY <2>3 DEF FileInv
<1>4. CASE Getting \/ Putting \/ SeekReturn
  <2>1. handles' = handles
    BY <1>4 DEF Getting, Putting, ReadReturn, WriteReturn, SeekReturn
  <2>2. Rests
    BY <1>1, <1>4, ReturnSteps DEF Getting, Putting
  <2>3. QED
    BY <1>3, <2>1, <2>2 DEF OpenHandles
<1>5. CASE Get \/ Put
  <2>1. handles' = handles /\ vol' = vol /\ dir' = dir
    BY <1>5 DEF Get, Put, ReadBegin, ReadNothing, WriteBegin, WriteNothing, fsVars
  <2>2. QED
    BY <1>3, <2>1 DEF OpenHandles, Rests
<1>6. CASE CloseSrc \/ CloseDst
  <2>1. PICK h : handles' = [handles EXCEPT ![h] = Closed] /\ vol' = vol /\ dir' = dir
    BY <1>6 DEF CloseSrc, CloseDst, Close
  <2>2. \A g \in OpenHandles' : g \in OpenHandles /\ handles'[g] = handles[g]
    BY <1>1, <2>1 DEF OpenHandles, Closed, FsInv
  <2>3. QED
    BY <1>3, <2>1, <2>2 DEF Rests
<1>7. QED
  BY <1>2, <1>4, <1>5, <1>6 DEF InCall

LEMMA ShellNextFiles ==
  ShellInv /\ FlowInv /\ ChainsSound /\ FileInv /\ [ShellNext]_shellVars => FileInv'
<1> SUFFICES ASSUME ShellInv, FlowInv, ChainsSound, FileInv, [ShellNext]_shellVars PROVE FileInv'
  OBVIOUS
<1>1. CASE UNCHANGED shellVars
  <2>1. UsedSlots' = UsedSlots /\ OpenHandles' = OpenHandles
    BY <1>1 DEF shellVars, fsVars, UsedSlots, OpenHandles
  <2>2. \A h, i : Stands(h, i) => Stands(h, i)'
    BY <1>1 DEF shellVars, fsVars, Stands, ChainOf, Plain, DstPath
  <2>3. QED
    BY <2>1, <2>2 DEF FileInv
<1>2. CASE OpenHandles' = {}
  BY <1>2 DEF FileInv
<1>3. CASE cmd' = Idle
  <2>1. FlowInv' /\ Idle.src = 0 /\ Idle.dst = 0
    BY ShellNextFlow DEF Idle
  <2>2. OpenHandles' \subseteq {0} /\ 0 \notin Handles
    BY <1>3, <2>1 DEF FlowInv, Handles
  <2>3. OpenHandles' = {}
    BY <2>2 DEF OpenHandles
  <2>4. QED
    BY <1>2, <2>3
<1>4. CASE UserTypes \/ UserMounts \/ Check \/ CheckDst \/ Act
  BY <1>2, <1>4, UserFlow, CheckFlow
<1>5. CASE OpenSrc \/ OpenDst
  BY <1>3, <1>5, OpenFiles
<1>6. CASE Get \/ Getting \/ Put \/ Putting \/ CloseSrc \/ CloseDst \/ InCall
  <2>1. ~OpenDst
    BY <1>6 DEF Get, Getting, Put, Putting, CloseSrc, CloseDst, InCall, OpenDst, Open, Quiet,
       ReadReturn, WriteReturn, SeekReturn, Returns, Iterate, ReadStep, WriteInPlace,
       WriteExtending, SeekStep, InLoop
  <2>2. QED
    BY <1>3, <1>6, <2>1, CommandStays, CallFiles
<1>7. QED
  BY <1>1, <1>4, <1>5, <1>6 DEF ShellNext, CommandStep

LEMMA ShellInitFiles == ShellInit => FileInv
BY DEF ShellInit, FsInit, FileInv, OpenHandles, Closed

LEMMA FlowHolds == ShellSpec => []FlowInv
BY ShellInvHolds, ShellInitFlow, ShellNextFlow, PTL DEF ShellSpec

LEMMA FilesHold == ShellSpec /\ ChainsSound => []FileInv
BY ShellInvHolds, FlowHolds, ShellChainsSound, ShellInitFiles, ShellNextFiles, PTL DEF ShellSpec

(* On every path out of a command its handles are closed, and a handle     *)
(* that is open stands for an entry of the directory.                      *)
THEOREM ShellHandlesLive == ShellSpec /\ ChainsSound => []HandlesLive
<1>1. FlowInv /\ FileInv => HandlesLive
  BY DEF FlowInv, FileInv, HandlesLive, OpenHandles, Stands
<1>2. QED
  BY <1>1, FlowHolds, FilesHold, PTL

-----------------------------------------------------------------------------
(* Only handles that stand for an entry are written, so whatever a write   *)
(* appends a cluster to is the chain of an entry.                          *)
LEMMA ShellNextOwned ==
  ShellInv /\ FlowInv /\ ChainsSound /\ FileInv /\ Owned /\ [ShellNext]_shellVars => Owned'
<1> SUFFICES ASSUME ShellInv, FlowInv, ChainsSound, FileInv, Owned, [ShellNext]_shellVars
             PROVE  Owned'
  OBVIOUS
<1>1. ASSUME WriteExtending
      PROVE  \E i \in UsedSlots : dir[i].first = handles[call.h].first
  <2>1. call.h \in OpenHandles
    BY <1>1 DEF WriteExtending, InLoop, FlowInv
  <2>2. QED
    BY <2>1 DEF FileInv, Stands
<1>2. CASE ApiStep
  BY <1>1, <1>2, StepOwned DEF ShellInv
<1>3. CASE UNCHANGED fsVars
  BY <1>3 DEF fsVars, Owned, InUse, UsedSlots, ChainOf
<1>4. QED
  BY <1>2, <1>3, ShellSteps

(* Whatever fails in a command, when it is over every cluster in use       *)
(* belongs to the root directory or to a file.                             *)
THEOREM ShellNoClusterLeaked == ShellSpec /\ ChainsSound /\ NoClusterLeaked => []NoClusterLeaked
<1>1. ShellInit /\ NoClusterLeaked => Owned
  BY DEF ShellInit, Idle, Prompt, NoClusterLeaked, Owned, InUse
<1>2. Owned => NoClusterLeaked
  BY DEF NoClusterLeaked, Owned, InUse
<1>3. QED
  BY <1>1, <1>2, ShellInvHolds, FlowHolds, FilesHold, ShellChainsSound, ShellNextOwned, PTL
  DEF ShellSpec
-----------------------------------------------------------------------------
(* A file is untouched when its entry, its chain and what the clusters of  *)
(* the chain hold are.                                                     *)
Untouched(i) == /\ Kept(i) /\ dir'[i] = dir[i]
                /\ \A c \in ChainOf(i) : data'[c] = data[c]

LEMMA UntouchedSays ==
  ASSUME ChainsSound, NEW i \in UsedSlots, Untouched(i)
  PROVE  FileState(i)' = FileState(i)
<1>1. ChainOf(i)' = ChainOf(i) /\ dir'[i] = dir[i]
  BY KeptChain DEF Untouched
<1>2. \A c \in ChainOf(i) : <<vol'.fat[c], data'[c]>> = <<vol.fat[c], data[c]>>
  BY DEF Untouched, Kept
<1>3. [c \in ChainOf(i)' |-> <<vol'.fat[c], data'[c]>>] = [c \in ChainOf(i) |-> <<vol.fat[c], data[c]>>]
  BY <1>1, <1>2
<1>4. QED
  BY <1>1, <1>3 DEF FileState

(* A new entry, or none, touches no file; neither does opening one.        *)
LEMMA EnterUntouched ==
  ASSUME FsInv, ChainsSound, NEW name, NEW isdir, NEW contents, NEW ok,
         EnterNew(name, isdir, contents, ok), NEW i \in UsedSlots
  PROVE  Untouched(i)
<1>1. Kept(i) /\ ok \in BOOLEAN
  BY EntersEffect DEF EnterNew
<1>2. dir'[i] = dir[i]
  <2>1. CASE ok
    <3>1. PICK s \in Slots \ UsedSlots : dir' = [dir EXCEPT ![s] = NewEntry(name, isdir, Allocated(vol))]
      BY <2>1, EntersEffect
    <3>2. i # s
      OBVIOUS
    <3>3. QED
      BY <3>1, <3>2 DEF FsInv, UsedSlots
  <2>2. CASE ~ok
    BY <2>2, EntersEffect
  <2>3. QED
    BY <1>1, <2>1, <2>2
<1>3. \A c \in ChainOf(i) : data'[c] = data[c]
  <2>1. Allocated(vol) \notin ChainOf(i) /\ ChainOf(i) \subseteq Clusters
    BY AllocatedApart, SoundChain DEF EnterNew
  <2>2. data' = [data EXCEPT ![Allocated(vol)] = contents]
    BY DEF EnterNew
  <2>3. QED
    BY <2>1, <2>2 DEF FsInv
<1>4. QED
  BY <1>1, <1>2, <1>3 DEF Untouched

LEMMA OpenUntouched ==
  ASSUME FsInv, ChainsSound, NEW p \in Path, NEW m, NEW r, Open(p, m, r), NEW i \in UsedSlots
  PROVE  Untouched(i)
<1>1. CASE OpenRefused(r) \/ OpenMissing(p, m, r) \/ OpenExisting(p, m, r)
  BY <1>1 DEF OpenRefused, OpenMissing, OpenExisting, fsVars, Untouched, Kept
<1>2. CASE OpenCreate(p, m, r)
  BY <1>2, EnterUntouched DEF OpenCreate
<1>3. QED
  BY <1>1, <1>2 DEF Open

(* The commands that end in one call touch the file they are to delete or  *)
(* to rename.                                                              *)
LEMMA ActUntouched ==
  ASSUME ShellInv, ChainsSound, Act, NEW i \in UsedSlots, dir[i].name \notin Targets
  PROVE  Untouched(i)
<1>1. FsInv /\ cmd.p \in Path /\ dir \in [Slots -> Entry] /\ i \in Slots
  BY DEF ShellInv, CmdInv, Command, FsInv, UsedSlots
<1>2. PICK r \in BOOLEAN :
        \/ cmd.op = "rm" /\ Delete(cmd.p, r)
        \/ cmd.op = "mkdir" /\ Mkdir(cmd.p, r)
        \/ cmd.op = "mv" /\ Rename(cmd.p, cmd.q, r)
  BY DEF Act
<1>3. cmd.op \in {"rm", "mv"} => Find(cmd.p) # i
  <2>1. ASSUME cmd.op \in {"rm", "mv"}, Find(cmd.p) = i
        PROVE  FALSE
    <3>1. Targets = {Plain(cmd.p)}
      BY <2>1 DEF Targets
    <3>2. i # 0
      BY <1>1 DEF Slots
    <3>3. dir[i].name = Plain(cmd.p)
      BY <2>1, <3>2, LookupFinds DEF Find, Plain
    <3>4. QED
      BY <3>1, <3>3
  <2>2. QED
    BY <2>1
<1>4. CASE UNCHANGED <<vol, dir, data>>
  BY <1>4 DEF Untouched, Kept
<1>5. CASE cmd.op = "rm" /\ Delete(cmd.p, r)
  <2>1. CASE r
    <3>1. Find(cmd.p) \in UsedSlots /\ vol.mounted /\ Erase(Find(cmd.p)) /\ data' = data
      BY <1>5, <2>1, LookupFinds DEF Delete, Find
    <3>2. PICK k \in UsedSlots : k = Find(cmd.p)
      BY <3>1
    <3>3. Kept(i) /\ k # i
      BY <1>1, <1>3, <1>5, <3>1, <3>2, ErasesEffect
    <3>4. QED
      BY <1>1, <3>1, <3>2, <3>3 DEF Untouched, Erase
  <2>2. CASE ~r
    BY <1>4, <1>5, <2>2 DEF Delete
  <2>3. QED
    BY <2>1, <2>2
<1>6. CASE cmd.op = "mkdir" /\ Mkdir(cmd.p, r)
  <2>1. CASE EnterNew([slash |-> cmd.p.abs, name |-> To83[cmd.p.text]], TRUE, Dots, r)
    <3> DEFINE name == [slash |-> cmd.p.abs, name |-> To83[cmd.p.text]]
    <3> HIDE DEF name
    <3> QED
      BY <1>1, <2>1, EnterUntouched DEF name
  <2>2. QED
    BY <1>4, <1>6, <2>1 DEF Mkdir
<1>7. CASE cmd.op = "mv" /\ Rename(cmd.p, cmd.q, r)
  <2>1. vol' = vol /\ data' = data
    BY <1>7 DEF Rename
  <2>2. dir' = IF r THEN [dir EXCEPT ![Find(cmd.p)].name.name = To83[cmd.q.text]] ELSE dir
    BY <1>7 DEF Rename
  <2>3. Find(cmd.p) # i
    BY <1>3, <1>7
  <2>4. dir'[i] = dir[i]
    BY <1>1, <2>2, <2>3
  <2>5. QED
    BY <2>1, <2>4 DEF Untouched, Kept
<1>8. QED
  BY <1>2, <1>5, <1>6, <1>7

(* What is written is written to the file of the command.                  *)
LEMMA WrittenTarget ==
  ASSUME FlowInv, FileInv, call.op = "write"
  PROVE  \E j \in UsedSlots :
           /\ dir[j].first = handles[call.h].first
           /\ handles[call.h].current \in Clusters => handles[call.h].current \in ChainOf(j)
           /\ dir[j].name = Plain(DstPath) /\ Plain(DstPath) \in Targets
           /\ NamesStable => handles[call.h].name = To83[DstPath.text]
<1>1. call.h \in OpenHandles /\ call.h = cmd.dst /\ cmd.at = "putting"
  BY DEF FlowInv
<1>2. PICK j \in UsedSlots : Stands(call.h, j)
  BY <1>1 DEF FileInv
<1>3. cmd.op \in {"write", "echo", "append", "cp"}
  BY <1>1 DEF FlowInv, OpsAt
<1>4. Plain(DstPath) \in Targets
  <2>1. CASE cmd.op = "cp"
    BY <2>1 DEF Targets, DstPath
  <2>2. CASE cmd.op # "cp"
    BY <1>3, <2>2 DEF Targets, DstPath
  <2>3. QED
    BY <2>1, <2>2
<1>5. QED
  BY <1>1, <1>2, <1>4 DEF Stands

LEMMA WriteUntouched ==
  ASSUME ShellInv, FlowInv, ChainsSound, FileInv, WriteInPlace \/ WriteExtending,
         NEW i \in UsedSlots, dir[i].name \notin Targets
  PROVE  Untouched(i)
<1>1. FsInv /\ call.op = "write" /\ Iterate
  BY DEF ShellInv, WriteInPlace, WriteExtending, InLoop, Iterate
<1>2. PICK j \in UsedSlots :
        /\ dir[j].first = handles[call.h].first
        /\ handles[call.h].current \in Clusters => handles[call.h].current \in ChainOf(j)
        /\ dir[j].name \in Targets
  BY <1>1, WrittenTarget
<1>3. i # j /\ ChainOf(i) \cap ChainOf(j) = {} /\ ChainOf(i) \subseteq Clusters
  BY <1>2, SoundChain DEF ChainsSound
<1>4. dir' = dir
  BY <1>1, IterateMoves
<1>5. \E b : data' = [data EXCEPT ![Starting.current] = b]
  <2>1. CASE WriteInPlace
    <3>1. Starting = handles[call.h]
      BY <2>1 DEF Starting, WriteInPlace
    <3>2. QED
      BY <2>1, <3>1 DEF WriteInPlace, StoreChunk
  <2>2. CASE WriteExtending
    <3>1. Starting = [handles[call.h] EXCEPT
                        !.first = IF @ \in Clusters THEN @ ELSE Allocated(vol),
                        !.current = Allocated(vol), !.offset = 0]
      BY <2>2 DEF WriteExtending, Starting
    <3>2. PICK v, k : StoreChunk(Starting, v, k)
      BY <2>2, <3>1 DEF WriteExtending
    <3>3. QED
      BY <3>2 DEF StoreChunk
  <2>3. QED
    BY <2>1, <2>2
<1>6. Starting.current \notin ChainOf(i) /\ Kept(i)
  <2>1. CASE Extends(handles[call.h])
    <3>1. WriteExtending /\ Starting.current = Allocated(vol)
      BY <1>1, <2>1, StartingSays
    <3>2. Allocated(vol) \notin ChainOf(i)
      BY <1>1, <3>1, AllocatedApart DEF WriteExtending
    <3>3. PICK last \in ChainOf(j) : GrowsFrom(last)
      BY <1>1, <1>2, <3>1, ExtendsChain
    <3>4. last \in First /\ last \notin ChainOf(i)
      BY <1>3, <3>3, SoundChain, Constants
    <3>5. Kept(i)
      BY <1>1, <3>3, <3>4, GrowsEffect
    <3>6. QED
      BY <3>1, <3>2, <3>5
  <2>2. CASE ~Extends(handles[call.h])
    <3>1. Starting = handles[call.h] /\ vol' = vol /\ Starting.current \in Clusters
      BY <1>1, <2>2, StartingSays
    <3>2. Starting.current \in ChainOf(j)
      BY <1>2, <3>1
    <3>3. QED
      BY <1>3, <1>4, <3>1, <3>2 DEF Kept
  <2>3. QED
    BY <2>1, <2>2
<1>7. \A c \in ChainOf(i) : data'[c] = data[c]
  BY <1>1, <1>3, <1>5, <1>6 DEF FsInv
<1>8. QED
  BY <1>4, <1>6, <1>7 DEF Untouched

LEMMA ReturnUntouched ==
  ASSUME NamesStable, ShellInv, FlowInv, FileInv, WriteReturn(call.done),
         NEW i \in UsedSlots, dir[i].name \notin Targets
  PROVE  Untouched(i)
<1> DEFINE f == handles[call.h]
           k == Lookup([slash |-> FALSE, name |-> f.name])
<1>1. f.name = To83[DstPath.text] /\ Plain(DstPath) \in Targets
  BY WrittenTarget DEF WriteReturn, Returns
<1>2. k # 0 => dir[k].name = Plain(DstPath)
  BY <1>1, LookupFinds DEF Plain
<1>3. k # i
  BY <1>1, <1>2 DEF UsedSlots, Slots
<1>4. vol' = vol /\ data' = data /\ dir' = IF k = 0 THEN dir ELSE [dir EXCEPT ![k].size = f.size]
  BY DEF WriteReturn
<1>5. dir'[i] = dir[i]
  <2>1. dir \in [Slots -> Entry] /\ i \in Slots
    BY DEF ShellInv, FsInv, UsedSlots
  <2> HIDE DEF k, f
  <2>2. QED
    BY <1>3, <1>4, <2>1
<1>6. QED
  BY <1>4, <1>5 DEF Untouched, Kept

LEMMA ShellNextIsolated ==
  ASSUME NamesStable, ShellInv, FlowInv, ChainsSound, FileInv, [ShellNext]_shellVars,
         NEW i \in UsedSlots, dir[i].name \notin Targets
  PROVE  FileState(i)' = FileState(i)
<1> SUFFICES Untouched(i)
  BY UntouchedSays
<1>1. FsInv /\ cmd \in Command /\ cmd.p \in Path /\ cmd.q \in Path
  BY DEF ShellInv, CmdInv, Command
<1>2. CASE vol'.fat = vol.fat /\ dir' = dir /\ data' = data
  BY <1>2 DEF Untouched, Kept
<1>3. CASE UserMounts
  BY <1>1, <1>2, <1>3, MountKeeps DEF UserMounts, Mount, Unmount, FsInv, VolInv
<1>4. CASE UserTypes \/ Check \/ CheckDst \/ Get \/ CloseSrc \/ CloseDst \/ UNCHANGED shellVars
  BY <1>2, <1>4 DEF UserTypes, Enter, Check, CheckDst, Exists, Get, ReadBegin, ReadNothing,
                    CloseSrc, CloseDst, Close, shellVars, fsVars
<1>5. CASE Act
  BY <1>5, ActUntouched
<1>6. CASE OpenSrc
  BY <1>1, <1>6, OpenUntouched DEF OpenSrc
<1>7. CASE OpenDst
  <2>1. PICK p \in Path, m \in {"w", "a"}, r \in 0 .. NumHandles : Open(p, m, r)
    <3> DEFINE p == IF cmd.op = "cp" THEN cmd.q ELSE cmd.p
               m == IF cmd.op = "append" THEN "a" ELSE "w"
    <3>1. PICK r \in 0 .. NumHandles : Open(p, m, r)
      BY <1>7 DEF OpenDst
    <3>2. p \in Path /\ m \in {"w", "a"}
      BY <1>1
    <3> HIDE DEF p, m
    <3>3. QED
      BY <3>1, <3>2
  <2>2. QED
    BY <1>1, <2>1, OpenUntouched
<1>8. CASE Getting \/ Put
  BY <1>2, <1>8 DEF Getting, ReadReturn, Put, WriteBegin, WriteNothing, fsVars
<1>9. CASE Putting
  BY <1>9, ReturnUntouched DEF Putting
<1>10. CASE InCall
  <2>1. CASE WriteInPlace \/ WriteExtending
    BY <2>1, WriteUntouched
  <2>2. CASE ReadStep \/ SeekStep \/ SeekReturn
    BY <1>2, <2>2 DEF ReadStep, SeekStep, SeekReturn
  <2>3. QED
    BY <1>10, <2>1, <2>2 DEF InCall, Iterate
<1>11. QED
  BY <1>3, <1>4, <1>5, <1>6, <1>7, <1>8, <1>9, <1>10 DEF ShellNext, CommandStep

(* No command and no mount changes the entry, the clusters or the contents *)
(* of a file other than the one it was asked to write, delete or rename.   *)
THEOREM ShellFilesIsolated ==
  ASSUME NamesStable
  PROVE  ShellSpec /\ ChainsSound => FilesIsolated
<1>1. /\ ShellInv /\ FlowInv /\ ChainsSound /\ FileInv /\ [ShellNext]_shellVars
      => [\A i \in UsedSlots : dir[i].name \notin Targets => FileState(i)' = FileState(i)]_shellVars
  BY ShellNextIsolated
<1>2. QED
  BY <1>1, ShellInvHolds, FlowHolds, FilesHold, ShellChainsSound, PTL DEF ShellSpec, FilesIsolated
-----------------------------------------------------------------------------
(* While a command runs the volume stays mounted.                          *)
Mounted == Prompt \/ vol.mounted

LEMMA MountedStays == ShellInv /\ CommandStep => vol'.mounted = vol.mounted
<1> SUFFICES ASSUME ShellInv, CommandStep PROVE vol'.mounted = vol.mounted
  OBVIOUS
<1>1. ASSUME NEW v \in Volume, NEW c, NEW l
      PROVE  /\ AfterAllocate(v).mounted = v.mounted
             /\ FreeChain(v, c).mounted = v.mounted
             /\ WriteEntry(v, c, l).mounted = v.mounted
  BY DEF Volume, AfterAllocate, FreeChain, WriteEntry
<1>2. FsInv /\ vol \in Volume /\ AfterAllocate(vol) \in Volume
  BY AllocateKeeps DEF ShellInv, FsInv, VolInv
<1>3. ASSUME NEW name, NEW isdir, NEW contents, NEW ok, EnterNew(name, isdir, contents, ok)
      PROVE  vol'.mounted = vol.mounted
  BY <1>1, <1>2, <1>3 DEF EnterNew
<1>4. ASSUME NEW p, NEW m, NEW r, Open(p, m, r)
      PROVE  vol'.mounted = vol.mounted
  <2>1. CASE OpenCreate(p, m, r)
    BY <1>3, <2>1 DEF OpenCreate
  <2>2. CASE OpenRefused(r) \/ OpenMissing(p, m, r) \/ OpenExisting(p, m, r)
    BY <2>2 DEF OpenRefused, OpenMissing, OpenExisting, fsVars
  <2>3. QED
    BY <1>4, <2>1, <2>2 DEF Open
<1>5. CASE Check \/ CheckDst \/ Get \/ Getting \/ Put \/ Putting \/ CloseSrc \/ CloseDst
  BY <1>5 DEF Check, CheckDst, Exists, Get, ReadBegin, ReadNothing, Getting, ReadReturn, Put,
              WriteBegin, WriteNothing, Putting, WriteReturn, CloseSrc, CloseDst, Close, fsVars
<1>6. CASE OpenSrc \/ OpenDst
  BY <1>4, <1>6 DEF OpenSrc, OpenDst
<1>7. CASE Act
  <2>1. PICK r \in BOOLEAN : Delete(cmd.p, r) \/ Mkdir(cmd.p, r) \/ Rename(cmd.p, cmd.q, r)
    BY <1>7 DEF Act
  <2>2. CASE Delete(cmd.p, r)
    BY <1>1, <1>2, <2>2 DEF Delete, Erase
  <2>3. CASE Mkdir(cmd.p, r)
    BY <1>3, <2>3 DEF Mkdir
  <2>4. CASE Rename(cmd.p, cmd.q, r)
    BY <2>4 DEF Rename
  <2>5. QED
    BY <2>1, <2>2, <2>3, <2>4
<1>8. CASE InCall
  <2>1. CASE ReadStep \/ SeekStep \/ SeekReturn \/ WriteInPlace
    BY <2>1 DEF ReadStep, SeekStep, SeekReturn, WriteInPlace, StoreChunk
  <2>2. CASE WriteExtending
    <3>1. PICK last : GrowsFrom(last)
      BY <1>2, <2>2, ExtendingSteps DEF Grows
    <3>2. QED
      BY <1>1, <1>2, <3>1 DEF GrowsFrom
  <2>3. QED
    BY <1>8, <2>1, <2>2 DEF InCall, Iterate
<1>9. QED
  BY <1>5, <1>6, <1>7, <1>8 DEF CommandStep

LEMMA ShellNextMounted == ShellInv /\ FlowInv /\ Mounted /\ [ShellNext]_shellVars => Mounted'
<1> SUFFICES ASSUME ShellInv, FlowInv, Mounted, [ShellNext]_shellVars PROVE Mounted'
  OBVIOUS
<1>1. CASE UserTypes
  BY <1>1 DEF UserTypes, Enter, fsVars, Mounted
<1>2. CASE UserMounts \/ UNCHANGED shellVars
  BY <1>2 DEF UserMounts, shellVars, fsVars, Mounted, Prompt
<1>3. CASE CommandStep
  <2>1. vol'.mounted = vol.mounted
    BY <1>3, MountedStays
  <2>2. CASE Prompt
    <3>1. cmd = Idle /\ Idle.at = "prompt" /\ call.op = "none"
      BY <2>2, Constants
      DEF FlowInv, Idle, OpenHandles, Handles, ShellInv, FsInv, CallInv, Call
    <3>2. FALSE
      BY <1>3, <3>1 DEF CommandStep, Check, CheckDst, Act, OpenSrc, OpenDst, Get, Getting, Put,
         Putting, CloseSrc, CloseDst, InCall, Iterate, ReadStep, WriteInPlace, WriteExtending,
         SeekStep, SeekReturn, InLoop, Returns
    <3>3. QED
      BY <3>2
  <2>3. QED
    BY <2>1, <2>2 DEF Mounted
<1>4. QED
  BY <1>1, <1>2, <1>3 DEF ShellNext

-----------------------------------------------------------------------------
(* The size of an entry changes only where fs_write returns, and no chain  *)
(* that stays becomes shorter.                                             *)
LEMMA CoveredKept ==
  ASSUME FsInv, ChainsSound', SizeCovered, NEW i \in UsedSlots, i \in UsedSlots',
         dir'[i].size = dir[i].size, ChainOf(i) \subseteq ChainOf(i)',
         dir[i].first \in Clusters
  PROVE  dir'[i].size <= ClusterCells * Cardinality(ChainOf(i)')
<1>1. dir'[i].first \in Clusters
  BY DEF ChainsSound
<1>2. IsFiniteSet(ChainOf(i)') /\ Cardinality(ChainOf(i)') \in Nat
  BY <1>1, ReachFinite DEF ChainOf
<1>3. Cardinality(ChainOf(i)) \in Nat
  BY ReachFinite DEF ChainOf
<1>4. Cardinality(ChainOf(i)) <= Cardinality(ChainOf(i)')
  BY <1>2, FS_Subset
<1>5. /\ ClusterCells * Cardinality(ChainOf(i)) <= ClusterCells * Cardinality(ChainOf(i)')
      /\ ClusterCells * Cardinality(ChainOf(i)) \in Nat
      /\ ClusterCells * Cardinality(ChainOf(i)') \in Nat
  BY <1>2, <1>3, <1>4, Products
<1>6. dir[i].size \in Nat /\ dir[i].size <= ClusterCells * Cardinality(ChainOf(i))
  BY DEF SizeCovered, FsInv, UsedSlots, Entry
<1>7. QED
  BY <1>5, <1>6

LEMMA StepCovered ==
  ASSUME FsInv, ChainsSound, SizeCovered, ApiStep, ~WriteReturn(call.done)
  PROVE  SizeCovered'
<1>1. ChainsSound' /\ dir \in [Slots -> Entry] /\ UsedSlots \subseteq Slots
  BY StepSound DEF FsInv, UsedSlots
<1>2. \A i \in UsedSlots : Kept(i) => ChainOf(i)' = ChainOf(i)
  BY KeptChain
<1>3. ASSUME NEW i \in UsedSlots', i \in UsedSlots, dir'[i].size = dir[i].size,
             ChainOf(i) \subseteq ChainOf(i)'
      PROVE  dir'[i].size <= ClusterCells * Cardinality(ChainOf(i)')
  BY <1>1, <1>3, SoundChain, CoveredKept
<1>4. CASE Rests \/ Renames
  <2>1. UsedSlots' = UsedSlots /\ \A i \in UsedSlots : ChainOf(i)' = ChainOf(i)
    BY <1>2, <1>4, RestsEffect
  <2>2. \A i \in UsedSlots : dir'[i].size = dir[i].size
    <3>1. CASE Rests
      BY <3>1 DEF Rests
    <3>2. CASE Renames
      BY <1>1, <3>2 DEF Renames, Entry
    <3>3. QED
      BY <1>4, <3>1, <3>2
  <2>3. QED
    BY <1>3, <2>1, <2>2 DEF SizeCovered
<1>5. CASE Enters
  <2>1. PICK name, isdir, contents, ok : EnterNew(name, isdir, contents, ok)
    BY <1>5 DEF Enters
  <2>2. \A i \in UsedSlots : ChainOf(i)' = ChainOf(i)
    BY <1>2, <2>1, EntersEffect
  <2>3. CASE ok
    <3>1. PICK s \in Slots \ UsedSlots :
            /\ UsedSlots' = UsedSlots \cup {s}
            /\ dir' = [dir EXCEPT ![s] = NewEntry(name, isdir, Allocated(vol))]
      BY <2>1, <2>3, EntersEffect
    <3>2. dir'[s].size = 0 /\ \A i \in UsedSlots : dir'[i].size = dir[i].size
      BY <1>1, <3>1 DEF NewEntry
    <3>3. 0 <= ClusterCells * Cardinality(ChainOf(s)')
      <4>1. dir'[s].first \in Clusters
        BY <1>1, <3>1 DEF ChainsSound
      <4>2. Cardinality(ChainOf(s)') \in Nat
        BY <4>1, ReachFinite DEF ChainOf
      <4>3. QED
        BY <4>2, Products
    <3>4. ASSUME NEW i \in UsedSlots'
          PROVE  dir'[i].size <= ClusterCells * Cardinality(ChainOf(i)')
      <4>1. CASE i = s
        BY <3>2, <3>3, <4>1
      <4>2. CASE i \in UsedSlots
        BY <1>3, <2>2, <3>2, <4>2
      <4>3. QED
        BY <3>1, <4>1, <4>2
    <3>5. QED
      BY <3>4 DEF SizeCovered
  <2>4. CASE ~ok
    <3>1. dir' = dir /\ UsedSlots' = UsedSlots
      BY <2>1, <2>4, EntersEffect
    <3>2. QED
      BY <1>3, <2>2, <3>1 DEF SizeCovered
  <2>5. QED
    BY <2>1, <2>3, <2>4 DEF EnterNew
<1>6. CASE Grows
  <2>1. PICK last \in First : GrowsFrom(last)
    BY <1>6 DEF Grows
  <2>2. dir' = dir /\ UsedSlots' = UsedSlots
    BY <2>1, GrowsEffect DEF GrowsFrom
  <2>3. \A i \in UsedSlots : ChainOf(i) \subseteq ChainOf(i)'
    <3>1. \A i \in UsedSlots : IF last \in ChainOf(i)
                               THEN ChainOf(i)' = ChainOf(i) \cup {Allocated(vol)} ELSE Kept(i)
      BY <2>1, GrowsEffect
    <3>2. QED
      BY <1>2, <3>1
  <2>4. QED
    BY <1>3, <2>2, <2>3 DEF SizeCovered
<1>7. CASE Erases
  <2>1. PICK i \in UsedSlots : vol.mounted /\ Erase(i)
    BY <1>7 DEF Erases
  <2>2. UsedSlots' = UsedSlots \ {i} /\ \A j \in UsedSlots \ {i} : Kept(j)
    BY <2>1, ErasesEffect
  <2>3. \A j \in UsedSlots \ {i} : dir'[j] = dir[j]
    BY <1>1, <2>1 DEF Erase
  <2>4. QED
    BY <1>2, <1>3, <2>2, <2>3 DEF SizeCovered
<1>8. QED
  BY <1>4, <1>5, <1>6, <1>7 DEF ApiStep

-----------------------------------------------------------------------------
(* The handle that is written knows how far it is in its file.             *)
SizeInv == \A h \in OpenHandles : h = cmd.dst => SizedIn(vol.fat, handles[h])

(* fs_write returns: the entry that gets the size of the handle is the one *)
(* the handle stands for.                                                  *)
LEMMA ReturnCovered ==
  ASSUME NamesStable, ShellInv, FlowInv, ChainsSound, EntriesFindable, FileInv, SizeInv,
         SizeCovered, WriteReturn(call.done)
  PROVE  SizeCovered'
<1> DEFINE f == handles[call.h]
           k == Lookup([slash |-> FALSE, name |-> f.name])
<1>1. call.op = "write" /\ call.h \in OpenHandles /\ call.h = cmd.dst
  BY DEF WriteReturn, Returns, FlowInv
<1>2. PICK j \in UsedSlots :
        /\ dir[j].first = f.first /\ dir[j].name = Plain(DstPath)
        /\ f.name = To83[DstPath.text]
  BY <1>1, WrittenTarget
<1>3. k = j
  <2>1. ~dir[j].name.slash /\ dir[j].name = [slash |-> FALSE, name |-> f.name]
    BY <1>2 DEF Plain
  <2>2. QED
    BY <2>1 DEF EntriesFindable
<1>4. f.size <= ClusterCells * Cardinality(ChainOf(j))
  BY <1>1, <1>2 DEF SizeInv, SizedIn, LengthIn, ChainOf
<1>5. j # 0 /\ dir \in [Slots -> Entry] /\ UsedSlots \subseteq Slots
  BY Constants DEF UsedSlots, Slots, ShellInv, FsInv
<1>6. vol' = vol /\ dir' = [dir EXCEPT ![j].size = f.size]
  BY <1>3, <1>5 DEF WriteReturn
<1> HIDE DEF f, k
<1>7. ASSUME NEW i \in Slots
      PROVE  /\ dir'[i].st = dir[i].st /\ dir'[i].first = dir[i].first
             /\ dir'[i].size = IF i = j THEN f.size ELSE dir[i].size
  BY <1>5, <1>6 DEF Entry
<1>8. UsedSlots' = UsedSlots /\ \A i \in UsedSlots : ChainOf(i)' = ChainOf(i)
  BY <1>6, <1>7 DEF UsedSlots, ChainOf
<1>9. QED
  BY <1>4, <1>5, <1>7, <1>8 DEF SizeCovered

LEMMA ShellNextCovered ==
  ASSUME NamesStable, ShellInv, FlowInv, ChainsSound, EntriesFindable, FileInv, SizeInv,
         SizeCovered, [ShellNext]_shellVars
  PROVE  SizeCovered'
<1>1. CASE WriteReturn(call.done)
  BY <1>1, ReturnCovered
<1>2. CASE ~WriteReturn(call.done) /\ ApiStep
  BY <1>2, StepCovered DEF ShellInv
<1>3. CASE UNCHANGED fsVars
  BY <1>3 DEF fsVars, SizeCovered, UsedSlots, ChainOf
<1>4. QED
  BY <1>1, <1>2, <1>3, ShellSteps

(* A file that has just been opened is at its beginning.                   *)
LEMMA OpenedSized ==
  ASSUME FsInv, ChainsSound, ChainsSound', SizeCovered', NEW p \in Path, NEW m,
         NEW r \in Handles, Open(p, m, r)
  PROVE  SizedIn(vol'.fat, handles'[r])
<1>1. PICK i \in UsedSlots' :
        /\ dir'[i].first = handles'[r].first /\ handles'[r].current = handles'[r].first
        /\ handles'[r].size = dir'[i].size
        /\ handles'[r].offset = 0 /\ handles'[r].position = 0
  BY OpenedStands
<1> DEFINE n == LengthIn(vol'.fat, handles'[r].first)
<1>2. handles'[r].first \in Clusters
  BY <1>1 DEF ChainsSound
<1>3. n \in Nat
  BY <1>2, ReachFinite DEF LengthIn
<1>4. LeftIn(vol'.fat, handles'[r]) = n
  BY <1>1, <1>2 DEF LeftIn
<1>5. handles'[r].size <= ClusterCells * n
  BY <1>1 DEF SizeCovered, ChainOf, LengthIn
<1>6. ClusterCells * (n - n) = 0
  BY <1>3, Products, Constants
<1> HIDE DEF n
<1>7. QED
  BY <1>1, <1>2, <1>4, <1>5, <1>6 DEF SizedIn, n

LEMMA ShellNextSized ==
  ASSUME ShellInv, FlowInv, ChainsSound, FileInv, Mounted, SizeInv, SizeCovered',
         [ShellNext]_shellVars
  PROVE  SizeInv'
<1>1. FsInv /\ cmd \in Command /\ cmd.p \in Path /\ cmd.q \in Path /\ 0 \notin Handles
  BY DEF ShellInv, CmdInv, Command, Handles
<1>2. CASE UNCHANGED shellVars
  BY <1>2 DEF shellVars, fsVars, SizeInv, OpenHandles, SizedIn
<1>3. CASE OpenHandles' = {}
  BY <1>3 DEF SizeInv
<1>4. CASE cmd'.dst \notin Handles
  BY <1>4 DEF SizeInv, OpenHandles
<1>5. CASE cmd' = Idle
  BY <1>1, <1>4, <1>5 DEF Idle
<1>6. CASE UserTypes \/ UserMounts \/ Check \/ CheckDst \/ Act
  BY <1>3, <1>6, UserFlow, CheckFlow
<1>7. CASE OpenSrc
  <2>1. cmd.dst = 0 /\ ~OpenDst
    BY <1>7 DEF OpenSrc, OpenDst, FlowInv
  <2>2. cmd' = Idle \/ cmd'.dst = cmd.dst
    BY <1>7, <2>1, CommandStays
  <2>3. QED
    BY <1>1, <1>4, <1>5, <2>1, <2>2
<1>8. CASE OpenDst
  <2> DEFINE m == IF cmd.op = "append" THEN "a" ELSE "w"
             p == IF cmd.op = "cp" THEN cmd.q ELSE cmd.p
  <2>1. PICK r \in 0 .. NumHandles :
          /\ Open(p, m, r)
          /\ IF r = 0
             THEN IF cmd.op = "cp" THEN Goto("closesrc") ELSE Finish
             ELSE cmd' = [cmd EXCEPT !.dst = r,
                    !.at = CASE cmd.op = "cp" -> "get"
                             [] cmd.op # "cp" /\ cmd.todo = <<>> -> "closedst"
                             [] OTHER -> "put"]
    BY <1>8 DEF OpenDst
  <2>2. cmd.dst = 0 /\ p \in Path
    BY <1>1, <1>8 DEF OpenDst, FlowInv
  <2>3. CASE r = 0
    <3>1. cmd'.dst = 0
      BY <1>1, <2>1, <2>2, <2>3 DEF Goto, Finish, Idle, Command
    <3>2. QED
      BY <1>1, <1>4, <3>1
  <2>4. CASE r # 0
    <3> DEFINE next == CASE cmd.op = "cp" -> "get"
                         [] cmd.op # "cp" /\ cmd.todo = <<>> -> "closedst"
                         [] OTHER -> "put"
    <3>1. cmd' = [cmd EXCEPT !.dst = r, !.at = next]
      BY <2>1, <2>4
    <3> HIDE DEF next
    <3>2. cmd'.dst = r
      BY <1>1, <3>1 DEF Command
    <3>3. r \in Handles
      BY <2>4 DEF Handles
    <3>4. ChainsSound'
      BY ShellNextSound
    <3> HIDE DEF p, m
    <3>5. SizedIn(vol'.fat, handles'[r])
      BY <1>1, <2>1, <2>2, <3>3, <3>4, OpenedSized
    <3>6. QED
      BY <3>2, <3>5 DEF SizeInv
  <2>5. QED
    BY <2>3, <2>4
<1>9. ASSUME cmd'.dst = cmd.dst, vol' = vol,
             \A h \in OpenHandles' : h \in OpenHandles /\ handles'[h] = handles[h]
      PROVE  SizeInv'
  <2>1. ASSUME NEW h \in OpenHandles', h = cmd'.dst
        PROVE  SizedIn(vol'.fat, handles'[h])
    BY <1>9, <2>1 DEF SizeInv
  <2>2. QED
    BY <2>1 DEF SizeInv
<1>10. ASSUME Get \/ Getting \/ Put \/ Putting \/ CloseSrc \/ CloseDst \/ InCall
       PROVE  cmd' = Idle \/ cmd'.dst = cmd.dst
  <2>1. ~OpenDst
    BY <1>10 DEF Get, Getting, Put, Putting, CloseSrc, CloseDst, InCall, OpenDst, Open, Quiet,
       ReadReturn, WriteReturn, SeekReturn, Returns, Iterate, ReadStep, WriteInPlace,
       WriteExtending, SeekStep, InLoop
  <2>2. QED
    BY <1>10, <2>1, CommandStays
<1>11. CASE Get \/ Getting \/ Put \/ Putting
  <2>1. handles' = handles /\ vol' = vol
    BY <1>11 DEF Get, Put, Getting, Putting, ReadBegin, ReadNothing, WriteBegin, WriteNothing,
       ReadReturn, WriteReturn, fsVars
  <2>2. OpenHandles' = OpenHandles
    BY <2>1 DEF OpenHandles
  <2>3. QED
    BY <1>5, <1>9, <1>10, <1>11, <2>1, <2>2
<1>12. CASE CloseSrc \/ CloseDst
  <2>1. PICK h : handles' = [handles EXCEPT ![h] = Closed] /\ vol' = vol
    BY <1>12 DEF CloseSrc, CloseDst, Close
  <2>2. \A g \in OpenHandles' : g \in OpenHandles /\ handles'[g] = handles[g]
    BY <1>1, <2>1 DEF OpenHandles, Closed, FsInv
  <2>3. QED
    BY <1>5, <1>9, <1>10, <1>12, <2>1, <2>2
<1>13. CASE InCall
  <2>1. CASE SeekReturn
    <3>1. handles' = handles /\ vol' = vol /\ cmd' = cmd
      BY <1>13, <2>1 DEF InCall, SeekReturn
    <3>2. QED
      BY <1>9, <3>1 DEF OpenHandles
  <2>2. CASE Iterate
    <3>1. PICK h \in OpenHandles : h = call.h
      BY <1>1, <2>2, StartingSays DEF FlowInv
    <3>2. PICK i \in UsedSlots : Stands(h, i)
      BY DEF FileInv
    <3>3. cmd' = cmd
      BY <1>13 DEF InCall
    <3>4. /\ \A g \in Handles \ {h} : handles'[g] = handles[g]
          /\ handles'[h].in_use = handles[h].in_use
      BY <1>1, <2>2, <3>1, IterateMoves, StartingSays DEF Moves
    <3>5. OpenHandles' = OpenHandles
      BY <3>4 DEF OpenHandles
    <3>6. CASE h = cmd.dst
      <4>1. vol'.mounted
        <5>1. ~Prompt
          BY <1>1, <3>1, <3>6 DEF FlowInv, Idle, OpenHandles
        <5>2. QED
          BY <1>13, <5>1, MountedStays DEF Mounted, CommandStep
      <4>2. SizedIn(vol'.fat, handles'[h])
        BY <1>1, <2>2, <3>1, <3>2, <3>6, <4>1, IterateSized DEF Stands, SizeInv
      <4>3. QED
        BY <3>3, <3>6, <4>2 DEF SizeInv
    <3>7. CASE h # cmd.dst
      <4>1. call.op = "read"
        BY <2>2, <3>1, <3>7 DEF Iterate, ReadStep, WriteInPlace, WriteExtending, SeekStep,
                                InLoop, FlowInv
      <4>2. vol' = vol
        BY <2>2, <4>1 DEF Iterate, ReadStep, WriteInPlace, WriteExtending, SeekStep, InLoop
      <4>3. ASSUME NEW g \in OpenHandles', g = cmd'.dst
            PROVE  SizedIn(vol'.fat, handles'[g])
        <5>1. g \in OpenHandles /\ g = cmd.dst /\ handles'[g] = handles[g]
          BY <3>3, <3>4, <3>5, <3>7, <4>3 DEF OpenHandles
        <5>2. QED
          BY <4>2, <5>1 DEF SizeInv
      <4>4. QED
        BY <4>3 DEF SizeInv
    <3>8. QED
      BY <3>6, <3>7
  <2>3. QED
    BY <1>13, <2>1, <2>2 DEF InCall
<1>14. QED
  BY <1>2, <1>6, <1>7, <1>8, <1>11, <1>12, <1>13 DEF ShellNext, CommandStep

LEMMA MountedHolds == ShellSpec => []Mounted
<1>1. ShellInit => Mounted
  BY DEF ShellInit, Idle, Mounted, Prompt
<1>2. QED
  BY <1>1, ShellInvHolds, FlowHolds, ShellNextMounted, PTL DEF ShellSpec

(* The size of an entry never exceeds what its chain can hold, also when   *)
(* the disk runs full in the middle of a write: update_file_size gives the *)
(* size that fs_write reached to the very file it wrote.                   *)
THEOREM ShellSizeCovered ==
  ASSUME NamesStable
  PROVE  ShellSpec /\ ChainsSound /\ EntriesFindable /\ SizeCovered => []SizeCovered
<1>1. ShellInit => SizeInv
  BY DEF ShellInit, FsInit, SizeInv, OpenHandles, Closed
<1>2. ShellInv /\ FlowInv /\ ChainsSound /\ EntriesFindable /\ FileInv /\ Mounted
      /\ SizeInv /\ SizeCovered /\ [ShellNext]_shellVars => SizeInv' /\ SizeCovered'
  BY ShellNextCovered, ShellNextSized
<1>3. QED
  BY <1>1, <1>2, ShellInvHolds, FlowHolds, FilesHold, MountedHolds, ShellChainsSound,
     ShellEntriesFindable, PTL DEF ShellSpec

-----------------------------------------------------------------------------
(* Of two clusters of a chain one comes after the other.                   *)
LEMMA ChainLinear ==
  ASSUME NEW fat, NEW c \in Clusters, NEW x \in Reach(fat, c), NEW y \in Reach(fat, c)
  PROVE  x \in Reach(fat, y) \/ y \in Reach(fat, x)
<1> DEFINE T == {z \in Reach(fat, c) : x \in Reach(fat, z) \/ z \in Reach(fat, x)}
<1>1. x \in Clusters /\ c \in T /\ T \in SUBSET Clusters
  BY ReachWithin
<1>2. ASSUME NEW z \in T, fat[z] \in Clusters
      PROVE  fat[z] \in T
  <2>1. z \in Clusters /\ fat[z] \in Reach(fat, c)
    BY <1>1, <1>2, ReachCloses
  <2>2. CASE x \in Reach(fat, z) /\ x # z
    <3>1. x \in Reach(fat, fat[z])
      BY <1>2, <2>1, <2>2, ReachUnfolds
    <3>2. QED
      BY <2>1, <3>1
  <2>3. CASE z \in Reach(fat, x)
    BY <1>1, <1>2, <2>1, <2>3, ReachCloses
  <2>4. x \in Reach(fat, x)
    BY <1>1, ReachWithin
  <2>5. QED
    BY <2>2, <2>3, <2>4
<1>3. Reach(fat, c) \subseteq T
  <2> HIDE DEF T
  <2>1. QED
    BY <1>1, <1>2, ReachLeast
<1>4. QED
  BY <1>3

(* In a chain that ends, a cluster is known by how many follow it.         *)
LEMMA LengthsDiffer ==
  ASSUME NEW fat, NEW c \in Clusters, NEW e \in Reach(fat, c), fat[e] \notin Clusters,
         NEW x \in Reach(fat, c), NEW y \in Reach(fat, c),
         Cardinality(Reach(fat, x)) = Cardinality(Reach(fat, y))
  PROVE  x = y
<1>1. ASSUME NEW u \in Reach(fat, c), NEW w \in Reach(fat, c), u # w, w \in Reach(fat, u)
      PROVE  Cardinality(Reach(fat, w)) < Cardinality(Reach(fat, u))
  <2>1. u \in Clusters /\ w \in Clusters
    BY ReachWithin
  <2>2. fat[u] \in Clusters /\ w \in Reach(fat, fat[u])
    BY <1>1, <2>1, ReachUnfolds
  <2>3. Reach(fat, w) \subseteq Reach(fat, fat[u])
    BY <2>2, ReachCloses
  <2>4. Cardinality(Reach(fat, w)) <= Cardinality(Reach(fat, fat[u]))
    BY <2>2, <2>3, ReachFinite, FS_Subset
  <2>5. Cardinality(Reach(fat, u)) = Cardinality(Reach(fat, fat[u])) + 1
    BY <2>2, WalkShortens
  <2>6. Cardinality(Reach(fat, fat[u])) \in Nat /\ Cardinality(Reach(fat, w)) \in Nat
    BY <2>1, <2>2, ReachFinite
  <2>7. QED
    BY <2>4, <2>5, <2>6
<1>2. Cardinality(Reach(fat, x)) \in Nat
  BY ReachWithin, ReachFinite
<1>3. QED
  BY <1>1, <1>2, ChainLinear

(* Where in its clusters a cell of a file is.                              *)
LEMMA Quotients ==
  /\ \A n \in Nat : /\ n \div ClusterCells \in Nat /\ n % ClusterCells \in 0 .. ClusterCells - 1
                    /\ n = ClusterCells * (n \div ClusterCells) + (n % ClusterCells)
  /\ \A q \in Nat, o \in 0 .. ClusterCells - 1 :
       /\ (ClusterCells * q + o) \div ClusterCells = q
       /\ (ClusterCells * q + o) % ClusterCells = o
<1>1. ClusterCells \in Nat /\ ClusterCells > 0
  BY Constants
<1>2. ASSUME NEW n \in Nat
      PROVE  /\ n \div ClusterCells \in Nat /\ n % ClusterCells \in 0 .. ClusterCells - 1
             /\ n = ClusterCells * (n \div ClusterCells) + (n % ClusterCells)
  BY <1>1
<1>3. ASSUME NEW q \in Nat, NEW d \in Nat, NEW o \in 0 .. ClusterCells - 1,
             NEW r \in 0 .. ClusterCells - 1,
             ClusterCells * q + o = ClusterCells * d + r
      PROVE  q = d /\ o = r
  <2>1. ASSUME NEW a \in Nat, NEW b \in Nat, a < b
        PROVE  ClusterCells * a + ClusterCells <= ClusterCells * b
    <3>1. ClusterCells * (a + 1) <= ClusterCells * b
      BY <2>1, Products
    <3>2. QED
      BY <3>1, Products
  <2>2. ClusterCells * q \in Nat /\ ClusterCells * d \in Nat
    BY Products
  <2>3. ~(q < d)
    <3>1. SUFFICES ASSUME q < d PROVE FALSE
      OBVIOUS
    <3>2. ClusterCells * q + ClusterCells <= ClusterCells * d
      BY <2>1, <3>1
    <3>3. QED
      BY <1>1, <1>3, <2>2, <3>2
  <2>4. ~(d < q)
    <3>1. SUFFICES ASSUME d < q PROVE FALSE
      OBVIOUS
    <3>2. ClusterCells * d + ClusterCells <= ClusterCells * q
      BY <2>1, <3>1
    <3>3. QED
      BY <1>1, <1>3, <2>2, <3>2
  <2>5. q = d
    BY <2>3, <2>4
  <2>6. QED
    BY <1>1, <1>3, <2>2, <2>5
<1>4. ASSUME NEW q \in Nat, NEW o \in 0 .. ClusterCells - 1
      PROVE  /\ (ClusterCells * q + o) \div ClusterCells = q
             /\ (ClusterCells * q + o) % ClusterCells = o
  <2> DEFINE n == ClusterCells * q + o
             d == n \div ClusterCells
             r == n % ClusterCells
  <2>1. n \in Nat
    BY <1>1, Products
  <2>2. d \in Nat /\ r \in 0 .. ClusterCells - 1 /\ n = ClusterCells * d + r
    BY <1>2, <2>1
  <2>3. q = d /\ o = r
    <3> HIDE DEF d, r
    <3> QED
      BY <1>3, <2>2
  <2>4. QED
    BY <2>3
<1>5. QED
  BY <1>2, <1>4

-----------------------------------------------------------------------------
(* Cell k of the file whose chain starts at c is v; the first n cells are  *)
(* those of s.                                                             *)
CellIn(fat, dat, c, k, v) ==
  \E x \in Reach(fat, c) :
    /\ LengthIn(fat, x) = LengthIn(fat, c) - ((k - 1) \div ClusterCells)
    /\ dat[x][((k - 1) % ClusterCells) + 1] = v

Begins(fat, dat, c, s, n) == \A k \in 1 .. n : CellIn(fat, dat, c, k, s[k])

(* Cell k as CellAt picks it.                                              *)
PickedCell(fat, dat, c, k) ==
  LET left == LengthIn(fat, c) - (k - 1) \div ClusterCells
      x == CHOOSE y \in Reach(fat, c) : LengthIn(fat, y) = left
  IN  dat[x][((k - 1) % ClusterCells) + 1]

(* Only that cell is cell k, so CellAt picks it.                           *)
LEMMA CellPicked ==
  ASSUME NEW fat, NEW dat, NEW c \in Clusters, NEW e \in Reach(fat, c), fat[e] \notin Clusters,
         NEW k, NEW v, CellIn(fat, dat, c, k, v)
  PROVE  PickedCell(fat, dat, c, k) = v
<1> DEFINE left == LengthIn(fat, c) - ((k - 1) \div ClusterCells)
           x == CHOOSE y \in Reach(fat, c) : LengthIn(fat, y) = left
<1>1. PICK z \in Reach(fat, c) : /\ LengthIn(fat, z) = left
                                 /\ dat[z][((k - 1) % ClusterCells) + 1] = v
  BY DEF CellIn
<1>2. x \in Reach(fat, c) /\ LengthIn(fat, x) = left
  <2> HIDE DEF left
  <2> QED
    BY <1>1
<1>3. x = z
  <2> HIDE DEF x, left
  <2> QED
    BY <1>1, <1>2, LengthsDiffer DEF LengthIn
<1>4. PickedCell(fat, dat, c, k) = dat[x][((k - 1) % ClusterCells) + 1]
  BY DEF PickedCell
<1>5. QED
  BY <1>1, <1>3, <1>4

(* The cells at and after a handle's position are those of its cluster.    *)
LEMMA CellHere ==
  ASSUME NEW fat, NEW dat, NEW c \in Clusters, NEW e \in Reach(fat, c), fat[e] \notin Clusters,
         NEW x \in Reach(fat, c), NEW o \in 0 .. ClusterCells - 1,
         NEW k, k = ClusterCells * (LengthIn(fat, c) - LengthIn(fat, x)) + o + 1
  PROVE  CellIn(fat, dat, c, k, dat[x][o + 1])
<1> DEFINE q == LengthIn(fat, c) - LengthIn(fat, x)
<1>1. x \in Clusters /\ LengthIn(fat, c) \in Nat /\ LengthIn(fat, x) \in Nat
  BY ReachWithin, ReachFinite DEF LengthIn
<1>2. LengthIn(fat, x) <= LengthIn(fat, c)
  BY <1>1, ReachCloses, ReachFinite, FS_Subset DEF LengthIn
<1>3. q \in Nat /\ LengthIn(fat, x) = LengthIn(fat, c) - q
  BY <1>1, <1>2
<1>4. k - 1 = ClusterCells * q + o
  <2> HIDE DEF q
  <2>1. ClusterCells * q \in Nat /\ o \in Nat
    BY <1>3, Products
  <2>2. k = ClusterCells * q + o + 1
    BY DEF q
  <2>3. QED
    BY <2>1, <2>2
<1>5. (k - 1) \div ClusterCells = q /\ (k - 1) % ClusterCells = o
  <2> HIDE DEF q
  <2> QED
    BY <1>3, <1>4, Quotients
<1>6. QED
  <2> HIDE DEF q
  <2> QED
    BY <1>3, <1>5 DEF CellIn

(* What a handle of the chain has yet to pass is no shorter than what the  *)
(* chain holds.                                                            *)
LEMMA BehindWhole ==
  ASSUME NEW fat, NEW f \in Handle, f.first \in Clusters, SizedIn(fat, f),
         f.current \in Clusters => f.current \in Reach(fat, f.first)
  PROVE  f.current \notin Clusters => f.size <= f.position
<1>1. LengthIn(fat, f.first) \in Nat
  BY ReachFinite DEF LengthIn
<1>2. ClusterCells * LengthIn(fat, f.first) \in Nat
  BY <1>1, Products
<1>3. SUFFICES ASSUME f.current \notin Clusters PROVE f.size <= f.position
  OBVIOUS
<1>4. LengthIn(fat, f.first) - LeftIn(fat, f) = LengthIn(fat, f.first)
  BY <1>1, <1>3 DEF LeftIn
<1>5. f.position = ClusterCells * LengthIn(fat, f.first) + 0
  BY <1>3, <1>4 DEF SizedIn
<1>6. QED
  BY <1>2, <1>5 DEF SizedIn

(* The cells of a handle's cluster from its offset on are those of the     *)
(* file from its position on.                                              *)
LEMMA CellsAhead ==
  ASSUME NEW fat, NEW dat, NEW f \in Handle, f.first \in Clusters,
         NEW e \in Reach(fat, f.first), fat[e] \notin Clusters,
         f.current \in Reach(fat, f.first), SizedIn(fat, f),
         NEW j \in 1 .. ClusterCells - f.offset
  PROVE  CellIn(fat, dat, f.first, f.position + j, dat[f.current][f.offset + j])
<1> DEFINE o == f.offset + j - 1
           p == ClusterCells * (LengthIn(fat, f.first) - LengthIn(fat, f.current))
<1>1. f.current \in Clusters
  BY ReachWithin
<1>2. f.offset \in Nat /\ f.position \in Nat /\ ClusterCells \in Nat
  BY Constants DEF Handle
<1>3. o \in 0 .. ClusterCells - 1 /\ o + 1 = f.offset + j
  BY <1>2
<1>4. f.position = p + f.offset
  BY <1>1 DEF SizedIn, LeftIn
<1>5. p \in Int
  <2>1. LengthIn(fat, f.first) \in Nat /\ LengthIn(fat, f.current) \in Nat
    BY <1>1, ReachFinite DEF LengthIn
  <2>2. QED
    BY <1>2, <2>1
<1>6. f.position + j = p + o + 1
  <2> HIDE DEF p
  <2> QED
    BY <1>2, <1>4, <1>5
<1>7. QED
  <2> HIDE DEF o
  <2> QED
    BY <1>3, <1>6, CellHere

(* A file one of whose clusters is written from the handle's offset on:    *)
(* what was before the position stays, what was put follows it.            *)
LEMMA BeginsWritten ==
  ASSUME NEW fat, NEW dat, NEW dat2, NEW f \in Handle, f.first \in Clusters,
         NEW e \in Reach(fat, f.first), fat[e] \notin Clusters,
         f.current \in Reach(fat, f.first), SizedIn(fat, f),
         \A x \in Reach(fat, f.first) : x # f.current => dat2[x] = dat[x],
         \A o \in 1 .. f.offset : dat2[f.current][o] = dat[f.current][o],
         NEW s, Begins(fat, dat, f.first, s, f.position),
         NEW m \in Nat, m <= ClusterCells - f.offset,
         \A j \in 1 .. m : s[f.position + j] = dat2[f.current][f.offset + j]
  PROVE  Begins(fat, dat2, f.first, s, f.position + m)
<1>1. f.current \in Clusters /\ f.offset \in Nat /\ f.position \in Nat /\ ClusterCells \in Nat
  <2>1. f.current \in Clusters
    BY ReachWithin
  <2>2. f.offset \in 0 .. ClusterCells /\ f.position \in Nat
    BY DEF Handle
  <2>3. QED
    BY <2>1, <2>2, Constants
<1>2. LengthIn(fat, f.first) \in Nat /\ LengthIn(fat, f.current) \in Nat
  BY <1>1, ReachFinite DEF LengthIn
<1>3. ASSUME NEW k \in 1 .. f.position + m
      PROVE  CellIn(fat, dat2, f.first, k, s[k])
  <2>1. CASE k <= f.position
    <3> DEFINE q == (k - 1) \div ClusterCells
               r == (k - 1) % ClusterCells
    <3>1. k - 1 \in Nat /\ k \in 1 .. f.position
      BY <1>1, <2>1
    <3>2. q \in Nat /\ r \in 0 .. ClusterCells - 1 /\ k - 1 = ClusterCells * q + r
      BY <3>1, Quotients
    <3>3. PICK x \in Reach(fat, f.first) :
            LengthIn(fat, x) = LengthIn(fat, f.first) - q /\ dat[x][r + 1] = s[k]
      BY <3>1 DEF Begins, CellIn
    <3>4. dat2[x][r + 1] = s[k]
      <4>1. CASE x # f.current
        BY <3>3, <4>1
      <4>2. CASE x = f.current
        <5> HIDE DEF q, r
        <5>1. LengthIn(fat, f.first) - LengthIn(fat, f.current) = q
          BY <1>2, <3>2, <3>3, <4>2
        <5>2. f.position = ClusterCells * q + f.offset
          BY <1>1, <5>1 DEF SizedIn, LeftIn
        <5>3. ClusterCells * q \in Nat
          BY <3>2, Products
        <5>4. r + 1 \in 1 .. f.offset
          BY <1>1, <2>1, <3>1, <3>2, <5>2, <5>3
        <5>5. QED
          BY <3>3, <4>2, <5>4
      <4>3. QED
        BY <4>1, <4>2
    <3>5. QED
      BY <3>3, <3>4 DEF CellIn
  <2>2. CASE k > f.position
    <3> DEFINE j == k - f.position
    <3>1. j \in 1 .. m /\ j \in 1 .. ClusterCells - f.offset /\ f.position + j = k
      BY <1>1, <2>2
    <3>2. CellIn(fat, dat2, f.first, f.position + j, dat2[f.current][f.offset + j])
      <4> HIDE DEF j
      <4> QED
        BY <3>1, CellsAhead
    <3>3. s[f.position + j] = dat2[f.current][f.offset + j]
      <4> HIDE DEF j
      <4> QED
        BY <3>1
    <3>4. QED
      BY <3>1, <3>2, <3>3
  <2>3. QED
    BY <1>1, <2>1, <2>2
<1>4. QED
  BY <1>3 DEF Begins

(* A file whose chain got another cluster at its end.                      *)
LEMMA BeginsAppended ==
  ASSUME NEW fat, NEW fat2, NEW dat, NEW c \in Clusters,
         NEW e \in Reach(fat, c), NEW n \in Clusters \ Reach(fat, c), fat[e] \notin Clusters,
         fat2[e] = n, fat2[n] \notin Clusters,
         \A y \in Reach(fat, c) \ {e} : fat2[y] = fat[y],
         NEW s, NEW p \in Nat, Begins(fat, dat, c, s, p)
  PROVE  Begins(fat2, dat, c, s, p)
<1>1. ASSUME NEW x \in Reach(fat, c)
      PROVE  /\ LengthIn(fat2, x) = LengthIn(fat, x) + 1 /\ LengthIn(fat, x) \in Nat
             /\ x \in Reach(fat2, c)
  <2>1. /\ x \in Clusters /\ e \in Reach(fat, x) /\ Reach(fat, x) \subseteq Reach(fat, c)
    BY ReachWithin, ReachCloses, ChainEndsOnce
  <2>2. Reach(fat2, x) = Reach(fat, x) \cup {n} /\ n \notin Reach(fat, x)
    BY <2>1, ReachAppended
  <2>3. Reach(fat2, c) = Reach(fat, c) \cup {n}
    BY ReachAppended
  <2>4. LengthIn(fat2, x) = LengthIn(fat, x) + 1 /\ LengthIn(fat, x) \in Nat
    <3>1. IsFiniteSet(Reach(fat, x)) /\ Cardinality(Reach(fat, x)) \in Nat
      BY <2>1, ReachFinite
    <3>2. Cardinality(Reach(fat, x) \cup {n}) = Cardinality(Reach(fat, x)) + 1
      BY <2>2, <3>1, FS_AddElement
    <3>3. QED
      BY <2>2, <3>1, <3>2 DEF LengthIn
  <2>5. QED
    BY <2>3, <2>4
<1>2. c \in Reach(fat, c)
  BY ReachWithin
<1>3. ASSUME NEW k \in 1 .. p, NEW v, CellIn(fat, dat, c, k, v)
      PROVE  CellIn(fat2, dat, c, k, v)
  <2> DEFINE q == (k - 1) \div ClusterCells
  <2>1. q \in Nat
    <3>1. k - 1 \in Nat
      OBVIOUS
    <3>2. QED
      BY <3>1, Quotients
  <2>2. PICK x \in Reach(fat, c) : LengthIn(fat, x) = LengthIn(fat, c) - q
                                   /\ dat[x][((k - 1) % ClusterCells) + 1] = v
    BY <1>3 DEF CellIn
  <2>3. LengthIn(fat2, x) = LengthIn(fat2, c) - q
    <3> HIDE DEF q
    <3> QED
      BY <1>1, <1>2, <2>1, <2>2
  <2>4. QED
    BY <1>1, <2>2, <2>3 DEF CellIn
<1>4. QED
  BY <1>3 DEF Begins
-----------------------------------------------------------------------------
(* An open handle that has read `out' from the file of entry i: it knows   *)
(* the size of the file, and in the middle of a cluster it has that        *)
(* cluster in the buffer.                                                  *)
Reads(h, i, out) ==
  LET f == handles[h] IN
  /\ i \in UsedSlots
  /\ f.in_use /\ f.first = dir[i].first /\ f.size = dir[i].size
  /\ f.current \in Clusters => f.current \in ChainOf(i)
  /\ SizedIn(vol.fat, f)
  /\ f.offset > 0 => buf = data[f.current]
  /\ f.position = Len(out) /\ f.position <= f.size
  /\ Begins(vol.fat, data, f.first, out, Len(out))

(* Opening a file to read changes no file, and has read nothing.           *)
LEMMA OpenedReads ==
  ASSUME FsInv, ChainsSound, SizeCovered, NEW p \in Path, NEW r \in Handles, Open(p, "r", r)
  PROVE  /\ vol' = vol /\ dir' = dir /\ data' = data /\ Find(p) \in UsedSlots
         /\ handles'[r].is_directory = dir[Find(p)].isdir /\ handles'[r].offset = 0
         /\ Reads(r, Find(p), <<>>)'
<1>1. dir \in [Slots -> Entry] /\ handles \in [Handles -> Handle] /\ 0 \notin Handles
  BY DEF FsInv, Handles
<1>2. OpenExisting(p, "r", r)
  BY <1>1 DEF Open, OpenRefused, OpenMissing, OpenCreate
<1>3. PICK i \in UsedSlots : i = Find(p)
  BY <1>2, LookupFinds DEF OpenExisting, Find
<1> DEFINE e == dir[i]
           f == handles'[r]
<1>4. vol' = vol /\ dir' = dir /\ data' = data
      /\ handles' = [handles EXCEPT ![r] =
           [in_use |-> TRUE, is_directory |-> e.isdir, first |-> e.first, current |-> e.first,
            offset |-> 0, size |-> e.size, position |-> 0, name |-> Reopened[e.name.name]]]
  BY <1>2, <1>3 DEF OpenExisting, Opened
<1>5. /\ f.in_use /\ f.first = e.first /\ f.current = e.first /\ f.offset = 0
      /\ f.size = e.size /\ f.position = 0 /\ f.is_directory = e.isdir
  BY <1>1, <1>4
<1>6. e.first \in ChainOf(i) /\ e.first \in Clusters /\ e.size \in Nat
  BY <1>1, <1>3, SoundChain DEF UsedSlots, Entry
<1>7. SizedIn(vol'.fat, f)
  <2> DEFINE n == LengthIn(vol.fat, e.first)
  <2>1. n \in Nat
    BY <1>6, ReachFinite DEF LengthIn
  <2>2. ClusterCells * (n - n) = 0
    BY <2>1, Products, Constants
  <2>3. e.size <= ClusterCells * n
    BY <1>3 DEF SizeCovered, ChainOf, LengthIn
  <2> HIDE DEF f
  <2>4. QED
    BY <1>4, <1>5, <1>6, <2>2, <2>3 DEF SizedIn, LeftIn
<1>8. Begins(vol.fat, data, e.first, <<>>, 0)
  BY DEF Begins
<1>9. UsedSlots' = UsedSlots /\ ChainOf(i)' = ChainOf(i) /\ Find(p)' = Find(p)
  BY <1>4 DEF UsedSlots, ChainOf, Find, Lookup, Searched
<1>10. Reads(r, i, <<>>)'
  <2> HIDE DEF f, e
  <2>1. Len(<<>>) = 0
    OBVIOUS
  <2>2. e = dir'[i]
    BY <1>4 DEF e
  <2>3. QED
    BY <1>3, <1>4, <1>5, <1>6, <1>7, <1>8, <1>9, <2>1, <2>2 DEF Reads, f
<1>11. QED
  BY <1>3, <1>4, <1>5, <1>9, <1>10

(* Only the first n cells of the text matter.                              *)
LEMMA BeginsSame ==
  ASSUME NEW fat, NEW dat, NEW c, NEW s, NEW t, NEW n, \A k \in 1 .. n : t[k] = s[k],
         Begins(fat, dat, c, s, n)
  PROVE  Begins(fat, dat, c, t, n)
BY DEF Begins

(* The loop that reads on handle call.h                                    *)
Gets(h) ==
  /\ call.op = "read" /\ call.h = h /\ call.done = Len(call.data) /\ call.size > 0
  /\ call.done <= call.size
  /\ call.size - call.done <= handles[h].size - handles[h].position

(* What reading more does to the text read so far.                         *)
LEMMA ReadOn ==
  ASSUME NEW s \in Seq(Cell), NEW t \in Seq(Cell), NEW m \in Seq(Cell)
  PROVE  /\ s \o t \in Seq(Cell) /\ s \o (t \o m) \in Seq(Cell)
         /\ Len(t \o m) = Len(t) + Len(m)
         /\ Len(s \o (t \o m)) = Len(s \o t) + Len(m)
         /\ \A j \in 1 .. Len(s \o t) : (s \o (t \o m))[j] = (s \o t)[j]
         /\ \A j \in 1 .. Len(m) : (s \o (t \o m))[Len(s \o t) + j] = m[j]
<1> DEFINE out  == s \o t
           tm   == t \o m
           out2 == s \o tm
<1>1. out \in Seq(Cell) /\ Len(out) = Len(s) + Len(t)
      /\ tm \in Seq(Cell) /\ Len(tm) = Len(t) + Len(m)
  OBVIOUS
<1>2. /\ \A j \in 1 .. Len(out) : out[j] = IF j <= Len(s) THEN s[j] ELSE t[j - Len(s)]
      /\ \A j \in 1 .. Len(tm) : tm[j] = IF j <= Len(t) THEN t[j] ELSE m[j - Len(t)]
  OBVIOUS
<1>3. Len(s) \in Nat /\ Len(t) \in Nat /\ Len(m) \in Nat
  OBVIOUS
<1>4. out2 \in Seq(Cell) /\ Len(out2) = Len(s) + Len(tm)
      /\ \A j \in 1 .. Len(out2) : out2[j] = IF j <= Len(s) THEN s[j] ELSE tm[j - Len(s)]
  <2> HIDE DEF tm
  <2> QED
    BY <1>1
<1> HIDE DEF out, tm, out2
<1>5. ASSUME NEW j \in 1 .. Len(out)
      PROVE  out2[j] = out[j]
  <2>1. j \in 1 .. Len(out2)
    BY <1>1, <1>3, <1>4
  <2>2. CASE j <= Len(s)
    BY <1>2, <1>4, <2>1, <2>2
  <2>3. CASE j > Len(s)
    <3>1. j - Len(s) \in 1 .. Len(tm) /\ j - Len(s) <= Len(t)
      BY <1>1, <1>3, <2>3
    <3>2. QED
      BY <1>1, <1>2, <1>3, <1>4, <2>1, <2>3, <3>1
  <2>4. QED
    BY <1>1, <1>3, <2>2, <2>3
<1>6. ASSUME NEW j \in 1 .. Len(m)
      PROVE  out2[Len(out) + j] = m[j]
  <2> DEFINE x == Len(out) + j
             y == Len(t) + j
  <2>1. x \in 1 .. Len(out2) /\ x > Len(s) /\ x - Len(s) = y
    BY <1>1, <1>3, <1>4
  <2>2. y \in 1 .. Len(tm) /\ y > Len(t) /\ y - Len(t) = j
    BY <1>1, <1>3
  <2> HIDE DEF x, y
  <2>3. out2[x] = tm[y]
    BY <1>3, <1>4, <2>1
  <2>4. tm[y] = m[j]
    BY <1>2, <1>3, <2>2
  <2>5. QED
    BY <2>3, <2>4 DEF x
<1>7. Len(out2) = Len(out) + Len(m)
  BY <1>1, <1>3, <1>4
<1>8. /\ out \in Seq(Cell) /\ out2 \in Seq(Cell)
      /\ Len(tm) = Len(t) + Len(m) /\ Len(out2) = Len(out) + Len(m)
      /\ \A j \in 1 .. Len(out) : out2[j] = out[j]
      /\ \A j \in 1 .. Len(m) : out2[Len(out) + j] = m[j]
  BY <1>1, <1>4, <1>5, <1>6, <1>7, Zenon
<1>9. QED
  BY <1>8, Zenon DEF out, tm, out2

(* One iteration reads on, in order.                                       *)
LEMMA StepReads ==
  ASSUME FsInv, ChainsSound, vol.mounted, ReadStep, NEW h \in Handles, NEW i,
         NEW shown \in Seq(Cell), Gets(h), Reads(h, i, shown \o call.data)
  PROVE  /\ vol' = vol /\ dir' = dir /\ data' = data
         /\ call'.size - call'.done - handles'[h].size + handles'[h].position
              = call.size - call.done - handles[h].size + handles[h].position
         /\ handles'[h].is_directory = handles[h].is_directory
         /\ Gets(h)' /\ Reads(h, i, shown \o call.data)'
<1> DEFINE f == handles[h]
           k == Chunk(f)
           g == handles'[h]
           more == [j \in 1 .. k |-> data[f.current][f.offset + j]]
           out == shown \o call.data
           out2 == shown \o (call.data \o more)
<1>1. /\ h = call.h /\ f \in Handle /\ call \in Call /\ handles \in [Handles -> Handle]
      /\ data \in [Clusters -> [Offsets -> Cell]] /\ call.data \in Seq(Cell)
      /\ f.offset \in 0 .. ClusterCells /\ f.position \in Nat /\ f.size \in Nat
      /\ call.size \in Nat /\ call.done \in Nat
  BY DEF Gets, FsInv, CallInv, Call, Handle
<1>2. f.current \in Clusters /\ f.current \in ChainOf(i) /\ i \in UsedSlots
  BY <1>1 DEF ReadStep, Reads
<1>3. Starting = f /\ Iterate /\ ~Extends(f)
  BY <1>1, <1>2 DEF Starting, Extends, Iterate
<1>4. /\ \A x \in Handles \ {call.h} : handles'[x] = handles[x]
      /\ k \in Nat /\ k <= ClusterCells - f.offset /\ Moves(f, k)
  <2> HIDE DEF k, f
  <2> QED
    BY <1>3, IterateMoves DEF k
<1>5. /\ vol' = vol /\ dir' = dir /\ data' = data
      /\ buf' = Loaded(f.current, f.offset)
      /\ handles' = [handles EXCEPT ![h] = Advanced(vol, f, k)]
      /\ call' = [call EXCEPT !.done = @ + k,
            !.data = @ \o [j \in 1 .. k |-> Loaded(f.current, f.offset)[f.offset + j]]]
  <2> HIDE DEF f, k
  <2>1. f = handles[call.h] /\ k = Chunk(handles[call.h])
    BY <1>1 DEF f, k
  <2>2. QED
    BY <1>1, <2>1 DEF ReadStep
<1>6. Loaded(f.current, f.offset) = data[f.current]
  <2>1. f.offset > 0 => buf = data[f.current]
    BY DEF Reads
  <2>2. QED
    BY <1>1, <2>1 DEF Loaded
<1>7. k <= call.size - call.done
  <2> HIDE DEF f, k
  <2>1. CallInv(call) /\ call.done < call.size /\ HandleInv(f)
    BY <1>1 DEF FsInv, ReadStep, InLoop, f
  <2>2. QED
    BY <2>1, ChunkBounds DEF k
<1>8. g.is_directory = f.is_directory
  <2> HIDE DEF f, k
  <2>1. g = Advanced(vol, f, k)
    BY <1>1, <1>5
  <2>2. QED
    BY <1>1, <2>1 DEF Advanced, Handle
<1>9. /\ call'.op = "read" /\ call'.h = h /\ call'.size = call.size
      /\ call'.done = call.done + k /\ call'.data = call.data \o more
  <2> HIDE DEF f, k
  <2>1. call' = [call EXCEPT !.done = @ + k, !.data = @ \o more]
    BY <1>5, <1>6
  <2> HIDE DEF more
  <2>2. QED
    BY <1>1, <2>1 DEF Call, Gets
<1>10. /\ g.in_use = f.in_use /\ g.first = f.first /\ g.size = f.size
       /\ g.position = f.position + k
       /\ g.offset = IF f.offset + k >= ClusterCells THEN 0 ELSE f.offset + k
       /\ g.current = IF f.offset + k >= ClusterCells THEN ReadEntry(vol', f.current)
                                                      ELSE f.current
  <2>1. call.op # "write"
    BY DEF Gets
  <2> HIDE DEF f, k
  <2>2. QED
    BY <1>1, <1>4, <2>1 DEF Moves
<1>11. more \in Seq(Cell) /\ Len(more) = k
  <2>1. \A j \in 1 .. k : f.offset + j \in Offsets
    BY <1>1, <1>4, Constants DEF Offsets
  <2>2. \A j \in 1 .. k : data[f.current][f.offset + j] \in Cell
    BY <1>1, <1>2, <2>1
  <2> HIDE DEF k, f
  <2>3. more \in [1 .. k -> Cell]
    BY <2>2
  <2>4. QED
    BY <1>4, <2>3
<1>12. Len(call.data \o more) = call.done + k /\ Gets(h)'
  <2> HIDE DEF more, k
  <2>1. Len(call.data \o more) = Len(call.data) + k
    BY <1>1, <1>11, ReadOn
  <2>2. Len(call.data) = call.done
    BY DEF Gets
  <2>3. g.size - g.position = f.size - f.position - k
    <3> HIDE DEF f, g
    <3> QED
      BY <1>1, <1>4, <1>10
  <2>4. QED
    <3> HIDE DEF f, g
    <3>1. call.size - call.done <= f.size - f.position /\ call.size > 0
      BY DEF Gets, f
    <3>2. call'.done <= call'.size
      BY <1>1, <1>4, <1>7, <1>9
    <3>3. call'.size - call'.done <= g.size - g.position
      BY <1>1, <1>4, <1>9, <1>10, <3>1
    <3>4. QED
      BY <1>9, <2>1, <2>2, <3>1, <3>2, <3>3 DEF Gets, g
<1>13. UsedSlots' = UsedSlots /\ ChainOf(i)' = ChainOf(i)
  BY <1>5 DEF UsedSlots, ChainOf
<1>14. SizedIn(vol.fat, g) /\ (g.current \in Clusters => g.current \in ChainOf(i))
  <2>1. /\ dir[i].first = handles[call.h].first /\ SizedIn(vol.fat, handles[call.h])
        /\ handles[call.h].current \in Clusters => handles[call.h].current \in ChainOf(i)
    BY <1>1 DEF Reads
  <2>2. SizedIn(vol'.fat, handles'[call.h])
    BY <1>2, <1>3, <1>5, <2>1, IterateSized
  <2>3. handles'[call.h].current \in Clusters => handles'[call.h].current \in ChainOf(i)'
    BY <1>2, <1>3, <2>1, IterateStands
  <2>4. QED
    BY <1>1, <1>5, <1>13, <2>2, <2>3
<1>15. /\ out \in Seq(Cell) /\ out2 \in Seq(Cell) /\ Len(out2) = Len(out) + k
       /\ \A j \in 1 .. Len(out) : out2[j] = out[j]
       /\ \A j \in 1 .. k : out2[Len(out) + j] = data[f.current][f.offset + j]
  <2>1. \A j \in 1 .. k : more[j] = data[f.current][f.offset + j]
    OBVIOUS
  <2> HIDE DEF more, k
  <2>2. more \in Seq(Cell) /\ call.data \in Seq(Cell) /\ shown \in Seq(Cell) /\ Len(more) = k
    BY <1>1, <1>11
  <2>3. /\ out \in Seq(Cell) /\ out2 \in Seq(Cell) /\ Len(out2) = Len(out) + Len(more)
        /\ \A j \in 1 .. Len(out) : out2[j] = out[j]
        /\ \A j \in 1 .. Len(more) : out2[Len(out) + j] = more[j]
    BY <2>2, ReadOn, Zenon
  <2> HIDE DEF out, out2
  <2>4. QED
    BY <2>1, <2>2, <2>3
<1>16. Begins(vol.fat, data, f.first, out2, Len(out) + k)
  <2>1. f.first = dir[i].first /\ f.position = Len(out) /\ SizedIn(vol.fat, f)
        /\ Begins(vol.fat, data, f.first, out, Len(out))
    BY DEF Reads
  <2>2. PICK e \in ChainOf(i) : vol.fat[e] = Eoc
    BY <1>2, SoundChain
  <2>3. /\ f.first \in Clusters /\ e \in Reach(vol.fat, f.first) /\ vol.fat[e] \notin Clusters
        /\ f.current \in Reach(vol.fat, f.first)
    BY <1>2, <2>1, <2>2, SoundChain, Constants DEF ChainOf
  <2> HIDE DEF out, out2, f, k
  <2>4. Begins(vol.fat, data, f.first, out2, f.position)
    BY <1>15, <2>1, BeginsSame
  <2>5. \A j \in 1 .. k : out2[f.position + j] = data[f.current][f.offset + j]
    BY <1>15, <2>1
  <2>6. Begins(vol.fat, data, f.first, out2, f.position + k)
    BY <1>1, <1>4, <2>1, <2>3, <2>4, <2>5, BeginsWritten
  <2>7. QED
    BY <2>1, <2>6
<1>17. Reads(h, i, out)'
  <2>4. out' = out2
    BY <1>9
  <2> HIDE DEF more, k, out, out2
  <2>1. g.offset > 0 => buf' = data'[g.current]
    <3> HIDE DEF f, g
    <3> QED
      BY <1>5, <1>6, <1>10
  <2>2. g.position = Len(out2) /\ g.position <= g.size
    <3>1. f.position = Len(out) /\ f.position <= f.size
      BY DEF Reads, f, out
    <3>2. call.size - call.done <= f.size - f.position
      BY DEF Gets
    <3> HIDE DEF f, g
    <3>3. QED
      BY <1>1, <1>4, <1>7, <1>10, <1>15, <3>1, <3>2
  <2>3. f.in_use /\ f.first = dir[i].first /\ f.size = dir[i].size
    BY DEF Reads
  <2>5. QED
    BY <1>2, <1>5, <1>10, <1>13, <1>14, <1>15, <1>16, <2>1, <2>2, <2>3, <2>4 DEF Reads
<1>18. QED
  <2> HIDE DEF k
  <2>1. call'.size - call'.done - g.size + g.position = call.size - call.done - f.size + f.position
    <3> HIDE DEF f, g
    <3> QED
      BY <1>1, <1>4, <1>9, <1>10
  <2>2. QED
    BY <1>5, <1>8, <1>12, <1>17, <2>1

(* What the steps of a command leave of its line.                          *)
SameLine == /\ SameCommand /\ cmd'.text = cmd.text

(* What the command lines that users enter have in common.                 *)
LEMMA EnterSays ==
  UserTypes => /\ Prompt /\ vol.mounted /\ UNCHANGED fsVars /\ cmd'.shown = <<>>
               /\ cmd'.op = "read" => cmd'.at = "opensrc"
               /\ cmd'.op = "cp" => cmd'.at = "check"
               /\ cmd'.op = "write" => cmd'.at = "opendst" /\ cmd'.todo \in {<<>>, <<cmd'.text>>}
<1> SUFFICES ASSUME UserTypes
             PROVE  /\ Prompt /\ vol.mounted /\ UNCHANGED fsVars /\ cmd'.shown = <<>>
                    /\ cmd'.op = "read" => cmd'.at = "opensrc"
                    /\ cmd'.op = "cp" => cmd'.at = "check"
                    /\ cmd'.op = "write" => cmd'.at = "opendst" /\ cmd'.todo \in {<<>>, <<cmd'.text>>}
  OBVIOUS
<1>1. PICK op, at, p, q, text, todo :
        /\ Enter(op, at, p, q, text, todo)
        /\ op = "read" => at = "opensrc"
        /\ op = "cp" => at = "check"
        /\ op = "write" => at = "opendst" /\ todo \in {<<>>, <<text>>}
  <2>1. CASE \E p \in Relative, line \in Lines :
               \/ Enter("write", "opendst", p, AnyPath, line, <<line>>)
               \/ \E op \in {"echo", "append"} :
                    Enter(op, "opendst", p, AnyPath, line, <<line, <<Newline>>>>)
    <3>1. PICK p \in Relative, line \in Lines :
               \/ Enter("write", "opendst", p, AnyPath, line, <<line>>)
               \/ \E op \in {"echo", "append"} :
                    Enter(op, "opendst", p, AnyPath, line, <<line, <<Newline>>>>)
      BY <2>1
    <3>2. CASE Enter("write", "opendst", p, AnyPath, line, <<line>>)
      BY <3>2
    <3>3. CASE \E op \in {"echo", "append"} :
                 Enter(op, "opendst", p, AnyPath, line, <<line, <<Newline>>>>)
      BY <3>3
    <3>4. QED
      BY <3>1, <3>2, <3>3
  <2>2. CASE \E p \in Relative :
               \/ Enter("write", "opendst", p, AnyPath, <<>>, <<>>)
               \/ Enter("read", "opensrc", p, AnyPath, <<>>, <<>>)
               \/ \E op \in {"touch", "rm", "wc"} : Enter(op, "check", p, AnyPath, <<>>, <<>>)
               \/ \E q \in Relative, op \in {"mv", "cp"} : Enter(op, "check", p, q, <<>>, <<>>)
    BY <2>2
  <2>3. CASE \E p \in Path : Enter("mkdir", "check", p, AnyPath, <<>>, <<>>)
    BY <2>3
  <2>4. QED
    BY <2>1, <2>2, <2>3 DEF UserTypes
<1>2. /\ cmd' = [Idle EXCEPT !.op = op, !.at = at, !.p = p, !.q = q, !.text = text, !.todo = todo]
      /\ Prompt /\ vol.mounted /\ UNCHANGED fsVars
  BY <1>1 DEF Enter
<1>3. cmd'.op = op /\ cmd'.at = at /\ cmd'.todo = todo /\ cmd'.text = text /\ cmd'.shown = <<>>
  BY <1>2 DEF Idle
<1>4. QED
  BY <1>1, <1>2, <1>3

(* A step that only goes on leaves the rest of the command alone.          *)
LEMMA GotoSays ==
  ASSUME cmd \in Command, NEW step, Goto(step)
  PROVE  /\ SameLine /\ cmd'.at = step /\ cmd'.src = cmd.src /\ cmd'.dst = cmd.dst
         /\ cmd'.todo = cmd.todo /\ cmd'.shown = cmd.shown
BY DEF Goto, Command, SameLine, SameCommand

(* Where a command goes once its source is open, or could not be opened.   *)
LEMMA OpenSrcSays ==
  ASSUME cmd \in Command, OpenSrc
  PROVE  \E r \in 0 .. NumHandles :
           /\ Open(cmd.p, "r", r)
           /\ IF r = 0 THEN cmd' = Idle
              ELSE /\ r \in Handles /\ SameLine /\ cmd'.src = r /\ cmd'.dst = cmd.dst
                   /\ cmd'.todo = cmd.todo /\ cmd'.shown = cmd.shown
                   /\ cmd'.at = IF cmd.op = "cp" THEN "opendst"
                                ELSE IF cmd.op = "read" /\ handles'[r].is_directory
                                     THEN "closesrc" ELSE "get"
<1>1. PICK r \in 0 .. NumHandles :
        /\ Open(cmd.p, "r", r)
        /\ IF r = 0 THEN Finish
           ELSE cmd' = [cmd EXCEPT !.src = r,
                  !.at = CASE cmd.op = "cp" -> "opendst"
                           [] cmd.op = "read" /\ handles'[r].is_directory -> "closesrc"
                           [] OTHER -> "get"]
  BY DEF OpenSrc
<1>2. CASE r = 0
  BY <1>1, <1>2 DEF Finish
<1>3. CASE r # 0
  <2> DEFINE next == CASE cmd.op = "cp" -> "opendst"
                       [] cmd.op = "read" /\ handles'[r].is_directory -> "closesrc"
                       [] OTHER -> "get"
  <2>1. cmd' = [cmd EXCEPT !.src = r, !.at = next]
    BY <1>1, <1>3
  <2>2. next = IF cmd.op = "cp" THEN "opendst"
               ELSE IF cmd.op = "read" /\ handles'[r].is_directory THEN "closesrc" ELSE "get"
    <3>1. CASE cmd.op = "cp"
      BY <3>1
    <3>2. CASE cmd.op = "read" /\ handles'[r].is_directory
      BY <3>2
    <3>3. CASE cmd.op # "cp" /\ ~(cmd.op = "read" /\ handles'[r].is_directory)
      BY <3>3
    <3>4. QED
      BY <3>1, <3>2, <3>3
  <2> HIDE DEF next
  <2>3. /\ SameLine /\ cmd'.src = r /\ cmd'.dst = cmd.dst /\ cmd'.at = next
        /\ cmd'.todo = cmd.todo /\ cmd'.shown = cmd.shown
    BY <2>1 DEF Command, SameLine, SameCommand
  <2>4. r \in Handles
    BY <1>3 DEF Handles
  <2>5. QED
    BY <1>1, <1>3, <2>2, <2>3, <2>4
<1>4. QED
  BY <1>2, <1>3

(* The same of its destination.                                            *)
LEMMA OpenDstSays ==
  ASSUME cmd \in Command, OpenDst
  PROVE  \E r \in 0 .. NumHandles :
           /\ Open(DstPath, IF cmd.op = "append" THEN "a" ELSE "w", r)
           /\ IF r = 0
              THEN IF cmd.op = "cp" THEN Goto("closesrc") ELSE cmd' = Idle
              ELSE /\ r \in Handles /\ SameLine /\ cmd'.src = cmd.src /\ cmd'.dst = r
                   /\ cmd'.todo = cmd.todo /\ cmd'.shown = cmd.shown
                   /\ cmd'.at = IF cmd.op = "cp" THEN "get"
                                ELSE IF cmd.todo = <<>> THEN "closedst" ELSE "put"
<1>1. PICK r \in 0 .. NumHandles :
        /\ Open(DstPath, IF cmd.op = "append" THEN "a" ELSE "w", r)
        /\ IF r = 0
           THEN IF cmd.op = "cp" THEN Goto("closesrc") ELSE Finish
           ELSE cmd' = [cmd EXCEPT !.dst = r,
                  !.at = CASE cmd.op = "cp" -> "get"
                           [] cmd.op # "cp" /\ cmd.todo = <<>> -> "closedst"
                           [] OTHER -> "put"]
  BY DEF OpenDst, DstPath
<1>2. CASE r = 0
  BY <1>1, <1>2 DEF Finish
<1>3. CASE r # 0
  <2> DEFINE next == CASE cmd.op = "cp" -> "get"
                       [] cmd.op # "cp" /\ cmd.todo = <<>> -> "closedst"
                       [] OTHER -> "put"
  <2>1. cmd' = [cmd EXCEPT !.dst = r, !.at = next]
    BY <1>1, <1>3
  <2>2. next = IF cmd.op = "cp" THEN "get" ELSE IF cmd.todo = <<>> THEN "closedst" ELSE "put"
    <3>1. CASE cmd.op = "cp"
      BY <3>1
    <3>2. CASE cmd.op # "cp" /\ cmd.todo = <<>>
      BY <3>2
    <3>3. CASE cmd.op # "cp" /\ cmd.todo # <<>>
      BY <3>3
    <3>4. QED
      BY <3>1, <3>2, <3>3
  <2> HIDE DEF next
  <2>3. /\ SameLine /\ cmd'.src = cmd.src /\ cmd'.dst = r /\ cmd'.at = next
        /\ cmd'.todo = cmd.todo /\ cmd'.shown = cmd.shown
    BY <2>1 DEF Command, SameLine, SameCommand
  <2>4. r \in Handles
    BY <1>3 DEF Handles
  <2>5. QED
    BY <1>1, <1>3, <2>2, <2>3, <2>4
<1>4. QED
  BY <1>2, <1>3

(* What a command does with what fs_read gave it.                          *)
LEMMA GettingSays ==
  ASSUME cmd \in Command, Getting
  PROVE  /\ SameLine /\ cmd'.src = cmd.src /\ cmd'.dst = cmd.dst
         /\ call.data = <<>> => cmd'.at = "closesrc" /\ cmd'.shown = cmd.shown
         /\ call.data # <<>> /\ cmd.op = "cp" => cmd'.at = "put" /\ cmd'.todo = <<call.data>>
         /\ call.data # <<>> /\ cmd.op = "read" =>
              cmd'.at = "get" /\ cmd'.shown = cmd.shown \o call.data
<1>1. CASE call.data = <<>>
  <2>1. cmd' = [cmd EXCEPT !.at = "closesrc"]
    BY <1>1 DEF Getting
  <2>2. QED
    BY <1>1, <2>1 DEF Command, SameLine, SameCommand
<1>2. CASE call.data # <<>> /\ cmd.op = "cp"
  <2>1. cmd' = [cmd EXCEPT !.at = "put", !.todo = <<call.data>>]
    BY <1>2 DEF Getting
  <2>2. QED
    BY <1>2, <2>1 DEF Command, SameLine, SameCommand
<1>3. CASE call.data # <<>> /\ cmd.op = "read"
  <2>1. cmd' = [cmd EXCEPT !.at = "get", !.shown = @ \o call.data]
    BY <1>3 DEF Getting
  <2>2. QED
    BY <1>3, <2>1 DEF Command, SameLine, SameCommand
<1>4. CASE call.data # <<>> /\ cmd.op \notin {"cp", "read"}
  <2>1. cmd' = [cmd EXCEPT !.at = "get"]
    BY <1>4 DEF Getting
  <2>2. QED
    BY <1>4, <2>1 DEF Command, SameLine, SameCommand
<1>5. QED
  BY <1>1, <1>2, <1>3, <1>4

(* Where a command goes when fs_write has returned.                        *)
LEMMA WroteSays ==
  ASSUME cmd \in Command, NEW n, Wrote(n)
  PROVE  /\ SameLine /\ cmd'.src = cmd.src /\ cmd'.dst = cmd.dst
         /\ cmd'.todo = Tail(cmd.todo) /\ cmd'.shown = cmd.shown
         /\ cmd'.at = IF cmd.op = "cp"
                      THEN IF n = Len(Head(cmd.todo)) THEN "get" ELSE "closesrc"
                      ELSE IF Len(cmd.todo) = 1 THEN "closedst" ELSE "put"
<1> DEFINE next == CASE cmd.op = "cp" -> IF n = Len(Head(cmd.todo)) THEN "get" ELSE "closesrc"
                     [] cmd.op # "cp" /\ Len(cmd.todo) = 1 -> "closedst"
                     [] OTHER -> "put"
<1>1. cmd' = [cmd EXCEPT !.todo = Tail(@), !.at = next]
  BY DEF Wrote
<1>2. next = IF cmd.op = "cp"
             THEN IF n = Len(Head(cmd.todo)) THEN "get" ELSE "closesrc"
             ELSE IF Len(cmd.todo) = 1 THEN "closedst" ELSE "put"
  <2>1. CASE cmd.op = "cp"
    BY <2>1
  <2>2. CASE cmd.op # "cp" /\ Len(cmd.todo) = 1
    BY <2>2
  <2>3. CASE cmd.op # "cp" /\ Len(cmd.todo) # 1
    BY <2>3
  <2>4. QED
    BY <2>1, <2>2, <2>3
<1> HIDE DEF next
<1>3. /\ SameLine /\ cmd'.src = cmd.src /\ cmd'.dst = cmd.dst
      /\ cmd'.todo = Tail(cmd.todo) /\ cmd'.shown = cmd.shown /\ cmd'.at = next
  BY <1>1 DEF Command, SameLine, SameCommand
<1>4. QED
  BY <1>2, <1>3
-----------------------------------------------------------------------------
(* A command that runs after a step is one just entered, or ran before.    *)
LEMMA RunningStep ==
  ASSUME ShellInv, FlowInv, [ShellNext]_shellVars, cmd'.op # "none"
  PROVE  \/ UNCHANGED shellVars
         \/ UserTypes
         \/ CommandStep /\ SameCommand /\ cmd.op # "none"
<1>1. cmd \in Command /\ Idle.op = "none"
  BY DEF ShellInv, CmdInv, Idle
<1>2. CASE UserMounts
  BY <1>2 DEF UserMounts, Prompt
<1>3. CASE CommandStep
  <2>1. CASE Check \/ CheckDst \/ Act
    <3>1. \/ cmd' = Idle \/ \E step : Goto(step)
      BY <2>1 DEF Check, CheckDst, Act, Finish
    <3>2. cmd' # Idle
      BY <1>1
    <3>3. QED
      BY <1>1, <1>3, <3>1, <3>2, GotoSays DEF SameLine, SameCommand
  <2>2. CASE ~(Check \/ CheckDst \/ Act)
    <3>1. OpenSrc \/ OpenDst \/ Get \/ Getting \/ Put \/ Putting
            \/ CloseSrc \/ CloseDst \/ InCall
      BY <1>3, <2>2 DEF CommandStep
    <3>2. SameCommand
      BY <1>1, <3>1, CommandStays
    <3>3. QED
      BY <1>3, <3>2 DEF SameCommand
  <2>3. QED
    BY <2>1, <2>2
<1>4. QED
  BY <1>2, <1>3 DEF ShellNext

(* read has shown the file as far as its handle is.                        *)
ReadInv ==
  cmd.op = "read" =>
    LET i == Find(cmd.p)
        h == cmd.src
    IN
    /\ cmd.at = "opensrc" => cmd.shown = <<>>
    /\ cmd.at = "get" => ~handles[h].is_directory /\ Reads(h, i, cmd.shown)
    /\ cmd.at = "getting" => /\ ~handles[h].is_directory /\ Gets(h)
                             /\ Reads(h, i, cmd.shown \o call.data)
    /\ cmd.at = "closesrc" /\ ~handles[h].is_directory =>
         /\ i \in UsedSlots /\ Len(cmd.shown) = dir[i].size
         /\ Begins(vol.fat, data, dir[i].first, cmd.shown, Len(cmd.shown))

(* A handle goes on to read its file when no step touches either.          *)
LEMMA ReadsKept ==
  ASSUME NEW h, NEW i, NEW out, Reads(h, i, out), vol' = vol, dir' = dir, data' = data,
         buf' = buf, handles'[h] = handles[h]
  PROVE  Reads(h, i, out)'
BY DEF Reads, UsedSlots, ChainOf

(* A handle that reads and has cells of the file left is in a cluster.     *)
LEMMA ReadsBehind ==
  ASSUME FsInv, ChainsSound, NEW h \in Handles, NEW i, NEW out, Reads(h, i, out)
  PROVE  handles[h].current \notin Clusters => handles[h].position = handles[h].size
<1> DEFINE f == handles[h]
<1>1. f \in Handle /\ f.position \in Nat /\ f.size \in Nat
  BY DEF FsInv, Handle
<1>2. /\ f.first \in Clusters /\ SizedIn(vol.fat, f)
      /\ f.current \in Clusters => f.current \in Reach(vol.fat, f.first)
      /\ f.position <= f.size
  BY SoundChain DEF Reads, ChainOf
<1> HIDE DEF f
<1>3. f.current \notin Clusters => f.size <= f.position
  BY <1>1, <1>2, BehindWhole
<1>4. f.current \notin Clusters => f.position = f.size
  BY <1>1, <1>2, <1>3
<1>5. QED
  BY <1>4 DEF f

(* fs_read begins, and returns with all it was to read.                    *)
LEMMA BeginReads ==
  ASSUME FsInv, NEW h \in Handles, NEW n \in Nat \ {0}, ReadBegin(h, n), NEW i,
         NEW shown \in Seq(Cell), Reads(h, i, shown)
  PROVE  /\ UNCHANGED <<vol, dir, data, buf, handles>>
         /\ Gets(h)' /\ Reads(h, i, shown \o call.data)' /\ Reads(h, i, shown)'
         /\ call'.data = <<>>
         /\ handles[h].size - handles[h].position <= n =>
              call'.size - call'.done = handles[h].size - handles[h].position
<1> DEFINE f == handles[h]
<1>1. f.position \in Nat /\ f.size \in Nat /\ f.position < f.size
  BY DEF FsInv, Handle, ReadBegin, Readable
<1>2. UNCHANGED <<vol, dir, data, buf, handles>>
  BY DEF ReadBegin
<1>3. /\ call'.op = "read" /\ call'.h = h /\ call'.size = Least(n, f.size - f.position)
      /\ call'.done = 0 /\ call'.data = <<>>
  BY DEF ReadBegin, NoCall
<1> HIDE DEF f
<1>4. /\ call'.size > 0 /\ call'.size <= f.size - f.position /\ call'.size \in Nat
      /\ f.size - f.position <= n => call'.size = f.size - f.position
  BY <1>1, <1>3 DEF Least
<1>5. Gets(h)'
  <2>1. Len(<<>>) = 0
    OBVIOUS
  <2>2. QED
    BY <1>2, <1>3, <1>4, <2>1 DEF Gets, f
<1>6. Reads(h, i, shown)'
  BY <1>2, ReadsKept
<1>7. shown \o <<>> = shown
  OBVIOUS
<1>8. QED
  BY <1>2, <1>3, <1>4, <1>5, <1>6, <1>7 DEF f

(* fs_read returns only with all it began to read, which is not nothing:   *)
(* the chain covers the file, so the loop never runs out of clusters.      *)
LEMMA ReturnReads ==
  ASSUME FsInv, ChainsSound, NEW h \in Handles, ReadReturn(call.data), NEW i,
         NEW out, Gets(h), Reads(h, i, out)
  PROVE  /\ UNCHANGED <<vol, dir, data, buf, handles>>
         /\ call.done = call.size /\ call.data # <<>> /\ Reads(h, i, out)'
<1>1. UNCHANGED <<vol, dir, data, buf, handles>>
  BY DEF ReadReturn
<1>2. call \in Call /\ call.h = h /\ call.op = "read"
  BY DEF FsInv, CallInv, Gets
<1>3. call.done \in Nat /\ call.size \in Nat /\ call.data \in Seq(Cell)
      /\ handles[h].position \in Nat /\ handles[h].size \in Nat
  BY <1>2 DEF Call, FsInv, Handle
<1>4. call.done = call.size
  <2>1. SUFFICES ASSUME call.done < call.size PROVE FALSE
    BY <1>3 DEF Gets
  <2>2. handles[h].current \notin Clusters
    BY <1>2, <2>1 DEF ReadReturn, InLoop
  <2>3. handles[h].position = handles[h].size
    BY <2>2, ReadsBehind
  <2>4. QED
    BY <1>3, <2>1, <2>3 DEF Gets
<1>5. call.data # <<>>
  <2>1. Len(<<>>) = 0
    OBVIOUS
  <2>2. QED
    <3>1. Len(call.data) > 0
      BY <1>3, <1>4 DEF Gets
    <3>2. SUFFICES ASSUME call.data = <<>> PROVE FALSE
      OBVIOUS
    <3>3. Len(call.data) = 0
      BY <2>1, <3>2
    <3>4. QED
      BY <3>1, <3>3
<1>6. QED
  BY <1>1, <1>4, <1>5, ReadsKept

(* Each step of read keeps that.                                           *)
LEMMA ShellNextReads ==
  ASSUME ShellInv, FlowInv, ChainsSound, SizeCovered, Mounted, ReadInv, [ShellNext]_shellVars
  PROVE  ReadInv'
<1>1. FsInv /\ cmd \in Command /\ cmd.p \in Path /\ cmd.shown \in Seq(Cell)
  BY DEF ShellInv, CmdInv, Command
<1>2. CASE cmd'.op # "read"
  BY <1>2 DEF ReadInv
<1>3. CASE UNCHANGED shellVars
  BY <1>3 DEF shellVars, fsVars, ReadInv, Reads, Gets, UsedSlots, ChainOf, Find, Lookup, Searched
<1>4. CASE UserTypes
  BY <1>4, EnterSays DEF ReadInv
<1>5. ASSUME CommandStep, SameCommand, cmd.op = "read"
      PROVE  ReadInv'
  <2>1. cmd.at \in {"opensrc", "get", "getting", "closesrc"} /\ cmd.dst = 0
    BY <1>5 DEF FlowInv, OpsAt
  <2>2. PICK i, h : i = Find(cmd.p) /\ h = cmd.src
    OBVIOUS
  <2>3. PICK shown \in Seq(Cell), p \in Path : shown = cmd.shown /\ p = cmd.p
    BY <1>1
  <2>4. dir' = dir => i = Find(cmd.p)'
    BY <1>5, <2>2 DEF SameCommand, Find, Lookup, Searched
  <2>5. h \in Handles \/ cmd.at = "opensrc"
    BY <2>1, <2>2 DEF ShellInv, CmdInv, HoldsSrc
  <2>6. cmd'.op = "read" /\ cmd' # Idle /\ vol.mounted
    BY <1>5 DEF SameCommand, Mounted, Prompt, Idle
  <2>7. CASE OpenSrc
    <3>1. PICK r \in 0 .. NumHandles :
           /\ Open(cmd.p, "r", r)
           /\ IF r = 0 THEN cmd' = Idle
              ELSE /\ r \in Handles /\ SameLine /\ cmd'.src = r /\ cmd'.dst = cmd.dst
                   /\ cmd'.todo = cmd.todo /\ cmd'.shown = cmd.shown
                   /\ cmd'.at = IF cmd.op = "cp" THEN "opendst"
                                ELSE IF cmd.op = "read" /\ handles'[r].is_directory
                                     THEN "closesrc" ELSE "get"
      BY <1>1, <2>7, OpenSrcSays
    <3>2. /\ r \in Handles /\ cmd'.src = r /\ cmd'.shown = cmd.shown
          /\ cmd'.at = IF handles'[r].is_directory THEN "closesrc" ELSE "get"
      BY <1>5, <2>6, <3>1
    <3>3. Open(p, "r", r)
      BY <2>3, <3>1
    <3>4. dir' = dir /\ Reads(r, Find(p), <<>>)'
      BY <1>1, <3>2, <3>3, OpenedReads
    <3>5. cmd'.shown = <<>> /\ cmd'.p = p
      BY <1>5, <2>3, <2>7, <3>2 DEF ReadInv, OpenSrc, SameCommand
    <3>6. QED
      BY <3>2, <3>4, <3>5 DEF ReadInv
  <2>8. CASE Get
    <3>1. ~handles[h].is_directory /\ Reads(h, i, shown) /\ h \in Handles
      BY <1>5, <2>2, <2>3, <2>5, <2>8 DEF ReadInv, Get
    <3>2. CASE ReadBegin(cmd.src, ReadChunk) /\ Goto("getting")
      <4>1. SameLine /\ cmd'.at = "getting" /\ cmd'.src = h /\ cmd'.shown = shown
        BY <1>1, <2>2, <2>3, <3>2, GotoSays
      <4>2. ReadChunk \in Nat \ {0} /\ ReadBegin(h, ReadChunk)
        BY <2>2, <3>2, ShellAssumption
      <4>3. /\ UNCHANGED <<vol, dir, data, buf, handles>> /\ Gets(h)'
            /\ Reads(h, i, shown \o call.data)'
        BY <1>1, <3>1, <4>2, BeginReads
      <4>4. QED
        BY <2>4, <3>1, <4>1, <4>3 DEF ReadInv
    <3>3. CASE ReadNothing(cmd.src) /\ Goto("closesrc")
      <4>1. SameLine /\ cmd'.at = "closesrc" /\ cmd'.src = h /\ cmd'.shown = shown
        BY <1>1, <2>2, <2>3, <3>3, GotoSays
      <4>2. UNCHANGED fsVars /\ ~Readable(h)
        BY <2>2, <3>3 DEF ReadNothing
      <4>3. handles[h] \in Handle
        BY <1>1, <3>1 DEF FsInv
      <4>4. /\ i \in UsedSlots /\ Len(shown) = dir[i].size
            /\ Begins(vol.fat, data, dir[i].first, shown, Len(shown))
        BY <3>1, <4>2, <4>3 DEF Reads, Readable, Handle
      <4>5. vol' = vol /\ dir' = dir /\ data' = data /\ UsedSlots' = UsedSlots
        BY <4>2 DEF fsVars, UsedSlots
      <4>6. QED
        BY <2>4, <4>1, <4>4, <4>5 DEF ReadInv
    <3>4. QED
      BY <1>5, <2>8, <3>2, <3>3 DEF Get
  <2>9. CASE Getting
    <3>1. /\ ~handles[h].is_directory /\ Gets(h) /\ Reads(h, i, shown \o call.data)
          /\ h \in Handles /\ ReadReturn(call.data)
      BY <1>5, <2>2, <2>3, <2>5, <2>9 DEF ReadInv, Getting
    <3>2. PICK out : out = shown \o call.data
      OBVIOUS
    <3>3. Reads(h, i, out)
      BY <3>1, <3>2
    <3>4. UNCHANGED <<vol, dir, data, buf, handles>> /\ call.data # <<>> /\ Reads(h, i, out)'
      BY <1>1, <3>1, <3>3, ReturnReads
    <3>5. cmd'.src = h /\ cmd'.at = "get" /\ cmd'.shown = out
      BY <1>1, <1>5, <2>2, <2>3, <2>9, <3>2, <3>4, GettingSays
    <3>6. QED
      BY <2>4, <3>1, <3>4, <3>5 DEF ReadInv
  <2>10. CASE InCall
    <3>1. cmd' = cmd /\ call.op # "none"
      BY <1>1, <2>10, StartingSays DEF InCall, SeekReturn, Returns
    <3>2. call.op = "read" /\ cmd.at = "getting"
      BY <2>1, <3>1 DEF FlowInv, ShellInv, FsInv, CallInv, Call
    <3>3. ReadStep
      BY <2>10, <3>2 DEF InCall, Iterate, WriteInPlace, WriteExtending, SeekStep, InLoop,
                         SeekReturn, Returns
    <3>4. /\ ~handles[h].is_directory /\ Gets(h) /\ Reads(h, i, shown \o call.data)
          /\ h \in Handles
      BY <1>5, <2>2, <2>3, <2>5, <3>2 DEF ReadInv
    <3>5. /\ dir' = dir /\ ~handles'[h].is_directory
          /\ Gets(h)' /\ Reads(h, i, shown \o call.data)'
      BY <1>1, <2>6, <3>3, <3>4, StepReads
    <3>6. QED
      BY <2>2, <2>3, <2>4, <3>1, <3>2, <3>5 DEF ReadInv
  <2>11. CASE CloseSrc
    BY <2>1, <2>6, <2>11 DEF CloseSrc, Finish
  <2>12. ~(Check \/ CheckDst \/ Act \/ OpenDst \/ Put \/ Putting \/ CloseDst)
    BY <2>1 DEF Check, CheckDst, Act, OpenDst, Put, Putting, CloseDst
  <2>13. QED
    BY <1>5, <2>7, <2>8, <2>9, <2>10, <2>11, <2>12 DEF CommandStep
<1>6. QED
  BY <1>2, <1>3, <1>4, <1>5, RunningStep DEF SameCommand

(* A text that the file begins with is what CellAt gives, cell by cell.    *)
LEMMA CellAtPicked ==
  ASSUME ChainsSound, NEW i \in UsedSlots, NEW s, NEW n,
         Begins(vol.fat, data, dir[i].first, s, n)
  PROVE  \A k \in 1 .. n : CellAt(i, k) = s[k]
<1> DEFINE c == dir[i].first
<1>1. PICK e \in ChainOf(i) : vol.fat[e] = Eoc
  BY SoundChain
<1>2. c \in Clusters /\ e \in Reach(vol.fat, c) /\ vol.fat[e] \notin Clusters
  BY <1>1, SoundChain, Constants DEF ChainOf
<1>3. ASSUME NEW k \in 1 .. n
      PROVE  CellAt(i, k) = s[k]
  <2>1. CellIn(vol.fat, data, c, k, s[k])
    BY DEF Begins
  <2> HIDE DEF c
  <2>2. PickedCell(vol.fat, data, c, k) = s[k]
    BY <1>2, <2>1, CellPicked
  <2>3. CellAt(i, k) = PickedCell(vol.fat, data, c, k)
    BY DEF CellAt, PickedCell, ChainOf, LengthIn, c
  <2>4. QED
    BY <2>2, <2>3
<1>4. QED
  BY <1>3

(* When read closes its handle it has shown the whole file.                *)
LEMMA ReadInvSays == ShellInv /\ ChainsSound /\ ReadInv => ReadGetsFile
<1> SUFFICES ASSUME ShellInv, ChainsSound, ReadInv,
                    cmd.op = "read", cmd.at = "closesrc", ~handles[cmd.src].is_directory
             PROVE  cmd.shown = [k \in 1 .. dir[Find(cmd.p)].size |-> CellAt(Find(cmd.p), k)]
  BY DEF ReadGetsFile
<1> DEFINE i == Find(cmd.p)
           n == dir[i].size
<1>1. /\ i \in UsedSlots /\ Len(cmd.shown) = n
      /\ Begins(vol.fat, data, dir[i].first, cmd.shown, Len(cmd.shown))
  BY DEF ReadInv
<1>2. cmd.shown \in Seq(Cell)
  BY DEF ShellInv, CmdInv, Command
<1> HIDE DEF i
<1>3. \A k \in 1 .. n : CellAt(i, k) = cmd.shown[k]
  BY <1>1, CellAtPicked
<1>4. cmd.shown = [k \in 1 .. n |-> cmd.shown[k]]
  BY <1>1, <1>2
<1>5. QED
  BY <1>3, <1>4 DEF i

(* What read gets from a regular file is the file, cell by cell and in     *)
(* order, over all of its clusters.                                        *)
THEOREM ShellReadGetsFile ==
  ASSUME NamesStable
  PROVE  ShellSpec /\ ChainsSound /\ EntriesFindable /\ SizeCovered => []ReadGetsFile
<1>1. ShellInit => ReadInv
  BY DEF ShellInit, Idle, ReadInv
<1>2. ShellInv /\ FlowInv /\ ChainsSound /\ SizeCovered /\ Mounted /\ ReadInv
      /\ [ShellNext]_shellVars => ReadInv'
  BY ShellNextReads
<1>3. ShellInv /\ ChainsSound /\ ReadInv => ReadGetsFile
  BY ReadInvSays
<1>4. QED
  BY <1>1, <1>2, <1>3, ShellInvHolds, FlowHolds, MountedHolds, ShellChainsSound,
     ShellSizeCovered, PTL DEF ShellSpec
-----------------------------------------------------------------------------
(* What a step of fs_write's loop puts in the buffer and on the disk.      *)
LEMMA StoreSays ==
  ASSUME FsInv, WriteInPlace \/ WriteExtending
  PROVE  /\ Iterate /\ call.op = "write" /\ call'.done = call.done + Chunk(Starting)
         /\ call'.size = call.size /\ call'.data = call.data
         /\ data' = [data EXCEPT ![Starting.current] = buf']
         /\ \A o \in Offsets :
              buf'[o] = IF o \in Starting.offset + 1 .. Starting.offset + Chunk(Starting)
                        THEN call.data[call.done + o - Starting.offset]
                        ELSE Loaded(Starting.current, Starting.offset)[o]
<1>1. Iterate /\ call.op = "write" /\ call \in Call
  BY DEF Iterate, WriteInPlace, WriteExtending, InLoop, FsInv, CallInv
<1>2. \E v : StoreChunk(Starting, v, Chunk(Starting))
  <2>1. CASE WriteInPlace
    <3>1. Starting = handles[call.h]
      BY <2>1 DEF Starting, WriteInPlace
    <3>2. QED
      BY <2>1, <3>1 DEF WriteInPlace
  <2>2. CASE WriteExtending
    <3>1. Starting = [handles[call.h] EXCEPT
                        !.first = IF @ \in Clusters THEN @ ELSE Allocated(vol),
                        !.current = Allocated(vol), !.offset = 0]
      BY <2>2 DEF WriteExtending, Starting
    <3>2. QED
      BY <2>2, <3>1 DEF WriteExtending
  <2>3. QED
    BY <2>1, <2>2
<1>3. PICK f, k : f = Starting /\ k = Chunk(Starting)
  OBVIOUS
<1>4. PICK v : StoreChunk(f, v, k)
  BY <1>2, <1>3
<1>5. /\ call' = [call EXCEPT !.done = @ + k]
      /\ buf' = [o \in Offsets |-> IF o \in f.offset + 1 .. f.offset + k
                                   THEN call.data[call.done + o - f.offset]
                                   ELSE Loaded(f.current, f.offset)[o]]
      /\ data' = [data EXCEPT ![f.current] = buf']
  BY <1>4 DEF StoreChunk
<1>6. call'.done = call.done + k /\ call'.size = call.size /\ call'.data = call.data
  BY <1>1, <1>5 DEF Call
<1>7. QED
  BY <1>1, <1>3, <1>5, <1>6

(* A handle that has written the beginning of `s' to the file of entry j,  *)
(* and, in the middle of a cluster, has that cluster in the buffer.        *)
Writes(h, j, s) ==
  LET f == handles[h] IN
  /\ j \in UsedSlots /\ f.first = dir[j].first
  /\ f.current \in Clusters => f.current \in ChainOf(j)
  /\ SizedIn(vol.fat, f)
  /\ f.offset > 0 => buf = data[f.current]
  /\ f.position <= f.size
  /\ Begins(vol.fat, data, f.first, s, f.position)

(* The loop that writes on handle h from the beginning of its file.        *)
Puts(h) ==
  /\ call.op = "write" /\ call.h = h /\ call.done = handles[h].position
  /\ call.done <= Len(call.data)

(* The cells before the position are where they were when a cluster is     *)
(* linked to the end of the chain.                                         *)
LEMMA StartingBegins ==
  ASSUME FsInv, ChainsSound, WriteInPlace \/ WriteExtending, NEW j \in UsedSlots,
         dir[j].first = handles[call.h].first, NEW s, NEW p \in Nat,
         Begins(vol.fat, data, dir[j].first, s, p)
  PROVE  Begins(vol'.fat, data, dir[j].first, s, p)
<1>1. Iterate
  BY DEF Iterate
<1>2. CASE ~Extends(handles[call.h])
  BY <1>1, <1>2, StartingSays
<1>3. CASE Extends(handles[call.h])
  <2> DEFINE c == Allocated(vol)
             a == AfterAllocate(vol)
             first == dir[j].first
  <2>1. WriteExtending
    BY <1>1, <1>3, StartingSays
  <2>2. PICK last \in ChainOf(j) : GrowsFrom(last)
    BY <2>1, ExtendsChain
  <2>3. last \in First /\ last \in Clusters /\ first \in Clusters
    BY SoundChain, Constants
  <2>4. /\ c \in Clusters /\ c \notin ChainOf(j) /\ a.mounted
        /\ \A x \in Clusters : x # c => a.fat[x] = vol.fat[x]
    BY <2>2, AllocatedApart DEF GrowsFrom
  <2>5. vol.fat[last] = Eoc /\ Eoc \notin Clusters /\ vol'.fat[c] = Eoc
    <3>1. a.fat[last] = Eoc /\ last # c
      BY <2>2, <2>3, <2>4 DEF GrowsFrom
    <3>2. QED
      BY <2>2, <2>3, <2>4, <3>1, GrowsEffect, Constants
  <2>6. vol' = [a EXCEPT !.fat[last] = c]
    BY <2>2, <2>3, <2>4 DEF GrowsFrom, WriteEntry
  <2>7. a \in Volume
    BY AllocateInv DEF FsInv, VolInv
  <2>8. vol'.fat[last] = c /\ \A x \in Clusters \ {last} : vol'.fat[x] = a.fat[x]
    <3> HIDE DEF a, c
    <3> QED
      BY <2>3, <2>6, <2>7 DEF Volume
  <2>9. ChainOf(j) = Reach(vol.fat, first) /\ ChainOf(j) \subseteq Clusters
    BY SoundChain DEF ChainOf
  <2>10. \A y \in Reach(vol.fat, first) \ {last} : vol'.fat[y] = vol.fat[y]
    BY <2>4, <2>8, <2>9
  <2> HIDE DEF a, c, first
  <2>11. Begins(vol'.fat, data, first, s, p)
    <3>1. last \in Reach(vol.fat, first) /\ c \in Clusters \ Reach(vol.fat, first)
      BY <2>4, <2>9
    <3>2. vol.fat[last] \notin Clusters /\ vol'.fat[c] \notin Clusters
      BY <2>5
    <3>3. Begins(vol.fat, data, first, s, p)
      BY DEF first
    <3>4. QED
      BY <2>3, <2>8, <2>10, <3>1, <3>2, <3>3, BeginsAppended
  <2>12. QED
    BY <2>11 DEF first
<1>4. QED
  BY <1>2, <1>3

(* One iteration writes on, in order.                                      *)
LEMMA StepWrites ==
  ASSUME FsInv, ChainsSound, vol'.mounted, WriteInPlace \/ WriteExtending, NEW h \in Handles,
         NEW j, Puts(h), Writes(h, j, call.data)
  PROVE  /\ dir' = dir /\ call'.data = call.data
         /\ handles[h].size = handles[h].position => handles'[h].size = handles'[h].position
         /\ Puts(h)' /\ Writes(h, j, call.data)'
<1> DEFINE f == Starting
           k == Chunk(Starting)
           g == handles'[h]
           s == call.data
<1>1. h = call.h /\ j \in UsedSlots /\ dir[j].first = handles[call.h].first
      /\ (handles[call.h].current \in Clusters => handles[call.h].current \in ChainOf(j))
      /\ SizedIn(vol.fat, handles[call.h])
  BY DEF Puts, Writes
<1>2. /\ Iterate /\ call.op = "write" /\ call'.done = call.done + k
      /\ call'.size = call.size /\ call'.data = s
      /\ data' = [data EXCEPT ![f.current] = buf']
      /\ \A o \in Offsets :
           buf'[o] = IF o \in f.offset + 1 .. f.offset + k
                     THEN s[call.done + o - f.offset]
                     ELSE Loaded(f.current, f.offset)[o]
  BY StoreSays
<1>3. /\ f \in Handle /\ f.current \in Clusters /\ f.position = handles[h].position
      /\ f.size = handles[h].size
      /\ IF Extends(handles[h]) THEN f.offset = 0 ELSE f = handles[h]
  BY <1>1, <1>2, StartingSays
<1>4. /\ call'.op = "write" /\ call'.h = h /\ dir' = dir /\ k \in Nat
      /\ k <= ClusterCells - f.offset /\ Moves(f, k)
  BY <1>1, <1>2, IterateMoves
<1>5. /\ f.offset \in Nat /\ f.offset <= ClusterCells /\ f.position \in Nat /\ f.size \in Nat
      /\ ClusterCells \in Nat /\ data \in [Clusters -> [Offsets -> Cell]]
      /\ call.done = f.position
  <2>1. f.offset \in 0 .. ClusterCells /\ f.position \in Nat /\ f.size \in Nat
    BY <1>3 DEF Handle
  <2>2. call.done = f.position
    BY <1>3 DEF Puts
  <2>3. QED
    BY <2>1, <2>2, Constants DEF FsInv
<1>6. /\ SizedIn(vol'.fat, f) /\ f.first = dir[j].first /\ f.current \in ChainOf(j)'
      /\ f.first \in Clusters
  BY <1>1, <1>2, StartingSized, SoundChain
<1>7. UsedSlots' = UsedSlots /\ ChainOf(j)' = Reach(vol'.fat, f.first)
  BY <1>4, <1>6 DEF UsedSlots, ChainOf
<1>8. PICK e \in ChainOf(j)' : vol'.fat[e] = Eoc
  <2>1. ApiStep
    BY <1>2, ApiSteps DEF ApiCall
  <2>2. ChainsSound'
    BY <2>1, StepSound
  <2>3. QED
    BY <1>1, <1>7, <2>2 DEF ChainsSound
<1>9. Begins(vol'.fat, data, f.first, s, f.position)
  <2>1. Begins(vol.fat, data, dir[j].first, s, f.position)
    BY <1>1, <1>3 DEF Writes
  <2>2. QED
    BY <1>1, <1>5, <1>6, <2>1, StartingBegins
<1>10. data'[f.current] = buf' /\ \A x \in Clusters : x # f.current => data'[x] = data[x]
  <2> HIDE DEF f
  <2> QED
    BY <1>2, <1>3, <1>5
<1>11. \A o \in 1 .. f.offset : data'[f.current][o] = data[f.current][o]
  <2>1. f.offset > 0 => Loaded(f.current, f.offset) = data[f.current]
    <3>1. f.offset > 0 => f = handles[h]
      BY <1>3
    <3>2. f.offset > 0 => buf = data[f.current]
      BY <3>1 DEF Writes
    <3>3. QED
      BY <3>2 DEF Loaded
  <2> HIDE DEF f, k, s
  <2>2. ASSUME NEW o \in 1 .. f.offset
        PROVE  buf'[o] = data[f.current][o]
    <3>1. o \in Offsets /\ o \notin f.offset + 1 .. f.offset + k /\ f.offset > 0
      BY <1>4, <1>5 DEF Offsets
    <3>2. QED
      BY <1>2, <2>1, <3>1
  <2>3. QED
    BY <1>10, <2>2
<1>12. \A n \in 1 .. k : s[f.position + n] = data'[f.current][f.offset + n]
  <2> HIDE DEF f, k, s
  <2>1. ASSUME NEW n \in 1 .. k
        PROVE  s[f.position + n] = buf'[f.offset + n]
    <3>1. /\ f.offset + n \in Offsets /\ f.offset + n \in f.offset + 1 .. f.offset + k
          /\ call.done + (f.offset + n) - f.offset = f.position + n
      BY <1>4, <1>5 DEF Offsets
    <3>2. QED
      BY <1>2, <3>1
  <2>2. QED
    BY <1>10, <2>1
<1>13. Begins(vol'.fat, data', f.first, s, f.position + k)
  <2>1. e \in Reach(vol'.fat, f.first) /\ vol'.fat[e] \notin Clusters
        /\ f.current \in Reach(vol'.fat, f.first)
    BY <1>6, <1>7, <1>8, Constants
  <2>2. \A x \in Reach(vol'.fat, f.first) : x # f.current => data'[x] = data[x]
    BY <1>6, <1>10, ReachWithin
  <2> HIDE DEF f, k, s
  <2>3. QED
    BY <1>3, <1>4, <1>6, <1>9, <1>11, <1>12, <2>1, <2>2, BeginsWritten
<1>14. SizedIn(vol'.fat, g) /\ (g.current \in Clusters => g.current \in ChainOf(j)')
  BY <1>1, <1>2, IterateSized, IterateStands
<1>15. /\ g.first = f.first /\ g.position = f.position + k
       /\ g.offset > 0 => g.current = f.current
       /\ g.size = IF f.position + k > f.size THEN f.position + k ELSE f.size
  <2> HIDE DEF f, k
  <2> QED
    BY <1>1, <1>2, <1>4 DEF Moves
<1>16. g.position <= g.size /\ (f.size = f.position => g.size = g.position)
  <2> HIDE DEF f, k, g
  <2> QED
    BY <1>4, <1>5, <1>15
<1>17. Puts(h)'
  <2>1. CallInv(call) /\ call \in Call /\ call.done < call.size /\ HandleInv(f)
    BY <1>2, StartingSays DEF FsInv, CallInv
  <2>2. k <= call.size - call.done /\ call.size = Len(s) /\ call.size \in Nat /\ call.done \in Nat
    BY <1>2, <2>1, ChunkBounds DEF CallInv, Call
  <2> HIDE DEF k, s, f
  <2>3. call'.done <= Len(s)
    BY <1>2, <1>4, <2>2
  <2>4. QED
    BY <1>2, <1>4, <1>5, <1>15, <2>3 DEF Puts, s
<1>18. Writes(h, j, call.data)'
  <2>1. g.offset > 0 => buf' = data'[g.current]
    BY <1>10, <1>15
  <2>2. g.first = dir'[j].first /\ j \in UsedSlots'
    BY <1>1, <1>4, <1>6, <1>7, <1>15
  <2>3. Begins(vol'.fat, data', g.first, call'.data, g.position)
    BY <1>2, <1>13, <1>15
  <2> HIDE DEF f, k, s
  <2>4. QED
    BY <1>14, <1>16, <2>1, <2>2, <2>3 DEF Writes
<1>19. QED
  BY <1>2, <1>3, <1>4, <1>16, <1>17, <1>18

(* A file that has just been opened to write: nothing of it is written,    *)
(* and no loop runs.                                                       *)
LEMMA OpenedWrites ==
  ASSUME FsInv, ChainsSound, ChainsSound', SizeCovered', EntriesFindable',
         NEW p \in Path, NEW r \in Handles, Open(p, "w", r), NEW s
  PROVE  /\ call'.op = "none" /\ handles'[r].position = 0 /\ handles'[r].offset = 0
         /\ Writes(r, Find(p), s)' /\ handles'[r].size = dir'[Find(p)'].size
<1>1. PICK j \in UsedSlots' :
        /\ dir'[j].name = Plain(p)
        /\ dir'[j].first = handles'[r].first /\ handles'[r].current = handles'[r].first
        /\ handles'[r].first \in ChainOf(j)'
        /\ handles'[r].size = dir'[j].size
        /\ handles'[r].offset = 0 /\ handles'[r].position = 0
  BY OpenedStands
<1>2. Find(p)' = j
  <2>1. ~Plain(p).slash
    BY DEF Plain
  <2>2. Lookup(Plain(p))' = j
    BY <1>1, <2>1 DEF EntriesFindable
  <2>3. QED
    BY <2>2 DEF Find, Plain
<1>3. SizedIn(vol.fat, handles[r])'
  BY OpenedSized
<1>4. call'.op = "none"
  BY DEF Open, Quiet, OpenRefused, OpenExisting, OpenMissing, OpenCreate, fsVars
<1>5. handles'[r].size \in Nat
  <2>1. FsInv'
    BY OpenInv
  <2>2. QED
    BY <2>1 DEF FsInv, Handle
<1>6. Begins(vol.fat, data, handles[r].first, s, 0)'
  BY DEF Begins
<1>7. Writes(r, j, s)'
  BY <1>1, <1>3, <1>5, <1>6 DEF Writes
<1>8. QED
  BY <1>1, <1>2, <1>4, <1>7

(* fs_write begins to write s at the beginning of a file.                  *)
LEMMA BeginWrites ==
  ASSUME NEW h \in Handles, NEW j, NEW s \in Seq(Cell), WriteBegin(h, s), Writes(h, j, s),
         handles[h].position = 0
  PROVE  /\ UNCHANGED <<vol, dir, data, buf, handles>>
         /\ call'.data = s /\ Puts(h)' /\ Writes(h, j, s)'
<1>1. UNCHANGED <<vol, dir, data, buf, handles>>
  BY DEF WriteBegin
<1>2. call'.op = "write" /\ call'.h = h /\ call'.done = 0 /\ call'.data = s
  BY DEF WriteBegin, NoCall
<1>3. QED
  BY <1>1, <1>2 DEF Puts, Writes, UsedSlots, ChainOf

(* fs_write returns: the entry that the handle's name leads to gets the    *)
(* size, and nothing else of the directory changes.                        *)
LEMMA ReturnSays ==
  ASSUME FsInv, WriteReturn(call.done), NEW j \in UsedSlots,
         Lookup([slash |-> FALSE, name |-> handles[call.h].name]) = j
  PROVE  /\ vol' = vol /\ data' = data /\ handles' = handles /\ call'.op = "none"
         /\ UsedSlots' = UsedSlots /\ \A n : Lookup(n)' = Lookup(n)
         /\ dir'[j].first = dir[j].first /\ dir'[j].size = handles[call.h].size
         /\ \A i \in Slots \ {j} : dir'[i] = dir[i]
<1>1. j # 0 /\ j \in Slots /\ dir \in [Slots -> Entry]
  BY Constants DEF UsedSlots, Slots, FsInv
<1>2. dir' = [dir EXCEPT ![j].size = handles[call.h].size]
  BY <1>1 DEF WriteReturn
<1>3. vol' = vol /\ data' = data /\ handles' = handles /\ call'.op = "none"
  BY DEF WriteReturn, Returns, NoCall
<1>4. ASSUME NEW i \in Slots
      PROVE  /\ dir'[i].st = dir[i].st /\ dir'[i].first = dir[i].first
             /\ dir'[i].name = dir[i].name
             /\ dir'[i].size = IF i = j THEN handles[call.h].size ELSE dir[i].size
             /\ i # j => dir'[i] = dir[i]
  BY <1>1, <1>2 DEF Entry
<1>5. UsedSlots' = UsedSlots
  BY <1>4 DEF UsedSlots
<1>6. Searched' = Searched
  BY <1>4, Constants DEF Searched, Slots
<1>7. ASSUME NEW n
      PROVE  Lookup(n)' = Lookup(n)
  <2>1. Searched \subseteq Slots
    BY DEF Searched
  <2>2. {i \in Searched : dir[i].st = "used" /\ dir[i].name = n}'
          = {i \in Searched : dir[i].st = "used" /\ dir[i].name = n}
    BY <1>4, <1>6, <2>1
  <2>3. QED
    BY <2>2 DEF Lookup
<1>8. QED
  BY <1>1, <1>3, <1>4, <1>5, <1>7
-----------------------------------------------------------------------------
(* write has stored its text as far as its handle is.                      *)
WriteInv ==
  cmd.op = "write" =>
    LET j == Find(cmd.p)
        h == cmd.dst
        s == cmd.text
    IN
    /\ cmd.at = "opendst" => cmd.todo \in {<<>>, <<s>>}
    /\ cmd.at = "put" => /\ call.op = "none" /\ cmd.todo = <<s>> /\ handles[h].position = 0
                         /\ Writes(h, j, s)
    /\ cmd.at = "putting" => /\ Puts(h) /\ cmd.todo = <<s>> /\ call.data = s
                             /\ Writes(h, j, s)
    /\ cmd.at = "closedst" =>
         /\ call.op = "none"
         /\ \/ handles[h].position = 0
            \/ /\ j \in UsedSlots /\ handles[h].position <= dir[j].size
               /\ Begins(vol.fat, data, dir[j].first, s, handles[h].position)

(* Each step of write keeps that.                                          *)
LEMMA ShellNextWrites ==
  ASSUME NamesStable, ShellInv, FlowInv, ChainsSound, ChainsSound', FileInv, EntriesFindable',
         SizeCovered', Mounted, WriteInv, [ShellNext]_shellVars
  PROVE  WriteInv'
<1>1. FsInv /\ cmd \in Command /\ cmd.p \in Path /\ cmd.text \in Seq(Cell)
  BY DEF ShellInv, CmdInv, Command
<1>2. CASE cmd'.op # "write"
  BY <1>2 DEF WriteInv
<1>3. CASE UNCHANGED shellVars
  BY <1>3 DEF shellVars, fsVars, WriteInv, Writes, Puts, UsedSlots, ChainOf, Find, Lookup, Searched
<1>4. CASE UserTypes
  BY <1>4, EnterSays DEF WriteInv
<1>5. ASSUME CommandStep, SameCommand, cmd.op = "write"
      PROVE  WriteInv'
  <2>1. cmd.at \in {"opendst", "put", "putting", "closedst"} /\ DstPath = cmd.p
    BY <1>1, <1>5 DEF FlowInv, OpsAt, DstPath, Command, Steps
  <2>2. PICK j, h : j = Find(cmd.p) /\ h = cmd.dst
    OBVIOUS
  <2>3. PICK s \in Seq(Cell), p \in Path : s = cmd.text /\ p = cmd.p
    BY <1>1
  <2>4. h \in Handles \/ cmd.at = "opendst"
    BY <2>1, <2>2 DEF ShellInv, CmdInv, HoldsDst
  <2>5. cmd'.op = "write" /\ cmd' # Idle /\ vol.mounted
    BY <1>5 DEF SameCommand, Mounted, Prompt, Idle
  <2>6. dir' = dir => j = Find(cmd.p)'
    BY <1>5, <2>2 DEF SameCommand, Find, Lookup, Searched
  <2>7. Len(<<s>>) = 1 /\ Head(<<s>>) = s /\ <<s>> # <<>>
    OBVIOUS
  <2>8. CASE OpenDst
    <3>1. PICK r \in 0 .. NumHandles :
           /\ Open(DstPath, IF cmd.op = "append" THEN "a" ELSE "w", r)
           /\ IF r = 0
              THEN IF cmd.op = "cp" THEN Goto("closesrc") ELSE cmd' = Idle
              ELSE /\ r \in Handles /\ SameLine /\ cmd'.src = cmd.src /\ cmd'.dst = r
                   /\ cmd'.todo = cmd.todo /\ cmd'.shown = cmd.shown
                   /\ cmd'.at = IF cmd.op = "cp" THEN "get"
                                ELSE IF cmd.todo = <<>> THEN "closedst" ELSE "put"
      BY <1>1, <2>8, OpenDstSays
    <3>2. /\ r \in Handles /\ SameLine /\ cmd'.dst = r /\ cmd'.todo = cmd.todo
          /\ cmd'.at = IF cmd.todo = <<>> THEN "closedst" ELSE "put"
      BY <1>5, <2>5, <3>1
    <3>3. Open(p, "w", r)
      BY <1>5, <2>1, <2>3, <3>1
    <3>4. /\ call'.op = "none" /\ handles'[r].position = 0 /\ Writes(r, Find(p), s)'
      BY <1>1, <3>2, <3>3, OpenedWrites
    <3>5. cmd'.todo \in {<<>>, <<s>>} /\ cmd'.p = p /\ cmd'.text = s
      BY <1>5, <2>3, <2>8, <3>2 DEF WriteInv, OpenDst, SameLine, SameCommand
    <3>6. QED
      BY <3>2, <3>4, <3>5 DEF WriteInv
  <2>9. CASE Put
    <3>1. /\ h \in Handles /\ cmd.todo = <<s>> /\ handles[h].position = 0 /\ Writes(h, j, s)
          /\ cmd.at = "put"
      BY <1>5, <2>2, <2>3, <2>4, <2>9 DEF WriteInv, Put
    <3>2. CASE WriteBegin(cmd.dst, Head(cmd.todo)) /\ Goto("putting")
      <4>1. SameLine /\ cmd'.at = "putting" /\ cmd'.dst = h /\ cmd'.todo = <<s>>
        BY <1>1, <2>2, <3>1, <3>2, GotoSays
      <4>2. WriteBegin(h, s)
        BY <2>2, <2>7, <3>1, <3>2
      <4>3. dir' = dir /\ call'.data = s /\ Puts(h)' /\ Writes(h, j, s)'
        BY <3>1, <4>2, BeginWrites
      <4>4. QED
        BY <2>3, <2>6, <4>1, <4>3 DEF WriteInv, SameLine
    <3>3. CASE WriteNothing(cmd.dst) /\ Wrote(0)
      <4>1. cmd'.dst = h /\ cmd'.at = "closedst"
        BY <1>1, <1>5, <2>2, <2>7, <3>1, <3>3, WroteSays
      <4>2. handles' = handles /\ call'.op = "none"
        BY <3>3 DEF WriteNothing, Quiet, fsVars
      <4>3. QED
        BY <3>1, <4>1, <4>2 DEF WriteInv
    <3>4. QED
      BY <2>9, <3>2, <3>3 DEF Put
  <2>10. CASE Putting
    <3>1. /\ h \in Handles /\ Puts(h) /\ cmd.todo = <<s>> /\ Writes(h, j, s) /\ j \in UsedSlots
          /\ cmd.at = "putting" /\ WriteReturn(call.done) /\ Wrote(call.done)
      BY <1>5, <2>2, <2>3, <2>4, <2>10 DEF WriteInv, Putting, Writes
    <3>2. SameLine /\ cmd'.dst = h /\ cmd'.at = "closedst"
      BY <1>1, <1>5, <2>2, <2>7, <3>1, WroteSays
    <3>3. Lookup([slash |-> FALSE, name |-> handles[call.h].name]) = j
      <4>1. handles[call.h].name = To83[cmd.p.text]
        BY <2>1, <3>1, WrittenTarget DEF Puts
      <4>2. QED
        BY <2>2, <4>1 DEF Find
    <3>4. /\ vol' = vol /\ data' = data /\ handles' = handles /\ call'.op = "none"
          /\ UsedSlots' = UsedSlots /\ \A n : Lookup(n)' = Lookup(n)
          /\ dir'[j].first = dir[j].first /\ dir'[j].size = handles[call.h].size
      BY <1>1, <3>1, <3>3, ReturnSays
    <3>5. Find(cmd.p)' = j /\ cmd'.text = s
      BY <1>5, <2>2, <2>3, <3>2, <3>4 DEF SameLine, SameCommand, Find
    <3>6. handles'[h].position <= dir'[j].size
          /\ Begins(vol'.fat, data', dir'[j].first, s, handles'[h].position)
      BY <3>1, <3>4 DEF Writes, Puts
    <3>7. QED
      BY <3>1, <3>2, <3>4, <3>5, <3>6 DEF WriteInv
  <2>11. CASE InCall
    <3>1. cmd' = cmd /\ call.op # "none"
      BY <1>1, <2>11, StartingSays DEF InCall, SeekReturn, Returns
    <3>2. /\ cmd.at = "putting" /\ h \in Handles /\ Puts(h) /\ cmd.todo = <<s>> /\ call.data = s
          /\ Writes(h, j, s)
      <4>1. cmd.at # "opendst"
        BY <3>1 DEF FlowInv, ShellInv, FsInv, CallInv, Call
      <4>2. QED
        BY <1>5, <2>1, <2>2, <2>3, <2>4, <3>1, <4>1 DEF WriteInv
    <3>3. WriteInPlace \/ WriteExtending
      BY <2>11, <3>2 DEF InCall, Iterate, ReadStep, SeekStep, InLoop, SeekReturn, Returns, Puts
    <3>4. vol'.mounted
      BY <1>1, <1>5, <2>5, MountedStays
    <3>5. dir' = dir /\ call'.data = s /\ Puts(h)' /\ Writes(h, j, call.data)'
      BY <1>1, <3>2, <3>3, <3>4, StepWrites
    <3>6. Writes(h, j, s)'
      BY <3>5
    <3>7. QED
      BY <2>2, <2>3, <2>6, <3>1, <3>2, <3>5, <3>6 DEF WriteInv
  <2>12. CASE CloseDst
    BY <2>5, <2>12 DEF CloseDst, Finish
  <2>13. ~(Check \/ CheckDst \/ Act \/ OpenSrc \/ Get \/ Getting \/ CloseSrc)
    BY <2>1 DEF Check, CheckDst, Act, OpenSrc, Get, Getting, CloseSrc
  <2>14. QED
    BY <1>5, <2>8, <2>9, <2>10, <2>11, <2>12, <2>13 DEF CommandStep
<1>6. QED
  BY <1>2, <1>3, <1>4, <1>5, RunningStep DEF SameCommand

(* When write closes its handle the file has what it wrote.                *)
LEMMA WriteInvSays == ShellInv /\ ChainsSound /\ WriteInv => WriteStored
<1> SUFFICES ASSUME ShellInv, ChainsSound, WriteInv, cmd.op = "write", cmd.at = "closedst",
                    NEW k \in 1 .. handles[cmd.dst].position
             PROVE  k <= dir[Find(cmd.p)].size /\ CellAt(Find(cmd.p), k) = cmd.text[k]
  BY DEF WriteStored
<1>1. CASE handles[cmd.dst].position = 0
  BY <1>1
<1>2. CASE handles[cmd.dst].position # 0
  <2>1. PICK i, n, s : i = Find(cmd.p) /\ n = handles[cmd.dst].position /\ s = cmd.text
    OBVIOUS
  <2>2. i \in UsedSlots /\ n <= dir[i].size /\ Begins(vol.fat, data, dir[i].first, s, n)
    BY <1>2, <2>1 DEF WriteInv
  <2>3. CellAt(i, k) = s[k]
    BY <2>1, <2>2, CellAtPicked
  <2>4. n \in Nat /\ dir[i].size \in Nat
    <3>1. cmd.dst \in Handles
      BY DEF ShellInv, CmdInv, HoldsDst
    <3>2. QED
      BY <2>1, <2>2, <3>1 DEF ShellInv, FsInv, Handle, UsedSlots, Entry
  <2>5. QED
    BY <2>1, <2>2, <2>3, <2>4
<1>3. QED
  BY <1>1, <1>2

(* When write is done, its file begins with what it could write, cell by   *)
(* cell and over all of its clusters, and the entry covers it.             *)
THEOREM ShellWriteStored ==
  ASSUME NamesStable
  PROVE  ShellSpec /\ ChainsSound /\ EntriesFindable /\ SizeCovered => []WriteStored
<1>1. ShellInit => WriteInv
  BY DEF ShellInit, Idle, WriteInv
<1>2. ShellInv /\ FlowInv /\ ChainsSound /\ ChainsSound' /\ FileInv /\ EntriesFindable'
      /\ SizeCovered' /\ Mounted /\ WriteInv /\ [ShellNext]_shellVars => WriteInv'
  BY ShellNextWrites
<1>3. ShellInv /\ ChainsSound /\ WriteInv => WriteStored
  BY WriteInvSays
<1>4. QED
  BY <1>1, <1>2, <1>3, ShellInvHolds, FlowHolds, FilesHold, MountedHolds, ShellChainsSound,
     ShellEntriesFindable, ShellSizeCovered, PTL DEF ShellSpec
-----------------------------------------------------------------------------
(* What a table and the clusters say of a file that no one touches.        *)
LEMMA SizedKept ==
  ASSUME NEW fat, NEW fat2, NEW f, f.first \in Clusters,
         f.current \in Clusters => f.current \in Reach(fat, f.first),
         \A y \in Reach(fat, f.first) : fat2[y] = fat[y], SizedIn(fat, f)
  PROVE  SizedIn(fat2, f)
<1>1. LengthIn(fat2, f.first) = LengthIn(fat, f.first)
  BY ReachLocal DEF LengthIn
<1>2. f.current \in Clusters => LengthIn(fat2, f.current) = LengthIn(fat, f.current)
  <2>1. SUFFICES ASSUME f.current \in Clusters PROVE LengthIn(fat2, f.current) = LengthIn(fat, f.current)
    OBVIOUS
  <2>2. Reach(fat, f.current) \subseteq Reach(fat, f.first)
    BY <2>1, ReachCloses
  <2>3. QED
    BY <2>1, <2>2, ReachLocal DEF LengthIn
<1>3. LeftIn(fat2, f) = LeftIn(fat, f)
  BY <1>2 DEF LeftIn
<1>4. QED
  BY <1>1, <1>3 DEF SizedIn

(* And where the contents of the clusters stay, so do the cells of the     *)
(* file.                                                                   *)
LEMMA BeginsKept ==
  ASSUME NEW fat, NEW fat2, NEW dat, NEW dat2, NEW c \in Clusters, NEW s, NEW n,
         \A y \in Reach(fat, c) : fat2[y] = fat[y] /\ dat2[y] = dat[y],
         Begins(fat, dat, c, s, n)
  PROVE  Begins(fat2, dat2, c, s, n)
<1>1. ASSUME NEW x \in Reach(fat, c)
      PROVE  x \in Reach(fat2, c) /\ LengthIn(fat2, x) = LengthIn(fat, x)
  <2>1. x \in Clusters /\ Reach(fat, x) \subseteq Reach(fat, c)
    BY ReachWithin, ReachCloses
  <2>2. Reach(fat2, c) = Reach(fat, c) /\ Reach(fat2, x) = Reach(fat, x)
    BY <2>1, ReachLocal
  <2>3. QED
    BY <2>2 DEF LengthIn
<1>2. LengthIn(fat2, c) = LengthIn(fat, c)
  BY <1>1, ReachWithin
<1>3. ASSUME NEW k, NEW v, CellIn(fat, dat, c, k, v)
      PROVE  CellIn(fat2, dat2, c, k, v)
  <2> DEFINE left == LengthIn(fat, c) - ((k - 1) \div ClusterCells)
  <2>1. PICK x \in Reach(fat, c) : LengthIn(fat, x) = left
                                   /\ dat[x][((k - 1) % ClusterCells) + 1] = v
    BY <1>3 DEF CellIn
  <2>2. dat2[x][((k - 1) % ClusterCells) + 1] = v
    BY <2>1
  <2>3. LengthIn(fat2, x) = LengthIn(fat2, c) - ((k - 1) \div ClusterCells)
    BY <1>1, <1>2, <2>1
  <2>4. QED
    BY <1>1, <2>2, <2>3 DEF CellIn
<1>4. QED
  BY <1>3 DEF Begins

(* A file just created: its handle is at its beginning and its end.        *)
Fresh(h, j) ==
  /\ Writes(h, j, <<>>) /\ dir[j].size = 0
  /\ handles[h].position = 0 /\ handles[h].size = 0 /\ handles[h].offset = 0

(* Nothing is written yet, whatever is to be.                              *)
LEMMA FreshWrites ==
  ASSUME NEW h, NEW j, NEW s, Fresh(h, j)
  PROVE  Writes(h, j, s)
<1>1. Begins(vol.fat, data, handles[h].first, s, 0)
  BY DEF Begins
<1>2. QED
  BY <1>1 DEF Fresh, Writes

(* Steps that touch neither the file nor its handle leave it so.           *)
LEMMA FreshKept ==
  ASSUME NEW h, NEW j, Fresh(h, j), vol' = vol, dir' = dir, data' = data,
         handles'[h] = handles[h]
  PROVE  Fresh(h, j)'
BY DEF Fresh, Writes, UsedSlots, ChainOf

(* The file of entry j is a beginning of the file of entry i.              *)
Common(i, j) ==
  \E s \in Seq(Cell) : /\ dir[j].size <= Len(s)
                       /\ Begins(vol.fat, data, dir[i].first, s, Len(s))
                       /\ Begins(vol.fat, data, dir[j].first, s, dir[j].size)

(* An empty file begins any other.                                         *)
LEMMA FreshCommon ==
  ASSUME NEW h, NEW i, NEW j, Fresh(h, j)
  PROVE  Common(i, j)
<1>1. PICK s : s = <<>>
  OBVIOUS
<1>2. Len(s) = 0 /\ s \in Seq(Cell) /\ dir[j].size = 0
  BY <1>1 DEF Fresh
<1>3. \A c : Begins(vol.fat, data, c, s, 0)
  BY DEF Begins
<1>4. /\ dir[j].size <= Len(s)
      /\ Begins(vol.fat, data, dir[i].first, s, Len(s))
      /\ Begins(vol.fat, data, dir[j].first, s, dir[j].size)
  <2>1. dir[j].size <= Len(s)
    BY <1>2
  <2>2. QED
    BY <1>2, <1>3, <2>1, Zenon
<1>5. QED
  BY <1>2, <1>4 DEF Common

(* Steps that touch no file leave two files as alike as they were.         *)
LEMMA CommonKept ==
  ASSUME NEW i, NEW j, Common(i, j), vol' = vol, dir' = dir, data' = data
  PROVE  Common(i, j)'
BY DEF Common

(* cp creates its destination while it has its source open.                *)
LEMMA CopyOpened ==
  ASSUME FsInv, ChainsSound, ChainsSound', SizeCovered', EntriesFindable',
         NEW p \in Path, NEW q \in Path, NEW r \in Handles, Open(q, "w", r), Find(q) = 0,
         NEW h \in Handles, NEW i, i = Find(p), Reads(h, i, <<>>), handles[h].offset = 0
  PROVE  /\ r # h /\ Find(p)' = i /\ i \in UsedSlots' /\ Find(q)' \in UsedSlots'
         /\ i # Find(q)' /\ Reads(h, i, <<>>)' /\ Fresh(r, Find(q))'
<1>1. i \in UsedSlots /\ 0 \notin Slots /\ UsedSlots \subseteq Slots
  BY Constants DEF Reads, Slots, UsedSlots
<1>2. dir[i].name = Plain(p)
  <2>1. i = Lookup(Plain(p)) /\ i # 0
    BY <1>1 DEF Find, Plain
  <2>2. QED
    BY <2>1, LookupFinds
<1>3. OpenCreate(q, "w", r)
  BY DEF Open, OpenRefused, OpenExisting, OpenMissing, Handles
<1>4. /\ handles' = [handles EXCEPT ![r] =
           [in_use |-> TRUE, is_directory |-> FALSE, first |-> Allocated(vol),
            current |-> Allocated(vol), offset |-> 0, size |-> 0, position |-> 0,
            name |-> To83[q.text]]]
      /\ r = FreeHandle /\ r # 0
  <2>1. r # 0
    BY DEF Handles
  <2>2. r = FreeHandle /\ Opened(r, FALSE, Allocated(vol), 0, To83[q.text])
    BY <1>3, <2>1 DEF OpenCreate
  <2>3. QED
    BY <2>1, <2>2 DEF Opened
<1>5. ~handles[r].in_use
  <2> DEFINE closed == {x \in Handles : ~handles[x].in_use}
  <2>1. closed # {} /\ r = Min(closed)
    BY <1>4 DEF FreeHandle
  <2>2. closed \in SUBSET (0 .. NumHandles) /\ NumHandles \in Nat
    BY Constants DEF Handles
  <2> HIDE DEF closed
  <2>3. r \in closed
    BY <2>1, <2>2, MinOfBounded
  <2>4. QED
    BY <2>3 DEF closed
<1>6. r # h
  BY <1>5 DEF Reads
<1>7. handles'[h] = handles[h] /\ handles'[r].size = 0
  BY <1>4, <1>6 DEF FsInv
<1>8. Untouched(i) /\ i \in UsedSlots'
  BY <1>1, OpenUntouched, OpenedStands
<1>9. dir'[i] = dir[i] /\ \A c \in ChainOf(i) : vol'.fat[c] = vol.fat[c]
  BY <1>8 DEF Untouched, Kept
<1>10. Find(p)' = i
  <2>1. dir'[i].name = Plain(p) /\ ~Plain(p).slash
    BY <1>2, <1>9 DEF Plain
  <2>2. Lookup(Plain(p))' = i
    BY <1>8, <2>1 DEF EntriesFindable
  <2>3. QED
    BY <2>2 DEF Find, Plain
<1>11. PICK j \in UsedSlots' : dir'[j].name = Plain(q)
  BY OpenedStands
<1>12. Find(q)' = j
  <2>1. ~Plain(q).slash
    BY DEF Plain
  <2>2. Lookup(Plain(q))' = j
    BY <1>11, <2>1 DEF EntriesFindable
  <2>3. QED
    BY <2>2 DEF Find, Plain
<1>13. i # j
  <2>1. Plain(p) # Plain(q)
    BY <1>1 DEF Find, Plain
  <2>2. QED
    BY <1>2, <1>9, <1>11, <2>1
<1>14. Reads(h, i, <<>>)'
  <2>1. dir[i].first \in Clusters /\ ChainOf(i)' = ChainOf(i)
        /\ ChainOf(i) = Reach(vol.fat, dir[i].first)
    BY <1>1, <1>8, SoundChain, KeptChain DEF Untouched, ChainOf
  <2>2. SizedIn(vol'.fat, handles[h])
    BY <1>9, <2>1, SizedKept DEF Reads
  <2>3. Len(<<>>) = 0 /\ Begins(vol.fat, data, handles[h].first, <<>>, 0)'
    BY DEF Begins
  <2>4. handles'[h].offset = 0
    BY <1>7
  <2>5. QED
    BY <1>7, <1>8, <1>9, <2>1, <2>2, <2>3, <2>4 DEF Reads
<1>15. Fresh(r, j)'
  <2>1. /\ handles'[r].position = 0 /\ handles'[r].offset = 0
        /\ Writes(r, Find(q), <<>>)' /\ handles'[r].size = dir'[Find(q)'].size
    BY OpenedWrites
  <2>2. QED
    BY <1>7, <1>12, <2>1 DEF Fresh
<1>16. QED
  BY <1>6, <1>8, <1>10, <1>11, <1>12, <1>13, <1>14, <1>15

(* cp of a file of at most one chunk: the chunk it got is the beginning of *)
(* its source, and what it put is the beginning of its destination.        *)
AtEnd(h) == handles[h].position >= handles[h].size

Chunked(i, s) == s \in Seq(Cell) /\ Begins(vol.fat, data, dir[i].first, s, Len(s))

CopiesAt(h, g, i, j) ==
  /\ cmd.at = "get" => \/ Fresh(g, j) /\ Reads(h, i, <<>>)
                       \/ AtEnd(h) /\ Common(i, j)
  /\ cmd.at = "getting" =>
       /\ Fresh(g, j) /\ Gets(h) /\ Reads(h, i, <<>> \o call.data)
       /\ call.size - call.done = handles[h].size - handles[h].position
  /\ cmd.at = "put" =>
       Fresh(g, j) /\ AtEnd(h) /\ Len(cmd.todo) = 1 /\ Chunked(i, Head(cmd.todo))
  /\ cmd.at = "putting" =>
       /\ AtEnd(h) /\ Puts(g) /\ Writes(g, j, call.data) /\ Chunked(i, call.data)
       /\ handles[g].size = handles[g].position
  /\ cmd.at \in {"closesrc", "closedst"} => Common(i, j)

Copies(h, g, i, j) ==
  /\ i \in UsedSlots /\ j \in UsedSlots /\ i # j /\ h # g
  /\ dir[i].size <= CopyChunk => CopiesAt(h, g, i, j)

CopyInv ==
  cmd.op = "cp" =>
    LET i == Find(cmd.p)
        j == Find(cmd.q)
        h == cmd.src
        g == cmd.dst
    IN
    /\ call.op # "seek"
    /\ cmd.at = "opensrc" => j = 0
    /\ cmd.at = "opendst" => j = 0 /\ Reads(h, i, <<>>) /\ handles[h].offset = 0
    /\ g # 0 => Copies(h, g, i, j)

(* What the steps of cp are once its destination is open.                  *)
LEMMA CopyMoves ==
  ASSUME ShellInv, FlowInv, CommandStep, SameCommand, cmd.op = "cp", cmd.dst # 0
  PROVE  /\ Get \/ Getting \/ Put \/ Putting \/ CloseSrc \/ InCall
         /\ cmd'.src = cmd.src /\ cmd'.dst = cmd.dst /\ cmd.dst \in Handles
         /\ call.op # "seek" => call'.op # "seek"
         /\ ~Putting => dir' = dir
         /\ cmd.at \in {"get", "getting", "put", "putting"} => cmd.src \in Handles
<1>1. FsInv /\ cmd \in Command /\ cmd'.op = "cp" /\ cmd' # Idle
  BY DEF ShellInv, CmdInv, SameCommand, Idle
<1>2. Get \/ Getting \/ Put \/ Putting \/ CloseSrc \/ InCall
  BY <1>1 DEF CommandStep, FlowInv, Check, CheckDst, Act, OpenSrc, OpenDst, CloseDst, Finish
<1>3. cmd.dst \in Handles
  BY <1>1 DEF Command, Handles
<1>4. cmd.at \in {"get", "getting", "put", "putting"} => cmd.src \in Handles
  BY DEF ShellInv, CmdInv, HoldsSrc
<1>5. CASE Get
  <2>1. /\ Goto("getting") \/ Goto("closesrc")
        /\ dir' = dir /\ call'.op \in {call.op, "read"}
    BY <1>5 DEF Get, ReadBegin, ReadNothing, NoCall, fsVars
  <2>2. cmd'.src = cmd.src /\ cmd'.dst = cmd.dst
    BY <1>1, <2>1, GotoSays
  <2>3. ~Putting
    BY <1>5 DEF Get, Putting
  <2>4. QED
    BY <1>2, <1>3, <1>4, <2>1, <2>2, <2>3
<1>6. CASE Getting
  <2>1. dir' = dir /\ call'.op = "none"
    BY <1>6 DEF Getting, ReadReturn, Returns, NoCall
  <2>2. QED
    BY <1>1, <1>2, <1>3, <1>4, <1>6, <2>1, GettingSays
<1>7. CASE Put
  <2>1. dir' = dir /\ call'.op \in {call.op, "write"}
    BY <1>7 DEF Put, WriteBegin, WriteNothing, NoCall, fsVars
  <2>2. cmd'.src = cmd.src /\ cmd'.dst = cmd.dst
    BY <1>1, <1>7, GotoSays, WroteSays DEF Put
  <2>3. QED
    BY <1>2, <1>3, <1>4, <2>1, <2>2
<1>8. CASE Putting
  <2>1. call'.op = "none"
    BY <1>8 DEF Putting, WriteReturn, Returns, NoCall
  <2>2. cmd'.src = cmd.src /\ cmd'.dst = cmd.dst
    BY <1>1, <1>8, WroteSays DEF Putting
  <2>3. QED
    BY <1>2, <1>3, <1>4, <1>8, <2>1, <2>2
<1>9. CASE CloseSrc
  <2>1. dir' = dir /\ call' = call /\ Goto("closedst")
    BY <1>9 DEF CloseSrc, Close
  <2>2. cmd'.src = cmd.src /\ cmd'.dst = cmd.dst
    BY <1>1, <2>1, GotoSays
  <2>3. QED
    BY <1>2, <1>3, <1>4, <2>1, <2>2
<1>10. CASE InCall
  <2>1. CASE SeekReturn
    BY <1>2, <1>3, <1>4, <1>10, <2>1 DEF InCall, SeekReturn, Returns, NoCall
  <2>2. CASE Iterate
    BY <1>1, <1>2, <1>3, <1>4, <1>10, <2>2, IterateMoves DEF InCall
  <2>3. QED
    BY <1>10, <2>1, <2>2 DEF InCall
<1>11. QED
  BY <1>2, <1>5, <1>6, <1>7, <1>8, <1>9, <1>10

(* The steps that read.                                                    *)
LEMMA CopyReads ==
  ASSUME ShellInv, FlowInv, ChainsSound, vol.mounted, cmd.op = "cp",
         NEW h \in Handles, NEW g \in Handles, NEW i, NEW j,
         h = cmd.src, h # g, dir[i].size <= CopyChunk, CopiesAt(h, g, i, j),
         Get \/ Getting \/ (ReadStep /\ cmd' = cmd /\ cmd.at = "getting")
  PROVE  CopiesAt(h, g, i, j)'
<1>1. FsInv /\ cmd \in Command
  BY DEF ShellInv, CmdInv
<1>2. CASE Get
  <2>1. cmd.at = "get" /\ (\/ Fresh(g, j) /\ Reads(h, i, <<>>)
                           \/ AtEnd(h) /\ Common(i, j))
    BY <1>2 DEF Get, CopiesAt
  <2>2. CASE ReadBegin(cmd.src, CopyChunk) /\ Goto("getting")
    <3>1. cmd'.at = "getting" /\ ReadBegin(h, CopyChunk) /\ CopyChunk \in Nat \ {0}
      BY <1>1, <2>2, GotoSays, ShellAssumption
    <3>2. ~AtEnd(h)
      BY <1>1, <3>1 DEF ReadBegin, Readable, AtEnd, FsInv, Handle
    <3>3. Fresh(g, j) /\ Reads(h, i, <<>>)
      BY <2>1, <3>2
    <3>4. handles[h].size - handles[h].position <= CopyChunk
      <4>1. Len(<<>>) = 0
        OBVIOUS
      <4>2. handles[h].size = dir[i].size /\ handles[h].position = 0
        BY <3>3, <4>1 DEF Reads
      <4>3. handles[h].size \in Nat /\ CopyChunk \in Nat
        BY <1>1, <3>1 DEF FsInv, Handle
      <4>4. QED
        BY <4>2, <4>3
    <3>5. PICK shown \in Seq(Cell) : shown = <<>>
      BY <<>> \in Seq(Cell)
    <3>6. /\ UNCHANGED <<vol, dir, data, buf, handles>>
          /\ Gets(h)' /\ Reads(h, i, shown \o call.data)'
          /\ call'.size - call'.done = handles[h].size - handles[h].position
      BY <1>1, <3>1, <3>3, <3>4, <3>5, BeginReads
    <3>7. Fresh(g, j)'
      BY <3>3, <3>6, FreshKept
    <3>8. QED
      BY <3>1, <3>5, <3>6, <3>7 DEF CopiesAt
  <2>3. CASE ReadNothing(cmd.src) /\ Goto("closesrc")
    <3>1. cmd'.at = "closesrc" /\ vol' = vol /\ dir' = dir /\ data' = data
      BY <1>1, <2>3, GotoSays DEF ReadNothing, fsVars
    <3>2. Common(i, j)
      BY <2>1, FreshCommon
    <3>3. Common(i, j)'
      BY <3>1, <3>2, CommonKept
    <3>4. QED
      BY <3>1, <3>3 DEF CopiesAt
  <2>4. QED
    BY <1>2, <2>2, <2>3 DEF Get
<1>3. CASE Getting
  <2>1. /\ cmd.at = "getting" /\ Fresh(g, j) /\ Gets(h) /\ Reads(h, i, <<>> \o call.data)
        /\ call.size - call.done = handles[h].size - handles[h].position
        /\ ReadReturn(call.data)
    BY <1>3 DEF Getting, CopiesAt
  <2>2. PICK s \in Seq(Cell) : s = call.data
    BY <1>1 DEF FsInv, CallInv, Call
  <2>3. <<>> \o s = s
    OBVIOUS
  <2>4. Reads(h, i, s)
    BY <2>1, <2>2, <2>3
  <2>5. /\ UNCHANGED <<vol, dir, data, buf, handles>>
        /\ call.done = call.size /\ call.data # <<>> /\ Reads(h, i, s)'
    BY <1>1, <2>1, <2>4, ReturnReads
  <2>6. cmd'.at = "put" /\ cmd'.todo = <<s>>
    BY <1>1, <1>3, <2>2, <2>5, GettingSays
  <2>7. AtEnd(h)'
    <3>1. /\ handles[h].size \in Nat /\ handles[h].position \in Nat
          /\ call.size \in Nat
      BY <1>1 DEF FsInv, Handle, CallInv, Call
    <3>2. handles[h].size = handles[h].position
      BY <2>1, <2>5, <3>1
    <3>3. QED
      BY <2>5, <3>1, <3>2 DEF AtEnd
  <2>8. Fresh(g, j)'
    BY <2>1, <2>5, FreshKept
  <2>9. Chunked(i, s)'
    BY <2>4, <2>5 DEF Chunked, Reads
  <2>10. Len(<<s>>) = 1 /\ Head(<<s>>) = s
    OBVIOUS
  <2>11. QED
    BY <2>6, <2>7, <2>8, <2>9, <2>10 DEF CopiesAt
<1>4. CASE ReadStep /\ cmd' = cmd /\ cmd.at = "getting"
  <2>1. PICK shown \in Seq(Cell) : shown = <<>>
    BY <<>> \in Seq(Cell)
  <2>2. /\ Fresh(g, j) /\ Gets(h) /\ Reads(h, i, shown \o call.data)
        /\ call.size - call.done = handles[h].size - handles[h].position
    BY <1>4, <2>1 DEF CopiesAt
  <2>3. /\ vol' = vol /\ dir' = dir /\ data' = data
        /\ call'.size - call'.done - handles'[h].size + handles'[h].position
             = call.size - call.done - handles[h].size + handles[h].position
        /\ Gets(h)' /\ Reads(h, i, shown \o call.data)'
    BY <1>1, <1>4, <2>2, StepReads
  <2>4. call'.size - call'.done = handles'[h].size - handles'[h].position
    <3>1. FsInv'
      BY <1>1, <1>4, ReadStepInv
    <3>2. /\ handles[h].size \in Nat /\ handles[h].position \in Nat
          /\ call.size \in Nat /\ call.done \in Nat
      BY <1>1 DEF FsInv, Handle, CallInv, Call
    <3>3. /\ handles'[h].size \in Nat /\ handles'[h].position \in Nat
          /\ call'.size \in Nat /\ call'.done \in Nat
      BY <3>1 DEF FsInv, Handle, CallInv, Call
    <3>4. \A a, b, c, d \in Nat, z \in Int :
            a - b - c + d = z /\ z = 0 => a - b = c - d
      OBVIOUS
    <3>5. call.size - call.done - handles[h].size + handles[h].position = 0
      BY <2>2, <3>2
    <3>6. QED
      BY <2>3, <3>3, <3>4, <3>5
  <2>5. handles'[g] = handles[g]
    <3>1. call.h = h /\ Iterate
      BY <1>4, <2>2 DEF Gets, Iterate
    <3>2. QED
      BY <1>1, <3>1, IterateMoves
  <2>6. Fresh(g, j)'
    BY <2>2, <2>3, <2>5, FreshKept
  <2>7. QED
    BY <1>4, <2>1, <2>3, <2>4, <2>6 DEF CopiesAt
<1>5. QED
  BY <1>2, <1>3, <1>4

(* The steps that write.                                                   *)
LEMMA CopyWrites ==
  ASSUME NamesStable, ShellInv, FlowInv, ChainsSound, FileInv, vol'.mounted, cmd.op = "cp",
         NEW h \in Handles, NEW g \in Handles, NEW i \in UsedSlots, NEW j \in UsedSlots,
         h = cmd.src, g = cmd.dst, h # g, i = Find(cmd.p), j = Find(cmd.q), i # j,
         CopiesAt(h, g, i, j),
         Put \/ Putting \/ (InCall /\ cmd.at = "putting")
  PROVE  CopiesAt(h, g, i, j)'
<1>1. FsInv /\ cmd \in Command /\ DstPath = cmd.q
  BY DEF ShellInv, CmdInv, DstPath
<1>2. CASE Put
  <2>1. cmd.at = "put" /\ Fresh(g, j) /\ AtEnd(h) /\ Chunked(i, Head(cmd.todo))
    BY <1>2 DEF Put, CopiesAt
  <2>2. CASE WriteBegin(cmd.dst, Head(cmd.todo)) /\ Goto("putting")
    <3>1. PICK s : s = Head(cmd.todo)
      OBVIOUS
    <3>2. s \in Seq(Cell) /\ WriteBegin(g, s) /\ handles[g].position = 0 /\ Chunked(i, s)
      BY <2>1, <2>2, <3>1 DEF Chunked, Fresh
    <3>3. Writes(g, j, s)
      BY <2>1, FreshWrites
    <3>4. /\ UNCHANGED <<vol, dir, data, buf, handles>>
          /\ call'.data = s /\ Puts(g)' /\ Writes(g, j, s)'
      BY <3>2, <3>3, BeginWrites
    <3>5. cmd'.at = "putting"
      BY <1>1, <2>2, GotoSays
    <3>6. AtEnd(h)' /\ Chunked(i, s)' /\ handles'[g].size = handles'[g].position
      BY <2>1, <3>2, <3>4 DEF AtEnd, Chunked, Fresh
    <3>7. QED
      BY <3>4, <3>5, <3>6 DEF CopiesAt
  <2>3. CASE WriteNothing(cmd.dst) /\ Wrote(0)
    <3>1. cmd'.at \in {"get", "closesrc"}
      BY <1>1, <2>3, WroteSays
    <3>2. vol' = vol /\ dir' = dir /\ data' = data /\ handles' = handles
      BY <2>3 DEF WriteNothing, fsVars
    <3>3. AtEnd(h)' /\ Common(i, j)'
      BY <2>1, <3>2, FreshCommon, CommonKept DEF AtEnd
    <3>4. QED
      BY <3>1, <3>3 DEF CopiesAt
  <2>4. QED
    BY <1>2, <2>2, <2>3 DEF Put
<1>3. CASE Putting
  <2>1. /\ cmd.at = "putting" /\ AtEnd(h) /\ Puts(g) /\ Writes(g, j, call.data)
        /\ Chunked(i, call.data) /\ handles[g].size = handles[g].position
        /\ WriteReturn(call.done) /\ Wrote(call.done)
    BY <1>3 DEF Putting, CopiesAt
  <2>2. Lookup([slash |-> FALSE, name |-> handles[call.h].name]) = j
    <3>1. handles[call.h].name = To83[cmd.q.text]
      BY <1>1, <2>1, WrittenTarget DEF Puts
    <3>2. QED
      BY <3>1 DEF Find
  <2>3. /\ vol' = vol /\ data' = data /\ handles' = handles
        /\ dir'[j].first = dir[j].first /\ dir'[j].size = handles[call.h].size
        /\ \A x \in Slots \ {j} : dir'[x] = dir[x]
    BY <1>1, <2>1, <2>2, ReturnSays
  <2>4. PICK s \in Seq(Cell) : s = call.data
    BY <2>1 DEF Chunked
  <2>5. dir'[j].size <= Len(s) /\ dir'[j].size = handles[g].position
    BY <2>1, <2>3, <2>4 DEF Puts
  <2>6. Begins(vol'.fat, data', dir'[j].first, s, dir'[j].size)
    BY <2>1, <2>3, <2>4, <2>5 DEF Writes
  <2>7. Begins(vol'.fat, data', dir'[i].first, s, Len(s))
    <3>1. i \in Slots \ {j}
      BY DEF UsedSlots
    <3>2. QED
      BY <2>1, <2>3, <2>4, <3>1 DEF Chunked
  <2>8. Common(i, j)' /\ AtEnd(h)'
    BY <2>1, <2>3, <2>5, <2>6, <2>7 DEF Common, AtEnd
  <2>9. cmd'.at \in {"get", "closesrc"}
    BY <1>1, <2>1, WroteSays
  <2>10. QED
    BY <2>8, <2>9 DEF CopiesAt
<1>4. CASE InCall /\ cmd.at = "putting"
  <2>1. /\ AtEnd(h) /\ Puts(g) /\ Writes(g, j, call.data)
        /\ Chunked(i, call.data) /\ handles[g].size = handles[g].position
    BY <1>4 DEF CopiesAt
  <2>2. cmd' = cmd /\ (WriteInPlace \/ WriteExtending)
    BY <1>4, <2>1 DEF InCall, Iterate, ReadStep, SeekStep, SeekReturn, Returns, InLoop, Puts
  <2>3. /\ dir' = dir /\ call'.data = call.data /\ handles'[g].size = handles'[g].position
        /\ Puts(g)' /\ Writes(g, j, call.data)'
    BY <1>1, <2>1, <2>2, StepWrites
  <2>4. handles'[h] = handles[h]
    BY <1>1, <2>1, <2>2, IterateMoves DEF Puts, Iterate
  <2>5. Untouched(i)
    <3>1. dir[i].name = Plain(cmd.p) /\ Plain(cmd.p) # Plain(cmd.q)
      <4>1. i = Lookup(Plain(cmd.p)) /\ i # 0 /\ j = Lookup(Plain(cmd.q))
        BY Constants DEF Find, Plain, UsedSlots, Slots
      <4>2. QED
        BY <4>1, LookupFinds
    <3>2. Targets = {Plain(cmd.q)}
      BY DEF Targets
    <3>3. QED
      BY <2>2, <3>1, <3>2, WriteUntouched
  <2>6. Chunked(i, call.data)'
    <3>1. dir[i].first \in Clusters /\ ChainOf(i) = Reach(vol.fat, dir[i].first)
      BY SoundChain DEF ChainOf
    <3>2. \A y \in Reach(vol.fat, dir[i].first) : vol'.fat[y] = vol.fat[y] /\ data'[y] = data[y]
      BY <2>5, <3>1 DEF Untouched, Kept
    <3>3. PICK s \in Seq(Cell) : s = call.data
      BY <2>1 DEF Chunked
    <3>4. Begins(vol'.fat, data', dir[i].first, s, Len(s))
      BY <2>1, <3>1, <3>2, <3>3, BeginsKept DEF Chunked
    <3>5. QED
      BY <2>3, <3>3, <3>4 DEF Chunked
  <2>7. AtEnd(h)'
    BY <2>1, <2>4 DEF AtEnd
  <2>8. QED
    BY <1>4, <2>2, <2>3, <2>6, <2>7 DEF CopiesAt
<1>5. QED
  BY <1>2, <1>3, <1>4

(* The entries of cp stay where they are while it copies.                  *)
LEMMA CopyFrame ==
  ASSUME NamesStable, ShellInv, FlowInv, FileInv, CommandStep, SameCommand,
         cmd.op = "cp", cmd.dst # 0, NEW i \in UsedSlots, NEW j \in UsedSlots,
         i = Find(cmd.p), j = Find(cmd.q), i # j
  PROVE  /\ Find(cmd.p)' = i /\ Find(cmd.q)' = j /\ UsedSlots' = UsedSlots
         /\ dir'[i].size = dir[i].size
<1>1. FsInv /\ cmd \in Command /\ DstPath = cmd.q
  BY DEF ShellInv, CmdInv, DstPath
<1>2. CASE Putting
  <2>1. call.op = "write" /\ WriteReturn(call.done)
    BY <1>2 DEF Putting, WriteReturn, Returns
  <2>2. handles[call.h].name = To83[cmd.q.text]
    BY <1>1, <2>1, WrittenTarget
  <2>3. Lookup([slash |-> FALSE, name |-> handles[call.h].name]) = j
    BY <2>2 DEF Find
  <2>4. /\ UsedSlots' = UsedSlots /\ \A n : Lookup(n)' = Lookup(n)
        /\ \A x \in Slots \ {j} : dir'[x] = dir[x]
    BY <1>1, <2>1, <2>3, ReturnSays
  <2>5. i \in Slots \ {j}
    BY DEF UsedSlots
  <2>6. QED
    BY <2>4, <2>5 DEF SameCommand, Find
<1>3. CASE ~Putting
  <2>1. dir' = dir
    BY <1>3, CopyMoves
  <2>2. QED
    BY <2>1 DEF SameCommand, Find, Lookup, Searched, UsedSlots
<1>4. QED
  BY <1>2, <1>3

(* cp before its destination is open.                                      *)
LEMMA CopyOpens ==
  ASSUME ShellInv, FlowInv, ChainsSound, ChainsSound', SizeCovered, SizeCovered',
         EntriesFindable', vol.mounted, CopyInv, CommandStep, SameCommand,
         cmd.op = "cp", cmd.dst = 0
  PROVE  CopyInv'
<1>1. FsInv /\ cmd \in Command /\ cmd.p \in Path /\ cmd.q \in Path /\ cmd'.op = "cp" /\ cmd' # Idle
  BY DEF ShellInv, CmdInv, Command, SameCommand, Idle
<1>2. PICK p \in Path, q \in Path : p = cmd.p /\ q = cmd.q
  BY <1>1
<1>3. cmd'.p = p /\ cmd'.q = q /\ call.op # "seek"
  BY <1>2 DEF SameCommand, CopyInv
<1>4. cmd.at \in {"check", "checkdst", "opensrc", "opendst", "closesrc"}
  <2>1. cmd.dst \notin Handles
    BY DEF Handles
  <2>2. cmd.at \notin {"get", "getting", "put", "putting", "closedst"}
    BY <2>1 DEF ShellInv, CmdInv, HoldsDst
  <2>3. cmd.at \notin {"prompt", "act"}
    BY DEF FlowInv, OpsAt
  <2>4. QED
    BY <1>1, <2>2, <2>3 DEF Command, Steps
<1>5. CASE Check
  <2>1. PICK r \in BOOLEAN : /\ Exists(cmd.p, r)
                             /\ IF r = WantsExisting THEN Goto(AfterCheck) ELSE Finish
    BY <1>5 DEF Check
  <2>2. Goto("checkdst")
    BY <1>1, <2>1 DEF Finish, AfterCheck
  <2>3. cmd'.at = "checkdst" /\ cmd'.dst = 0 /\ call' = call
    BY <1>1, <2>1, <2>2, GotoSays DEF Exists
  <2>4. QED
    BY <1>3, <2>3 DEF CopyInv
<1>6. CASE CheckDst
  <2>1. PICK r \in BOOLEAN :
       /\ Exists(cmd.q, r)
       /\ IF r THEN Finish ELSE Goto(IF cmd.op = "mv" THEN "act" ELSE "opensrc")
    BY <1>6 DEF CheckDst
  <2>2. ~r /\ Goto("opensrc")
    BY <1>1, <2>1 DEF Finish
  <2>3. Find(q) = 0 /\ dir' = dir /\ call' = call
    BY <1>2, <2>1, <2>2 DEF Exists
  <2>4. Find(q)' = 0
    BY <2>3 DEF Find, Lookup, Searched
  <2>5. cmd'.at = "opensrc" /\ cmd'.dst = 0
    BY <1>1, <2>2, GotoSays
  <2>6. QED
    BY <1>3, <2>3, <2>4, <2>5 DEF CopyInv
<1>7. CASE OpenSrc
  <2>1. PICK r \in 0 .. NumHandles :
           /\ Open(cmd.p, "r", r)
           /\ IF r = 0 THEN cmd' = Idle
              ELSE /\ r \in Handles /\ SameLine /\ cmd'.src = r /\ cmd'.dst = cmd.dst
                   /\ cmd'.todo = cmd.todo /\ cmd'.shown = cmd.shown
                   /\ cmd'.at = IF cmd.op = "cp" THEN "opendst"
                                ELSE IF cmd.op = "read" /\ handles'[r].is_directory
                                     THEN "closesrc" ELSE "get"
    BY <1>1, <1>7, OpenSrcSays
  <2>2. /\ r \in Handles /\ Open(p, "r", r) /\ cmd'.src = r /\ cmd'.dst = 0
        /\ cmd'.at = "opendst"
    BY <1>1, <1>2, <2>1
  <2>3. dir' = dir /\ Reads(r, Find(p), <<>>)' /\ handles'[r].offset = 0
    BY <1>1, <2>2, OpenedReads
  <2>4. call' = call
    BY <1>3, <2>2 DEF Open, OpenRefused, OpenExisting, OpenMissing, OpenCreate, fsVars
  <2>5. Find(q) = 0
    BY <1>2, <1>7 DEF CopyInv, OpenSrc
  <2>6. Find(q)' = 0
    BY <2>3, <2>5 DEF Find, Lookup, Searched
  <2>7. QED
    BY <1>3, <2>2, <2>3, <2>4, <2>6 DEF CopyInv
<1>8. CASE OpenDst
  <2>1. DstPath = q
    BY <1>2 DEF DstPath
  <2>2. PICK r \in 0 .. NumHandles :
           /\ Open(DstPath, IF cmd.op = "append" THEN "a" ELSE "w", r)
           /\ IF r = 0
              THEN IF cmd.op = "cp" THEN Goto("closesrc") ELSE cmd' = Idle
              ELSE /\ r \in Handles /\ SameLine /\ cmd'.src = cmd.src /\ cmd'.dst = r
                   /\ cmd'.todo = cmd.todo /\ cmd'.shown = cmd.shown
                   /\ cmd'.at = IF cmd.op = "cp" THEN "get"
                                ELSE IF cmd.todo = <<>> THEN "closedst" ELSE "put"
    BY <1>1, <1>8, OpenDstSays
  <2>3. Open(q, "w", r)
    BY <2>1, <2>2
  <2>4. CASE r = 0
    <3>1. cmd'.at = "closesrc" /\ cmd'.dst = 0
      BY <1>1, <2>2, <2>4, GotoSays
    <3>2. call' = call
      BY <1>1, <1>2, <2>3, <2>4, OpenHandle
    <3>3. QED
      BY <1>3, <3>1, <3>2 DEF CopyInv
  <2>5. CASE r # 0
    <3>1. r \in Handles /\ cmd'.src = cmd.src /\ cmd'.dst = r /\ cmd'.at = "get"
      BY <2>2, <2>5
    <3>2. PICK i, h : i = Find(p) /\ h = cmd.src
      OBVIOUS
    <3>3. /\ cmd.at = "opendst" /\ Find(q) = 0 /\ Reads(h, i, <<>>) /\ handles[h].offset = 0
      BY <1>2, <1>8, <3>2 DEF CopyInv, OpenDst
    <3>4. h \in Handles
      BY <3>2, <3>3 DEF ShellInv, CmdInv, HoldsSrc
    <3>5. /\ r # h /\ Find(p)' = i /\ i \in UsedSlots' /\ Find(q)' \in UsedSlots'
          /\ i # Find(q)' /\ Reads(h, i, <<>>)' /\ Fresh(r, Find(q))'
      <4>1. FsInv /\ Open(q, "w", r) /\ r \in Handles
        BY <1>1, <2>3, <3>1
      <4>2. Find(q) = 0 /\ i = Find(p) /\ Reads(h, i, <<>>) /\ handles[h].offset = 0
        BY <3>2, <3>3
      <4>3. QED
        BY <3>4, <4>1, <4>2, CopyOpened
    <3>6. call'.op = "none"
      BY <1>1, <2>3, <3>1, OpenedWrites
    <3>7. Copies(h, r, i, Find(q))'
      BY <3>1, <3>5 DEF Copies, CopiesAt
    <3>8. cmd'.src = h
      BY <3>1, <3>2
    <3>9. QED
      BY <1>3, <3>1, <3>5, <3>6, <3>7, <3>8 DEF CopyInv
  <2>6. QED
    BY <2>4, <2>5
<1>9. ~CloseSrc /\ ~InCall
  <2>1. ~CloseSrc
    BY <1>1 DEF CloseSrc, Finish
  <2>2. call.op = "none"
    BY <1>1, <1>3, <1>4 DEF FlowInv, FsInv, CallInv, Call
  <2>3. ~InCall
    BY <1>1, <2>2, StartingSays DEF InCall, SeekReturn, Returns
  <2>4. QED
    BY <2>1, <2>3
<1>10. ~(Act \/ Get \/ Getting \/ Put \/ Putting \/ CloseDst)
  BY <1>4 DEF Act, Get, Getting, Put, Putting, CloseDst
<1>11. QED
  BY <1>5, <1>6, <1>7, <1>8, <1>9, <1>10 DEF CommandStep

(* cp from there on.                                                       *)
LEMMA CopyRuns ==
  ASSUME NamesStable, ShellInv, FlowInv, ChainsSound, FileInv, vol.mounted, CopyInv,
         CommandStep, SameCommand, cmd.op = "cp", cmd.dst # 0
  PROVE  CopyInv'
<1>1. FsInv /\ cmd \in Command /\ cmd'.op = "cp"
  BY DEF ShellInv, CmdInv, SameCommand
<1>2. PICK i, j, h, g : i = Find(cmd.p) /\ j = Find(cmd.q) /\ h = cmd.src /\ g = cmd.dst
  OBVIOUS
<1>3. call.op # "seek" /\ Copies(h, g, i, j)
  BY <1>2 DEF CopyInv
<1>4. i \in UsedSlots /\ j \in UsedSlots /\ i # j /\ h # g
  BY <1>3 DEF Copies
<1>5. /\ Get \/ Getting \/ Put \/ Putting \/ CloseSrc \/ InCall
      /\ cmd'.src = h /\ cmd'.dst = g /\ g \in Handles
      /\ call'.op # "seek"
      /\ ~Putting => dir' = dir
      /\ cmd.at \in {"get", "getting", "put", "putting"} => h \in Handles
  BY <1>2, <1>3, CopyMoves
<1>6. /\ Find(cmd.p)' = i /\ Find(cmd.q)' = j /\ UsedSlots' = UsedSlots
      /\ dir'[i].size = dir[i].size
  BY <1>2, <1>4, CopyFrame
<1>7. cmd.at \notin {"opensrc", "opendst"}
  BY <1>2, <1>5 DEF FlowInv, Handles
<1>8. vol'.mounted
  BY MountedStays
<1>9. ASSUME dir[i].size <= CopyChunk
      PROVE  CopiesAt(h, g, i, j)'
  <2>1. CopiesAt(h, g, i, j)
    BY <1>3, <1>9 DEF Copies
  <2>2. CASE Get \/ Getting
    <3>1. h \in Handles
      BY <1>5, <2>2 DEF Get, Getting
    <3>2. QED
      BY <1>2, <1>4, <1>5, <1>9, <2>1, <2>2, <3>1, CopyReads
  <2>3. CASE Put \/ Putting
    <3>1. h \in Handles
      BY <1>5, <2>3 DEF Put, Putting
    <3>2. QED
      BY <1>2, <1>4, <1>5, <1>8, <2>1, <2>3, <3>1, CopyWrites
  <2>4. CASE CloseSrc
    <3>1. vol' = vol /\ dir' = dir /\ data' = data /\ Goto("closedst") /\ cmd.at = "closesrc"
      BY <1>2, <1>5, <2>4 DEF CloseSrc, Close
    <3>2. cmd'.at = "closedst" /\ Common(i, j)
      BY <1>1, <2>1, <3>1, GotoSays DEF CopiesAt
    <3>3. Common(i, j)'
      BY <3>1, <3>2, CommonKept
    <3>4. QED
      BY <3>2, <3>3 DEF CopiesAt
  <2>5. CASE InCall
    <3>1. cmd' = cmd /\ call.op # "none" /\ (Iterate \/ SeekReturn)
      BY <1>1, <2>5, StartingSays DEF InCall, SeekReturn, Returns
    <3>2. call.op \in {"read", "write"}
      BY <1>1, <1>3, <3>1 DEF FsInv, CallInv, Call
    <3>3. CASE call.op = "read"
      <4>1. ReadStep /\ cmd.at = "getting"
        BY <3>1, <3>3 DEF FlowInv, Iterate, WriteInPlace, WriteExtending, SeekStep, InLoop,
                          SeekReturn, Returns
      <4>2. QED
        BY <1>2, <1>4, <1>5, <1>9, <2>1, <3>1, <4>1, CopyReads
    <3>4. CASE call.op = "write"
      <4>1. cmd.at = "putting"
        BY <3>4 DEF FlowInv
      <4>2. QED
        BY <1>2, <1>4, <1>5, <1>8, <2>1, <2>5, <4>1, CopyWrites
    <3>5. QED
      BY <3>2, <3>3, <3>4
  <2>6. QED
    BY <1>5, <2>2, <2>3, <2>4, <2>5
<1>10. Copies(h, g, i, j)'
  BY <1>4, <1>6, <1>9 DEF Copies
<1>11. cmd'.at \notin {"opensrc", "opendst"}
  <2>1. \A step : Goto(step) => cmd'.at = step
    BY <1>1, GotoSays
  <2>2. CASE Get \/ CloseSrc
    BY <1>2, <1>5, <2>1, <2>2 DEF Get, CloseSrc, Handles
  <2>3. CASE Getting
    BY <1>1, <2>3, GettingSays
  <2>4. CASE Put \/ Putting
    <3>1. Goto("putting") \/ \E n : Wrote(n)
      BY <2>4 DEF Put, Putting
    <3>2. QED
      BY <1>1, <2>1, <3>1, WroteSays
  <2>5. CASE InCall
    BY <1>7, <2>5 DEF InCall
  <2>6. QED
    BY <1>5, <2>2, <2>3, <2>4, <2>5
<1>12. cmd'.p = cmd.p /\ cmd'.q = cmd.q
  BY DEF SameCommand
<1>13. QED
  BY <1>5, <1>6, <1>10, <1>11, <1>12 DEF CopyInv

(* Each step of cp keeps what CopyInv says.                                *)
LEMMA ShellNextCopies ==
  ASSUME NamesStable, ShellInv, FlowInv, ChainsSound, ChainsSound', FileInv, EntriesFindable',
         SizeCovered, SizeCovered', Mounted, CopyInv, [ShellNext]_shellVars
  PROVE  CopyInv'
<1>1. CASE cmd'.op # "cp"
  BY <1>1 DEF CopyInv
<1>2. CASE UNCHANGED shellVars
  <2>1. UNCHANGED <<vol, dir, data, buf, handles, call, cmd>>
    BY <1>2 DEF shellVars, fsVars
  <2>2. Find(cmd.p)' = Find(cmd.p) /\ Find(cmd.q)' = Find(cmd.q)
    BY <2>1 DEF Find, Lookup, Searched
  <2>3. PICK i, j, h, g : i = Find(cmd.p) /\ j = Find(cmd.q) /\ h = cmd.src /\ g = cmd.dst
    OBVIOUS
  <2>4. \A s : Reads(h, i, s) => Reads(h, i, s)'
    BY <2>1, ReadsKept
  <2>5. Fresh(g, j) => Fresh(g, j)'
    BY <2>1, FreshKept
  <2>6. Common(i, j) => Common(i, j)'
    BY <2>1, CommonKept
  <2>7. (AtEnd(h) => AtEnd(h)') /\ (Gets(h) => Gets(h)') /\ (Puts(g) => Puts(g)')
    BY <2>1 DEF AtEnd, Gets, Puts
  <2>8. \A s : (Chunked(i, s) => Chunked(i, s)') /\ (Writes(g, j, s) => Writes(g, j, s)')
    BY <2>1 DEF Chunked, Writes, UsedSlots, ChainOf
  <2>9. CopiesAt(h, g, i, j) => CopiesAt(h, g, i, j)'
    <3> SUFFICES ASSUME CopiesAt(h, g, i, j) PROVE CopiesAt(h, g, i, j)'
      OBVIOUS
    <3>1. PICK todo, part : todo = cmd.todo /\ part = call.data
      OBVIOUS
    <3>2. cmd'.todo = todo /\ call'.data = part
      BY <2>1, <3>1
    <3>3. QED
      BY <2>1, <2>4, <2>5, <2>6, <2>7, <2>8, <3>1, <3>2 DEF CopiesAt
  <2>10. Copies(h, g, i, j) => Copies(h, g, i, j)'
    BY <2>1, <2>9 DEF Copies, UsedSlots
  <2>11. cmd'.src = h /\ cmd'.dst = g /\ Find(cmd.p)' = i /\ Find(cmd.q)' = j
    BY <2>1, <2>2, <2>3
  <2>12. QED
    BY <2>1, <2>3, <2>4, <2>10, <2>11 DEF CopyInv
<1>3. CASE UserTypes /\ cmd'.op = "cp"
  <2>1. Prompt /\ UNCHANGED fsVars /\ cmd'.at = "check"
    BY <1>3, EnterSays
  <2>2. call.op # "seek"
    BY <2>1 DEF FlowInv, Idle
  <2>3. cmd'.dst = 0
    <3>1. \A op, at, p, q, text, todo : Enter(op, at, p, q, text, todo) => cmd'.dst = 0
      BY DEF Enter, Idle
    <3>2. QED
      BY <1>3, <3>1 DEF UserTypes
  <2>4. QED
    BY <2>1, <2>2, <2>3 DEF CopyInv, fsVars
<1>4. CASE CommandStep /\ SameCommand /\ cmd.op = "cp"
  <2>1. vol.mounted
    BY <1>4 DEF Mounted, Prompt
  <2>2. QED
    BY <1>4, <2>1, CopyOpens, CopyRuns
<1>5. QED
  BY <1>1, <1>2, <1>3, <1>4, RunningStep DEF SameCommand

(* When cp closes its destination, the two files have the same cells.      *)
LEMMA CopyInvSays == ShellInv /\ ChainsSound /\ CopyInv => SmallCopyEqual
<1> SUFFICES ASSUME ShellInv, ChainsSound, CopyInv, cmd.op = "cp", cmd.at = "closedst",
                    dir[Find(cmd.p)].size <= CopyChunk,
                    dir[Find(cmd.q)].size = dir[Find(cmd.p)].size,
                    NEW k \in 1 .. dir[Find(cmd.p)].size
             PROVE  CellAt(Find(cmd.q), k) = CellAt(Find(cmd.p), k)
  BY DEF SmallCopyEqual
<1>1. PICK i, j : i = Find(cmd.p) /\ j = Find(cmd.q)
  OBVIOUS
<1>2. cmd.dst # 0
  BY DEF ShellInv, CmdInv, HoldsDst, Handles
<1>3. i \in UsedSlots /\ j \in UsedSlots /\ Common(i, j)
  BY <1>1, <1>2 DEF CopyInv, Copies, CopiesAt
<1>4. PICK s \in Seq(Cell) : /\ dir[j].size <= Len(s)
                             /\ Begins(vol.fat, data, dir[i].first, s, Len(s))
                             /\ Begins(vol.fat, data, dir[j].first, s, dir[j].size)
  BY <1>3 DEF Common
<1>5. dir[i].size \in Nat /\ Len(s) \in Nat
  BY <1>3 DEF ShellInv, FsInv, UsedSlots, Entry
<1>6. k \in 1 .. Len(s) /\ k \in 1 .. dir[j].size
  BY <1>1, <1>4, <1>5
<1>7. CellAt(i, k) = s[k]
  BY <1>3, <1>4, <1>6, CellAtPicked
<1>8. CellAt(j, k) = s[k]
  BY <1>3, <1>4, <1>6, CellAtPicked
<1>9. QED
  BY <1>1, <1>7, <1>8

(* cp of a file of at most one chunk makes a copy of it, cell by cell,     *)
(* when the disk does not run full.                                        *)
THEOREM ShellSmallCopyEqual ==
  ASSUME NamesStable
  PROVE  ShellSpec /\ ChainsSound /\ EntriesFindable /\ SizeCovered => []SmallCopyEqual
<1>1. ShellInit => CopyInv
  BY DEF ShellInit, Idle, CopyInv
<1>2. ShellInv /\ FlowInv /\ ChainsSound /\ ChainsSound' /\ FileInv /\ EntriesFindable'
      /\ SizeCovered /\ SizeCovered' /\ Mounted /\ CopyInv /\ [ShellNext]_shellVars => CopyInv'
  BY ShellNextCopies
<1>3. ShellInv /\ ChainsSound /\ CopyInv => SmallCopyEqual
  BY CopyInvSays
<1>4. QED
  BY <1>1, <1>2, <1>3, ShellInvHolds, FlowHolds, FilesHold, MountedHolds, ShellChainsSound,
     ShellEntriesFindable, ShellSizeCovered, PTL DEF ShellSpec
=============================================================================
