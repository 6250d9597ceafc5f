------------------------------ MODULE MCShell ------------------------------
(***************************************************************************)
(* Volumes and command lines for Shell.  FilesImage and FullImage hold two *)
(* files, one of them of two clusters; BuiltInImage is the volume that     *)
(* storage_read_sectors creates, with TEST.TXT in its one cluster.         *)
(***************************************************************************)
EXTENDS Shell, TLC

(* "a" and "A" are two spellings of one 8.3 name.                          *)
MCNames == {"A", "B"}
MCTo83 == [t \in Text |-> IF t = "b" THEN "B" ELSE "A"]
MCReopened == [n \in MCNames |-> n]

File(n, c, k) == [st |-> "used", name |-> [slash |-> FALSE, name |-> n],
                  isdir |-> FALSE, first |-> c, size |-> k]
Listing(files) == [i \in Slots |-> IF i <= Len(files) THEN files[i] ELSE Blank("end")]

(* Clusters of one cell: A takes two, B one, and the disk is full.         *)
FilesImage ==
  [fat  |-> [c \in Clusters |-> CASE c = 3 -> 4 [] c \in {2, 4, 5} -> Eoc [] OTHER -> Free],
   dir  |-> Listing(<<File("A", 3, 2), File("B", 5, 1)>>),
   data |-> [c \in Clusters |-> Zeroes]]

(* Clusters of three cells: A takes one and a third, B a third.            *)
FullImage ==
  [fat  |-> (2 :> Eoc) @@ (3 :> 4) @@ (4 :> Eoc) @@ (5 :> Eoc),
   dir  |-> Listing(<<File("A", 3, 4), File("B", 5, 1)>>),
   data |-> (2 :> Zeroes) @@ (3 :> <<"x", "nl", "x">>) @@ (4 :> <<"nl", "zero", "zero">>)
              @@ (5 :> <<"x", "zero", "zero">>)]

BuiltInImage ==
  [fat  |-> [c \in Clusters |-> IF c \in {2, 3} THEN Eoc ELSE Free],
   dir  |-> Listing(<<File("A", 3, 1)>>),
   data |-> [c \in Clusters |-> IF c = 3 THEN [Zeroes EXCEPT ![1] = "x"] ELSE Zeroes]]

AllCommands == Ops \ {"none"}
ZeroLines == {<<"zero", "zero">>}
XLines  == {<<"x">>, <<"x", "nl", "nl", "x">>}
=============================================================================
