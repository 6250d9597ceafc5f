------------------------------ MODULE MCFatApi ------------------------------
(***************************************************************************)
(* FatApi on a volume with two clusters beside the root's, both in one     *)
(* file, which may be deleted and renamed under the handles opened on it.  *)
(* Then another file may get its name or its clusters, and a volume that   *)
(* is mounted again has free clusters which the count of fs_mount misses.  *)
(***************************************************************************)
EXTENDS FatApi, TLC

MCNames == {"A", "B"}
MCTo83 == [t \in Text |-> IF t = "b" THEN "B" ELSE "A"]
MCReopened == [n \in MCNames |-> n]

MCEntry == [st |-> "used", name |-> [slash |-> FALSE, name |-> "A"], isdir |-> FALSE,
            first |-> 3, size |-> 2]
MCEnd == [MCEntry EXCEPT !.st = "end", !.first = 0, !.size = 0]

MCImage == [fat  |-> (2 :> Eoc) @@ (3 :> 4) @@ (4 :> Eoc),
            dir  |-> <<MCEntry, MCEnd>>,
            data |-> [c \in Clusters |-> <<"zero">>]]

MCOpens == {[abs |-> FALSE, text |-> "a"]}
MCPaths == MCOpens \cup {[abs |-> TRUE, text |-> "b"]}
MCContents == {<<"zero", "zero">>}
=============================================================================
