----------------------------- MODULE MCLegacyFs -----------------------------
(***************************************************************************)
(* Names, two paths that lead elsewhere than to a node of their own name,  *)
(* one that leads nowhere, and a tree.                                     *)
(***************************************************************************)
EXTENDS LegacyFs, TLC

MCText == {"bin", "x", "y", "~x", "bin/../y", "bin/y"}
MCComponents ==
  [t \in MCText |-> CASE t = "~x" -> <<"x">>
                      [] t = "bin/../y" -> <<"bin", "..", "y">>
                      [] t = "bin/y" -> <<"bin", "y">>
                      [] OTHER -> <<t>>]
MCInitial == <<[name |-> "bin", content |-> "dir"], [name |-> "x", content |-> "c"]>>
=============================================================================
