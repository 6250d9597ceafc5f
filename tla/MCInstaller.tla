---------------------------- MODULE MCInstaller ----------------------------
(***************************************************************************)
(* Users for TLC: one leaves the name of the host empty.                   *)
(***************************************************************************)
EXTENDS Installer

MCConfigs == {[user |-> "user", host |-> ""], [user |-> "root", host |-> "box"]}
=============================================================================
