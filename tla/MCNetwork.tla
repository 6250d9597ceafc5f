----------------------------- MODULE MCNetwork -----------------------------
(***************************************************************************)
(* Two servers, each with an address of its own to give away, one of which *)
(* names no router; and the command lines of ipconfig.                     *)
(***************************************************************************)
EXTENDS Network, TLC

MCPool == ("s1" :> {"a"}) @@ ("s2" :> {"b"})
MCLease == ("s1" :> 4) @@ ("s2" :> 0)
MCRouter == ("s1" :> Unset) @@ ("s2" :> "b")
MCMask == ("s1" :> "a") @@ ("s2" :> Unset)
MCDefault == [ip |-> "a", gateway |-> "b", netmask |-> "a"]

Set(o, v) == [opt |-> o, value |-> v]
Plain(o) == [opt |-> o]
MCLines == {<<Plain("reset"), Set("ip", "b"), Plain("dns")>>,
            <<Set("gateway", "a"), Plain("help")>>}
=============================================================================
