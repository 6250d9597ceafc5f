------------------------------ MODULE Network ------------------------------
(***************************************************************************)
(* Who sets the addresses of the network stack (src/kernel/network.c): the *)
(* kernel at boot, the DHCP client, and the command ipconfig               *)
(* (src/commands/ipconfig.c), which keeps and shows a configuration of its *)
(* own.  The main loop takes packets and ticks between two commands.       *)
(***************************************************************************)
EXTENDS Dhcp, Sequences, SequencesExt

CONSTANTS
  Default,     \* the configuration that the kernel and ipconfig begin with
  CommandLines \* the options that users give ipconfig, in their order; with
               \* none it shows the configuration

(* An option with its value; "bad" is one that is unknown, lacks its value *)
(* or has a value that validate_ip refuses.                                *)
Option == [opt : {"ip", "gateway", "netmask"}, value : Address]
            \cup [opt : {"dns", "reset", "help", "bad"}]

ASSUME NetworkAssumption ==
  /\ Default \in Config /\ Default.ip # Unset
  /\ CommandLines \subseteq Seq(Option) \ {<<>>}

VARIABLES
  current_config, \* the addresses ipconfig keeps
  setBy,          \* history: who set the stack's addresses last
  cutShort        \* history: an ipconfig that had begun to change its
                  \* configuration ended early, and none has been applied since

netVars == <<dhcpVars, current_config, setBy, cutShort>>

NetworkInit ==
  /\ DhcpInit /\ net = Default
  /\ current_config = Default /\ setBy = "kernel" /\ cutShort = FALSE

-----------------------------------------------------------------------------
Ends(o) == o.opt \in {"help", "bad"}

(* One option changes the configuration at once.                           *)
After(config, o) ==
  CASE o.opt = "reset" -> Default
    [] o.opt \in {"ip", "gateway", "netmask"} -> [config EXCEPT ![o.opt] = o.value]
    [] OTHER -> config

(* Mutant: the stack is not given the subnet mask.                         *)
AppliedWithoutMask(line) ==
  /\ \A i \in DOMAIN line : ~Ends(line[i])
  /\ current_config' = FoldLeft(After, current_config, line)
  /\ net' = [current_config' EXCEPT !.netmask = net.netmask]
  /\ setBy' = "ipconfig" /\ cutShort' = FALSE

(* The stack is set when all options have been taken; one that ends the    *)
(* command before leaves what the others changed.                          *)
Applied(line) ==
  /\ \A i \in DOMAIN line : ~Ends(line[i])
  /\ current_config' = FoldLeft(After, current_config, line)
  /\ net' = current_config'
  /\ setBy' = "ipconfig" /\ cutShort' = FALSE

Abandoned(line) ==
  \E i \in DOMAIN line :
    /\ Ends(line[i]) /\ \A j \in 1 .. i - 1 : ~Ends(line[j])
    /\ current_config' = FoldLeft(After, current_config, SubSeq(line, 1, i - 1))
    /\ cutShort' = (cutShort \/ i > 1)
    /\ UNCHANGED <<net, setBy>>

Ipconfig ==
  /\ \E line \in CommandLines : Applied(line) \/ Abandoned(line)
  /\ UNCHANGED <<dhcp, requests, answers, granted>>

ClientSteps ==
  /\ DhcpNext
  /\ setBy' = IF net' = net THEN setBy ELSE "dhcp"
  /\ UNCHANGED <<current_config, cutShort>>

NetworkNext == Ipconfig \/ ClientSteps

NetworkSpec == NetworkInit /\ [][NetworkNext]_netVars /\ Fairness

-----------------------------------------------------------------------------
(* Every part of the state is of its type.                                 *)
NetworkTypeOK ==
  /\ DhcpTypeOK
  /\ current_config \in Config /\ setBy \in {"kernel", "ipconfig", "dhcp"}
  /\ cutShort \in BOOLEAN

(* What ipconfig shows is what the stack uses, unless DHCP has set other   *)
(* addresses or an ipconfig was cut short by its own arguments; the next   *)
(* one that is applied, with any option, mends it.                         *)
ConfigShown == setBy # "dhcp" /\ ~cutShort => current_config = net
=============================================================================
