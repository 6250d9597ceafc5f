------------------------------- MODULE Dhcp -------------------------------
(***************************************************************************)
(* The DHCP client of src/kernel/dhcp.c, the addresses of the network      *)
(* stack that it sets, and the servers and the network around it.  Each    *)
(* exported function of the client runs from beginning to end.  What is    *)
(* sent may be lost, delayed, reordered and delivered again.               *)
(*                                                                         *)
(* The generator of transaction ids goes through all 2^32 values before it *)
(* repeats one, so an id is known by how many were drawn since: 0 is the   *)
(* one in dhcp_xid, and what is older than MaxAge has left the network.    *)
(***************************************************************************)
EXTENDS Integers

CONSTANTS
  Addr,     \* addresses of the network
  Unset,    \* 0.0.0.0
  Servers,  \* DHCP servers on it
  Pool,     \* the addresses that each server gives away
  LeaseOf,  \* the lease time, in seconds, its answers name; 0 when none
  RouterOf, \* the router its answers name, or Unset
  MaskOf,   \* the subnet mask, or Unset
  Timeout,  \* the 10 seconds the client waits for an answer
  RetryPeriod, \* the 5 seconds between requests for a longer lease
  MaxAge,   \* the oldest answers and requests on the network
  CardReady \* what rtl8139_is_initialized answers

ASSUME DhcpAssumption ==
  /\ Unset \notin Addr
  /\ Pool \in [Servers -> SUBSET Addr]
  /\ LeaseOf \in [Servers -> Nat]
  /\ RouterOf \in [Servers -> Addr \cup {Unset}]
  /\ MaskOf \in [Servers -> Addr \cup {Unset}]
  /\ Timeout \in Nat \ {0} /\ RetryPeriod \in Nat \ {0} /\ MaxAge \in Nat
  /\ CardReady \in BOOLEAN

(* A lease of one or two seconds is shorter than the three ticks after     *)
(* which the client gives it up.                                           *)
ASSUME LeaseAssumption == \A s \in Servers : LeaseOf[s] = 0 \/ LeaseOf[s] >= 3

VARIABLES
  dhcp,     \* the statics of dhcp.c
  net,      \* local_ip, gateway_ip and netmask of network.c
  requests, \* what the client sent, as the servers may receive it
  answers,  \* what the servers sent, as the client may receive it
  granted   \* history: the last ACK the client took, and the ticks since

dhcpVars == <<dhcp, net, requests, answers, granted>>

States == {"INIT", "SELECTING", "REQUESTING", "BOUND", "RENEWING", "REBINDING"}
InLease == dhcp.state \in {"BOUND", "RENEWING", "REBINDING"}

Address == Addr \cup {Unset}
Client == [state : States, active : BOOLEAN, timer : Nat, offered : Address,
           server : Servers \cup {Unset}, lease : Nat, mask : Address, router : Address]
Config == [ip : Address, gateway : Address, netmask : Address]
Request == [type : {"DISCOVER", "REQUEST", "RELEASE"}, age : 0 .. MaxAge]
Answer == [type : {"OFFER", "ACK"}, age : 0 .. MaxAge, server : Servers, ip : Addr]
            \cup [type : {"NAK"}, age : 0 .. MaxAge]
Grant == [ip : Address, lease : Nat, since : Nat]

NoGrant == [ip |-> Unset, lease |-> 0, since |-> 0]
NoConfig == [ip |-> Unset, gateway |-> Unset, netmask |-> Unset]
Stopped == [state |-> "INIT", active |-> FALSE, timer |-> 0, offered |-> Unset,
            server |-> Unset, lease |-> 0, mask |-> Unset, router |-> Unset]

(* The kernel sets an address when it boots; the client does not run.      *)
DhcpInit ==
  /\ dhcp = Stopped /\ granted = NoGrant
  /\ net \in {c \in Config : c.ip # Unset}
  /\ requests = {} /\ answers = {}

-----------------------------------------------------------------------------
(* Drawing an id makes every message on the network one older.             *)
Older(ms) == {[m EXCEPT !.age = @ + 1] : m \in {x \in ms : x.age < MaxAge}}

(* The client never looks whether a message went out; one that did may be  *)
(* lost.                                                                   *)
Send(type, ms) ==
  \/ requests' = ms
  \/ CardReady /\ requests' = ms \cup {[type |-> type, age |-> 0]}

Restart(state) == dhcp' = [dhcp EXCEPT !.state = state, !.timer = 0]

Start ==
  /\ ~dhcp.active
  /\ dhcp' = [Stopped EXCEPT !.active = TRUE]
  /\ net' = NoConfig /\ granted' = NoGrant
  /\ requests' = Older(requests) /\ answers' = Older(answers)

(* The address stays, and so does the id.                                  *)
Stop ==
  /\ dhcp.active
  /\ dhcp' = [dhcp EXCEPT !.active = FALSE, !.state = "INIT"]
  /\ IF dhcp.state = "BOUND" /\ dhcp.server # Unset
     THEN Send("RELEASE", requests) ELSE UNCHANGED requests
  /\ granted' = NoGrant
  /\ UNCHANGED <<net, answers>>

-----------------------------------------------------------------------------
(* dhcp_tick, once a second.                                               *)
Discover ==
  /\ dhcp.state = "INIT"
  /\ Restart("SELECTING")
  /\ Send("DISCOVER", Older(requests))
  /\ answers' = Older(answers)
  /\ UNCHANGED <<net, granted>>

(* Mutant: no time limit on the wait for an ACK.                           *)
AwaitForever ==
  /\ dhcp.state \in {"SELECTING", "REQUESTING"}
  /\ IF dhcp.timer + 1 >= Timeout /\ dhcp.state = "SELECTING" THEN Restart("INIT")
     ELSE dhcp' = [dhcp EXCEPT !.timer = IF @ < Timeout THEN @ + 1 ELSE @]
  /\ UNCHANGED <<net, requests, answers, granted>>

(* Mutant: the timer counts down, and is not stopped at zero.              *)
AwaitDown ==
  /\ dhcp.state \in {"SELECTING", "REQUESTING"}
  /\ IF dhcp.timer = Timeout THEN Restart("INIT") ELSE dhcp' = [dhcp EXCEPT !.timer = @ - 1]
  /\ UNCHANGED <<net, requests, answers, granted>>

(* The wait for an OFFER or an ACK.                                        *)
Await ==
  /\ dhcp.state \in {"SELECTING", "REQUESTING"}
  /\ IF dhcp.timer + 1 >= Timeout THEN Restart("INIT") ELSE dhcp' = [dhcp EXCEPT !.timer = @ + 1]
  /\ UNCHANGED <<net, requests, answers, granted>>

(* A lease of which no time is known never ends; the timer runs, but       *)
(* nothing reads it.                                                       *)
Hold ==
  /\ dhcp.state = "BOUND"
  /\ IF dhcp.lease = 0 THEN UNCHANGED <<dhcp, requests, granted>>
     ELSE /\ granted' = [granted EXCEPT !.since = @ + 1]
          /\ IF dhcp.timer + 1 >= dhcp.lease \div 2
             THEN Restart("RENEWING") /\ Send("REQUEST", requests)
             ELSE dhcp' = [dhcp EXCEPT !.timer = @ + 1] /\ UNCHANGED requests
  /\ UNCHANGED <<net, answers>>

(* Mutant: each of the two waits takes half of the lease.                  *)
RenewLate ==
  /\ dhcp.state \in {"RENEWING", "REBINDING"}
  /\ IF dhcp.lease > 0 /\ dhcp.timer + 1 >= dhcp.lease \div 2
     THEN IF dhcp.state = "RENEWING"
          THEN Restart("REBINDING") /\ granted' = [granted EXCEPT !.since = @ + 1]
          ELSE Restart("INIT") /\ granted' = NoGrant
     ELSE /\ dhcp' = [dhcp EXCEPT !.timer = @ + 1]
          /\ granted' = [granted EXCEPT !.since = @ + 1]
  /\ UNCHANGED <<net, requests, answers>>

(* What is sent again is the request that RENEWING began with.             *)
Renew ==
  /\ dhcp.state \in {"RENEWING", "REBINDING"}
  /\ IF (dhcp.timer + 1) % RetryPeriod = 0 THEN Send("REQUEST", requests) ELSE UNCHANGED requests
  /\ IF dhcp.lease > 0 /\ dhcp.timer + 1 >= dhcp.lease \div 4
     THEN IF dhcp.state = "RENEWING"
          THEN Restart("REBINDING") /\ granted' = [granted EXCEPT !.since = @ + 1]
          ELSE Restart("INIT") /\ granted' = NoGrant
     ELSE /\ dhcp' = [dhcp EXCEPT !.timer = @ + 1]
          /\ granted' = [granted EXCEPT !.since = @ + 1]
  /\ UNCHANGED <<net, answers>>

Tick == dhcp.active /\ (Discover \/ Await \/ Hold \/ Renew)

-----------------------------------------------------------------------------
(* Mutant: the id of an answer is not compared.                             *)
AnyId(m) == CardReady /\ dhcp.active

(* dhcp_process_packet: an answer is of the current id, or it is ignored.  *)
Current(m) == CardReady /\ dhcp.active /\ m.age = 0

TakeOffer(m) ==
  /\ dhcp.state = "SELECTING" /\ m.type = "OFFER"
  /\ dhcp' = [dhcp EXCEPT !.state = "REQUESTING", !.timer = 0, !.offered = m.ip,
                !.server = m.server, !.lease = LeaseOf[m.server],
                !.mask = MaskOf[m.server], !.router = RouterOf[m.server]]
  /\ Send("REQUEST", requests)
  /\ UNCHANGED <<net, granted>>

Acknowledged(m) == granted' = [ip |-> m.ip, lease |-> LeaseOf[m.server], since |-> 0]

(* The address is the one that was offered, whatever the ACK says.         *)
TakeAck(m) ==
  /\ dhcp.state = "REQUESTING" /\ m.type = "ACK"
  /\ Restart("BOUND")
  /\ net' = [ip |-> dhcp.offered,
             netmask |-> IF dhcp.mask # Unset THEN dhcp.mask ELSE net.netmask,
             gateway |-> IF dhcp.router # Unset THEN dhcp.router ELSE net.gateway]
  /\ Acknowledged(m)
  /\ UNCHANGED requests

TakeRenewal(m) ==
  /\ InLease /\ m.type = "ACK"
  /\ dhcp' = [dhcp EXCEPT !.state = "BOUND", !.timer = 0,
                !.lease = IF LeaseOf[m.server] > 0 THEN LeaseOf[m.server] ELSE @]
  /\ Acknowledged(m)
  /\ UNCHANGED <<net, requests>>

(* The address stays until the next attempt is granted one.                *)
TakeNak(m) ==
  /\ dhcp.state = "REQUESTING" \/ InLease
  /\ m.type = "NAK"
  /\ Restart("INIT") /\ granted' = NoGrant
  /\ UNCHANGED <<net, requests>>

Process(m) ==
  /\ Current(m)
  /\ TakeOffer(m) \/ TakeAck(m) \/ TakeRenewal(m) \/ TakeNak(m)
  /\ UNCHANGED answers

-----------------------------------------------------------------------------
(* The servers: each offers one address for an id, and grants that one or  *)
(* none.                                                                   *)
Offers(s, a) == {m \in answers : m.type = "OFFER" /\ m.server = s /\ m.age = a}

Says(m) ==
  /\ answers' = answers \cup {m}
  /\ UNCHANGED <<dhcp, net, requests, granted>>

Asked(type, a) == [type |-> type, age |-> a] \in requests

Offer(s, a) ==
  /\ Asked("DISCOVER", a) /\ Offers(s, a) = {}
  /\ \E ip \in Pool[s] : Says([type |-> "OFFER", age |-> a, server |-> s, ip |-> ip])

Ack(s, a) ==
  Asked("REQUEST", a) /\ \E o \in Offers(s, a) : Says([o EXCEPT !.type = "ACK"])

(* The client reads nothing else of a NAK.                                 *)
Nak(a) == Asked("REQUEST", a) /\ Says([type |-> "NAK", age |-> a])

Serve == \E a \in 0 .. MaxAge : Nak(a) \/ \E s \in Servers : Offer(s, a) \/ Ack(s, a)

DhcpNext == Start \/ Stop \/ Tick \/ (\E m \in answers : Process(m)) \/ Serve

(* The main loop ticks for ever.  A network and servers that carry and     *)
(* answer what is sent again and again: a DISCOVER arrives once, an OFFER  *)
(* once while the client waits for it, and so do a REQUEST and an ACK.     *)
Arrives(type)  == [type |-> type, age |-> 0] \in requests'
Discovering == Tick /\ dhcp.state = "INIT" /\ Arrives("DISCOVER")
Offering    == dhcp.state = "SELECTING" /\ \E s \in Servers : Offer(s, 0)
Requesting  == (\E m \in answers : Process(m) /\ m.type = "OFFER") /\ Arrives("REQUEST")
Granting    == dhcp.state = "REQUESTING" /\ \E s \in Servers : Ack(s, 0)
Binding     == dhcp.state = "REQUESTING" /\ \E m \in answers : Process(m) /\ m.type = "ACK"

Fairness ==
  /\ WF_dhcpVars(Tick) /\ SF_dhcpVars(Discovering) /\ SF_dhcpVars(Offering)
  /\ SF_dhcpVars(Requesting) /\ SF_dhcpVars(Granting) /\ SF_dhcpVars(Binding)

DhcpSpec == DhcpInit /\ [][DhcpNext]_dhcpVars /\ Fairness

-----------------------------------------------------------------------------
(* Every part of the state is of its type.                                 *)
DhcpTypeOK ==
  /\ dhcp \in Client /\ net \in Config /\ granted \in Grant
  /\ requests \subseteq Request /\ answers \subseteq Answer

(* One server made all the offers of the current attempt.                  *)
Grantings == {m \in answers : m.type # "NAK" /\ m.age = 0}
OneServer == \A m1, m2 \in Grantings : m1.server = m2.server

(* The address of a lease is the one that the server granted in this       *)
(* attempt, however many answers of earlier ones, to other addresses, are  *)
(* late or come again.                                                     *)
AddressGranted ==
  InLease /\ OneServer => dhcp.offered = granted.ip

(* The client leaves the states in which it counts on a lease before the   *)
(* lease ends, however often its requests for more go unanswered.  This is *)
(* about its state machine: the stack keeps the address.                   *)
LeaseNotOutlived ==
  InLease /\ OneServer /\ granted.lease > 0 => granted.since <= granted.lease

(* A client that runs gets an address, whatever is lost on the way: every  *)
(* wait it enters ends, and it asks again.                                 *)
AddressAcquired == CardReady /\ dhcp.active ~> InLease \/ ~dhcp.active
=============================================================================
