--------------------------- MODULE Network_proofs ---------------------------
(***************************************************************************)
(* What holds of the DHCP client whatever the network loses, delays or     *)
(* repeats and whatever ipconfig does in between: a lease is held with the *)
(* address that was granted, and is given up before it ends.               *)
(***************************************************************************)
EXTENDS Network, FiniteSetTheorems, WellFoundedInduction, SequenceTheorems, TLAPS

(* The parts of the state that ipconfig leaves alone.                      *)
StateOK ==
  /\ dhcp \in Client /\ granted \in Grant
  /\ requests \subseteq Request /\ answers \subseteq Answer

OfferOf(m) == [m EXCEPT !.type = "OFFER"]

(* A server offers one address for an id.                                  *)
OneOffer ==
  \A m1, m2 \in answers :
    m1.type = "OFFER" /\ m2.type = "OFFER" /\ m1.age = m2.age /\ m1.server = m2.server => m1 = m2

(* It grants what it offered.                                              *)
AckOffered == \A m \in answers : m.type = "ACK" => OfferOf(m) \in answers

(* The offer that the client took is on the network until it draws an id.  *)
Taken == [type |-> "OFFER", age |-> 0, server |-> dhcp.server, ip |-> dhcp.offered]
OfferTaken == dhcp.state = "REQUESTING" \/ InLease => Taken \in answers

LeaseOffered ==
  /\ dhcp.state = "REQUESTING" => dhcp.lease = LeaseOf[dhcp.server]
  /\ InLease /\ OneServer => dhcp.lease = LeaseOf[dhcp.server] /\ granted.lease = dhcp.lease

(* A quarter of the lease, or one tick when the lease is of three seconds. *)
Wait(lease) == IF lease \div 4 = 0 THEN 1 ELSE lease \div 4

(* How far into its lease the client is in each of its states.             *)
Elapsed ==
  InLease /\ OneServer /\ dhcp.lease > 0 =>
    LET half == dhcp.lease \div 2 IN
    CASE dhcp.state = "BOUND" -> granted.since <= dhcp.timer /\ dhcp.timer < half
      [] dhcp.state = "RENEWING" ->
           granted.since <= half + dhcp.timer /\ dhcp.timer < Wait(dhcp.lease)
      [] OTHER ->
           granted.since <= half + Wait(dhcp.lease) + dhcp.timer /\ dhcp.timer < Wait(dhcp.lease)

Answered == StateOK /\ OneOffer /\ AckOffered /\ OfferTaken /\ AddressGranted
NetworkInv == Answered /\ LeaseOffered /\ Elapsed
-----------------------------------------------------------------------------
(* What is older is of the same kind.                                      *)
LEMMA OlderRequests ==
  ASSUME NEW ms, ms \subseteq Request
  PROVE  Older(ms) \subseteq Request
BY DhcpAssumption DEF Older, Request

LEMMA OlderAnswers ==
  ASSUME NEW ms, ms \subseteq Answer
  PROVE  Older(ms) \subseteq Answer
<1> SUFFICES ASSUME NEW m \in ms, m.age < MaxAge
             PROVE  [m EXCEPT !.age = @ + 1] \in Answer
  BY DEF Older
<1>1. CASE m.type \in {"OFFER", "ACK"}
  <2>1. m \in [type : {"OFFER", "ACK"}, age : 0 .. MaxAge, server : Servers, ip : Addr]
    BY <1>1 DEF Answer
  <2> QED BY <2>1, DhcpAssumption DEF Answer
<1>2. CASE m.type = "NAK"
  <2>1. m \in [type : {"NAK"}, age : 0 .. MaxAge]
    BY <1>2 DEF Answer
  <2> QED BY <2>1, DhcpAssumption DEF Answer
<1>3. m \in Answer
  OBVIOUS
<1> QED BY <1>1, <1>2, <1>3 DEF Answer

LEMMA SendTyped ==
  ASSUME NEW type \in {"DISCOVER", "REQUEST", "RELEASE"}, NEW ms, ms \subseteq Request, Send(type, ms)
  PROVE  requests' \subseteq Request
BY DhcpAssumption DEF Send, Request

(* An OFFER or an ACK names a server and an address.                       *)
LEMMA AnswerFields ==
  ASSUME StateOK, NEW m \in answers
  PROVE  /\ m.age \in 0 .. MaxAge
         /\ m.type \in {"OFFER", "ACK"} =>
              m \in [type : {"OFFER", "ACK"}, age : 0 .. MaxAge, server : Servers, ip : Addr]
         /\ m.type \in {"OFFER", "ACK", "NAK"}
BY DEF StateOK, Answer

-----------------------------------------------------------------------------
(* A client that waits for an OFFER, or that waits for nothing, holds no   *)
(* lease.                                                                  *)
LEMMA NoLease ==
  ASSUME StateOK', dhcp'.state \in {"INIT", "SELECTING"}, OneOffer', AckOffered'
  PROVE  NetworkInv'
<1>1. ~InLease' /\ dhcp'.state # "REQUESTING"
  BY DEF InLease
<1>2. OfferTaken' /\ AddressGranted' /\ LeaseOffered' /\ Elapsed'
  BY <1>1 DEF OfferTaken, AddressGranted, LeaseOffered, Elapsed
<1> QED BY <1>2 DEF NetworkInv, Answered

(* Drawing an id keeps every offer with its grant.                         *)
LEMMA Drawing ==
  ASSUME StateOK, OneOffer, AckOffered, answers' = Older(answers)
  PROVE  OneOffer' /\ AckOffered'
<1> DEFINE Aged(m) == [m EXCEPT !.age = @ + 1]
<1>1. ASSUME NEW m \in answers, m.age < MaxAge, m.type \in {"OFFER", "ACK"}
      PROVE  /\ Aged(m).type = m.type /\ Aged(m).age = m.age + 1
             /\ Aged(m).server = m.server /\ Aged(m).ip = m.ip
             /\ OfferOf(Aged(m)) = Aged(OfferOf(m))
  BY <1>1, AnswerFields DEF OfferOf
<1>2. \A m \in Older(answers) : \E x \in answers : m = Aged(x) /\ x.age < MaxAge
  BY DEF Older
<1>3. ASSUME NEW x \in answers, x.age < MaxAge
      PROVE  Aged(x) \in Older(answers) /\ Aged(x).type = x.type
  <2>1. CASE x.type \in {"OFFER", "ACK"}
    BY <1>1, <1>3, <2>1 DEF Older
  <2>2. CASE x.type = "NAK"
    <3>1. x \in [type : {"NAK"}, age : 0 .. MaxAge]
      BY <2>2 DEF StateOK, Answer
    <3> QED BY <1>3, <3>1 DEF Older
  <2> QED BY <2>1, <2>2, AnswerFields
<1>4. OneOffer'
  <2> SUFFICES ASSUME NEW m1 \in Older(answers), NEW m2 \in Older(answers),
                      m1.type = "OFFER", m2.type = "OFFER", m1.age = m2.age, m1.server = m2.server
               PROVE  m1 = m2
    BY DEF OneOffer
  <2>1. PICK x1 \in answers : m1 = Aged(x1) /\ x1.age < MaxAge
    BY <1>2
  <2>2. PICK x2 \in answers : m2 = Aged(x2) /\ x2.age < MaxAge
    BY <1>2
  <2>3. x1.type = "OFFER" /\ x2.type = "OFFER"
    BY <1>3, <2>1, <2>2
  <2>4. x1.age = x2.age /\ x1.server = x2.server
    BY <1>1, <2>1, <2>2, <2>3, AnswerFields, DhcpAssumption
  <2> QED BY <2>1, <2>2, <2>3, <2>4 DEF OneOffer
<1>5. AckOffered'
  <2> SUFFICES ASSUME NEW m \in Older(answers), m.type = "ACK"
               PROVE  OfferOf(m) \in Older(answers)
    BY DEF AckOffered
  <2>1. PICK x \in answers : m = Aged(x) /\ x.age < MaxAge
    BY <1>2
  <2>2. x.type = "ACK"
    BY <1>3, <2>1
  <2>3. OfferOf(x) \in answers /\ OfferOf(x).age = x.age
    BY <2>2, AnswerFields DEF AckOffered, OfferOf
  <2>4. Aged(OfferOf(x)) \in Older(answers)
    BY <1>3, <2>1, <2>3
  <2> QED BY <1>1, <2>1, <2>2, <2>4
<1> QED BY <1>4, <1>5

(* While no id is drawn, answers only arrive: if one server made all the   *)
(* offers there are now, it made those there were.                         *)
LEMMA OneServerBefore ==
  ASSUME answers \subseteq answers', OneServer'
  PROVE  OneServer
BY DEF OneServer, Grantings

-----------------------------------------------------------------------------
(* Each action preserves the invariant; first those that begin or end an   *)
(* attempt.                                                                *)
LEMMA ClientFields ==
  ASSUME StateOK
  PROVE  /\ dhcp.state \in States /\ dhcp.timer \in Nat /\ dhcp.lease \in Nat
         /\ granted.since \in Nat /\ granted.lease \in Nat
         /\ dhcp = [state |-> dhcp.state, active |-> dhcp.active, timer |-> dhcp.timer,
                    offered |-> dhcp.offered, server |-> dhcp.server, lease |-> dhcp.lease,
                    mask |-> dhcp.mask, router |-> dhcp.router]
BY DEF StateOK, Client, Grant

LEMMA RestartTyped ==
  ASSUME StateOK, NEW st \in States, Restart(st)
  PROVE  dhcp' \in Client /\ dhcp'.state = st
BY DEF StateOK, Client, Restart

LEMMA StoppedTyped == Stopped \in Client /\ NoGrant \in Grant /\ Stopped.state = "INIT"
BY DEF Stopped, Client, NoGrant, Grant, States, Address

LEMMA StartKeeps ==
  ASSUME NetworkInv, Start
  PROVE  NetworkInv'
<1>1. dhcp' \in Client /\ dhcp'.state = "INIT"
  BY StoppedTyped DEF Start, Stopped, Client
<1>2. StateOK'
  BY <1>1, StoppedTyped, OlderRequests, OlderAnswers DEF NetworkInv, Answered, StateOK, Start
<1>3. OneOffer' /\ AckOffered'
  BY Drawing DEF NetworkInv, Answered, Start
<1> QED BY <1>1, <1>2, <1>3, NoLease

LEMMA StopKeeps ==
  ASSUME NetworkInv, Stop
  PROVE  NetworkInv'
<1>1. StateOK
  BY DEF NetworkInv, Answered
<1>2. dhcp' \in Client /\ dhcp'.state = "INIT"
  BY <1>1 DEF Stop, StateOK, Client, States
<1>3. requests' \subseteq Request
  BY <1>1, SendTyped DEF Stop, StateOK
<1>4. StateOK'
  BY <1>1, <1>2, <1>3, StoppedTyped DEF Stop, StateOK
<1>5. OneOffer' /\ AckOffered'
  BY DEF NetworkInv, Answered, OneOffer, AckOffered, Stop
<1> QED BY <1>2, <1>4, <1>5, NoLease

LEMMA DiscoverKeeps ==
  ASSUME NetworkInv, Discover
  PROVE  NetworkInv'
<1>1. StateOK
  BY DEF NetworkInv, Answered
<1>2. dhcp' \in Client /\ dhcp'.state = "SELECTING"
  BY <1>1, RestartTyped DEF Discover, States
<1>3. requests' \subseteq Request
  BY <1>1, SendTyped, OlderRequests DEF Discover, StateOK
<1>4. StateOK'
  BY <1>1, <1>2, <1>3, OlderAnswers DEF Discover, StateOK
<1>5. OneOffer' /\ AckOffered'
  BY Drawing DEF NetworkInv, Answered, Discover
<1> QED BY <1>2, <1>4, <1>5, NoLease

(* A step that ends an attempt.                                            *)
LEMMA GivingUp ==
  ASSUME NetworkInv, Restart("INIT"), answers' = answers, requests' \subseteq Request,
         granted' \in Grant
  PROVE  NetworkInv'
<1>1. dhcp' \in Client /\ dhcp'.state = "INIT"
  BY RestartTyped DEF NetworkInv, Answered, States
<1>2. StateOK'
  BY <1>1 DEF NetworkInv, Answered, StateOK
<1>3. OneOffer' /\ AckOffered'
  BY DEF NetworkInv, Answered, OneOffer, AckOffered
<1> QED BY <1>1, <1>2, <1>3, NoLease

LEMMA AwaitKeeps ==
  ASSUME NetworkInv, Await
  PROVE  NetworkInv'
<1>1. StateOK
  BY DEF NetworkInv, Answered
<1>2. CASE Restart("INIT")
  BY <1>1, <1>2, GivingUp DEF Await, StateOK
<1>3. CASE dhcp' = [dhcp EXCEPT !.timer = @ + 1]
  <2>1. dhcp' \in Client /\ dhcp'.state = dhcp.state /\ dhcp'.offered = dhcp.offered
          /\ dhcp'.server = dhcp.server /\ dhcp'.lease = dhcp.lease
    BY <1>1, <1>3 DEF StateOK, Client
  <2>2. StateOK' /\ OneOffer' /\ AckOffered'
    BY <2>1 DEF Await, NetworkInv, Answered, StateOK, OneOffer, AckOffered
  <2>3. ~InLease'
    BY <2>1 DEF Await, InLease
  <2>4. OfferTaken'
    BY <2>1, <2>3 DEF Await, NetworkInv, Answered, OfferTaken, Taken
  <2>5. LeaseOffered'
    BY <2>1, <2>3 DEF Await, NetworkInv, LeaseOffered
  <2> QED BY <2>2, <2>3, <2>4, <2>5 DEF NetworkInv, Answered, AddressGranted, Elapsed
<1> QED BY <1>2, <1>3 DEF Await

-----------------------------------------------------------------------------
(* Half a lease and two quarters, rounded down but of one tick at least.   *)
LEMMA Quarters ==
  ASSUME NEW L \in Nat, L >= 3
  PROVE  /\ Wait(L) \in Nat /\ Wait(L) >= 1 /\ L \div 2 \in Nat /\ L \div 2 >= 1
         /\ \A t \in Nat : t + 1 < L \div 4 => t + 1 < Wait(L)
         /\ (L \div 2) + Wait(L) + Wait(L) <= L + 1
BY DEF Wait

(* A client in its lease has a server, and no lease is of one or two       *)
(* seconds.                                                                *)
LEMMA LongEnough ==
  ASSUME NetworkInv, InLease, OneServer, dhcp.lease > 0
  PROVE  dhcp.server \in Servers /\ dhcp.lease \in Nat /\ dhcp.lease >= 3
<1>1. Taken \in answers /\ Taken.type = "OFFER"
  BY DEF NetworkInv, Answered, OfferTaken, Taken
<1>2. Taken.server \in Servers
  BY <1>1, AnswerFields DEF NetworkInv, Answered
<1>3. dhcp.server \in Servers
  BY <1>2 DEF Taken
<1>4. dhcp.lease = LeaseOf[dhcp.server]
  BY DEF NetworkInv, LeaseOffered
<1> QED BY <1>3, <1>4, LeaseAssumption, ClientFields DEF NetworkInv, Answered

(* What a tick in a lease leaves alone.                                    *)
LEMMA LeaseTicks ==
  ASSUME NetworkInv, StateOK', InLease, InLease', answers' = answers,
         dhcp'.offered = dhcp.offered, dhcp'.server = dhcp.server, dhcp'.lease = dhcp.lease,
         granted'.ip = granted.ip, granted'.lease = granted.lease
  PROVE  Answered' /\ LeaseOffered'
<1>1. OneOffer' /\ AckOffered'
  BY DEF NetworkInv, Answered, OneOffer, AckOffered
<1>2. OneServer' => OneServer
  BY OneServerBefore
<1>3. OfferTaken'
  BY DEF NetworkInv, Answered, OfferTaken, Taken
<1>4. AddressGranted'
  BY <1>2 DEF NetworkInv, Answered, AddressGranted
<1>5. LeaseOffered'
  BY <1>2 DEF NetworkInv, LeaseOffered, InLease
<1> QED BY <1>1, <1>3, <1>4, <1>5 DEF Answered

LEMMA HoldKeeps ==
  ASSUME NetworkInv, Hold
  PROVE  NetworkInv'
<1>1. StateOK /\ InLease
  BY DEF NetworkInv, Answered, Hold, InLease
<1>2. CASE UNCHANGED <<dhcp, requests, granted>>
  <2>1. StateOK'
    BY <1>1, <1>2 DEF Hold, StateOK
  <2>2. Answered' /\ LeaseOffered'
    BY <1>1, <1>2, <2>1, LeaseTicks DEF Hold, InLease
  <2>3. OneServer' => OneServer
    BY OneServerBefore DEF Hold
  <2>4. Elapsed'
    BY <1>2, <2>3 DEF NetworkInv, Elapsed, InLease
  <2> QED BY <2>2, <2>4 DEF NetworkInv
<1>3. CASE dhcp.lease # 0 /\ granted' = [granted EXCEPT !.since = @ + 1]
  <2>1. granted' \in Grant /\ granted'.ip = granted.ip /\ granted'.lease = granted.lease
          /\ granted'.since = granted.since + 1
    BY <1>1, <1>3 DEF StateOK, Grant
  <2>2. dhcp.state = "BOUND"
    BY DEF Hold
  <2>3. OneServer' => OneServer
    BY OneServerBefore DEF Hold
  <2>4. OneServer => granted.since <= dhcp.timer /\ dhcp.timer < dhcp.lease \div 2
    BY <1>1, <1>3, <2>2, ClientFields DEF NetworkInv, Elapsed
  <2>5. CASE Restart("RENEWING") /\ Send("REQUEST", requests)
    <3>1. dhcp' \in Client /\ dhcp'.state = "RENEWING"
      BY <1>1, <2>5, RestartTyped DEF States
    <3>2. dhcp'.offered = dhcp.offered /\ dhcp'.server = dhcp.server
            /\ dhcp'.lease = dhcp.lease /\ dhcp'.timer = 0
      BY <1>1, <2>5 DEF Restart, StateOK, Client
    <3>3. StateOK'
      BY <1>1, <2>1, <2>5, <3>1, SendTyped DEF Hold, StateOK
    <3>4. Answered' /\ LeaseOffered'
      BY <1>1, <2>1, <3>1, <3>2, <3>3, LeaseTicks DEF Hold, InLease
    <3>5. Elapsed'
      <4> SUFFICES ASSUME OneServer
                   PROVE  granted'.since <= (dhcp.lease \div 2) + 0 /\ 0 < Wait(dhcp.lease)
        BY <2>3, <3>1, <3>2 DEF Elapsed
      <4>1. dhcp.lease > 0
        BY <1>1, <1>3, ClientFields
      <4>2. dhcp.lease >= 3 /\ dhcp.lease \in Nat
        BY <1>1, <4>1, LongEnough
      <4> QED BY <1>1, <2>1, <2>4, <4>2, Quarters, ClientFields
    <3> QED BY <3>4, <3>5 DEF NetworkInv
  <2>6. CASE /\ ~(dhcp.timer + 1 >= dhcp.lease \div 2)
             /\ dhcp' = [dhcp EXCEPT !.timer = @ + 1] /\ UNCHANGED requests
    <3>1. dhcp' \in Client /\ dhcp'.state = "BOUND" /\ dhcp'.offered = dhcp.offered
            /\ dhcp'.server = dhcp.server /\ dhcp'.lease = dhcp.lease
            /\ dhcp'.timer = dhcp.timer + 1
      BY <1>1, <2>2, <2>6 DEF StateOK, Client
    <3>2. StateOK'
      BY <1>1, <2>1, <2>6, <3>1 DEF Hold, StateOK
    <3>3. Answered' /\ LeaseOffered'
      BY <1>1, <2>1, <3>1, <3>2, LeaseTicks DEF Hold, InLease
    <3>4. Elapsed'
      BY <1>1, <2>1, <2>3, <2>4, <2>6, <3>1, ClientFields DEF Elapsed
    <3> QED BY <3>3, <3>4 DEF NetworkInv
  <2> QED BY <1>3, <2>5, <2>6 DEF Hold
<1> QED BY <1>2, <1>3 DEF Hold

LEMMA RenewKeeps ==
  ASSUME NetworkInv, Renew
  PROVE  NetworkInv'
<1>1. StateOK /\ InLease
  BY DEF NetworkInv, Answered, Renew, InLease
<1>2. requests' \subseteq Request
  BY <1>1, SendTyped DEF Renew, StateOK
<1>3. CASE Restart("INIT") /\ granted' = NoGrant
  BY <1>2, <1>3, StoppedTyped, GivingUp DEF Renew
<1>4. CASE granted' = [granted EXCEPT !.since = @ + 1]
  <2>1. granted' \in Grant /\ granted'.ip = granted.ip /\ granted'.lease = granted.lease
          /\ granted'.since = granted.since + 1
    BY <1>1, <1>4 DEF StateOK, Grant
  <2>2. OneServer' => OneServer
    BY OneServerBefore DEF Renew
  <2>3. dhcp.state \in {"RENEWING", "REBINDING"}
    BY DEF Renew
  <2> DEFINE half == dhcp.lease \div 2
  <2>4. ASSUME OneServer, dhcp.lease > 0
        PROVE  /\ dhcp.timer < Wait(dhcp.lease)
               /\ dhcp.state = "RENEWING" => granted.since <= half + dhcp.timer
               /\ dhcp.state = "REBINDING" => granted.since <= half + Wait(dhcp.lease) + dhcp.timer
    BY <1>1, <2>3, <2>4 DEF NetworkInv, Elapsed
  <2>5. CASE /\ dhcp.state = "RENEWING" /\ Restart("REBINDING")
    <3>1. dhcp' \in Client /\ dhcp'.state = "REBINDING"
      BY <1>1, <2>5, RestartTyped DEF States
    <3>2. dhcp'.offered = dhcp.offered /\ dhcp'.server = dhcp.server
            /\ dhcp'.lease = dhcp.lease /\ dhcp'.timer = 0
      BY <1>1, <2>5 DEF Restart, StateOK, Client
    <3>3. StateOK'
      BY <1>1, <1>2, <2>1, <3>1 DEF Renew, StateOK
    <3>4. Answered' /\ LeaseOffered'
      BY <1>1, <2>1, <3>1, <3>2, <3>3, LeaseTicks DEF Renew, InLease
    <3>5. Elapsed'
      <4> SUFFICES ASSUME OneServer, dhcp.lease > 0
                   PROVE  granted'.since <= half + Wait(dhcp.lease) + 0 /\ 0 < Wait(dhcp.lease)
        BY <2>2, <3>1, <3>2 DEF Elapsed
      <4>1. dhcp.lease >= 3 /\ dhcp.lease \in Nat
        BY <1>1, LongEnough
      <4> QED BY <1>1, <2>1, <2>4, <2>5, <4>1, Quarters, ClientFields
    <3> QED BY <3>4, <3>5 DEF NetworkInv
  <2>6. CASE /\ ~(dhcp.lease > 0 /\ dhcp.timer + 1 >= dhcp.lease \div 4)
             /\ dhcp' = [dhcp EXCEPT !.timer = @ + 1]
    <3>1. dhcp' \in Client /\ dhcp'.state = dhcp.state /\ dhcp'.offered = dhcp.offered
            /\ dhcp'.server = dhcp.server /\ dhcp'.lease = dhcp.lease
            /\ dhcp'.timer = dhcp.timer + 1
      BY <1>1, <2>6 DEF StateOK, Client
    <3>2. StateOK'
      BY <1>1, <1>2, <2>1, <3>1 DEF Renew, StateOK
    <3>3. Answered' /\ LeaseOffered'
      BY <1>1, <2>1, <3>1, <3>2, LeaseTicks DEF Renew, InLease
    <3>4. Elapsed'
      <4> SUFFICES ASSUME OneServer, dhcp.lease > 0
                   PROVE  /\ dhcp.timer + 1 < Wait(dhcp.lease)
                          /\ dhcp.state = "RENEWING" => granted'.since <= half + (dhcp.timer + 1)
                          /\ dhcp.state = "REBINDING" =>
                               granted'.since <= half + Wait(dhcp.lease) + (dhcp.timer + 1)
        BY <2>2, <2>3, <3>1 DEF Elapsed
      <4>1. dhcp.lease >= 3 /\ dhcp.lease \in Nat
        BY <1>1, LongEnough
      <4>2. dhcp.timer + 1 < dhcp.lease \div 4
        BY <1>1, <2>6, <4>1, ClientFields
      <4> QED BY <1>1, <2>1, <2>4, <4>1, <4>2, Quarters, ClientFields
    <3> QED BY <3>3, <3>4 DEF NetworkInv
  <2> QED BY <1>3, <2>5, <2>6 DEF Renew
<1> QED BY <1>3, <1>4 DEF Renew

-----------------------------------------------------------------------------
(* What comes in.                                                          *)
LEMMA TakeOfferKeeps ==
  ASSUME NetworkInv, NEW m \in answers, Process(m), TakeOffer(m)
  PROVE  NetworkInv'
<1>1. StateOK
  BY DEF NetworkInv, Answered
<1>2. m.age = 0 /\ m.type = "OFFER" /\ m \in [type : {"OFFER", "ACK"}, age : 0 .. MaxAge, server : Servers, ip : Addr]
  BY <1>1, AnswerFields DEF Process, Current, TakeOffer
<1>3. LeaseOf[m.server] \in Nat /\ MaskOf[m.server] \in Address /\ RouterOf[m.server] \in Address
  BY <1>2, DhcpAssumption DEF Address
<1>4. dhcp' \in Client /\ dhcp'.state = "REQUESTING" /\ dhcp'.offered = m.ip
        /\ dhcp'.server = m.server /\ dhcp'.lease = LeaseOf[m.server]
  BY <1>1, <1>2, <1>3 DEF TakeOffer, StateOK, Client, States, Address
<1>5. StateOK'
  BY <1>1, <1>4, SendTyped DEF TakeOffer, Process, StateOK
<1>6. OneOffer' /\ AckOffered'
  BY DEF NetworkInv, Answered, OneOffer, AckOffered, Process
<1>7. m = [type |-> "OFFER", age |-> 0, server |-> m.server, ip |-> m.ip]
  BY <1>2
<1>8. OfferTaken'
  BY <1>4, <1>7 DEF OfferTaken, Taken, Process
<1>9. ~InLease'
  BY <1>4 DEF InLease
<1> QED BY <1>4, <1>5, <1>6, <1>8, <1>9 DEF NetworkInv, Answered, AddressGranted, LeaseOffered, Elapsed

(* An ACK of the only server grants the address and the lease that it      *)
(* offered.                                                                *)
LEMMA AckOfServer ==
  ASSUME NetworkInv, dhcp.state = "REQUESTING" \/ InLease, OneServer,
         NEW m \in answers, m.age = 0, m.type = "ACK"
  PROVE  m.ip = dhcp.offered /\ m.server = dhcp.server
<1>1. StateOK
  BY DEF NetworkInv, Answered
<1>2. m \in [type : {"OFFER", "ACK"}, age : 0 .. MaxAge, server : Servers, ip : Addr]
  BY <1>1, AnswerFields
<1>3. OfferOf(m) \in answers /\ OfferOf(m).type = "OFFER" /\ OfferOf(m).age = 0
        /\ OfferOf(m).server = m.server /\ OfferOf(m).ip = m.ip
  BY <1>2 DEF NetworkInv, Answered, AckOffered, OfferOf
<1>4. Taken \in answers /\ Taken.type = "OFFER" /\ Taken.age = 0
        /\ Taken.server = dhcp.server /\ Taken.ip = dhcp.offered
  BY DEF NetworkInv, Answered, OfferTaken, Taken
<1>5. m.server = dhcp.server
  BY <1>4 DEF OneServer, Grantings
<1>6. OfferOf(m) = Taken
  BY <1>3, <1>4, <1>5 DEF NetworkInv, Answered, OneOffer
<1> QED BY <1>3, <1>4, <1>5, <1>6

(* A client that is bound by an ACK, with a lease that is the ACK's if one *)
(* server answers.                                                         *)
LEMMA Bound ==
  ASSUME NetworkInv, dhcp.state = "REQUESTING" \/ InLease,
         NEW m \in answers, m.age = 0, m.type = "ACK", Acknowledged(m),
         dhcp' \in Client, dhcp'.state = "BOUND", dhcp'.timer = 0,
         dhcp'.offered = dhcp.offered, dhcp'.server = dhcp.server,
         OneServer => dhcp'.lease = LeaseOf[m.server],
         answers' = answers, requests' = requests
  PROVE  NetworkInv'
<1>1. StateOK
  BY DEF NetworkInv, Answered
<1>2. m \in [type : {"OFFER", "ACK"}, age : 0 .. MaxAge, server : Servers, ip : Addr]
  BY <1>1, AnswerFields
<1>3. LeaseOf[m.server] \in Nat
  BY <1>2, DhcpAssumption
<1>4. granted' \in Grant /\ granted'.ip = m.ip /\ granted'.lease = LeaseOf[m.server]
        /\ granted'.since = 0
  BY <1>2, <1>3 DEF Acknowledged, Grant, Address
<1>5. StateOK'
  BY <1>1, <1>4 DEF StateOK
<1>6. OneOffer' /\ AckOffered'
  BY DEF NetworkInv, Answered, OneOffer, AckOffered
<1>7. OfferTaken'
  BY DEF NetworkInv, Answered, OfferTaken, Taken
<1>8. OneServer' => OneServer
  BY OneServerBefore
<1>9. OneServer => m.ip = dhcp.offered /\ m.server = dhcp.server
  BY AckOfServer
<1>10. AddressGranted' /\ LeaseOffered'
  BY <1>4, <1>8, <1>9 DEF AddressGranted, LeaseOffered
<1>11. Elapsed'
  <2> SUFFICES ASSUME OneServer, LeaseOf[m.server] > 0
               PROVE  0 < LeaseOf[m.server] \div 2
    BY <1>4, <1>8 DEF Elapsed
  <2> QED BY <1>2, <1>3, LeaseAssumption, Quarters
<1> QED BY <1>5, <1>6, <1>7, <1>10, <1>11 DEF NetworkInv, Answered

LEMMA TakeAckKeeps ==
  ASSUME NetworkInv, NEW m \in answers, Process(m), TakeAck(m)
  PROVE  NetworkInv'
<1>1. StateOK
  BY DEF NetworkInv, Answered
<1>2. dhcp' \in Client /\ dhcp'.state = "BOUND"
  BY <1>1, RestartTyped DEF TakeAck, States
<1>3. dhcp'.timer = 0 /\ dhcp'.offered = dhcp.offered /\ dhcp'.server = dhcp.server
        /\ dhcp'.lease = dhcp.lease
  BY <1>1 DEF TakeAck, Restart, StateOK, Client
<1>4. m.age = 0 /\ m.type = "ACK"
  BY DEF Process, Current, TakeAck
<1>5. OneServer => dhcp'.lease = LeaseOf[m.server]
  BY <1>3, <1>4, AckOfServer DEF TakeAck, NetworkInv, LeaseOffered
<1> QED BY <1>2, <1>3, <1>4, <1>5, Bound DEF TakeAck, Process

LEMMA TakeRenewalKeeps ==
  ASSUME NetworkInv, NEW m \in answers, Process(m), TakeRenewal(m)
  PROVE  NetworkInv'
<1>1. StateOK
  BY DEF NetworkInv, Answered
<1>2. m.age = 0 /\ m.type = "ACK"
  BY DEF Process, Current, TakeRenewal
<1>3. LeaseOf[m.server] \in Nat
  BY <1>1, <1>2, AnswerFields, DhcpAssumption
<1>4. /\ dhcp' \in Client /\ dhcp'.state = "BOUND" /\ dhcp'.timer = 0
      /\ dhcp'.offered = dhcp.offered /\ dhcp'.server = dhcp.server
      /\ dhcp'.lease = IF LeaseOf[m.server] > 0 THEN LeaseOf[m.server] ELSE dhcp.lease
  BY <1>1, <1>3 DEF TakeRenewal, StateOK, Client, States
<1>5. OneServer => dhcp'.lease = LeaseOf[m.server]
  BY <1>2, <1>3, <1>4, AckOfServer DEF TakeRenewal, NetworkInv, LeaseOffered
<1> QED BY <1>2, <1>4, <1>5, Bound DEF TakeRenewal, Process

LEMMA TakeNakKeeps ==
  ASSUME NetworkInv, NEW m \in answers, Process(m), TakeNak(m)
  PROVE  NetworkInv'
BY StoppedTyped, GivingUp DEF TakeNak, Process, NetworkInv, Answered, StateOK

(* An answer that the servers send.                                        *)
LEMMA SaysKeeps ==
  ASSUME NetworkInv, NEW m \in Answer, Says(m), OneOffer', AckOffered'
  PROVE  NetworkInv'
<1>1. StateOK'
  BY DEF NetworkInv, Answered, StateOK, Says
<1>2. OneServer' => OneServer
  BY OneServerBefore DEF Says
<1>3. OfferTaken' /\ AddressGranted' /\ LeaseOffered' /\ Elapsed'
  BY <1>2 DEF NetworkInv, Answered, OfferTaken, Taken, AddressGranted, LeaseOffered, Elapsed,
              InLease, Says
<1> QED BY <1>1, <1>3 DEF NetworkInv, Answered

LEMMA ServeKeeps ==
  ASSUME NetworkInv, Serve
  PROVE  NetworkInv'
<1>1. PICK a \in 0 .. MaxAge : Nak(a) \/ \E s \in Servers : Offer(s, a) \/ Ack(s, a)
  BY DEF Serve
<1>2. StateOK
  BY DEF NetworkInv, Answered
<1>3. CASE Nak(a)
  <2> DEFINE m == [type |-> "NAK", age |-> a]
  <2>1. m \in Answer /\ Says(m)
    BY <1>3 DEF Nak, Answer
  <2>2. OneOffer'
    BY <2>1 DEF Says, NetworkInv, Answered, OneOffer
  <2>3. AckOffered'
    BY <2>1 DEF Says, NetworkInv, Answered, AckOffered
  <2> QED BY <2>1, <2>2, <2>3, SaysKeeps
<1>4. ASSUME NEW s \in Servers, Offer(s, a) PROVE NetworkInv'
  <2>1. PICK ip \in Pool[s] : Says([type |-> "OFFER", age |-> a, server |-> s, ip |-> ip])
    BY <1>4 DEF Offer
  <2> DEFINE m == [type |-> "OFFER", age |-> a, server |-> s, ip |-> ip]
  <2>2. m \in Answer
    BY <1>4, DhcpAssumption DEF Answer
  <2>3. \A x \in answers : ~(x.type = "OFFER" /\ x.age = a /\ x.server = s)
    BY <1>4 DEF Offer, Offers
  <2>4. OneOffer'
    BY <2>1, <2>3 DEF Says, NetworkInv, Answered, OneOffer
  <2>5. AckOffered'
    BY <2>1 DEF Says, NetworkInv, Answered, AckOffered
  <2> QED BY <2>1, <2>2, <2>4, <2>5, SaysKeeps
<1>5. ASSUME NEW s \in Servers, Ack(s, a) PROVE NetworkInv'
  <2>1. PICK o \in Offers(s, a) : Says([o EXCEPT !.type = "ACK"])
    BY <1>5 DEF Ack
  <2> DEFINE m == [o EXCEPT !.type = "ACK"]
  <2>2. o \in answers /\ o \in [type : {"OFFER", "ACK"}, age : 0 .. MaxAge, server : Servers, ip : Addr]
          /\ o.type = "OFFER"
    BY <1>2, AnswerFields DEF Offers
  <2>3. m \in Answer /\ m.type = "ACK" /\ OfferOf(m) = o
    BY <2>2 DEF Answer, OfferOf
  <2>4. OneOffer'
    BY <2>1, <2>3 DEF Says, NetworkInv, Answered, OneOffer
  <2>5. AckOffered'
    BY <2>1, <2>2, <2>3 DEF Says, NetworkInv, Answered, AckOffered
  <2> QED BY <2>1, <2>3, <2>4, <2>5, SaysKeeps
<1> QED BY <1>1, <1>3, <1>4, <1>5

-----------------------------------------------------------------------------
LEMMA InvInit == NetworkInit => NetworkInv
<1> SUFFICES ASSUME NetworkInit PROVE NetworkInv
  OBVIOUS
<1>1. StateOK /\ dhcp.state = "INIT"
  BY StoppedTyped DEF NetworkInit, DhcpInit, StateOK
<1>2. answers = {}
  BY DEF NetworkInit, DhcpInit
<1> QED
  BY <1>1, <1>2 DEF NetworkInv, Answered, OneOffer, AckOffered, OfferTaken, AddressGranted,
     LeaseOffered, Elapsed, InLease

(* ipconfig changes nothing that the client looks at.                      *)
LEMMA UnseenKeeps ==
  ASSUME NetworkInv, UNCHANGED <<dhcp, requests, answers, granted>>
  PROVE  NetworkInv'
BY DEF NetworkInv, Answered, StateOK, OneOffer, AckOffered, OfferTaken, Taken, AddressGranted,
       LeaseOffered, Elapsed, InLease, OneServer, Grantings

LEMMA InvNext == NetworkInv /\ [NetworkNext]_netVars => NetworkInv'
<1> SUFFICES ASSUME NetworkInv, [NetworkNext]_netVars PROVE NetworkInv'
  OBVIOUS
<1>1. CASE Start
  BY <1>1, StartKeeps
<1>2. CASE Stop
  BY <1>2, StopKeeps
<1>3. CASE Tick
  BY <1>3, DiscoverKeeps, AwaitKeeps, HoldKeeps, RenewKeeps DEF Tick
<1>4. ASSUME NEW m \in answers, Process(m) PROVE NetworkInv'
  BY <1>4, TakeOfferKeeps, TakeAckKeeps, TakeRenewalKeeps, TakeNakKeeps DEF Process
<1>5. CASE Serve
  BY <1>5, ServeKeeps
<1>6. CASE Ipconfig
  BY <1>6, UnseenKeeps DEF Ipconfig
<1>7. CASE UNCHANGED netVars
  BY <1>7, UnseenKeeps DEF netVars, dhcpVars
<1> QED
  BY <1>1, <1>2, <1>3, <1>4, <1>5, <1>6, <1>7 DEF NetworkNext, ClientSteps, DhcpNext

LEMMA InvHolds == NetworkSpec => []NetworkInv
<1>1. NetworkInit => NetworkInv
  BY InvInit
<1>2. NetworkInv /\ [NetworkNext]_netVars => NetworkInv'
  BY InvNext
<1> QED BY <1>1, <1>2, PTL DEF NetworkSpec

(* Half of the lease and two quarters are not more than the lease.         *)
LEMMA WithinLease == NetworkInv => LeaseNotOutlived
<1> SUFFICES ASSUME NetworkInv, InLease, OneServer, granted.lease > 0
             PROVE  granted.since <= granted.lease
  BY DEF LeaseNotOutlived
<1>1. StateOK /\ dhcp.lease = granted.lease
  BY DEF NetworkInv, Answered, LeaseOffered
<1>2. dhcp.lease \in Nat /\ dhcp.lease >= 3
  BY <1>1, LongEnough
<1>3. CASE dhcp.state = "BOUND"
  BY <1>1, <1>2, <1>3, Quarters, ClientFields DEF NetworkInv, Elapsed
<1>4. CASE dhcp.state = "RENEWING"
  BY <1>1, <1>2, <1>4, Quarters, ClientFields DEF NetworkInv, Elapsed
<1>5. CASE dhcp.state = "REBINDING"
  BY <1>1, <1>2, <1>5, Quarters, ClientFields DEF NetworkInv, Elapsed
<1> QED BY <1>3, <1>4, <1>5 DEF InLease

(* For any number of servers, ids and addresses: in an attempt that one    *)
(* server answers, the client holds the address that it was granted,       *)
(* however late or often the answers to other attempts come.               *)
THEOREM NetworkAddressGranted == NetworkSpec => []AddressGranted
BY InvHolds, PTL DEF NetworkInv, Answered

(* For every lease of three seconds or more, the client's timers give it   *)
(* up before it ends, whether requests to extend it are lost or not.       *)
THEOREM NetworkLeaseNotOutlived == NetworkSpec => []LeaseNotOutlived
BY InvHolds, WithinLease, PTL

-----------------------------------------------------------------------------
(* Induction up to m, on a set of numbers: the initial segments that end   *)
(* outside of it are well founded by inclusion.                            *)
LEMMA UpTo ==
  ASSUME NEW m \in Nat, NEW S, 0 \in S, \A k \in 0 .. m - 1 : k \in S => k + 1 \in S
  PROVE  m \in S
<1> DEFINE R == StrictSubsetOrdering(0 .. m)
           T == {0 .. x : x \in (0 .. m) \ S}
<1> SUFFICES ASSUME m \notin S PROVE FALSE
  OBVIOUS
<1>1. IsWellFoundedOn(R, FiniteSubsetsOf(0 .. m))
  BY FS_StrictSubsetOrderingWellFounded
<1>2. T \subseteq FiniteSubsetsOf(0 .. m) /\ T # {}
  <2>1. \A x \in 0 .. m : IsFiniteSet(0 .. x) /\ 0 .. x \subseteq 0 .. m
    BY FS_Interval
  <2> QED BY <2>1 DEF FiniteSubsetsOf
<1>3. PICK t \in T : \A u \in T : ~(<<u, t>> \in R)
  <2> HIDE DEF R, T
  <2> QED BY <1>1, <1>2, WFMin
<1>4. PICK x \in (0 .. m) \ S : t = 0 .. x
  OBVIOUS
<1>5. x # 0 /\ x - 1 \in 0 .. m - 1 /\ x - 1 \in 0 .. m /\ x - 1 + 1 = x
  BY <1>4
<1>6. x - 1 \notin S
  BY <1>4, <1>5
<1>7. 0 .. (x - 1) \in T
  BY <1>5, <1>6
<1>8. 0 .. (x - 1) \subseteq 0 .. x /\ 0 .. (x - 1) # 0 .. x
  BY <1>5
<1>9. <<0 .. (x - 1), 0 .. x>> \in R
  BY <1>4, <1>5, <1>8 DEF StrictSubsetOrdering
<1> QED BY <1>3, <1>4, <1>7, <1>9

(* The greatest element of a set of numbers up to n.                       *)
LEMMA WithoutTop ==
  ASSUME NEW k \in Nat, NEW t \in SUBSET (1 .. k + 1), k + 1 \notin t
  PROVE  t \in SUBSET (1 .. k)
<1> SUFFICES ASSUME NEW x \in t PROVE x \in 1 .. k
  OBVIOUS
<1>1. x \in 1 .. k + 1 /\ x # k + 1
  OBVIOUS
<1> QED BY <1>1

LEMMA MaxUpTo ==
  ASSUME NEW n \in Nat, NEW t \in SUBSET (1 .. n), t # {}
  PROVE  Max(t) \in t
<1> DEFINE S == {k \in 0 .. n : (\A y \in t : ~(y <= k)) \/ \E x \in t : x <= k /\ \A y \in t : y <= k => x >= y}
<1>1. 0 \in S
  OBVIOUS
<1>2. ASSUME NEW k \in 0 .. n - 1, k \in S PROVE k + 1 \in S
  <2>1. CASE k + 1 \in t
    BY <2>1
  <2>2. CASE k + 1 \notin t
    <3>1. \A y \in t : y <= k + 1 <=> y <= k
      BY <2>2
    <3> QED BY <1>2, <3>1
  <2> QED BY <2>1, <2>2
<1>3. n \in S
  <2> HIDE DEF S
  <2> QED BY <1>1, <1>2, UpTo
<1>4. \A y \in t : y \in 1 .. n /\ y <= n
  OBVIOUS
<1>5. \E x \in t : \A y \in t : x >= y
  BY <1>3, <1>4
<1> QED BY <1>5, Zenon DEF Max

-----------------------------------------------------------------------------
(* What FoldLeft goes through: the configuration after the options at each *)
(* set of places, taken in their order.                                    *)
IsFold(g, config, line, S) ==
  g = [t \in SUBSET S |->
         IF t = {} THEN config ELSE After(g[t \ {Max(t)}], line[Max(t)])]

LEMMA FoldIs ==
  ASSUME NEW config, NEW line
  PROVE  FoldLeft(After, config, line) = (CHOOSE g : IsFold(g, config, line, DOMAIN line))[DOMAIN line]
BY DEF FoldLeft, MapThenFoldSet, IsFold

(* There is such a function: the one for the first k options is extended   *)
(* to those sets that contain the next.                                    *)
LEMMA FoldExists ==
  ASSUME NEW config, NEW line, NEW n \in Nat
  PROVE  \E g : IsFold(g, config, line, 1 .. n)
<1> DEFINE Folded == {k \in 0 .. n : \E g : IsFold(g, config, line, 1 .. k)}
<1>1. 0 \in Folded
  <2> DEFINE g == [t \in SUBSET {} |-> config]
  <2>1. IsFold(g, config, line, {})
    BY DEF IsFold
  <2>2. 1 .. 0 = {}
    OBVIOUS
  <2> QED BY <2>1, <2>2
<1>2. ASSUME NEW k \in 0 .. n - 1, k \in Folded PROVE k + 1 \in Folded
  <2>1. PICK g : IsFold(g, config, line, 1 .. k)
    BY <1>2
  <2> DEFINE f == [t \in SUBSET (1 .. k + 1) |->
                     IF k + 1 \in t THEN After(g[t \ {k + 1}], line[k + 1]) ELSE g[t]]
  <2>2. ASSUME NEW t \in SUBSET (1 .. k + 1), k + 1 \in t
        PROVE  f[t] = After(f[t \ {Max(t)}], line[Max(t)])
    <3>1. \A x \in t : k + 1 >= x
      BY <2>2
    <3>2. Max(t) \in t /\ Max(t) >= k + 1
      <4>1. \E x \in t : \A y \in t : x >= y
        BY <2>2, <3>1
      <4>2. Max(t) \in t /\ \A y \in t : Max(t) >= y
        BY <4>1, Zenon DEF Max
      <4> QED BY <2>2, <4>2
    <3>3. Max(t) = k + 1
      <4>1. Max(t) \in 1 .. k + 1
        BY <3>2
      <4> QED BY <3>2, <4>1
    <3>4. t \ {k + 1} \in SUBSET (1 .. k + 1) /\ k + 1 \notin t \ {k + 1}
      OBVIOUS
    <3> QED BY <2>2, <3>3, <3>4
  <2>3. ASSUME NEW t \in SUBSET (1 .. k + 1), k + 1 \notin t, t # {}
        PROVE  f[t] = After(f[t \ {Max(t)}], line[Max(t)])
    <3>1. t \in SUBSET (1 .. k) /\ t \ {Max(t)} \in SUBSET (1 .. k)
      <4>1. t \in SUBSET (1 .. k)
        BY <1>2, <2>3, WithoutTop
      <4> QED BY <4>1
    <3>2. f[t] = g[t] /\ f[t \ {Max(t)}] = g[t \ {Max(t)}]
      BY <2>3, <3>1
    <3>3. g[t] = After(g[t \ {Max(t)}], line[Max(t)])
      <4> DEFINE G(u) == IF u = {} THEN config ELSE After(g[u \ {Max(u)}], line[Max(u)])
      <4>1. g = [u \in SUBSET (1 .. k) |-> G(u)]
        BY <2>1 DEF IsFold
      <4>2. g[t] = G(t)
        <5> HIDE DEF G
        <5> QED BY <3>1, <4>1
      <4> QED BY <2>3, <4>2
    <3> QED BY <3>2, <3>3
  <2>4. f[{}] = config
    <3>1. {} \in SUBSET (1 .. k + 1) /\ {} \in SUBSET (1 .. k)
      OBVIOUS
    <3> DEFINE G(u) == IF u = {} THEN config ELSE After(g[u \ {Max(u)}], line[Max(u)])
    <3>2. g = [u \in SUBSET (1 .. k) |-> G(u)]
      BY <2>1 DEF IsFold
    <3>3. g[{}] = G({})
      <4> HIDE DEF G
      <4> QED BY <3>1, <3>2
    <3> QED BY <3>1, <3>3
  <2>5. f = [t \in SUBSET (1 .. k + 1) |->
               IF t = {} THEN config ELSE After(f[t \ {Max(t)}], line[Max(t)])]
    <3> DEFINE h == [t \in SUBSET (1 .. k + 1) |->
               IF t = {} THEN config ELSE After(f[t \ {Max(t)}], line[Max(t)])]
    <3>1. \A t \in SUBSET (1 .. k + 1) : f[t] = h[t]
      <4> TAKE t \in SUBSET (1 .. k + 1)
      <4>1. h[t] = IF t = {} THEN config ELSE After(f[t \ {Max(t)}], line[Max(t)])
        <5> HIDE DEF f
        <5> QED OBVIOUS
      <4> HIDE DEF f, h
      <4> QED BY <2>2, <2>3, <2>4, <4>1
    <3>2. f = [t \in SUBSET (1 .. k + 1) |-> f[t]] /\ h = [t \in SUBSET (1 .. k + 1) |-> h[t]]
      OBVIOUS
    <3> HIDE DEF f, h
    <3>3. f = h
      BY <3>1, <3>2
    <3> QED BY <3>3 DEF h
  <2>6. IsFold(f, config, line, 1 .. k + 1)
    <3> HIDE DEF f
    <3> QED BY <2>5 DEF IsFold
  <2> QED BY <2>6
<1>3. n \in Folded
  <2> HIDE DEF Folded
  <2> QED BY <1>1, <1>2, UpTo
<1> QED BY <1>3

(* One option, and no option.                                              *)
LEMMA AfterTyped ==
  ASSUME NEW config \in Config, NEW o \in Option
  PROVE  After(config, o) \in Config
<1>1. CASE o.opt \in {"ip", "gateway", "netmask"}
  <2>1. o \in [opt : {"ip", "gateway", "netmask"}, value : Address]
    BY <1>1 DEF Option
  <2> QED BY <1>1, <2>1 DEF After, Config
<1>2. CASE o.opt \notin {"ip", "gateway", "netmask"}
  BY <1>2, NetworkAssumption DEF After
<1> QED BY <1>1, <1>2

(* Whatever the options, the configuration stays one.                      *)
LEMMA FoldTyped ==
  ASSUME NEW config \in Config, NEW line \in Seq(Option)
  PROVE  FoldLeft(After, config, line) \in Config
<1> DEFINE n == Len(line)
           Typed == {k \in 0 .. n : \A g : IsFold(g, config, line, 1 .. n) =>
                       \A t \in SUBSET (1 .. k) : g[t] \in Config}
<1>1. n \in Nat /\ DOMAIN line = 1 .. n /\ \A i \in 1 .. n : line[i] \in Option
  OBVIOUS
<1> HIDE DEF n
<1>2. ASSUME NEW g, IsFold(g, config, line, 1 .. n), NEW t \in SUBSET (1 .. n)
      PROVE  g[t] = IF t = {} THEN config ELSE After(g[t \ {Max(t)}], line[Max(t)])
  <2> DEFINE G(u) == IF u = {} THEN config ELSE After(g[u \ {Max(u)}], line[Max(u)])
  <2>1. g = [u \in SUBSET (1 .. n) |-> G(u)]
    BY <1>2 DEF IsFold
  <2>2. g[t] = G(t)
    <3> HIDE DEF G
    <3> QED BY <2>1
  <2> QED BY <2>2
<1>3. 0 \in Typed
  <2> SUFFICES ASSUME NEW g, IsFold(g, config, line, 1 .. n), NEW t \in SUBSET (1 .. 0)
               PROVE  g[t] \in Config
    BY <1>1
  <2>1. t = {} /\ t \in SUBSET (1 .. n)
    OBVIOUS
  <2> QED BY <1>2, <2>1
<1>4. ASSUME NEW k \in 0 .. n - 1, k \in Typed PROVE k + 1 \in Typed
  <2> SUFFICES ASSUME NEW g, IsFold(g, config, line, 1 .. n), NEW t \in SUBSET (1 .. k + 1), t # {}
               PROVE  g[t] \in Config
    <3>1. ASSUME NEW g, IsFold(g, config, line, 1 .. n) PROVE g[{}] \in Config
      BY <1>2, <3>1
    <3>2. k + 1 \in 0 .. n
      BY <1>1
    <3>3. ASSUME NEW g, IsFold(g, config, line, 1 .. n), NEW t \in SUBSET (1 .. k + 1)
          PROVE  g[t] \in Config
      BY <3>1, <3>3
    <3> QED BY <3>2, <3>3
  <2>1. t \in SUBSET (1 .. n) /\ Max(t) \in t
    <3>1. t \in SUBSET (1 .. n)
      BY <1>1
    <3> QED BY <1>1, <3>1, MaxUpTo
  <2>2. ASSUME NEW y \in t PROVE y <= k + 1 /\ y \in Nat
    BY <1>1, <1>4
  <2>3. t \ {Max(t)} \in SUBSET (1 .. k)
    <3>1. CASE k + 1 \in t
      <4>1. \E x \in t : \A y \in t : x >= y
        BY <3>1, <2>2
      <4>2. \A y \in t : Max(t) >= y
        BY <4>1, Zenon DEF Max
      <4>3. Max(t) = k + 1
        <5>1. Max(t) \in Nat /\ Max(t) <= k + 1
          BY <2>1, <2>2
        <5>2. Max(t) >= k + 1
          BY <3>1, <4>2
        <5>3. k \in Nat
          BY <1>1
        <5> QED BY <5>1, <5>2, <5>3
      <4> QED BY <1>1, <4>3, WithoutTop
    <3>2. CASE k + 1 \notin t
      <4>1. t \in SUBSET (1 .. k)
        BY <1>1, <3>2, WithoutTop
      <4> QED BY <4>1
    <3> QED BY <3>1, <3>2
  <2>4. g[t \ {Max(t)}] \in Config
    BY <1>4, <2>3
  <2> QED BY <1>1, <1>2, <2>1, <2>4, AfterTyped
<1>5. n \in Typed
  <2> HIDE DEF Typed
  <2> QED BY <1>1, <1>3, <1>4, UpTo
<1>6. (CHOOSE g : IsFold(g, config, line, 1 .. n))[1 .. n] \in Config
  <2>1. PICK f : f = CHOOSE g : IsFold(g, config, line, 1 .. n)
    OBVIOUS
  <2>2. IsFold(f, config, line, 1 .. n)
    BY <1>1, <2>1, FoldExists
  <2> QED BY <1>5, <2>1, <2>2
<1> QED BY <1>1, <1>6, FoldIs

LEMMA FoldNone ==
  ASSUME NEW config, NEW line, DOMAIN line = {}
  PROVE  FoldLeft(After, config, line) = config
<1> DEFINE f == [t \in SUBSET {} |-> config]
<1>1. IsFold(f, config, line, {})
  BY DEF IsFold
<1>2. \A g : IsFold(g, config, line, {}) => g[{}] = config
  BY DEF IsFold
<1>3. PICK h : h = CHOOSE g : IsFold(g, config, line, {})
  OBVIOUS
<1>4. IsFold(h, config, line, {})
  BY <1>1, <1>3
<1> QED BY <1>2, <1>3, <1>4, FoldIs

-----------------------------------------------------------------------------
(* The addresses of the stack and those that ipconfig keeps, and who set   *)
(* the stack's last.                                                       *)
ConfigInv ==
  /\ net \in Config /\ current_config \in Config
  /\ setBy \in {"kernel", "ipconfig", "dhcp"} /\ cutShort \in BOOLEAN
  /\ ConfigShown

(* The client sets addresses, or leaves them as they are.                  *)
LEMMA ClientSets ==
  ASSUME NetworkInv, net \in Config, DhcpNext
  PROVE  net' \in Config
<1>1. StateOK
  BY DEF NetworkInv, Answered
<1>2. CASE Start
  BY <1>2 DEF Start, NoConfig, Config, Address
<1>3. ASSUME NEW m \in answers, Process(m), TakeAck(m)
      PROVE  net' \in Config
  <2>1. dhcp.offered \in Address /\ dhcp.mask \in Address /\ dhcp.router \in Address
    BY <1>1 DEF StateOK, Client
  <2>2. net.netmask \in Address /\ net.gateway \in Address
    BY DEF Config
  <2> QED BY <1>3, <2>1, <2>2 DEF TakeAck, Config
<1>4. CASE net' = net
  BY <1>4
<1>5. Stop \/ Tick \/ Serve => net' = net
  BY DEF Stop, Tick, Discover, Await, Hold, Renew, Serve, Offer, Ack, Nak, Says
<1>6. ASSUME NEW m \in answers, Process(m), ~TakeAck(m)
      PROVE  net' = net
  BY <1>6 DEF Process, TakeOffer, TakeRenewal, TakeNak
<1> QED BY <1>2, <1>3, <1>4, <1>5, <1>6 DEF DhcpNext

LEMMA IpconfigSets ==
  ASSUME ConfigInv, Ipconfig
  PROVE  ConfigInv'
<1>1. PICK line \in CommandLines : Applied(line) \/ Abandoned(line)
  BY DEF Ipconfig
<1>2. line \in Seq(Option)
  BY NetworkAssumption
<1>3. CASE Applied(line)
  <2>1. current_config' \in Config
    BY <1>2, <1>3, FoldTyped DEF Applied, ConfigInv
  <2> QED BY <1>3, <2>1 DEF Applied, ConfigInv, ConfigShown
<1>4. CASE Abandoned(line)
  <2>1. PICK i \in DOMAIN line :
             /\ current_config' = FoldLeft(After, current_config, SubSeq(line, 1, i - 1))
             /\ cutShort' = (cutShort \/ i > 1)
             /\ net' = net /\ setBy' = setBy
    BY <1>4 DEF Abandoned
  <2>2. i \in 1 .. Len(line) /\ Len(line) \in Nat
    BY <1>2
  <2>3. SubSeq(line, 1, i - 1) \in Seq(Option) /\ Len(SubSeq(line, 1, i - 1)) = i - 1
    BY <1>2, <2>2, SubSeqProperties
  <2>4. current_config' \in Config
    BY <2>1, <2>3, FoldTyped DEF ConfigInv
  <2>5. CASE i = 1
    <3>1. DOMAIN SubSeq(line, 1, i - 1) = {}
      BY <2>3, <2>5
    <3>2. current_config' = current_config
      BY <2>1, <3>1, FoldNone
    <3>3. cutShort' = cutShort
      BY <2>1, <2>5 DEF ConfigInv
    <3> QED BY <2>1, <3>2, <3>3 DEF ConfigInv, ConfigShown
  <2>6. CASE i # 1
    <3>1. i > 1
      BY <2>2, <2>6
    <3>2. cutShort' = TRUE
      BY <2>1, <3>1
    <3> QED BY <2>1, <2>4, <3>2 DEF ConfigInv, ConfigShown
  <2> QED BY <2>5, <2>6
<1> QED BY <1>1, <1>3, <1>4

LEMMA ConfigHolds == NetworkSpec => []ConfigInv
<1>1. NetworkInit => ConfigInv
  BY NetworkAssumption DEF NetworkInit, ConfigInv, ConfigShown
<1>2. NetworkInv /\ ConfigInv /\ [NetworkNext]_netVars => ConfigInv'
  <2> SUFFICES ASSUME NetworkInv, ConfigInv, [NetworkNext]_netVars PROVE ConfigInv'
    OBVIOUS
  <2>1. CASE Ipconfig
    BY <2>1, IpconfigSets
  <2>2. CASE ClientSteps
    <3>1. net' \in Config
      BY <2>2, ClientSets DEF ConfigInv, ClientSteps
    <3> QED BY <2>2, <3>1 DEF ClientSteps, ConfigInv, ConfigShown
  <2>3. CASE UNCHANGED netVars
    BY <2>3 DEF netVars, dhcpVars, ConfigInv, ConfigShown
  <2> QED BY <2>1, <2>2, <2>3 DEF NetworkNext
<1> QED BY <1>1, <1>2, InvHolds, PTL DEF NetworkSpec

(* Whatever arrives and whatever options users give, the client, the stack *)
(* and ipconfig keep states, timers and addresses of their types.          *)
THEOREM NetworkTypeCorrect == NetworkSpec => []NetworkTypeOK
<1>1. NetworkInv /\ ConfigInv => NetworkTypeOK
  BY DEF NetworkInv, Answered, StateOK, ConfigInv, NetworkTypeOK, DhcpTypeOK
<1> QED BY <1>1, InvHolds, ConfigHolds, PTL

(* Whatever the command lines, what ipconfig shows is what the stack uses, *)
(* unless DHCP has set other addresses or an ipconfig was cut short: one   *)
(* that its first option ends has changed nothing, and the next that is    *)
(* applied sets both.                                                      *)
THEOREM NetworkConfigShown == NetworkSpec => []ConfigShown
<1>1. ConfigInv => ConfigShown
  BY DEF ConfigInv
<1> QED BY <1>1, ConfigHolds, PTL
=============================================================================
