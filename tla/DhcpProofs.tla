----------------------------- MODULE DhcpProofs -----------------------------
(***************************************************************************)
(* The interface is up only with the address of a lease, for all addresses, *)
(* times and numbers of tries, with and without memory, and whatever is     *)
(* lost, late or repeated on the network.  Each function of the client maps *)
(* a client to a client, so each has a lemma: what it does to the state, to *)
(* the offer and to the interface.  With memory for messages, and a lease   *)
(* that outlasts its rebinding time by a tick, no lease is used after       *)
(* its end: a second lemma for each says what it does to the counters and   *)
(* to what the server may still promise.                                    *)
(***************************************************************************)
EXTENDS Dhcp, TLAPS

\* The application does not start or stop the client while the interface is up.
WellUsed == "restart" \notin Mishaps /\ "stopBound" \notin Mishaps

Leased == {"bound", "renewing", "rebinding"}
WithOffer == Leased \cup {"requesting", "checking", "rebooting"}

\* The fields that cl has.
IsClient(cl) ==
  /\ DOMAIN cl = {"dhcp", "netif", "asked"}
  /\ DOMAIN cl.dhcp = {"state", "tries", "timer", "t1", "t2", "offered", "renew", "rebind"}
  /\ DOMAIN cl.netif = {"ip", "up"}
  /\ cl.netif.up \in BOOLEAN

\* In every state that can lead to dhcp_bind without another message, there is
\* an offer; the interface is up only in the states of a lease.
Good(cl) ==
  /\ IsClient(cl)
  /\ cl.dhcp.state \in WithOffer => cl.dhcp.offered \in Addresses
  /\ cl.netif.up => cl.dhcp.state \in Leased /\ cl.netif.ip = cl.dhcp.offered

IInv == Good(Client)

-----------------------------------------------------------------------------
(* The functions of the client. *)

\* dhcp_set_state changes neither the offer nor the interface.
LEMMA SetStateFacts ==
  ASSUME NEW cl, IsClient(cl), NEW s
  PROVE  /\ IsClient(SetState(cl, s))
         /\ SetState(cl, s).dhcp.state = s
         /\ SetState(cl, s).dhcp.offered = cl.dhcp.offered
         /\ SetState(cl, s).netif = cl.netif
  BY DEF IsClient, SetState

\* A message, or the failure to create it, changes neither of them either.
LEMMA RequestFacts ==
  ASSUME NEW cl, IsClient(cl), NEW kind, NEW ip, NEW mem
  PROVE  /\ IsClient(Request(cl, kind, ip, mem))
         /\ Request(cl, kind, ip, mem).dhcp.state = cl.dhcp.state
         /\ Request(cl, kind, ip, mem).dhcp.offered = cl.dhcp.offered
         /\ Request(cl, kind, ip, mem).netif = cl.netif
  BY DEF IsClient, Request

\* dhcp_discover forgets the offer.
LEMMA DiscoverFacts ==
  ASSUME NEW cl, IsClient(cl), NEW mem
  PROVE  /\ IsClient(Discover(cl, mem))
         /\ Discover(cl, mem).dhcp.state = "selecting"
         /\ Discover(cl, mem).netif = cl.netif
<1> DEFINE c == [cl EXCEPT !.dhcp.offered = NoAddress]
<1>1. IsClient(c) /\ c.netif = cl.netif
  BY DEF IsClient
<1> HIDE DEF c
<1>2. /\ IsClient(SetState(c, "selecting"))
      /\ SetState(c, "selecting").dhcp.state = "selecting"
      /\ SetState(c, "selecting").netif = c.netif
  BY <1>1, SetStateFacts
<1>3. Discover(cl, mem) = Request(SetState(c, "selecting"), "discover", NoAddress, mem)
  BY DEF Discover, c
<1> QED BY <1>1, <1>2, <1>3, RequestFacts

\* A message sent in a new state keeps the offer and the interface.
LEMMA AskFacts ==
  ASSUME NEW cl, IsClient(cl), NEW s, NEW kind, NEW ip, NEW mem
  PROVE  LET c == Request(SetState(cl, s), kind, ip, mem)
         IN  /\ IsClient(c)
             /\ c.dhcp.state = s
             /\ c.dhcp.offered = cl.dhcp.offered
             /\ c.netif = cl.netif
<1>1. /\ IsClient(SetState(cl, s))
      /\ SetState(cl, s).dhcp.state = s
      /\ SetState(cl, s).dhcp.offered = cl.dhcp.offered
      /\ SetState(cl, s).netif = cl.netif
  BY SetStateFacts
<1> QED BY <1>1, RequestFacts

\* dhcp_release takes the address from the interface.
LEMMA ReleaseFacts ==
  ASSUME NEW cl, IsClient(cl), NEW mem
  PROVE  /\ IsClient(Release(cl, mem))
         /\ Release(cl, mem).dhcp.state = "off"
         /\ ~Release(cl, mem).netif.up
<1> DEFINE c == SetState(cl, "off")
           d == [c EXCEPT !.dhcp.offered = NoAddress, !.dhcp.renew = 0, !.dhcp.rebind = 0]
<1>1. IsClient(c) /\ c.dhcp.state = "off"
  BY SetStateFacts
<1> HIDE DEF c
<1>2. IsClient(d) /\ d.dhcp.state = "off"
  BY <1>1 DEF IsClient
<1> HIDE DEF d
<1> DEFINE e == Request(d, "release", NoAddress, mem)
<1>3. IsClient(e) /\ e.dhcp.state = "off"
  BY <1>2, RequestFacts
<1> HIDE DEF e
<1>4. Release(cl, mem) = Down(e)
  BY DEF Release, c, d, e
<1>5. IsClient(Down(e)) /\ Down(e).dhcp = e.dhcp /\ ~Down(e).netif.up
  BY <1>3 DEF Down, IsClient
<1> QED BY <1>3, <1>4, <1>5

-----------------------------------------------------------------------------
(* Which of them lead from a good client to a good one. *)

\* A client that is not up may start again: dhcp_discover.
LEMMA DiscoverGood ==
  ASSUME NEW cl, IsClient(cl), ~cl.netif.up, NEW mem
  PROVE  Good(Discover(cl, mem))
  BY DiscoverFacts DEF Good, Leased, WithOffer

\* dhcp_release and dhcp_discover, when all tries are used up.
LEMMA ReleasedGood ==
  ASSUME NEW cl, IsClient(cl), NEW mem
  PROVE  Good(Release(cl, mem)) /\ Good(Discover(Release(cl, mem), mem))
  BY ReleaseFacts, DiscoverGood DEF Good, Leased, WithOffer

\* dhcp_select, dhcp_reboot and dhcp_decline, of a client that is not up.
LEMMA DownGood ==
  ASSUME NEW cl, Good(cl), ~cl.netif.up, NEW mem
  PROVE  /\ cl.dhcp.offered \in Addresses => Good(Select(cl, mem))
         /\ cl.dhcp.offered \in Addresses => Good(Reboot(cl, mem))
         /\ Good(Decline(cl, mem))
<1> IsClient(cl)
  BY DEF Good
<1>1. cl.dhcp.offered \in Addresses => Good(Select(cl, mem))
  BY AskFacts DEF Select, Good
<1>2. cl.dhcp.offered \in Addresses => Good(Reboot(cl, mem))
  BY AskFacts DEF Reboot, Good
<1>3. Good(Decline(cl, mem))
  BY AskFacts DEF Decline, Good, Leased, WithOffer
<1> QED BY <1>1, <1>2, <1>3

\* dhcp_renew and dhcp_rebind, with an offer.
LEMMA RenewGood ==
  ASSUME NEW cl, Good(cl), cl.dhcp.state \in WithOffer, NEW mem
  PROVE  Good(Renew(cl, mem)) /\ Good(Rebind(cl, mem))
<1> IsClient(cl)
  BY DEF Good
<1>1. Good(Renew(cl, mem))
  BY AskFacts DEF Renew, Good, Leased
<1>2. Good(Rebind(cl, mem))
  BY AskFacts DEF Rebind, Good, Leased
<1> QED BY <1>1, <1>2

\* dhcp_handle_nak
LEMMA NakGood ==
  ASSUME NEW cl, IsClient(cl), NEW mem
  PROVE  Good(HandleNak(cl, mem))
<1> DEFINE c == SetState(Down(cl), "backing_off")
<1>1. IsClient(Down(cl)) /\ ~Down(cl).netif.up
  BY DEF Down, IsClient
<1>2. IsClient(c) /\ ~c.netif.up
  BY <1>1, SetStateFacts
<1> QED BY <1>2, DiscoverGood DEF HandleNak

\* dhcp_check, of an offer
LEMMA CheckGood ==
  ASSUME NEW cl, Good(cl), ~cl.netif.up, cl.dhcp.offered \in Addresses
  PROVE  Good(Check(cl))
<1> DEFINE c == SetState(cl, "checking")
<1> IsClient(cl)
  BY DEF Good
<1>1. /\ IsClient(c) /\ c.dhcp.offered = cl.dhcp.offered
      /\ c.netif = cl.netif
  BY SetStateFacts
<1>2. Check(cl) = [c EXCEPT !.dhcp.tries = @ + 1, !.dhcp.timer = 2]
  BY DEF Check
<1> HIDE DEF c
<1> QED BY <1>1, <1>2 DEF Good, IsClient

\* dhcp_bind
LEMMA BindGood ==
  ASSUME NEW cl, Good(cl), cl.dhcp.state \in WithOffer
  PROVE  Good(Bind(cl))
<1> DEFINE t1 == CoarseTicks(cl.dhcp.renew)
           t2 == CoarseTicks(cl.dhcp.rebind)
           c == [cl EXCEPT !.dhcp.t1 = IF t1 >= t2 THEN 0 ELSE t1, !.dhcp.t2 = t2,
                           !.netif = [ip |-> cl.dhcp.offered, up |-> TRUE]]
<1>1. Bind(cl) = SetState(c, "bound")
  BY DEF Bind
<1> HIDE DEF t1, t2
<1>2. /\ IsClient(c) /\ c.dhcp.offered = cl.dhcp.offered
      /\ c.netif.up /\ c.netif.ip = cl.dhcp.offered
  BY DEF Good, IsClient
<1> HIDE DEF c
<1>3. /\ IsClient(SetState(c, "bound"))
      /\ SetState(c, "bound").dhcp.state = "bound"
      /\ SetState(c, "bound").dhcp.offered = c.dhcp.offered
      /\ SetState(c, "bound").netif = c.netif
  BY <1>2, SetStateFacts
<1> QED BY <1>1, <1>2, <1>3 DEF Good, Leased

\* dhcp_timeout, in every state
LEMMA TimeoutGood ==
  ASSUME NEW cl, Good(cl), NEW mem
  PROVE  Good(Timeout(cl, mem))
<1> IsClient(cl)
  BY DEF Good
<1>1. CASE cl.dhcp.state \in {"backing_off", "selecting"}
  <2>1. ~cl.netif.up
    BY <1>1 DEF Good, Leased
  <2>2. Timeout(cl, mem) = Discover(cl, mem)
    BY <1>1 DEF Timeout
  <2> QED BY <2>1, <2>2, DiscoverGood
<1>2. CASE cl.dhcp.state = "requesting"
  <2>1. ~cl.netif.up /\ cl.dhcp.offered \in Addresses
    BY <1>2 DEF Good, Leased, WithOffer
  <2>2. \/ Timeout(cl, mem) = Select(cl, mem)
        \/ Timeout(cl, mem) = Discover(Release(cl, mem), mem)
    BY <1>2 DEF Timeout
  <2> QED BY <2>1, <2>2, DownGood, ReleasedGood
<1>3. CASE cl.dhcp.state = "checking"
  <2>1. ~cl.netif.up /\ cl.dhcp.offered \in Addresses /\ cl.dhcp.state \in WithOffer
    BY <1>3 DEF Good, Leased, WithOffer
  <2>2. Timeout(cl, mem) = Check(cl) \/ Timeout(cl, mem) = Bind(cl)
    BY <1>3 DEF Timeout
  <2> QED BY <2>1, <2>2, CheckGood, BindGood
<1>4. CASE cl.dhcp.state = "renewing"
  <2>1. cl.dhcp.state \in WithOffer
    BY <1>4 DEF Leased, WithOffer
  <2>2. Timeout(cl, mem) = Renew(cl, mem)
    BY <1>4 DEF Timeout
  <2> QED BY <2>1, <2>2, RenewGood
<1>5. CASE cl.dhcp.state = "rebinding"
  <2>1. cl.dhcp.state \in WithOffer
    BY <1>5 DEF Leased, WithOffer
  <2>2. \/ Timeout(cl, mem) = Rebind(cl, mem)
        \/ Timeout(cl, mem) = Discover(Release(cl, mem), mem)
    BY <1>5 DEF Timeout
  <2> QED BY <2>1, <2>2, RenewGood, ReleasedGood
<1>6. CASE cl.dhcp.state = "rebooting"
  <2>1. ~cl.netif.up /\ cl.dhcp.offered \in Addresses
    BY <1>6 DEF Good, Leased, WithOffer
  <2>2. Timeout(cl, mem) = Reboot(cl, mem) \/ Timeout(cl, mem) = Discover(cl, mem)
    BY <1>6 DEF Timeout
  <2> QED BY <2>1, <2>2, DownGood, DiscoverGood
<1>7. CASE cl.dhcp.state \notin {"backing_off", "selecting", "requesting", "checking",
                                 "renewing", "rebinding", "rebooting"}
  BY <1>7 DEF Timeout
<1> QED BY <1>1, <1>2, <1>3, <1>4, <1>5, <1>6, <1>7

-----------------------------------------------------------------------------
(* The invariant. *)

\* What a function makes of the client is the next client.
LEMMA Becoming ==
  ASSUME NEW cl, Good(cl), Becomes(cl)
  PROVE  IInv'
<1> DEFINE after == [dhcp |-> dhcp', netif |-> netif', asked |-> asked']
<1>1. after.dhcp = cl.dhcp /\ after.netif = cl.netif
  BY DEF Becomes
<1>2. IsClient(after)
  BY <1>1 DEF Good, IsClient
<1>3. Good(after)
  BY <1>1, <1>2 DEF Good
<1> QED BY <1>3 DEF IInv, Client, Good, IsClient

LEMMA InvInit == DhcpInit => IInv
<1> SUFFICES ASSUME DhcpInit
             PROVE  Good(Client)
  BY DEF IInv
<1>1. IsClient(Client)
  BY DEF DhcpInit, Client, IsClient, NewDhcp
<1>2. Client.dhcp.state = "off" /\ ~Client.netif.up
  BY DEF DhcpInit, Client, NewDhcp
<1> QED BY <1>1, <1>2 DEF Good, Leased, WithOffer

\* dhcp_start, dhcp_stop, dhcp_release, dhcp_renew, dhcp_network_changed
LEMMA InvApi ==
  ASSUME WellUsed, IInv,
         DhcpStart \/ DhcpStop \/ DhcpRelease \/ DhcpRenew \/ NetworkChanged
  PROVE  IInv'
<1> Good(Client) /\ IsClient(Client)
  BY DEF IInv, Good
<1> USE DEF WellUsed
<1>1. CASE DhcpStart
  <2> DEFINE c == [Client EXCEPT !.dhcp = NewDhcp]
  <2>1. IsClient(c) /\ ~c.netif.up
    BY <1>1 DEF DhcpStart, IsClient, NewDhcp, Client
  <2> PICK mem \in Memory :
        Becomes(IF mem THEN Discover(c, mem) ELSE SetState(Discover(c, mem), "off"))
    BY <1>1 DEF DhcpStart
  <2> HIDE DEF c
  <2>2. IsClient(Discover(c, mem)) /\ ~Discover(c, mem).netif.up
    BY <2>1, DiscoverFacts
  <2>3. Good(Discover(c, mem))
    BY <2>1, DiscoverGood
  <2>4. Good(SetState(Discover(c, mem), "off"))
    BY <2>2, SetStateFacts DEF Good, Leased, WithOffer
  <2> QED BY <2>3, <2>4, Becoming
<1>2. CASE DhcpStop
  <2>1. ~Client.netif.up
    BY <1>2 DEF DhcpStop, Client
  <2>2. Good(SetState(Client, "off"))
    BY <2>1, SetStateFacts DEF Good, Leased, WithOffer
  <2> QED BY <1>2, <2>2, Becoming DEF DhcpStop
<1>3. CASE DhcpRelease
  BY <1>3, ReleasedGood, Becoming DEF DhcpRelease
<1>4. CASE DhcpRenew
  <2>1. Client.dhcp.state \in WithOffer
    BY <1>4 DEF DhcpRenew, Client, Leased, WithOffer
  <2> QED BY <1>4, <2>1, RenewGood, Becoming DEF DhcpRenew
<1>5. CASE NetworkChanged
  <2> DEFINE again == [Client EXCEPT !.dhcp.tries = 0]
             off   == [again EXCEPT !.netif.up = FALSE]
  <2>1. /\ IsClient(again) /\ again.netif = Client.netif
        /\ again.dhcp.state = dhcp.state
        /\ again.dhcp.offered = dhcp.offered
    BY DEF IsClient, Client
  <2> PICK mem \in Memory :
        Becomes(IF dhcp.state \in {"rebinding", "renewing", "bound", "rebooting"}
                  THEN Reboot(off, mem) ELSE Discover(again, mem))
    BY <1>5 DEF NetworkChanged
  <2> HIDE DEF again
  <2>2. CASE dhcp.state \in {"rebinding", "renewing", "bound", "rebooting"}
    <3>1. dhcp.offered \in Addresses
      BY <2>2 DEF Good, Client, Leased, WithOffer
    <3>2. IsClient(off) /\ off.dhcp = again.dhcp /\ ~off.netif.up
      BY <2>1 DEF IsClient
    <3>3. Good(off) /\ off.dhcp.offered \in Addresses
      BY <3>1, <3>2, <2>1 DEF Good
    <3> HIDE DEF off
    <3> QED BY <2>2, <3>2, <3>3, DownGood, Becoming
  <2>3. CASE dhcp.state \notin {"rebinding", "renewing", "bound", "rebooting"}
    <3>1. ~again.netif.up
      BY <2>1, <2>3 DEF Good, Client, Leased
    <3> QED BY <2>1, <2>3, <3>1, DiscoverGood, Becoming
  <2> QED BY <2>2, <2>3
<1> QED BY <1>1, <1>2, <1>3, <1>4, <1>5

\* dhcp_fine_tmr and dhcp_coarse_tmr
LEMMA InvTimers ==
  ASSUME IInv, DhcpFineTmr \/ DhcpCoarseTmr
  PROVE  IInv'
<1> Good(Client) /\ IsClient(Client)
  BY DEF IInv, Good
<1>1. CASE DhcpFineTmr
  <2> DEFINE c == [Client EXCEPT !.dhcp.timer = 0]
  <2>1. Good(c)
    BY DEF Good, IsClient, Client
  <2> PICK mem \in Memory : Becomes(Timeout(c, mem))
    BY <1>1 DEF DhcpFineTmr
  <2> HIDE DEF c
  <2> QED BY <2>1, TimeoutGood, Becoming
<1>2. CASE DhcpCoarseTmr
  <2> DEFINE t2 == (dhcp.t2 + CoarseMod - 1) % CoarseMod
             t1 == (dhcp.t1 + CoarseMod - 1) % CoarseMod
             c  == [Client EXCEPT !.dhcp.t2 = t2, !.dhcp.t1 = IF dhcp.t2 = 1 THEN @ ELSE t1,
                                  !.dhcp.timer = IF @ = 2 THEN 1 ELSE @]
  <2> PICK mem \in Memory :
        Becomes(IF dhcp.t2 = 1 THEN T2Timeout(c, mem)
                ELSE IF dhcp.t1 = 1 THEN T1Timeout(c, mem) ELSE c)
    BY <1>2 DEF DhcpCoarseTmr
  <2> HIDE DEF t1, t2
  <2>1. Good(c)
    BY DEF Good, IsClient, Client
  <2> HIDE DEF c
  <2>2. Good(T2Timeout(c, mem)) /\ Good(T1Timeout(c, mem))
    BY <2>1, RenewGood DEF T1Timeout, T2Timeout, Leased, WithOffer
  <2> QED BY <2>1, <2>2, Becoming
<1> QED BY <1>1, <1>2

\* dhcp_recv and dhcp_arp_reply
LEMMA InvReceive ==
  ASSUME IInv,
         \/ \E a \in Addresses : RecvOffer(a) \/ RecvAck(a)
         \/ RecvNak \/ DhcpArpReply
  PROVE  IInv'
<1> Good(Client) /\ IsClient(Client)
  BY DEF IInv, Good
<1>1. ASSUME NEW a \in Addresses, RecvOffer(a)
      PROVE  IInv'
  <2> DEFINE c == [Client EXCEPT !.dhcp.timer = 0]
             d == [c EXCEPT !.dhcp.offered = a]
  <2>1. ~Client.netif.up /\ Client.dhcp.state = "selecting"
    BY <1>1 DEF RecvOffer, Good, Client, Leased
  <2>2. Good(c) /\ ~c.netif.up /\ c.dhcp.state = "selecting"
    BY <2>1 DEF Good, IsClient
  <2>3. \/ \E mem \in Memory : Becomes(Select(d, mem))
        \/ Becomes(c)
    BY <1>1 DEF RecvOffer
  <2> HIDE DEF c
  <2>4. Good(d) /\ ~d.netif.up /\ d.dhcp.offered \in Addresses
    BY <2>2 DEF Good, IsClient
  <2> HIDE DEF d
  <2> QED BY <2>2, <2>3, <2>4, DownGood, Becoming
<1>2. ASSUME NEW a \in Addresses, RecvAck(a)
      PROVE  IInv'
  <2>1. CASE dhcp.state = "requesting" /\ \E times \in AckTimes :
                                            Becomes(Check(HandleAck(Client, a, times)))
    <3> PICK times \in AckTimes : Becomes(Check(HandleAck(Client, a, times)))
      BY <2>1
    <3> DEFINE c == HandleAck(Client, a, times)
    <3>1. ~Client.netif.up
      BY <2>1 DEF Good, Client, Leased
    <3>2. Good(c) /\ ~c.netif.up /\ c.dhcp.offered \in Addresses
      BY <3>1 DEF Good, IsClient, HandleAck
    <3> HIDE DEF c
    <3>3. Becomes(Check(c))
      BY DEF c
    <3> QED BY <3>2, <3>3, CheckGood, Becoming
  <2>2. CASE dhcp.state \in {"rebooting", "rebinding", "renewing"} /\ Becomes(Bind(Client))
    <3>1. Client.dhcp.state \in WithOffer
      BY <2>2 DEF Client, Leased, WithOffer
    <3> QED BY <2>2, <3>1, BindGood, Becoming
  <2> QED BY <1>2, <2>1, <2>2 DEF RecvAck
<1>3. CASE RecvNak
  BY <1>3, NakGood, Becoming DEF RecvNak
<1>4. CASE DhcpArpReply
  <2>1. ~Client.netif.up
    BY <1>4 DEF DhcpArpReply, Good, Client, Leased
  <2> QED BY <1>4, <2>1, DownGood, Becoming DEF DhcpArpReply
<1> QED BY <1>1, <1>2, <1>3, <1>4

LEMMA InvNext == WellUsed /\ IInv /\ [DhcpNext]_dhcpVars => IInv'
<1> SUFFICES ASSUME WellUsed, IInv, [DhcpNext]_dhcpVars
             PROVE  IInv'
  OBVIOUS
<1>1. CASE RequestLost
  <2>1. UNCHANGED <<dhcp, netif>>
    BY <1>1 DEF RequestLost
  <2> QED BY <2>1 DEF IInv, Client, Good, IsClient
<1>2. CASE UNCHANGED dhcpVars
  BY <1>2 DEF dhcpVars, IInv, Client, Good, IsClient
<1> QED BY <1>1, <1>2, InvApi, InvTimers, InvReceive DEF DhcpNext

\* The interface is up only with a lease (UpOnlyWithLease): an address that was
\* refused, declined or given back is taken from it, in whatever order messages,
\* timeouts and calls come.
THEOREM DhcpUpOnlyWithLease ==
  ASSUME WellUsed
  PROVE  DhcpSpec => []UpOnlyWithLease
<1>1. IInv => UpOnlyWithLease
  <2> SUFFICES ASSUME IInv, netif.up
               PROVE  /\ dhcp.state \in Leased
                      /\ netif.ip = dhcp.offered /\ netif.ip \in Addresses
    BY DhcpAssumption DEF UpOnlyWithLease, Leased
  <2> QED BY DEF IInv, Good, Client, Leased, WithOffer
<1>2. IInv /\ [DhcpNext]_dhcpVars => IInv'
  BY InvNext
<1> QED BY <1>1, <1>2, InvInit, PTL DEF DhcpSpec
-----------------------------------------------------------------------------
(* The lease.                                                              *)

\* There is memory for messages, and no timer of an earlier lease is left: the
\* mishaps that end a lease early.  "noServerId" does not matter.
Faultless == Mishaps \subseteq {"noServerId"}

\* The server grants more than the rebinding time, in ticks of the coarse timer,
\* and one tick: the client counts a lease from the dhcp_bind that ends its check
\* of the address, up to two ticks after the ACK.
TimesFit ==
  /\ LeaseTime > 0
  /\ \A t \in AckTimes : /\ t[1] \in Nat /\ t[2] \in Nat
                         /\ (CoarseTicks(t[2]) + 1) * CoarseSecs < LeaseTime

Rebindings == {t[2] : t \in AckTimes}
Promising == {"request", "renew", "rebind", "reboot"}

\* The counters, and the times that came with an ACK.
Numbers(cl) ==
  /\ cl.dhcp.tries \in Nat /\ cl.dhcp.timer \in 0 .. 2
  /\ cl.dhcp.t1 \in 0 .. CoarseMod - 1 /\ cl.dhcp.t2 \in 0 .. CoarseMod - 1
  /\ cl.dhcp.renew \in Nat /\ cl.dhcp.rebind \in Rebindings \cup {0}

\* What the server may still promise is what was offered.
AskedFor(asks, offered) ==
  \A m \in asks : m.kind \in Promising => m.ip = NoAddress \/ m.ip = offered

Consistent(cl) ==
  /\ AskedFor(cl.asked, cl.dhcp.offered)
  /\ cl.dhcp.state = "selecting" => cl.dhcp.offered = NoAddress
  /\ cl.dhcp.state \in Leased => cl.netif.ip = NoAddress \/ cl.netif.ip = cl.dhcp.offered

IsLease(l) == DOMAIN l = {"ip", "left"} /\ l.left \in Nat

\* The coarse ticks that may have passed since the ACK, up to now, while the
\* address is checked: one for each ARP request that is over.
Spent(tries, timer) == (tries - 1) + (IF timer = 2 THEN 0 ELSE 1)

Checking(d, l) ==
  /\ l.ip = d.offered
  /\ d.rebind \in Rebindings
  /\ d.tries \in 1 .. 2 /\ d.timer \in 1 .. 2
  /\ l.left + Spent(d.tries, d.timer) * CoarseSecs >= LeaseTime

\* The time that is left when dhcp_t2_timeout is t2 ticks away.
Outlasts(left, t2) == t2 >= 1 /\ left > (t2 - 1) * CoarseSecs

\* A client that takes its lease for granted has it for as long as it may.
Lasting(cl, l) ==
  cl.netif.up /\ cl.dhcp.state \in {"bound", "renewing"} =>
    l.ip = cl.netif.ip /\ Outlasts(l.left, cl.dhcp.t2)

Sound(cl) == IsClient(cl) /\ Numbers(cl) /\ Consistent(cl)

Kept(cl, l) ==
  /\ Sound(cl) /\ IsLease(l)
  /\ cl.dhcp.state = "checking" => Checking(cl.dhcp, l)
  /\ Lasting(cl, l)

LInv == Good(Client) /\ Kept(Client, lease)

\* What the functions leave alone.
Rest(c, cl) ==
  /\ IsClient(c)
  /\ c.dhcp.offered = cl.dhcp.offered
  /\ c.dhcp.t1 = cl.dhcp.t1 /\ c.dhcp.t2 = cl.dhcp.t2
  /\ c.dhcp.renew = cl.dhcp.renew /\ c.dhcp.rebind = cl.dhcp.rebind
  /\ c.netif = cl.netif

LEMMA SetStateIs ==
  ASSUME NEW cl, IsClient(cl), NEW s
  PROVE  /\ Rest(SetState(cl, s), cl)
         /\ SetState(cl, s).dhcp.state = s
         /\ SetState(cl, s).asked = cl.asked
         /\ s /= cl.dhcp.state => SetState(cl, s).dhcp.tries = 0 /\ SetState(cl, s).dhcp.timer = 0
         /\ s = cl.dhcp.state => SetState(cl, s) = cl
<1>1. CASE s = cl.dhcp.state
  BY <1>1 DEF SetState, Rest
<1>2. CASE s /= cl.dhcp.state
  <2> DEFINE c == [cl EXCEPT !.dhcp.state = s, !.dhcp.tries = 0, !.dhcp.timer = 0]
  <2>1. Rest(c, cl) /\ c.dhcp.state = s /\ c.asked = cl.asked /\ c.dhcp.tries = 0 /\ c.dhcp.timer = 0
    BY DEF IsClient, Rest
  <2> QED BY <1>2, <2>1 DEF SetState
<1> QED BY <1>1, <1>2

\* With memory a message is always sent.
Ask(cl, kind, ip) == Request(cl, kind, ip, TRUE)

LEMMA RequestIs ==
  ASSUME NEW cl, IsClient(cl), cl.dhcp.tries \in Nat, NEW kind, NEW ip,
         NEW m, m = [kind |-> kind, ip |-> ip]
  PROVE  /\ Rest(Ask(cl, kind, ip), cl)
         /\ Ask(cl, kind, ip).dhcp.state = cl.dhcp.state
         /\ Ask(cl, kind, ip).dhcp.tries \in Nat
         /\ Ask(cl, kind, ip).dhcp.timer = 2
         /\ Ask(cl, kind, ip).asked \subseteq cl.asked \cup {m}
         /\ cl.dhcp.tries = 0 => Ask(cl, kind, ip).asked = {m}
<1> DEFINE a == IF cl.dhcp.tries = 0 THEN {m} ELSE cl.asked \cup {m}
           n == IF cl.dhcp.tries < MaxTries THEN cl.dhcp.tries + 1 ELSE cl.dhcp.tries
           c == [cl EXCEPT !.asked = a, !.dhcp.tries = n, !.dhcp.timer = 2]
           r == Ask(cl, kind, ip)
<1>1. r = c
  BY DEF Ask, Request, IsClient
<1>2. n \in Nat
  OBVIOUS
<1>3. a \subseteq cl.asked \cup {m} /\ (cl.dhcp.tries = 0 => a = {m})
  OBVIOUS
<1> HIDE DEF n, a
<1>4. /\ Rest(c, cl) /\ c.dhcp.state = cl.dhcp.state /\ c.dhcp.tries = n /\ c.dhcp.timer = 2
      /\ c.asked = a
  BY DEF IsClient, Rest
<1> HIDE DEF c, r
<1>5. /\ Rest(r, cl) /\ r.dhcp.state = cl.dhcp.state /\ r.dhcp.tries \in Nat /\ r.dhcp.timer = 2
      /\ r.asked \subseteq cl.asked \cup {m} /\ (cl.dhcp.tries = 0 => r.asked = {m})
  BY <1>1, <1>2, <1>3, <1>4
<1> QED BY <1>5 DEF r

\* A message in a new state, about nothing or about the offer.
LEMMA AskIs ==
  ASSUME NEW cl, IsClient(cl), Numbers(cl), NEW s, NEW kind, NEW ip, NEW c,
         c = Ask(SetState(cl, s), kind, ip)
  PROVE  /\ Rest(c, cl)
         /\ c.dhcp.state = s
         /\ Numbers(c)
         /\ ip = NoAddress \/ ip = cl.dhcp.offered =>
              /\ AskedFor(cl.asked, cl.dhcp.offered) => AskedFor(c.asked, cl.dhcp.offered)
              /\ s /= cl.dhcp.state => AskedFor(c.asked, cl.dhcp.offered)
<1> DEFINE d == SetState(cl, s)
           m == [kind |-> kind, ip |-> ip]
<1>1. /\ Rest(d, cl) /\ d.dhcp.state = s /\ d.asked = cl.asked
      /\ s /= cl.dhcp.state => d.dhcp.tries = 0
      /\ s = cl.dhcp.state => d = cl
  BY SetStateIs
<1>t. cl.dhcp.tries \in Nat
  BY DEF Numbers
<1>2. IsClient(d) /\ d.dhcp.tries \in Nat
  <2>1. CASE s = cl.dhcp.state
    BY <1>1, <1>t, <2>1
  <2>2. CASE s /= cl.dhcp.state
    <3>1. d.dhcp.tries = 0
      BY <1>1, <2>2
    <3> QED BY <1>1, <3>1 DEF Rest
  <2> QED BY <2>1, <2>2
<1> HIDE DEF d
<1>3. c = Ask(d, kind, ip)
  BY DEF d
<1>m. m = [kind |-> kind, ip |-> ip] /\ m.ip = ip
  OBVIOUS
<1> HIDE DEF m
<1> DEFINE r == Ask(d, kind, ip)
<1>r. /\ Rest(r, d) /\ r.dhcp.state = d.dhcp.state
      /\ r.dhcp.tries \in Nat /\ r.dhcp.timer = 2
      /\ r.asked \subseteq d.asked \cup {m}
      /\ d.dhcp.tries = 0 => r.asked = {m}
  BY <1>2, <1>m, RequestIs
<1>4. /\ Rest(c, d) /\ c.dhcp.state = d.dhcp.state /\ c.dhcp.tries \in Nat /\ c.dhcp.timer = 2
      /\ c.asked \subseteq d.asked \cup {m} /\ (d.dhcp.tries = 0 => c.asked = {m})
  <2> HIDE DEF r
  <2>1. c = r
    BY <1>3 DEF r
  <2> QED BY <2>1, <1>r
<1>5. Rest(c, cl) /\ c.dhcp.state = s
  BY <1>1, <1>4 DEF Rest
<1>6. Numbers(c)
  <2>1. /\ c.dhcp.t1 = cl.dhcp.t1 /\ c.dhcp.t2 = cl.dhcp.t2
        /\ c.dhcp.renew = cl.dhcp.renew /\ c.dhcp.rebind = cl.dhcp.rebind
    BY <1>5 DEF Rest
  <2>2. /\ cl.dhcp.t1 \in 0 .. CoarseMod - 1 /\ cl.dhcp.t2 \in 0 .. CoarseMod - 1
        /\ cl.dhcp.renew \in Nat /\ cl.dhcp.rebind \in Rebindings \cup {0}
    BY DEF Numbers
  <2>4. c.dhcp.timer = 2
    BY <1>4
  <2>3. c.dhcp.timer \in 0 .. 2
    BY ONLY <2>4
  <2> QED BY ONLY <1>4, <2>1, <2>2, <2>3 DEF Numbers
<1>8. ASSUME ip = NoAddress \/ ip = cl.dhcp.offered
      PROVE  /\ AskedFor(cl.asked, cl.dhcp.offered) => AskedFor(c.asked, cl.dhcp.offered)
             /\ s /= cl.dhcp.state => AskedFor(c.asked, cl.dhcp.offered)
  <2>1. ASSUME AskedFor(cl.asked, cl.dhcp.offered) PROVE AskedFor(c.asked, cl.dhcp.offered)
    <3>1. \A x \in c.asked : x \in cl.asked \/ x = m
      BY <1>1, <1>4
    <3> QED BY <1>m, <1>8, <2>1, <3>1 DEF AskedFor
  <2>2. ASSUME s /= cl.dhcp.state PROVE AskedFor(c.asked, cl.dhcp.offered)
    <3>1. c.asked = {m}
      BY <1>1, <1>4, <2>2
    <3> QED BY <1>m, <1>8, <3>1 DEF AskedFor
  <2> QED BY <2>1, <2>2
<1> QED BY <1>5, <1>6, <1>8

-----------------------------------------------------------------------------
(* The functions, with memory. *)

\* In most states the lease does not matter.
LEMMA OtherKept ==
  ASSUME NEW c, Sound(c), NEW l, IsLease(l), c.dhcp.state \notin {"checking", "bound", "renewing"}
  PROVE  Kept(c, l)
  BY DEF Kept, Lasting

\* A message sent in another state, or again, about nothing or the offer.
LEMMA AskSound ==
  ASSUME NEW cl, IsClient(cl), Numbers(cl), AskedFor(cl.asked, cl.dhcp.offered),
         NEW s, NEW kind, NEW ip, NEW c, c = Ask(SetState(cl, s), kind, ip),
         ip = NoAddress \/ ip = cl.dhcp.offered,
         s = "selecting" => cl.dhcp.offered = NoAddress,
         s \in Leased => cl.netif.ip = NoAddress \/ cl.netif.ip = cl.dhcp.offered
  PROVE  Sound(c) /\ Rest(c, cl) /\ c.dhcp.state = s
<1>2. Rest(c, cl) /\ c.dhcp.state = s /\ Numbers(c) /\ AskedFor(c.asked, cl.dhcp.offered)
  BY AskIs
<1>3. IsClient(c) /\ c.dhcp.offered = cl.dhcp.offered /\ c.netif = cl.netif
  BY <1>2 DEF Rest
<1>4. Consistent(c)
  BY <1>2, <1>3 DEF Consistent
<1> QED BY <1>2, <1>3, <1>4 DEF Sound

\* dhcp_discover
Discovers(cl) == Discover(cl, TRUE)

LEMMA DiscoverKept ==
  ASSUME NEW cl, IsClient(cl), Numbers(cl), cl.dhcp.state = "selecting" => Consistent(cl),
         NEW l, IsLease(l)
  PROVE  Kept(Discovers(cl), l)
<1> DEFINE d == [cl EXCEPT !.dhcp.offered = NoAddress]
           e == SetState(d, "selecting")
           c == Ask(e, "discover", NoAddress)
<1>1. IsClient(cl) /\ Numbers(cl) /\ (cl.dhcp.state = "selecting" => Consistent(cl))
  OBVIOUS
<1>2. /\ IsClient(d) /\ d.asked = cl.asked /\ d.dhcp.state = cl.dhcp.state
      /\ d.dhcp.offered = NoAddress
      /\ d.dhcp.tries = cl.dhcp.tries /\ d.dhcp.timer = cl.dhcp.timer
      /\ d.dhcp.t1 = cl.dhcp.t1 /\ d.dhcp.t2 = cl.dhcp.t2
      /\ d.dhcp.renew = cl.dhcp.renew /\ d.dhcp.rebind = cl.dhcp.rebind
  BY <1>1 DEF IsClient
<1> HIDE DEF d
<1>3. Numbers(d)
  BY <1>1, <1>2 DEF Numbers
<1>4. c = Ask(SetState(d, "selecting"), "discover", NoAddress)
  OBVIOUS
<1>5. Discovers(cl) = c
  BY DEF Discovers, Discover, Ask, d
<1> HIDE DEF c, e
<1>6. /\ Rest(c, d) /\ c.dhcp.state = "selecting" /\ Numbers(c)
      /\ AskedFor(d.asked, d.dhcp.offered) => AskedFor(c.asked, d.dhcp.offered)
      /\ "selecting" /= d.dhcp.state => AskedFor(c.asked, d.dhcp.offered)
  BY <1>2, <1>3, <1>4, AskIs
<1>7. AskedFor(c.asked, NoAddress)
  BY <1>1, <1>2, <1>6 DEF Consistent
<1>8. IsClient(c) /\ c.dhcp.offered = NoAddress
  BY <1>2, <1>6 DEF Rest
<1>9. Sound(c)
  BY <1>6, <1>7, <1>8 DEF Sound, Consistent, Leased
<1>10. Kept(c, l)
  BY <1>6, <1>9, OtherKept
<1> QED BY <1>5, <1>10

\* dhcp_select, dhcp_reboot, dhcp_decline
Selects(cl) == Select(cl, TRUE)
Reboots(cl) == Reboot(cl, TRUE)
Declines(cl) == Decline(cl, TRUE)

LEMMA SelectKept ==
  ASSUME NEW cl, IsClient(cl), Numbers(cl), AskedFor(cl.asked, cl.dhcp.offered),
         NEW l, IsLease(l)
  PROVE  Kept(Selects(cl), l) /\ Kept(Reboots(cl), l) /\ Kept(Declines(cl), l)
<1>1. Kept(Selects(cl), l)
  <2> DEFINE c == Ask(SetState(cl, "requesting"), "request", cl.dhcp.offered)
  <2>1. Selects(cl) = c
    BY DEF Selects, Select, Ask
  <2>2. Sound(c) /\ c.dhcp.state = "requesting"
    BY AskSound DEF Leased
  <2> HIDE DEF c
  <2>3. Kept(c, l)
    BY <2>2, OtherKept
  <2> QED BY <2>1, <2>3
<1>2. Kept(Reboots(cl), l)
  <2> DEFINE c == Ask(SetState(cl, "rebooting"), "reboot", cl.dhcp.offered)
  <2>1. Reboots(cl) = c
    BY DEF Reboots, Reboot, Ask
  <2>2. Sound(c) /\ c.dhcp.state = "rebooting"
    BY AskSound DEF Leased
  <2> HIDE DEF c
  <2>3. Kept(c, l)
    BY <2>2, OtherKept
  <2> QED BY <2>1, <2>3
<1>3. Kept(Declines(cl), l)
  <2> DEFINE c == Ask(SetState(cl, "backing_off"), "decline", cl.dhcp.offered)
  <2>1. Declines(cl) = c
    BY DEF Declines, Decline, Ask
  <2>2. Sound(c) /\ c.dhcp.state = "backing_off"
    BY AskSound DEF Leased
  <2> HIDE DEF c
  <2>3. Kept(c, l)
    BY <2>2, OtherKept
  <2> QED BY <2>1, <2>3
<1> QED BY <1>1, <1>2, <1>3

\* dhcp_renew and dhcp_rebind, of the address of the interface
Renews(cl) == Renew(cl, TRUE)
Rebinds(cl) == Rebind(cl, TRUE)

LEMMA RenewKept ==
  ASSUME NEW cl, Sound(cl), NEW l, IsLease(l),
         cl.netif.ip = NoAddress \/ cl.netif.ip = cl.dhcp.offered,
         cl.netif.up => l.ip = cl.netif.ip /\ Outlasts(l.left, cl.dhcp.t2)
  PROVE  Kept(Renews(cl), l)
<1> DEFINE c == Ask(SetState(cl, "renewing"), "renew", cl.netif.ip)
<1>1. Renews(cl) = c
  BY DEF Renews, Renew, Ask
<1>2. Sound(c) /\ Rest(c, cl) /\ c.dhcp.state = "renewing"
  BY AskSound DEF Sound, Consistent
<1> HIDE DEF c
<1>3. c.netif = cl.netif /\ c.dhcp.t2 = cl.dhcp.t2
  BY <1>2 DEF Rest
<1>4. Lasting(c, l)
  BY <1>2, <1>3 DEF Lasting
<1>5. Kept(c, l)
  BY <1>2, <1>4 DEF Kept
<1> QED BY <1>1, <1>5

LEMMA RebindKept ==
  ASSUME NEW cl, Sound(cl), NEW l, IsLease(l),
         cl.netif.ip = NoAddress \/ cl.netif.ip = cl.dhcp.offered
  PROVE  Kept(Rebinds(cl), l)
<1> DEFINE c == Ask(SetState(cl, "rebinding"), "rebind", cl.netif.ip)
<1>1. Rebinds(cl) = c
  BY DEF Rebinds, Rebind, Ask
<1>2. Sound(c) /\ c.dhcp.state = "rebinding"
  BY AskSound DEF Sound, Consistent
<1> HIDE DEF c
<1>3. Kept(c, l)
  BY <1>2, OtherKept
<1> QED BY <1>1, <1>3

\* What a sound client gives to the functions.
LEMMA SoundParts ==
  ASSUME NEW cl, Sound(cl)
  PROVE  IsClient(cl) /\ Numbers(cl) /\ Consistent(cl) /\ AskedFor(cl.asked, cl.dhcp.offered)
  BY DEF Sound, Consistent

\* dhcp_release, of a client that was started
Releases(cl) == Release(cl, TRUE)

LEMMA ReleaseKept ==
  ASSUME NEW cl, Sound(cl), cl.dhcp.state /= "off", NEW l, IsLease(l)
  PROVE  Sound(Releases(cl)) /\ Kept(Releases(cl), l)
<1> DEFINE c == SetState(cl, "off")
           d == [c EXCEPT !.dhcp.offered = NoAddress, !.dhcp.renew = 0, !.dhcp.rebind = 0]
           e == Ask(d, "release", NoAddress)
           f == Down(e)
           m == [kind |-> "release", ip |-> NoAddress]
<1>0. IsClient(cl) /\ Numbers(cl)
  BY DEF Sound
<1>1. Releases(cl) = f
  BY DEF Releases, Release, Ask
<1>2. Rest(c, cl) /\ c.dhcp.state = "off" /\ c.dhcp.tries = 0
  BY <1>0, SetStateIs
<1> HIDE DEF c
<1>3. /\ IsClient(c) /\ c.dhcp.t1 = cl.dhcp.t1 /\ c.dhcp.t2 = cl.dhcp.t2
  BY <1>2 DEF Rest
<1>4. /\ IsClient(d) /\ d.dhcp.state = "off" /\ d.dhcp.tries = 0
      /\ d.dhcp.offered = NoAddress /\ d.dhcp.renew = 0 /\ d.dhcp.rebind = 0
      /\ d.dhcp.t1 = cl.dhcp.t1 /\ d.dhcp.t2 = cl.dhcp.t2
  BY <1>2, <1>3 DEF IsClient
<1> HIDE DEF d
<1>5. d.dhcp.tries \in Nat /\ m = [kind |-> "release", ip |-> NoAddress] /\ m.ip = NoAddress
  BY <1>4
<1> HIDE DEF m
<1>6. /\ Rest(e, d) /\ e.dhcp.state = d.dhcp.state /\ e.dhcp.tries \in Nat /\ e.dhcp.timer = 2
      /\ e.asked = {m}
  BY <1>4, <1>5, RequestIs
<1> HIDE DEF e
<1>7. /\ IsClient(e) /\ e.dhcp.offered = NoAddress /\ e.dhcp.renew = 0 /\ e.dhcp.rebind = 0
      /\ e.dhcp.t1 = cl.dhcp.t1 /\ e.dhcp.t2 = cl.dhcp.t2 /\ e.dhcp.state = "off"
  BY <1>4, <1>6 DEF Rest
<1>8. /\ IsClient(f) /\ f.dhcp = e.dhcp /\ f.asked = e.asked
      /\ f.netif.ip = NoAddress
  BY <1>7 DEF Down, IsClient
<1> HIDE DEF f
<1>9. AskedFor(f.asked, f.dhcp.offered)
  BY <1>5, <1>6, <1>8 DEF AskedFor
<1>10. Numbers(f)
  <2>1. 2 \in 0 .. 2 /\ 0 \in Nat
    OBVIOUS
  <2>2. f.dhcp.timer \in 0 .. 2 /\ f.dhcp.renew \in Nat
    BY <1>6, <1>7, <1>8, <2>1
  <2> QED BY <1>0, <1>6, <1>7, <1>8, <2>2 DEF Numbers
<1>11. Sound(f) /\ f.dhcp.state = "off"
  BY <1>7, <1>8, <1>9, <1>10 DEF Sound, Consistent
<1>12. Kept(f, l)
  BY <1>11, OtherKept
<1> QED BY <1>1, <1>11, <1>12

\* dhcp_set_state alone, into a state that promises nothing
LEMMA IdleSound ==
  ASSUME NEW cl, Sound(cl), NEW s, s \in {"off", "backing_off"}
  PROVE  Sound(SetState(cl, s)) /\ SetState(cl, s).dhcp.state = s
<1> DEFINE c == SetState(cl, s)
<1>1. /\ Rest(c, cl) /\ c.dhcp.state = s /\ c.asked = cl.asked
      /\ s /= cl.dhcp.state => c.dhcp.tries = 0 /\ c.dhcp.timer = 0
      /\ s = cl.dhcp.state => c = cl
  BY SetStateIs DEF Sound
<1> HIDE DEF c
<1>2. CASE s = cl.dhcp.state
  BY <1>1, <1>2 DEF c
<1>3. CASE s /= cl.dhcp.state
  <2>1. /\ IsClient(c) /\ c.dhcp.offered = cl.dhcp.offered
        /\ c.dhcp.t1 = cl.dhcp.t1 /\ c.dhcp.t2 = cl.dhcp.t2
        /\ c.dhcp.renew = cl.dhcp.renew /\ c.dhcp.rebind = cl.dhcp.rebind
    BY <1>1 DEF Rest
  <2>2. 0 \in 0 .. 2 /\ 0 \in Nat
    OBVIOUS
  <2>3. c.dhcp.timer \in 0 .. 2 /\ c.dhcp.tries \in Nat
    BY <1>1, <1>3, <2>2
  <2>4. Numbers(c)
    BY <2>1, <2>3 DEF Sound, Numbers
  <2>5. Consistent(c)
    BY <1>1, <2>1 DEF Sound, Consistent, Leased
  <2> QED BY <1>1, <2>1, <2>4, <2>5 DEF Sound, c
<1> QED BY <1>2, <1>3

\* dhcp_handle_nak
HandlesNak(cl) == HandleNak(cl, TRUE)

LEMMA NakKept ==
  ASSUME NEW cl, Sound(cl), NEW l, IsLease(l)
  PROVE  Kept(HandlesNak(cl), l)
<1> DEFINE d == Down(cl)
           e == SetState(d, "backing_off")
<1>0. IsClient(cl) /\ Numbers(cl) /\ Consistent(cl)
  BY DEF Sound
<1>1. IsClient(d) /\ d.dhcp = cl.dhcp /\ d.asked = cl.asked /\ d.netif.ip = NoAddress
  BY <1>0 DEF Down, IsClient
<1>2. HandlesNak(cl) = Discovers(e)
  BY DEF HandlesNak, HandleNak, Discovers
<1> HIDE DEF d
<1>3. Numbers(d) /\ Consistent(d)
  BY <1>0, <1>1 DEF Numbers, Consistent
<1>4. Sound(d)
  BY <1>1, <1>3 DEF Sound
<1>5. Sound(e)
  BY <1>4, IdleSound
<1> HIDE DEF e
<1> QED BY <1>2, <1>5, SoundParts, DiscoverKept

\* dhcp_check: the first time the lease is new, the second time one tick may
\* have passed.
LEMMA CheckKept ==
  ASSUME NEW cl, Sound(cl), NEW l, IsLease(l),
         l.ip = cl.dhcp.offered, cl.dhcp.rebind \in Rebindings,
         \/ cl.dhcp.state /= "checking" /\ l.left >= LeaseTime
         \/ /\ cl.dhcp.state = "checking" /\ cl.dhcp.tries = 1
            /\ l.left + CoarseSecs >= LeaseTime
  PROVE  Kept(Check(cl), l)
<1> DEFINE c == SetState(cl, "checking")
           d == [c EXCEPT !.dhcp.tries = @ + 1, !.dhcp.timer = 2]
<1>0. IsClient(cl) /\ Numbers(cl) /\ Consistent(cl)
  BY DEF Sound
<1>1. /\ Rest(c, cl) /\ c.dhcp.state = "checking" /\ c.asked = cl.asked
      /\ "checking" /= cl.dhcp.state => c.dhcp.tries = 0
      /\ "checking" = cl.dhcp.state => c = cl
  BY <1>0, SetStateIs
<1>2. Check(cl) = d
  BY DEF Check
<1> HIDE DEF c
<1>3. /\ IsClient(c) /\ c.dhcp.offered = cl.dhcp.offered
      /\ c.dhcp.t1 = cl.dhcp.t1 /\ c.dhcp.t2 = cl.dhcp.t2
      /\ c.dhcp.renew = cl.dhcp.renew /\ c.dhcp.rebind = cl.dhcp.rebind
  BY <1>1 DEF Rest
<1>4. /\ IsClient(d) /\ d.dhcp.offered = cl.dhcp.offered
      /\ d.dhcp.t1 = cl.dhcp.t1 /\ d.dhcp.t2 = cl.dhcp.t2
      /\ d.dhcp.renew = cl.dhcp.renew /\ d.dhcp.rebind = cl.dhcp.rebind
      /\ d.dhcp.state = "checking" /\ d.asked = cl.asked
      /\ d.dhcp.timer = 2 /\ d.dhcp.tries = c.dhcp.tries + 1
  BY <1>1, <1>3 DEF IsClient
<1> HIDE DEF d
<1>5. c.dhcp.tries \in 0 .. 1 /\ (c.dhcp.tries = 0 => l.left >= LeaseTime)
      /\ l.left + c.dhcp.tries * CoarseSecs >= LeaseTime
  <2>1. CASE cl.dhcp.state /= "checking" /\ l.left >= LeaseTime
    <3>1. c.dhcp.tries = 0
      BY <1>1, <2>1
    <3>2. l.left \in Nat /\ CoarseSecs \in Nat
      BY DhcpAssumption DEF IsLease
    <3> QED BY <2>1, <3>1, <3>2
  <2>2. CASE /\ cl.dhcp.state = "checking" /\ cl.dhcp.tries = 1
             /\ l.left + CoarseSecs >= LeaseTime
    <3>1. c.dhcp.tries = 1
      BY <1>1, <2>2
    <3>2. 1 * CoarseSecs = CoarseSecs
      BY DhcpAssumption
    <3> QED BY <2>2, <3>1, <3>2
  <2> QED BY <2>1, <2>2
<1>6. Spent(d.dhcp.tries, d.dhcp.timer) = c.dhcp.tries
  <2>1. d.dhcp.tries - 1 = c.dhcp.tries
    BY <1>4, <1>5
  <2> QED BY <1>4, <1>5, <2>1 DEF Spent
<1>7. Checking(d.dhcp, l)
  <2>1. d.dhcp.tries \in 1 .. 2 /\ d.dhcp.timer \in 1 .. 2
    BY <1>4, <1>5
  <2> QED BY <1>4, <1>5, <1>6, <2>1 DEF Checking
<1>8. Numbers(d)
  <2>1. d.dhcp.tries \in Nat /\ d.dhcp.timer \in 0 .. 2
    BY <1>4, <1>5
  <2> QED BY <1>0, <1>4, <2>1 DEF Numbers
<1>9. Consistent(d)
  BY <1>0, <1>4 DEF Consistent, Leased
<1>10. Kept(d, l)
  BY <1>4, <1>7, <1>8, <1>9 DEF Kept, Lasting, Sound
<1> QED BY <1>2, <1>10

\* The ticks of a time are at least one, and fewer than the counter can hold.
LEMMA TicksFew ==
  ASSUME NEW t \in Nat
  PROVE  CoarseTicks(t) \in Nat /\ 1 <= CoarseTicks(t) /\ CoarseTicks(t) <= CoarseMod - 1
<1> DEFINE h == CoarseSecs \div 2
           q == (t + h) \div CoarseSecs
<1>1. CoarseSecs \in Nat /\ CoarseSecs > 0 /\ CoarseMod \in Nat /\ CoarseMod > 1
  BY DhcpAssumption
<1>2. h \in Nat
  BY <1>1
<1> HIDE DEF h
<1>3. q \in Nat
  <2> DEFINE u == t + h
  <2>1. u \in Nat
    BY <1>2
  <2> HIDE DEF u
  <2>2. u \div CoarseSecs \in Nat
    BY <1>1, <2>1
  <2> QED BY <2>2 DEF u
<1>4. CoarseTicks(t) = IF q = 0 THEN 1 ELSE IF q >= CoarseMod THEN CoarseMod - 1 ELSE q
  BY DEF CoarseTicks, h
<1> HIDE DEF q
<1> QED BY <1>1, <1>3, <1>4

\* What is granted outlasts the ticks before the last one, and two more.
LEMMA TicksFit ==
  ASSUME TimesFit, NEW t \in Rebindings, NEW n, n = CoarseTicks(t)
  PROVE  n \in Nat /\ n >= 1 /\ (n - 1) * CoarseSecs + 2 * CoarseSecs < LeaseTime
<1>1. PICK x \in AckTimes : t = x[2]
  BY DEF Rebindings
<1>2. t \in Nat /\ (CoarseTicks(t) + 1) * CoarseSecs < LeaseTime
  BY <1>1 DEF TimesFit
<1>3. n \in Nat /\ n >= 1 /\ (n + 1) * CoarseSecs < LeaseTime
  BY <1>2, TicksFew
<1>4. CoarseSecs \in Nat
  BY DhcpAssumption
<1>5. (n - 1) * CoarseSecs + 2 * CoarseSecs = (n + 1) * CoarseSecs
  BY ONLY <1>3, <1>4
<1> QED BY <1>3, <1>5

\* dhcp_bind, under a lease of the offer that outlasts the rebinding time
LEMMA BindKept ==
  ASSUME TimesFit, NEW cl, Sound(cl), NEW l, IsLease(l), l.ip = cl.dhcp.offered,
         Outlasts(l.left, CoarseTicks(cl.dhcp.rebind))
  PROVE  Kept(Bind(cl), l)
<1> DEFINE t1 == CoarseTicks(cl.dhcp.renew)
           t2 == CoarseTicks(cl.dhcp.rebind)
           n == IF t1 >= t2 THEN 0 ELSE t1
           d == [cl EXCEPT !.dhcp.t1 = n, !.dhcp.t2 = t2,
                           !.netif = [ip |-> cl.dhcp.offered, up |-> TRUE]]
           c == SetState(d, "bound")
<1>0. IsClient(cl) /\ Numbers(cl) /\ Consistent(cl)
  BY DEF Sound
<1>1. Bind(cl) = c
  BY DEF Bind
<1>2. cl.dhcp.renew \in Nat /\ cl.dhcp.rebind \in Nat
  <2>1. \A t \in Rebindings : t \in Nat
    BY DEF Rebindings, TimesFit
  <2> QED BY <1>0, <2>1 DEF Numbers
<1>3. t2 \in Nat /\ 1 <= t2 /\ t2 <= CoarseMod - 1
  BY <1>2, TicksFew
<1>4. t1 \in Nat /\ 1 <= t1 /\ t1 <= CoarseMod - 1
  BY <1>2, TicksFew
<1>5. Outlasts(l.left, t2)
  OBVIOUS
<1> HIDE DEF t1, t2
<1>6. CoarseMod \in Nat
  BY DhcpAssumption
<1>7. n \in 0 .. CoarseMod - 1 /\ t2 \in 0 .. CoarseMod - 1
  BY <1>3, <1>4, <1>6
<1> HIDE DEF n
<1>8. /\ IsClient(d) /\ d.dhcp.offered = cl.dhcp.offered
      /\ d.dhcp.t1 = n /\ d.dhcp.t2 = t2
      /\ d.dhcp.renew = cl.dhcp.renew /\ d.dhcp.rebind = cl.dhcp.rebind
      /\ d.dhcp.state = cl.dhcp.state /\ d.asked = cl.asked
      /\ d.dhcp.timer = cl.dhcp.timer /\ d.dhcp.tries = cl.dhcp.tries
      /\ d.netif.ip = cl.dhcp.offered
  BY <1>0 DEF IsClient
<1> HIDE DEF d
<1>9. /\ Rest(c, d) /\ c.dhcp.state = "bound" /\ c.asked = d.asked
      /\ "bound" /= d.dhcp.state => c.dhcp.tries = 0 /\ c.dhcp.timer = 0
      /\ "bound" = d.dhcp.state => c = d
  BY <1>8, SetStateIs
<1> HIDE DEF c
<1>10. c.dhcp.tries \in Nat /\ c.dhcp.timer \in 0 .. 2
  <2>1. CASE "bound" = d.dhcp.state
    BY <1>0, <1>8, <1>9, <2>1 DEF Numbers
  <2>2. CASE "bound" /= d.dhcp.state
    BY <1>9, <2>2
  <2> QED BY <2>1, <2>2
<1>11. /\ IsClient(c) /\ c.dhcp.offered = cl.dhcp.offered
       /\ c.dhcp.t1 = n /\ c.dhcp.t2 = t2
       /\ c.dhcp.renew = cl.dhcp.renew /\ c.dhcp.rebind = cl.dhcp.rebind
       /\ c.netif.ip = cl.dhcp.offered
  BY <1>8, <1>9 DEF Rest
<1>12. Numbers(c)
  BY <1>0, <1>7, <1>10, <1>11 DEF Numbers
<1>13. Consistent(c)
  BY <1>0, <1>8, <1>9, <1>11 DEF Consistent
<1>14. Lasting(c, l)
  BY <1>5, <1>11 DEF Lasting
<1>15. Kept(c, l)
  BY <1>9, <1>11, <1>12, <1>13, <1>14 DEF Kept, Sound
<1> QED BY <1>1, <1>15

\* The time of an ARP request may be up; timer does not matter any more.
TimeUp(d, l) ==
  /\ l.ip = d.offered
  /\ d.rebind \in Rebindings
  /\ d.tries \in 1 .. 2
  /\ l.left + d.tries * CoarseSecs >= LeaseTime

\* dhcp_timeout
TimesOut(cl) == Timeout(cl, TRUE)

LEMMA TimeoutKept ==
  ASSUME TimesFit, NEW cl, Sound(cl), NEW l, IsLease(l), Lasting(cl, l),
         cl.dhcp.state = "checking" => TimeUp(cl.dhcp, l)
  PROVE  Kept(TimesOut(cl), l)
<1>0. Consistent(cl)
  BY DEF Sound
<1>1. CASE cl.dhcp.state \in {"backing_off", "selecting"}
  <2>1. TimesOut(cl) = Discovers(cl)
    BY <1>1 DEF TimesOut, Timeout, Discovers
  <2> QED BY <2>1, SoundParts, DiscoverKept
<1>2. CASE cl.dhcp.state = "requesting"
  <2>1. TimesOut(cl) = Selects(cl) \/ TimesOut(cl) = Discovers(Releases(cl))
    BY <1>2 DEF TimesOut, Timeout, Selects, Discovers, Releases
  <2>2. Sound(Releases(cl))
    BY <1>2, ReleaseKept
  <2> QED BY <2>1, <2>2, SelectKept, SoundParts, DiscoverKept
<1>3. CASE cl.dhcp.state = "checking"
  <2>1. TimeUp(cl.dhcp, l)
    BY <1>3
  <2>2. CASE cl.dhcp.tries = 1
    <3>1. TimesOut(cl) = Check(cl)
      BY <1>3, <2>2 DEF TimesOut, Timeout
    <3>2. 1 * CoarseSecs = CoarseSecs
      BY DhcpAssumption
    <3>3. l.left + CoarseSecs >= LeaseTime
      BY <2>1, <2>2, <3>2 DEF TimeUp
    <3> QED BY <1>3, <2>1, <2>2, <3>1, <3>3, CheckKept DEF TimeUp
  <2>3. CASE cl.dhcp.tries = 2
    <3>1. TimesOut(cl) = Bind(cl)
      BY <1>3, <2>3 DEF TimesOut, Timeout
    <3> DEFINE n == CoarseTicks(cl.dhcp.rebind)
               p == (n - 1) * CoarseSecs
    <3>2. n \in Nat /\ n >= 1 /\ p + 2 * CoarseSecs < LeaseTime
      BY <2>1, TicksFit DEF TimeUp
    <3>3. l.left + 2 * CoarseSecs >= LeaseTime
      BY <2>1, <2>3 DEF TimeUp
    <3>4. l.left \in Nat /\ CoarseSecs \in Nat /\ LeaseTime \in Nat
      BY DhcpAssumption DEF IsLease
    <3> HIDE DEF n
    <3>5. p \in Nat
      <4>1. n - 1 \in Nat
        BY <3>2
      <4> QED BY <3>4, <4>1
    <3> HIDE DEF p
    <3>6. l.left > p
      BY <3>2, <3>3, <3>4, <3>5
    <3>7. Outlasts(l.left, n)
      BY <3>2, <3>6 DEF Outlasts, p
    <3>8. Outlasts(l.left, CoarseTicks(cl.dhcp.rebind))
      BY <3>7 DEF n
    <3>9. l.ip = cl.dhcp.offered
      BY <2>1 DEF TimeUp
    <3> QED BY <3>1, <3>8, <3>9, BindKept
  <2> QED BY <2>1, <2>2, <2>3 DEF TimeUp
<1>4. CASE cl.dhcp.state = "renewing"
  <2>1. TimesOut(cl) = Renews(cl)
    BY <1>4 DEF TimesOut, Timeout, Renews
  <2>2. cl.netif.ip = NoAddress \/ cl.netif.ip = cl.dhcp.offered
    BY <1>0, <1>4 DEF Consistent, Leased
  <2> QED BY <1>4, <2>1, <2>2, RenewKept DEF Lasting
<1>5. CASE cl.dhcp.state = "rebinding"
  <2>1. TimesOut(cl) = Rebinds(cl) \/ TimesOut(cl) = Discovers(Releases(cl))
    BY <1>5 DEF TimesOut, Timeout, Rebinds, Discovers, Releases
  <2>2. cl.netif.ip = NoAddress \/ cl.netif.ip = cl.dhcp.offered
    BY <1>0, <1>5 DEF Consistent, Leased
  <2>3. Sound(Releases(cl))
    BY <1>5, ReleaseKept
  <2> QED BY <2>1, <2>2, <2>3, RebindKept, SoundParts, DiscoverKept
<1>6. CASE cl.dhcp.state = "rebooting"
  <2>1. TimesOut(cl) = Reboots(cl) \/ TimesOut(cl) = Discovers(cl)
    BY <1>6 DEF TimesOut, Timeout, Reboots, Discovers
  <2> QED BY <2>1, SelectKept, SoundParts, DiscoverKept
<1>7. CASE cl.dhcp.state \notin {"backing_off", "selecting", "requesting", "checking",
                                 "renewing", "rebinding", "rebooting"}
  <2>1. TimesOut(cl) = cl
    BY <1>7 DEF TimesOut, Timeout
  <2>2. Kept(cl, l)
    BY <1>7 DEF Kept
  <2> QED BY <2>1, <2>2
<1> QED BY <1>1, <1>2, <1>3, <1>4, <1>5, <1>6, <1>7

-----------------------------------------------------------------------------
(* The actions. *)

LEMMA BecomingKept ==
  ASSUME NEW cl, Kept(cl, lease'), Becomes(cl)
  PROVE  Kept(Client, lease)'
<1> DEFINE c == [dhcp |-> dhcp', netif |-> netif', asked |-> asked']
<1>1. c.dhcp = cl.dhcp /\ c.netif = cl.netif /\ c.asked = cl.asked /\ DOMAIN c = {"dhcp", "netif", "asked"}
  BY DEF Becomes
<1> HIDE DEF c
<1>2. IsClient(c)
  BY <1>1 DEF Kept, Sound, IsClient
<1>3. Numbers(c)
  BY <1>1 DEF Kept, Sound, Numbers
<1>4. Consistent(c)
  BY <1>1 DEF Kept, Sound, Consistent
<1>5. Lasting(c, lease')
  BY <1>1 DEF Kept, Lasting
<1>6. Kept(c, lease')
  BY <1>1, <1>2, <1>3, <1>4, <1>5 DEF Kept, Sound
<1> QED BY <1>6 DEF Client, c, Kept, Sound, IsLease, Numbers, Consistent, IsClient, Lasting

LEMMA EnoughMemory == Faultless => Memory = {TRUE} /\ WellUsed /\ "oldLease" \notin Mishaps
  BY DEF Faultless, Memory, WellUsed

\* What the invariant says of the fields.
LEMMA ClientFacts ==
  ASSUME LInv
  PROVE  /\ Good(Client) /\ Sound(Client) /\ IsLease(lease) /\ Lasting(Client, lease)
         /\ IsClient(Client) /\ Numbers(Client) /\ Consistent(Client)
         /\ AskedFor(Client.asked, Client.dhcp.offered)
         /\ Client.dhcp = dhcp /\ Client.netif = netif /\ Client.asked = asked
         /\ dhcp.state = "checking" => Checking(dhcp, lease)
  BY SoundParts DEF LInv, Kept, Client

LEMMA KeptInit == DhcpInit => Kept(Client, lease)
<1> SUFFICES ASSUME DhcpInit PROVE Kept(Client, lease)
  OBVIOUS
<1>1. IsClient(Client)
  BY DEF DhcpInit, Client, IsClient, NewDhcp
<1>2. /\ Client.dhcp.state = "off" /\ Client.dhcp.tries = 0 /\ Client.dhcp.timer = 0
      /\ Client.dhcp.t1 = 0 /\ Client.dhcp.t2 = 0 /\ Client.dhcp.renew = 0 /\ Client.dhcp.rebind = 0
      /\ Client.asked = {}
  BY DEF DhcpInit, Client, NewDhcp
<1>3. IsLease(lease)
  BY DEF DhcpInit, IsLease
<1>4. Numbers(Client)
  <2>1. 0 \in 0 .. CoarseMod - 1 /\ 0 \in 0 .. 2 /\ 0 \in Nat
    BY DhcpAssumption
  <2> QED BY <1>2, <2>1 DEF Numbers
<1>5. Consistent(Client)
  BY <1>2 DEF Consistent, AskedFor, Leased
<1> QED BY <1>1, <1>2, <1>3, <1>4, <1>5, OtherKept DEF Sound

\* dhcp_start
LEMMA StartKept ==
  ASSUME LInv, Faultless, DhcpStart
  PROVE  Kept(Client, lease)'
<1> DEFINE c == [Client EXCEPT !.dhcp = NewDhcp]
<1>1. Becomes(Discovers(c)) /\ lease' = lease
  <2> DEFINE B(mem) ==
               Becomes(IF mem THEN Discover(c, mem) ELSE SetState(Discover(c, mem), "off"))
  <2>1. \E mem \in Memory : B(mem)
    BY DEF DhcpStart
  <2> HIDE DEF c, B
  <2>3. B(TRUE)
    BY <2>1, EnoughMemory
  <2>2. Becomes(Discover(c, TRUE))
    BY <2>3 DEF B
  <2> QED BY <2>2 DEF DhcpStart, Discovers
<1>2. /\ IsClient(c) /\ c.dhcp = NewDhcp
  BY ClientFacts DEF IsClient, NewDhcp
<1> HIDE DEF c
<1>3. Numbers(c) /\ c.dhcp.state = "off"
  <2>1. 0 \in 0 .. CoarseMod - 1 /\ 0 \in 0 .. 2 /\ 0 \in Nat
    BY DhcpAssumption
  <2> QED BY <1>2, <2>1 DEF Numbers, NewDhcp
<1>4. Kept(Discovers(c), lease)
  BY <1>2, <1>3, ClientFacts, DiscoverKept
<1> QED BY <1>1, <1>4, BecomingKept

\* dhcp_stop, dhcp_release, dhcp_renew
LEMMA StopKept ==
  ASSUME LInv, Faultless, DhcpStop
  PROVE  Kept(Client, lease)'
<1>1. Becomes(SetState(Client, "off")) /\ lease' = lease
  BY DEF DhcpStop
<1>2. Sound(SetState(Client, "off")) /\ SetState(Client, "off").dhcp.state = "off"
  BY ClientFacts, IdleSound
<1>3. Kept(SetState(Client, "off"), lease)
  BY <1>2, ClientFacts, OtherKept
<1> QED BY <1>1, <1>3, BecomingKept

LEMMA ReleasedKept ==
  ASSUME LInv, Faultless, DhcpRelease
  PROVE  Kept(Client, lease)'
<1>1. Becomes(Releases(Client)) /\ lease' = lease /\ dhcp.state /= "off"
  BY EnoughMemory DEF DhcpRelease, Releases
<1>2. Kept(Releases(Client), lease)
  BY <1>1, ClientFacts, ReleaseKept
<1> QED BY <1>1, <1>2, BecomingKept

LEMMA RenewedKept ==
  ASSUME LInv, Faultless, DhcpRenew
  PROVE  Kept(Client, lease)'
<1>1. Becomes(Renews(Client)) /\ lease' = lease /\ dhcp.state = "bound"
  BY EnoughMemory DEF DhcpRenew, Renews
<1>2. Client.netif.ip = NoAddress \/ Client.netif.ip = Client.dhcp.offered
  BY <1>1, ClientFacts DEF Consistent, Leased
<1>3. Client.netif.up => lease.ip = Client.netif.ip /\ Outlasts(lease.left, Client.dhcp.t2)
  BY <1>1, ClientFacts DEF Lasting
<1>4. Kept(Renews(Client), lease)
  BY <1>2, <1>3, ClientFacts, RenewKept
<1> QED BY <1>1, <1>4, BecomingKept

\* dhcp_network_changed
LEMMA ChangedKept ==
  ASSUME LInv, Faultless, NetworkChanged
  PROVE  Kept(Client, lease)'
<1> DEFINE c == [Client EXCEPT !.dhcp.tries = 0]
           d == [c EXCEPT !.netif.up = FALSE]
<1>1. /\ Becomes(Reboots(d)) \/ Becomes(Discovers(c))
      /\ lease' = lease
  BY EnoughMemory DEF NetworkChanged, Reboots, Discovers
<1>2. /\ IsClient(c) /\ c.asked = Client.asked /\ c.netif = Client.netif
      /\ c.dhcp.state = Client.dhcp.state /\ c.dhcp.offered = Client.dhcp.offered
      /\ c.dhcp.tries = 0 /\ c.dhcp.timer = Client.dhcp.timer
      /\ c.dhcp.t1 = Client.dhcp.t1 /\ c.dhcp.t2 = Client.dhcp.t2
      /\ c.dhcp.renew = Client.dhcp.renew /\ c.dhcp.rebind = Client.dhcp.rebind
  BY ClientFacts DEF IsClient
<1> HIDE DEF c
<1>3. IsClient(d) /\ d.dhcp = c.dhcp /\ d.asked = c.asked
  BY <1>2 DEF IsClient
<1> HIDE DEF d
<1>4. Numbers(c) /\ Numbers(d)
  BY <1>2, <1>3, ClientFacts DEF Numbers
<1>5. Consistent(c) /\ AskedFor(d.asked, d.dhcp.offered)
  BY <1>2, <1>3, ClientFacts DEF Consistent
<1>6. Kept(Reboots(d), lease)
  BY <1>3, <1>4, <1>5, ClientFacts, SelectKept
<1>7. Kept(Discovers(c), lease)
  BY <1>2, <1>4, <1>5, ClientFacts, DiscoverKept
<1> QED BY <1>1, <1>6, <1>7, BecomingKept

\* dhcp_fine_tmr
LEMMA FineKept ==
  ASSUME LInv, Faultless, TimesFit, DhcpFineTmr
  PROVE  Kept(Client, lease)'
<1> DEFINE c == [Client EXCEPT !.dhcp.timer = 0]
<1>1. Becomes(TimesOut(c)) /\ lease' = lease
  BY EnoughMemory DEF DhcpFineTmr, TimesOut
<1>2. /\ IsClient(c) /\ c.asked = Client.asked /\ c.netif = Client.netif
      /\ c.dhcp.state = Client.dhcp.state /\ c.dhcp.offered = Client.dhcp.offered
      /\ c.dhcp.tries = Client.dhcp.tries /\ c.dhcp.timer = 0
      /\ c.dhcp.t1 = Client.dhcp.t1 /\ c.dhcp.t2 = Client.dhcp.t2
      /\ c.dhcp.renew = Client.dhcp.renew /\ c.dhcp.rebind = Client.dhcp.rebind
  BY ClientFacts DEF IsClient
<1> HIDE DEF c
<1>3. Numbers(c) /\ Consistent(c) /\ Lasting(c, lease)
  <2>1. 0 \in 0 .. 2
    OBVIOUS
  <2> QED BY <1>2, <2>1, ClientFacts DEF Numbers, Consistent, Lasting
<1>4. ASSUME c.dhcp.state = "checking" PROVE TimeUp(c.dhcp, lease)
  <2>1. Checking(dhcp, lease) /\ Client.dhcp = dhcp
    BY <1>2, <1>4, ClientFacts
  <2> DEFINE n == dhcp.tries
             k == Spent(dhcp.tries, dhcp.timer)
  <2>2. n \in 1 .. 2 /\ dhcp.timer \in 1 .. 2 /\ lease.left + k * CoarseSecs >= LeaseTime
    BY <2>1 DEF Checking
  <2>3. k \in 0 .. 2 /\ k <= n
    BY <2>2 DEF Spent
  <2> HIDE DEF k, n
  <2>4. lease.left \in Nat /\ CoarseSecs \in Nat /\ LeaseTime \in Nat
    BY ClientFacts, DhcpAssumption DEF IsLease
  <2>5. k * CoarseSecs <= n * CoarseSecs /\ k * CoarseSecs \in Nat /\ n * CoarseSecs \in Nat
    BY ONLY <2>2, <2>3, <2>4
  <2>6. lease.left + n * CoarseSecs >= LeaseTime
    <3> DEFINE x == k * CoarseSecs
               y == n * CoarseSecs
    <3>1. x \in Nat /\ y \in Nat /\ x <= y /\ lease.left + x >= LeaseTime
      BY <2>2, <2>5
    <3> HIDE DEF x, y
    <3>2. lease.left + y >= LeaseTime
      BY <2>4, <3>1
    <3> QED BY <3>2 DEF y
  <2>7. c.dhcp.tries = n
    BY <1>2, <2>1 DEF n
  <2> QED BY <1>2, <2>1, <2>2, <2>6, <2>7 DEF TimeUp, Checking
<1>5. Kept(TimesOut(c), lease)
  BY <1>2, <1>3, <1>4, ClientFacts, TimeoutKept DEF Sound
<1> QED BY <1>1, <1>5, BecomingKept

\* One tick less of the lease, and of the counter.
LEMMA TickLess ==
  ASSUME NEW left \in Nat, NEW t \in 0 .. CoarseMod - 1,
         NEW left2, left2 = (IF left > CoarseSecs THEN left - CoarseSecs ELSE 0),
         NEW t2, t2 = (t + CoarseMod - 1) % CoarseMod
  PROVE  /\ left2 \in Nat /\ left2 + CoarseSecs >= left /\ t2 \in 0 .. CoarseMod - 1
         /\ Outlasts(left, t) /\ t /= 1 => Outlasts(left2, t2)
<1>1. CoarseSecs \in Nat /\ CoarseSecs > 0 /\ CoarseMod \in Nat /\ CoarseMod > 1
  BY DhcpAssumption
<1>2. left2 \in Nat /\ left2 + CoarseSecs >= left
  BY <1>1
<1>3. CASE t = 0
  <2>1. t2 = CoarseMod - 1
    BY <1>1, <1>3
  <2> QED BY <1>1, <1>2, <1>3, <2>1 DEF Outlasts
<1>4. CASE t >= 1
  <2>1. t2 = t - 1
    <3> DEFINE u == t - 1
    <3>1. u \in Nat /\ u < CoarseMod /\ t + CoarseMod - 1 = u + CoarseMod
      BY <1>1, <1>4
    <3>2. (u + CoarseMod) % CoarseMod = u
      BY <1>1, <3>1
    <3> QED BY <3>1, <3>2
  <2>2. t2 \in 0 .. CoarseMod - 1
    BY <1>1, <1>4, <2>1
  <2>3. ASSUME Outlasts(left, t), t /= 1 PROVE Outlasts(left2, t2)
    <3>1. t >= 2 /\ t \in Nat /\ left > (t - 1) * CoarseSecs
      BY <1>1, <1>4, <2>3 DEF Outlasts
    <3> DEFINE x == (t2 - 1) * CoarseSecs
    <3>2. (t - 1) * CoarseSecs = x + CoarseSecs /\ x \in Nat
      <4>1. PICK k \in Nat : t = k + 2
        <5>1. t - 2 \in Nat /\ t = (t - 2) + 2
          BY <3>1
        <5> QED BY <5>1
      <4>2. t - 1 = k + 1 /\ t2 - 1 = k
        BY <2>1, <4>1
      <4>3. (k + 1) * CoarseSecs = k * CoarseSecs + CoarseSecs /\ k * CoarseSecs \in Nat
        BY ONLY <1>1, <4>1
      <4> QED BY <4>2, <4>3
    <3> HIDE DEF x
    <3>3. left > x + CoarseSecs
      BY <3>1, <3>2
    <3>4. left2 > x
      BY <1>1, <3>2, <3>3
    <3> QED BY <2>1, <3>1, <3>4 DEF Outlasts, x
  <2> QED BY <1>2, <2>2, <2>3
<1> QED BY <1>1, <1>3, <1>4

\* dhcp_coarse_tmr
LEMMA CoarseKept ==
  ASSUME LInv, Faultless, DhcpCoarseTmr
  PROVE  Kept(Client, lease)'
<1> DEFINE t2 == (dhcp.t2 + CoarseMod - 1) % CoarseMod
           t1 == (dhcp.t1 + CoarseMod - 1) % CoarseMod
           c  == [Client EXCEPT !.dhcp.t2 = t2, !.dhcp.t1 = IF dhcp.t2 = 1 THEN @ ELSE t1,
                                !.dhcp.timer = IF @ = 2 THEN 1 ELSE @]
           l  == [lease EXCEPT !.left = IF @ > CoarseSecs THEN @ - CoarseSecs ELSE 0]
<1>1. /\ dhcp.timer /= 1
      /\ 1 \in {dhcp.t1, dhcp.t2} /\ dhcp.state = "requesting" => netif.ip = NoAddress
      /\ lease' = l
  BY EnoughMemory DEF DhcpCoarseTmr
<1>2. Becomes(IF dhcp.t2 = 1 THEN T2Timeout(c, TRUE)
              ELSE IF dhcp.t1 = 1 THEN T1Timeout(c, TRUE) ELSE c)
  <2>1. \E mem \in Memory : Becomes(IF dhcp.t2 = 1 THEN T2Timeout(c, mem)
                                    ELSE IF dhcp.t1 = 1 THEN T1Timeout(c, mem) ELSE c)
    BY DEF DhcpCoarseTmr
  <2> HIDE DEF c
  <2> QED BY <2>1, EnoughMemory, Zenon
<1>3. /\ Numbers(Client) /\ Client.dhcp = dhcp /\ lease.left \in Nat
      /\ dhcp.t1 \in 0 .. CoarseMod - 1 /\ dhcp.t2 \in 0 .. CoarseMod - 1
  BY ClientFacts DEF Numbers, IsLease
<1> DEFINE n1 == IF dhcp.t2 = 1 THEN dhcp.t1 ELSE t1
           n == IF dhcp.timer = 2 THEN 1 ELSE dhcp.timer
<1>4. t1 \in 0 .. CoarseMod - 1 /\ t2 \in 0 .. CoarseMod - 1
  BY <1>3, TickLess
<1>5. IsLease(l) /\ l.ip = lease.ip /\ l.left + CoarseSecs >= lease.left
      /\ (Outlasts(lease.left, dhcp.t2) /\ dhcp.t2 /= 1 => Outlasts(l.left, t2))
  <2> DEFINE x == IF lease.left > CoarseSecs THEN lease.left - CoarseSecs ELSE 0
  <2>1. /\ x \in Nat /\ x + CoarseSecs >= lease.left
        /\ Outlasts(lease.left, dhcp.t2) /\ dhcp.t2 /= 1 => Outlasts(x, t2)
    BY <1>3, TickLess
  <2>2. l.left = x /\ l.ip = lease.ip /\ DOMAIN l = {"ip", "left"}
    BY ClientFacts DEF IsLease
  <2> HIDE DEF x, l
  <2> QED BY <2>1, <2>2 DEF IsLease
<1> HIDE DEF t1, t2, l
<1>6. n1 \in 0 .. CoarseMod - 1
  BY <1>3, <1>4
<1>7. n \in 0 .. 2
  BY <1>3 DEF Numbers
<1>8. /\ IsClient(c) /\ c.asked = Client.asked /\ c.netif = Client.netif
      /\ c.dhcp.state = dhcp.state /\ c.dhcp.offered = dhcp.offered
      /\ c.dhcp.tries = dhcp.tries /\ c.dhcp.timer = n
      /\ c.dhcp.t1 = n1 /\ c.dhcp.t2 = t2
      /\ c.dhcp.renew = dhcp.renew /\ c.dhcp.rebind = dhcp.rebind
  BY <1>3, ClientFacts DEF IsClient
<1> HIDE DEF c, n1
<1>9. Numbers(c)
  BY <1>3, <1>4, <1>6, <1>7, <1>8 DEF Numbers
<1>10. Consistent(c) /\ Sound(c)
  BY <1>3, <1>8, <1>9, ClientFacts DEF Consistent, Sound
<1>11. c.netif = netif /\ (netif.up => dhcp.state \in Leased)
  BY <1>8, ClientFacts DEF Good
<1>12. ASSUME netif.up, dhcp.state \in {"bound", "renewing"}, dhcp.t2 /= 1
       PROVE  l.ip = c.netif.ip /\ Outlasts(l.left, c.dhcp.t2)
  BY <1>5, <1>8, <1>11, <1>12, ClientFacts DEF Lasting
<1>13. ASSUME dhcp.state = "checking" PROVE Checking(c.dhcp, l)
  <2>1. Checking(dhcp, lease)
    BY <1>13, ClientFacts
  <2>2. /\ lease.ip = dhcp.offered /\ dhcp.rebind \in Rebindings
        /\ dhcp.tries \in 1 .. 2 /\ dhcp.timer \in 1 .. 2
        /\ lease.left + Spent(dhcp.tries, dhcp.timer) * CoarseSecs >= LeaseTime
    BY <2>1 DEF Checking
  <2>3. dhcp.timer = 2 /\ n = 1
    BY <1>1, <2>2
  <2>4. Spent(dhcp.tries, dhcp.timer) = dhcp.tries - 1 /\ Spent(c.dhcp.tries, c.dhcp.timer) = dhcp.tries
    BY <1>8, <2>2, <2>3 DEF Spent
  <2>5. PICK k \in Nat : dhcp.tries = k + 1
    <3>1. dhcp.tries - 1 \in Nat /\ dhcp.tries = (dhcp.tries - 1) + 1
      BY <2>2
    <3> QED BY <3>1
  <2>6. CoarseSecs \in Nat /\ LeaseTime \in Nat /\ l.left \in Nat
    BY <1>5, DhcpAssumption DEF IsLease
  <2>7. (k + 1) * CoarseSecs = k * CoarseSecs + CoarseSecs /\ k * CoarseSecs \in Nat
    BY ONLY <2>6
  <2>8. l.left + dhcp.tries * CoarseSecs >= LeaseTime
    <3> DEFINE x == k * CoarseSecs
    <3>1. dhcp.tries - 1 = k
      BY <2>5
    <3>2. lease.left + x >= LeaseTime /\ x \in Nat
      BY <2>2, <2>4, <2>7, <3>1
    <3>3. dhcp.tries * CoarseSecs = x + CoarseSecs
      BY <2>5, <2>7
    <3> HIDE DEF x
    <3> QED BY <1>3, <1>5, <2>6, <3>2, <3>3
  <2>9. c.dhcp.timer \in 1 .. 2
    BY <1>8, <2>3
  <2> QED BY <1>5, <1>8, <2>2, <2>4, <2>8, <2>9 DEF Checking
<1>14. dhcp.t2 /= 1 \/ dhcp.state \notin {"bound", "renewing"} => Kept(c, l)
  BY <1>5, <1>8, <1>10, <1>11, <1>12, <1>13 DEF Kept, Lasting
<1>15. dhcp.state \in {"bound", "renewing"} => c.netif.ip = NoAddress \/ c.netif.ip = c.dhcp.offered
  BY <1>8, <1>10 DEF Consistent, Leased
<1>16. CASE dhcp.t2 = 1
  <2>1. Becomes(T2Timeout(c, TRUE))
    BY <1>2, <1>16
  <2>2. CASE dhcp.state \in {"requesting", "bound", "renewing"}
    <3>1. T2Timeout(c, TRUE) = Rebinds(c)
      BY <1>8, <2>2 DEF T2Timeout, Rebinds
    <3>2. c.netif.ip = NoAddress \/ c.netif.ip = c.dhcp.offered
      BY <1>1, <1>11, <1>15, <1>16, <2>2
    <3>3. Kept(Rebinds(c), l)
      BY <1>5, <1>10, <3>2, RebindKept
    <3> QED BY <1>1, <2>1, <3>1, <3>3, BecomingKept
  <2>3. CASE dhcp.state \notin {"requesting", "bound", "renewing"}
    <3>1. T2Timeout(c, TRUE) = c
      BY <1>8, <2>3 DEF T2Timeout
    <3> QED BY <1>1, <1>14, <2>1, <2>3, <3>1, BecomingKept
  <2> QED BY <2>2, <2>3
<1>17. CASE dhcp.t2 /= 1 /\ dhcp.t1 = 1
  <2>1. Becomes(T1Timeout(c, TRUE))
    BY <1>2, <1>17
  <2>2. CASE dhcp.state \in {"requesting", "bound", "renewing"}
    <3>1. T1Timeout(c, TRUE) = Renews(c)
      BY <1>8, <2>2 DEF T1Timeout, Renews
    <3>2. c.netif.ip = NoAddress \/ c.netif.ip = c.dhcp.offered
      BY <1>1, <1>11, <1>15, <1>17, <2>2
    <3>3. c.netif.up => l.ip = c.netif.ip /\ Outlasts(l.left, c.dhcp.t2)
      BY <1>11, <1>12, <1>17, <2>2 DEF Leased
    <3>4. Kept(Renews(c), l)
      BY <1>5, <1>10, <3>2, <3>3, RenewKept
    <3> QED BY <1>1, <2>1, <3>1, <3>4, BecomingKept
  <2>3. CASE dhcp.state \notin {"requesting", "bound", "renewing"}
    <3>1. T1Timeout(c, TRUE) = c
      BY <1>8, <2>3 DEF T1Timeout
    <3> QED BY <1>1, <1>14, <2>1, <2>3, <3>1, BecomingKept
  <2> QED BY <2>2, <2>3
<1>18. CASE dhcp.t2 /= 1 /\ dhcp.t1 /= 1
  BY <1>1, <1>2, <1>14, <1>18, BecomingKept
<1> QED BY <1>16, <1>17, <1>18

\* dhcp_recv, an offer: nothing else was promised
LEMMA OfferKept ==
  ASSUME LInv, Faultless, NEW a \in Addresses, RecvOffer(a)
  PROVE  Kept(Client, lease)'
<1> DEFINE c == [Client EXCEPT !.dhcp.timer = 0]
           d == [c EXCEPT !.dhcp.offered = a]
<1>1. /\ Becomes(Selects(d)) \/ Becomes(c)
      /\ lease' = lease /\ dhcp.state = "selecting"
  BY EnoughMemory DEF RecvOffer, Selects
<1>2. /\ IsClient(c) /\ c.asked = Client.asked /\ c.netif = Client.netif
      /\ c.dhcp.state = Client.dhcp.state /\ c.dhcp.offered = Client.dhcp.offered
      /\ c.dhcp.tries = Client.dhcp.tries /\ c.dhcp.timer = 0
      /\ c.dhcp.t1 = Client.dhcp.t1 /\ c.dhcp.t2 = Client.dhcp.t2
      /\ c.dhcp.renew = Client.dhcp.renew /\ c.dhcp.rebind = Client.dhcp.rebind
  BY ClientFacts DEF IsClient
<1> HIDE DEF c
<1>3. /\ IsClient(d) /\ d.asked = c.asked
      /\ d.dhcp.tries = c.dhcp.tries /\ d.dhcp.timer = 0
      /\ d.dhcp.t1 = c.dhcp.t1 /\ d.dhcp.t2 = c.dhcp.t2
      /\ d.dhcp.renew = c.dhcp.renew /\ d.dhcp.rebind = c.dhcp.rebind
  BY <1>2 DEF IsClient
<1> HIDE DEF d
<1>4. Numbers(c) /\ Numbers(d) /\ Consistent(c)
  <2>1. 0 \in 0 .. 2
    OBVIOUS
  <2> QED BY <1>2, <1>3, <2>1, ClientFacts DEF Numbers, Consistent
<1>5. AskedFor(d.asked, d.dhcp.offered)
  <2>1. AskedFor(Client.asked, NoAddress)
    BY <1>1, ClientFacts DEF Consistent
  <2> QED BY <1>2, <1>3, <2>1 DEF AskedFor
<1>6. Kept(Selects(d), lease)
  BY <1>3, <1>4, <1>5, ClientFacts, SelectKept
<1>7. Kept(c, lease)
  BY <1>1, <1>2, <1>4, ClientFacts, OtherKept DEF Sound
<1> QED BY <1>1, <1>6, <1>7, BecomingKept

\* What is acknowledged is what was offered.
LEMMA AckOfOffer ==
  ASSUME LInv, NEW a, \E m \in Answerable : m.ip = a
  PROVE  a = dhcp.offered
<1>1. PICK m \in asked : m.kind \in Promising /\ m.ip /= NoAddress /\ m.ip = a
  BY DEF Answerable, Promising
<1>2. AskedFor(asked, dhcp.offered)
  BY ClientFacts
<1> QED BY <1>1, <1>2 DEF AskedFor

\* dhcp_recv, an ACK
LEMMA AckKept ==
  ASSUME LInv, TimesFit, NEW a \in Addresses, RecvAck(a)
  PROVE  Kept(Client, lease)'
<1> DEFINE l == [ip |-> a, left |-> LeaseTime]
<1>1. a = dhcp.offered
  BY AckOfOffer DEF RecvAck
<1>2. lease' = l
  BY DEF RecvAck
<1>3. LeaseTime \in Nat /\ CoarseSecs \in Nat /\ LeaseTime > 0
  BY DhcpAssumption DEF TimesFit
<1>4. IsLease(l) /\ l.ip = a /\ l.left = LeaseTime
  BY <1>3 DEF IsLease
<1> HIDE DEF l
<1>5. CASE dhcp.state = "requesting" /\ \E times \in AckTimes :
                                          Becomes(Check(HandleAck(Client, a, times)))
  <2> PICK times \in AckTimes : Becomes(Check(HandleAck(Client, a, times)))
    BY <1>5
  <2> DEFINE c == HandleAck(Client, a, times)
  <2>1. /\ IsClient(c) /\ c.asked = Client.asked
        /\ c.netif = Client.netif /\ c.dhcp.state = Client.dhcp.state
        /\ c.dhcp.offered = a /\ c.dhcp.renew = times[1] /\ c.dhcp.rebind = times[2]
        /\ c.dhcp.tries = Client.dhcp.tries /\ c.dhcp.timer = Client.dhcp.timer
        /\ c.dhcp.t1 = Client.dhcp.t1 /\ c.dhcp.t2 = Client.dhcp.t2
    BY ClientFacts DEF IsClient, HandleAck
  <2>2. Becomes(Check(c))
    OBVIOUS
  <2> HIDE DEF c
  <2>3. times[1] \in Nat /\ times[2] \in Rebindings
    BY DEF TimesFit, Rebindings
  <2>4. Numbers(c)
    BY <2>1, <2>3, ClientFacts DEF Numbers
  <2>5. Consistent(c)
    BY <1>1, <2>1, ClientFacts DEF Consistent
  <2>6. Sound(c)
    BY <2>1, <2>4, <2>5 DEF Sound
  <2>7. c.dhcp.state /= "checking" /\ l.left >= LeaseTime
    BY <1>3, <1>4, <1>5, <2>1, ClientFacts
  <2>8. Kept(Check(c), l)
    BY <1>4, <2>1, <2>3, <2>6, <2>7, CheckKept
  <2> QED BY <1>2, <2>2, <2>8, BecomingKept
<1>6. CASE Becomes(Bind(Client))
  <2> DEFINE t == Client.dhcp.rebind
             n == CoarseTicks(t)
  <2>1. Outlasts(LeaseTime, n)
    <3>1. CASE t \in Rebindings
      <4> DEFINE p == (n - 1) * CoarseSecs
      <4>1. n \in Nat /\ n >= 1 /\ p + 2 * CoarseSecs < LeaseTime
        BY <3>1, TicksFit
      <4> HIDE DEF n
      <4>2. n - 1 \in Nat
        BY <4>1
      <4>3. p \in Nat
        BY <1>3, <4>2
      <4> HIDE DEF p
      <4>4. LeaseTime > p
        BY <1>3, <4>1, <4>3
      <4> QED BY <4>1, <4>4 DEF Outlasts, p
    <3>2. CASE t = 0
      <4> DEFINE h == CoarseSecs \div 2
      <4>1. h \in Nat /\ h < CoarseSecs /\ CoarseSecs > 0
        BY DhcpAssumption
      <4> HIDE DEF h
      <4>2. (0 + h) \div CoarseSecs = 0
        BY <1>3, <4>1
      <4>3. CoarseTicks(0) = 1
        BY <4>2 DEF CoarseTicks, h
      <4>4. n = 1
        BY <3>2, <4>3
      <4> HIDE DEF n
      <4>5. (1 - 1) * CoarseSecs = 0
        BY <1>3
      <4> QED BY <1>3, <4>4, <4>5 DEF Outlasts
    <3> QED BY <3>1, <3>2, ClientFacts DEF Numbers
  <2>2. Outlasts(l.left, CoarseTicks(Client.dhcp.rebind))
    BY <1>4, <2>1
  <2>3. l.ip = Client.dhcp.offered
    BY <1>1, <1>4, ClientFacts
  <2>4. Kept(Bind(Client), l)
    BY <1>4, <2>2, <2>3, ClientFacts, BindKept
  <2> QED BY <1>2, <1>6, <2>4, BecomingKept
<1> QED BY <1>5, <1>6 DEF RecvAck

\* dhcp_recv, a NAK, and dhcp_arp_reply
LEMMA RefusedKept ==
  ASSUME LInv, Faultless, RecvNak \/ DhcpArpReply
  PROVE  Kept(Client, lease)'
<1>1. /\ Becomes(HandlesNak(Client)) \/ Becomes(Declines(Client))
      /\ lease' = lease
  BY EnoughMemory DEF RecvNak, DhcpArpReply, HandlesNak, Declines
<1>2. Kept(HandlesNak(Client), lease)
  BY ClientFacts, NakKept
<1>3. Kept(Declines(Client), lease)
  BY ClientFacts, SelectKept
<1> QED BY <1>1, <1>2, <1>3, BecomingKept

\* A request or its answer is lost.
LEMMA LostKept ==
  ASSUME LInv, RequestLost
  PROVE  Kept(Client, lease)'
<1> DEFINE c == [dhcp |-> dhcp, netif |-> netif, asked |-> asked']
<1>1. /\ asked' \subseteq asked
      /\ UNCHANGED <<dhcp, netif, lease>>
  BY DEF RequestLost
<1>2. c.dhcp = Client.dhcp /\ c.netif = Client.netif /\ c.asked \subseteq Client.asked
      /\ DOMAIN c = {"dhcp", "netif", "asked"}
  BY <1>1 DEF Client
<1>3. Becomes(c)
  BY <1>1 DEF Becomes
<1> HIDE DEF c
<1>4. IsClient(c) /\ Numbers(c) /\ Lasting(c, lease)
  BY <1>2, ClientFacts DEF IsClient, Numbers, Lasting
<1>5. Consistent(c)
  BY <1>2, ClientFacts DEF Consistent, AskedFor
<1>6. Kept(c, lease)
  BY <1>2, <1>4, <1>5, ClientFacts DEF Kept, Sound
<1> QED BY <1>1, <1>3, <1>6, BecomingKept

LEMMA KeptNext ==
  ASSUME Faultless, TimesFit, LInv, [DhcpNext]_dhcpVars
  PROVE  LInv'
<1>1. IInv'
  BY EnoughMemory, InvNext DEF LInv, IInv
<1>2. Kept(Client, lease)'
  <2>1. CASE UNCHANGED dhcpVars
    BY <2>1 DEF dhcpVars, LInv, Client, Kept, Sound, IsLease, Numbers, Consistent, IsClient, Lasting
  <2> QED BY <2>1, StartKept, StopKept, ReleasedKept, RenewedKept, ChangedKept, FineKept,
             CoarseKept, OfferKept, AckKept, RefusedKept, LostKept DEF DhcpNext
<1> QED BY <1>1, <1>2 DEF LInv, IInv

\* While the client takes its lease for granted, the server has granted this
\* address and the time is not over (LeaseKept), whatever was renewed, refused,
\* lost or repeated and whatever timers of earlier leases do: dhcp_t2_timeout comes
\* before the end, although dhcp_bind starts the counters up to two ticks after the ACK.
THEOREM DhcpLeaseKept ==
  ASSUME Faultless, TimesFit
  PROVE  DhcpSpec => []LeaseKept
<1>1. LInv => LeaseKept
  <2> SUFFICES ASSUME LInv, netif.up, dhcp.state \in {"bound", "renewing"}
               PROVE  lease.ip = netif.ip /\ lease.left > 0
    BY DEF LeaseKept
  <2>1. lease.ip = netif.ip /\ Outlasts(lease.left, dhcp.t2) /\ lease.left \in Nat
    BY ClientFacts DEF Lasting, IsLease
  <2>2. dhcp.t2 \in 0 .. CoarseMod - 1 /\ CoarseSecs \in Nat /\ CoarseMod \in Nat
    BY ClientFacts, DhcpAssumption DEF Numbers
  <2>3. dhcp.t2 - 1 \in Nat
    BY <2>1, <2>2 DEF Outlasts
  <2>4. (dhcp.t2 - 1) * CoarseSecs \in Nat
    BY <2>2, <2>3
  <2> QED BY <2>1, <2>4 DEF Outlasts
<1>2. LInv /\ [DhcpNext]_dhcpVars => LInv'
  BY KeptNext
<1>3. DhcpInit => LInv
  BY InvInit, KeptInit DEF LInv, IInv
<1> QED BY <1>1, <1>2, <1>3, PTL DEF DhcpSpec
=============================================================================
