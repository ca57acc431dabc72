-------------------------------- MODULE Dhcp --------------------------------
(***************************************************************************)
(* The DHCP client (dhcp.c) of one interface, with the check of the        *)
(* address by ARP, and a server that it reaches over a network that loses, *)
(* delays and repeats messages.  A reply to an earlier transaction is      *)
(* dropped unread, so only the requests of the present one are kept.       *)
(***************************************************************************)
EXTENDS Naturals

CONSTANTS
  Addresses,    \* the addresses the server may offer
  Squatted,     \* those that another host uses already
  NoAddress,    \* IP_ADDR_ANY
  LeaseTime,    \* what the server grants, in units of time
  AckTimes,     \* renewal and rebinding times: given with an ACK or computed
  CoarseSecs,   \* DHCP_COARSE_TIMER_SECS, in the same units
  CoarseMod,    \* the coarse counters have 16 bits
  SelectTries,  \* 5 in the code
  RebindTries,  \* 8 in the code
  RebootTries,  \* REBOOT_TRIES
  MaxTries,     \* bound on tries
  Mishaps       \* what the properties do not hold with

ASSUME DhcpAssumption ==
  /\ Squatted \subseteq Addresses /\ NoAddress \notin Addresses
  /\ CoarseSecs \in Nat \ {0} /\ CoarseMod \in Nat \ {0, 1} /\ LeaseTime \in Nat
  /\ MaxTries \in Nat /\ MaxTries > SelectTries /\ MaxTries > RebindTries
  /\ Mishaps \subseteq 
                   {"noMemory", "noServerId", "restart", "stopBound", "oldLease"}

VARIABLES
  dhcp,         \* the fields of struct dhcp
  netif,        \* the address of the interface, and whether it is up
  asked,        \* the requests with the transaction id of dhcp
  lease         \* the address acknowledged last, and the time that is left

dhcpVars == <<dhcp, netif, asked, lease>>

-----------------------------------------------------------------------------
(* The functions of the client, on all it changes: cl has dhcp, netif and   *)
(* asked; mem tells whether there is memory for a message.                  *)

Client == [dhcp |-> dhcp, netif |-> netif, asked |-> asked]
Becomes(cl) == dhcp' = cl.dhcp /\ netif' = cl.netif /\ asked' = cl.asked

\* dhcp_set_state
SetState(cl, s) ==
  IF s = cl.dhcp.state THEN cl
    ELSE [cl EXCEPT !.dhcp.state = s, !.dhcp.tries = 0, !.dhcp.timer = 0]

\* dhcp_create_msg and what follows: the first try has a transaction id of its
\* own; the timer is set with or without a message.  A timer that was just set
\* is 2, one that has seen a coarse tick is 1.
Request(cl, kind, ip, mem) ==
  LET m == [kind |-> kind, ip |-> ip]
  IN  [cl EXCEPT !.asked = IF ~mem THEN @ ELSE IF cl.dhcp.tries = 0 THEN {m} ELSE @ \cup {m},
                 !.dhcp.tries = IF @ < MaxTries THEN @ + 1 ELSE @,
                 !.dhcp.timer = 2]

Discover(cl, mem) ==
  Request(SetState([cl EXCEPT !.dhcp.offered = NoAddress], "selecting"),
          "discover", NoAddress, mem)
Select(cl, mem) == Request(SetState(cl, "requesting"), "request", cl.dhcp.offered, mem)
Renew(cl, mem) == Request(SetState(cl, "renewing"), "renew", cl.netif.ip, mem)
Rebind(cl, mem) == Request(SetState(cl, "rebinding"), "rebind", cl.netif.ip, mem)
Reboot(cl, mem) == Request(SetState(cl, "rebooting"), "reboot", cl.dhcp.offered, mem)
Decline(cl, mem) == Request(SetState(cl, "backing_off"), "decline", cl.dhcp.offered, mem)

Down(cl) == [cl EXCEPT !.netif = [ip |-> NoAddress, up |-> FALSE]]

\* dhcp_release
Release(cl, mem) ==
  Down(Request([SetState(cl, "off") EXCEPT !.dhcp.offered = NoAddress,
                                           !.dhcp.renew = 0, !.dhcp.rebind = 0],
               "release", NoAddress, mem))

\* Mutant: the interface keeps the address the server has refused.
HandleNak_StaysUp(cl, mem) == Discover(SetState(cl, "backing_off"), mem)

\* dhcp_handle_nak
HandleNak(cl, mem) == Discover(SetState(Down(cl), "backing_off"), mem)

\* dhcp_check: two ARP requests
Check(cl) ==
  LET c == SetState(cl, "checking")
  IN  [c EXCEPT !.dhcp.tries = @ + 1, !.dhcp.timer = 2]

\* dhcp_handle_ack
HandleAck(cl, ip, times) ==
  [cl EXCEPT !.dhcp.offered = ip, !.dhcp.renew = times[1], !.dhcp.rebind = times[2]]

\* Seconds to ticks of the coarse timer, 16 bits of them, and at least one.
CoarseTicks(secs) ==
  LET t == (secs + CoarseSecs \div 2) \div CoarseSecs
  IN  IF t = 0 THEN 1 ELSE IF t >= CoarseMod THEN CoarseMod - 1 ELSE t

\* dhcp_bind
Bind(cl) ==
  LET t1 == CoarseTicks(cl.dhcp.renew)
      t2 == CoarseTicks(cl.dhcp.rebind)
  IN  SetState([cl EXCEPT !.dhcp.t1 = IF t1 >= t2 THEN 0 ELSE t1, !.dhcp.t2 = t2,
                          !.netif = [ip |-> cl.dhcp.offered, up |-> TRUE]],
               "bound")

\* Mutant: a client that is renewing already is not told.
T2Timeout_BoundOnly(cl, mem) ==
  IF cl.dhcp.state \in {"requesting", "bound"} THEN Rebind(cl, mem) ELSE cl

\* dhcp_t1_timeout, dhcp_t2_timeout
T1Timeout(cl, mem) ==
  IF cl.dhcp.state \in {"requesting", "bound", "renewing"} THEN Renew(cl, mem) ELSE cl

T2Timeout(cl, mem) ==
  IF cl.dhcp.state \in {"requesting", "bound", "renewing"} THEN Rebind(cl, mem) ELSE cl

\* Mutant: a client that declined an address waits for ever.
Timeout_NoBackOff(cl, mem) ==
  CASE cl.dhcp.state = "selecting" -> Discover(cl, mem)
    [] cl.dhcp.state = "requesting" -> IF cl.dhcp.tries <= SelectTries THEN Select(cl, mem)
                                       ELSE Discover(Release(cl, mem), mem)
    [] cl.dhcp.state = "checking" -> IF cl.dhcp.tries <= 1 THEN Check(cl) ELSE Bind(cl)
    [] cl.dhcp.state = "renewing" -> Renew(cl, mem)
    [] cl.dhcp.state = "rebinding" -> IF cl.dhcp.tries <= RebindTries THEN Rebind(cl, mem)
                                      ELSE Discover(Release(cl, mem), mem)
    [] cl.dhcp.state = "rebooting" -> IF cl.dhcp.tries < RebootTries THEN Reboot(cl, mem)
                                      ELSE Discover(cl, mem)
    [] OTHER -> cl

\* dhcp_timeout
Timeout(cl, mem) ==
  CASE cl.dhcp.state \in {"backing_off", "selecting"} -> Discover(cl, mem)
    [] cl.dhcp.state = "requesting" -> IF cl.dhcp.tries <= SelectTries THEN Select(cl, mem)
                                       ELSE Discover(Release(cl, mem), mem)
    [] cl.dhcp.state = "checking" -> IF cl.dhcp.tries <= 1 THEN Check(cl) ELSE Bind(cl)
    [] cl.dhcp.state = "renewing" -> Renew(cl, mem)
    [] cl.dhcp.state = "rebinding" -> IF cl.dhcp.tries <= RebindTries THEN Rebind(cl, mem)
                                      ELSE Discover(Release(cl, mem), mem)
    [] cl.dhcp.state = "rebooting" -> IF cl.dhcp.tries < RebootTries THEN Reboot(cl, mem)
                                      ELSE Discover(cl, mem)
    [] OTHER -> cl

-----------------------------------------------------------------------------
(* The API. *)

Memory == IF "noMemory" \in Mishaps THEN BOOLEAN ELSE {TRUE}
NewDhcp == [state |-> "off", tries |-> 0, timer |-> 0, t1 |-> 0, t2 |-> 0,
            offered |-> NoAddress, renew |-> 0, rebind |-> 0]

\* dhcp_start; if the first message cannot be sent, dhcp_stop is called.
DhcpStart ==
  /\ netif.up => "restart" \in Mishaps
  /\ \E mem \in Memory :
       LET started == Discover([Client EXCEPT !.dhcp = NewDhcp], mem)
       IN  Becomes(IF mem THEN started ELSE SetState(started, "off"))
  /\ UNCHANGED lease

DhcpStop ==
  /\ netif.up => "stopBound" \in Mishaps
  /\ dhcp.state /= "off"
  /\ Becomes(SetState(Client, "off"))
  /\ UNCHANGED lease

DhcpRelease ==
  /\ dhcp.state /= "off"
  /\ \E mem \in Memory : Becomes(Release(Client, mem))
  /\ UNCHANGED lease

\* dhcp_renew, of a lease
DhcpRenew ==
  /\ dhcp.state = "bound"
  /\ \E mem \in Memory : Becomes(Renew(Client, mem))
  /\ UNCHANGED lease

\* dhcp_network_changed
NetworkChanged ==
  /\ dhcp.state /= "off"
  /\ LET again == [Client EXCEPT !.dhcp.tries = 0]
     IN  \E mem \in Memory :
           Becomes(IF dhcp.state \in {"rebinding", "renewing", "bound", "rebooting"}
                     THEN Reboot([again EXCEPT !.netif.up = FALSE], mem)
                     ELSE Discover(again, mem))
  /\ UNCHANGED lease

-----------------------------------------------------------------------------
(* The timers. *)

\* dhcp_fine_tmr, when the time of a request is over: it may be any.
DhcpFineTmr ==
  /\ dhcp.timer > 0
  /\ \E mem \in Memory : Becomes(Timeout([Client EXCEPT !.dhcp.timer = 0], mem))
  /\ UNCHANGED lease

\* dhcp_coarse_tmr, which counts down even what is zero.  No request waits for
\* longer than one period of this timer.  A mishap: a timer of an earlier lease
\* fires while another address is requested and the old one is still there.
DhcpCoarseTmr ==
  LET t2 == (dhcp.t2 + CoarseMod - 1) % CoarseMod
      t1 == (dhcp.t1 + CoarseMod - 1) % CoarseMod
      cl == [Client EXCEPT !.dhcp.t2 = t2, !.dhcp.t1 = IF dhcp.t2 = 1 THEN @ ELSE t1,
                           !.dhcp.timer = IF @ = 2 THEN 1 ELSE @]
  IN  /\ dhcp.timer /= 1
      /\ 1 \in {dhcp.t1, dhcp.t2} /\ dhcp.state = "requesting" /\ netif.ip /= NoAddress
           => "oldLease" \in Mishaps
      /\ \E mem \in Memory :
           Becomes(IF dhcp.t2 = 1 THEN T2Timeout(cl, mem)
                   ELSE IF dhcp.t1 = 1 THEN T1Timeout(cl, mem) ELSE cl)
      /\ lease' = [lease EXCEPT !.left = IF @ > CoarseSecs THEN @ - CoarseSecs ELSE 0]

-----------------------------------------------------------------------------
(* dhcp_recv, of replies with the right transaction id.  The server has     *)
(* received a request before it answers; the network may repeat the answer. *)

RecvOffer(a) ==
  /\ dhcp.state = "selecting"
  /\ \E m \in asked : m.kind = "discover"
  /\ LET cl == [Client EXCEPT !.dhcp.timer = 0]
     IN  \/ \E mem \in Memory : Becomes(Select([cl EXCEPT !.dhcp.offered = a], mem))
         \/ "noServerId" \in Mishaps /\ Becomes(cl)
  /\ UNCHANGED lease

Answerable == {m \in asked : /\ m.kind \in {"request", "renew", "rebind", "reboot"}
                             /\ m.ip /= NoAddress}

RecvAck(a) ==
  /\ \E m \in Answerable : m.ip = a
  /\ \/ dhcp.state = "requesting"
        /\ \E times \in AckTimes : Becomes(Check(HandleAck(Client, a, times)))
     \/ dhcp.state \in {"rebooting", "rebinding", "renewing"} /\ Becomes(Bind(Client))
  /\ lease' = [ip |-> a, left |-> LeaseTime]

RecvNak ==
  /\ Answerable /= {}
  /\ dhcp.state \in {"rebooting", "requesting", "rebinding", "renewing"}
  /\ \E mem \in Memory : Becomes(HandleNak(Client, mem))
  /\ UNCHANGED lease

\* dhcp_arp_reply: somebody has the address that is being checked.
DhcpArpReply ==
  /\ dhcp.state = "checking" /\ dhcp.offered \in Squatted
  /\ \E mem \in Memory : Becomes(Decline(Client, mem))
  /\ UNCHANGED lease

\* A request or the answer to it is lost.
RequestLost ==
  /\ \E m \in asked : asked' = asked \ {m}
  /\ UNCHANGED <<dhcp, netif, lease>>

-----------------------------------------------------------------------------
DhcpInit ==
  /\ dhcp = NewDhcp
  /\ netif = [ip |-> NoAddress, up |-> FALSE]
  /\ asked = {}
  /\ lease = [ip |-> NoAddress, left |-> 0]

DhcpNext ==
  \/ DhcpStart \/ DhcpStop \/ DhcpRelease \/ DhcpRenew \/ NetworkChanged
  \/ DhcpFineTmr \/ DhcpCoarseTmr
  \/ \E a \in Addresses : RecvOffer(a)
  \/ \E a \in Addresses : RecvAck(a)
  \/ RecvNak \/ DhcpArpReply \/ RequestLost

\* The timers run; a server that is asked again and again answers, in the
\* end with an address that is free.
DhcpFairness ==
  /\ WF_dhcpVars(DhcpFineTmr) /\ WF_dhcpVars(DhcpCoarseTmr)
  /\ \A a \in Addresses : SF_dhcpVars(RecvOffer(a)) /\ SF_dhcpVars(RecvAck(a))

DhcpSpec == DhcpInit /\ [][DhcpNext]_dhcpVars /\ DhcpFairness

\* While the client takes its lease for granted, the time that the server has
\* granted with its last ACK is not over, and it was granted for this address:
\* whatever was renewed, refused or started again, and whatever the timers of
\* earlier leases do (dhcp_bind, dhcp_t2_timeout).
LeaseKept ==
  netif.up /\ dhcp.state \in {"bound", "renewing"} =>
    lease.ip = netif.ip /\ lease.left > 0

\* The interface is up only with a lease: with the address that was offered, and
\* in a state that looks after it (RFC 2131; dhcp_handle_nak, dhcp_release,
\* dhcp_network_changed).
UpOnlyWithLease ==
  netif.up => /\ dhcp.state \in {"bound", "renewing", "rebinding"}
              /\ netif.ip = dhcp.offered /\ netif.ip /= NoAddress

\* A client that was started gets an address in the end, unless it is stopped,
\* or started again and again, or the network changes again and again.
ComesUp ==
  \/ []<><<NetworkChanged \/ DhcpStart>>_dhcpVars
  \/ dhcp.state /= "off" ~> (netif.up \/ dhcp.state = "off")
=============================================================================
