------------------------------ MODULE TcpPorts ------------------------------
(***************************************************************************)
(* Ports, binding and listening in tcp.c, and how tcp_input finds the pcb  *)
(* of a segment.  The four lists of pcbs are what they are in the code:    *)
(* heads and next pointers, changed by TCP_REG and TCP_RMV.  What happens  *)
(* between two ends of a connection is in TcpPcb.                          *)
(***************************************************************************)
EXTENDS Naturals, FiniteSets

CONSTANTS
  Pcbs,         \* MEMP_NUM_TCP_PCB
  Listeners,    \* MEMP_NUM_TCP_PCB_LISTEN
  Null,
  Remotes,      \* address and port of the other end
  NoRemote,
  IpAny,        \* IP_ADDR_ANY
  Here,         \* the address of the interface
  RangeStart,   \* TCP_LOCAL_PORT_RANGE_START
  RangeEnd,     \* TCP_LOCAL_PORT_RANGE_END
  AppPorts,     \* the ports the application asks for
  Misuse        \* what the application does that no check of the code stops

ASSUME PortAssumption ==
  /\ RangeStart \in Nat \ {0} /\ RangeEnd \in Nat /\ RangeStart <= RangeEnd
  /\ AppPorts \subseteq Nat \ {0}
  /\ Misuse \subseteq {"bindActive", "abortBound", "retryConnect"}
  /\ IpAny /= Here /\ Null \notin Pcbs \cup Listeners
  /\ IsFiniteSet(Pcbs) /\ IsFiniteSet(Listeners) /\ Pcbs \cap Listeners = {}

VARIABLES
  pcb,          \* state, local address and port, the other end
  lists,        \* the heads of the four lists, and the next pointers
  tcp_port      \* the port tcp_new_port gave last

portVars == <<pcb, lists, tcp_port>>

All == Pcbs \cup Listeners
Unused == [state |-> "free", ip |-> IpAny, port |-> 0, remote |-> NoRemote]
InState(s) == {p \in All : pcb[p].state = s}

-----------------------------------------------------------------------------
(* The lists. *)

\* The pcbs that a walk along a list meets.
Walk(L, name) ==
  LET f[n \in 0 .. Cardinality(All)] ==
        IF n = 0 THEN {L.head[name]} \ {Null}
        ELSE LET met == f[n - 1] IN met \cup ({L.next[p] : p \in met} \ {Null})
  IN  f[Cardinality(All)]

Listed(name) == Walk(lists, name)
AllListed == UNION {Listed(name) : name \in DOMAIN lists.head}

\* TCP_REG
Reg(L, name, p) ==
  [head |-> [L.head EXCEPT ![name] = p], next |-> [L.next EXCEPT ![p] = L.head[name]]]

\* TCP_RMV: the next pointer is cleared wherever the pcb was.
Rmv(L, name, p) ==
  LET before == {q \in Walk(L, name) : L.next[q] = p}
  IN  IF L.head[name] = p
        THEN [head |-> [L.head EXCEPT ![name] = L.next[p]],
              next |-> [L.next EXCEPT ![p] = Null]]
        ELSE [L EXCEPT !.next = [q \in All |->
               IF q = p THEN Null ELSE IF q \in before THEN L.next[p] ELSE L.next[q]]]

\* Mutant: the old successor is kept.
ToFront_Cut(L, name, p) ==
  IF L.head[name] = p THEN L
    ELSE [head |-> [L.head EXCEPT ![name] = p], next |-> [L.next EXCEPT ![p] = L.head[name]]]

\* tcp_input: the pcb that is found moves to the front of its list.
ToFront(L, name, p) == IF L.head[name] = p THEN L ELSE Reg(Rmv(L, name, p), name, p)

-----------------------------------------------------------------------------
(* Ports. *)

PortRange == RangeStart .. RangeEnd
Nth(n) == RangeStart + ((tcp_port - RangeStart + n) % Cardinality(PortRange))
PortTaken(port) == \E p \in AllListed : pcb[p].port = port

\* Mutant: the search ends one port too early.
Tries_OneShort == RangeEnd - RangeStart

\* tcp_new_port gives up after as many ports that are taken.
Tries == RangeEnd - RangeStart + 1

\* tcp_new_port: the port, 0 if there is none, and where the search stops.
NewPort ==
  LET free == {n \in 1 .. Tries : ~PortTaken(Nth(n))}
  IN  IF free = {} THEN [port |-> 0, last |-> Nth(Tries)]
      ELSE LET n == CHOOSE n \in free : \A m \in free : n <= m
           IN  [port |-> Nth(n), last |-> Nth(n)]

Overlap(a, b) == a = IpAny \/ b = IpAny \/ a = b

\* Mutant: a wildcard address only collides with itself.
InUse_ExactAddress(ip, port) == \E p \in AllListed : pcb[p].port = port /\ pcb[p].ip = ip

\* The search of tcp_bind through all lists.
InUse(ip, port) == \E p \in AllListed : pcb[p].port = port /\ Overlap(pcb[p].ip, ip)

-----------------------------------------------------------------------------
(* Allocation. *)

PcbFreed(p) == [pcb EXCEPT ![p] = Unused]

\* tcp_alloc: a free pcb, or the oldest in TIME_WAIT, or the oldest active one.
PcbAllocations ==
  LET kill(name) == {[p |-> v, lists |-> Rmv(lists, name, v)] : v \in Listed(name)}
      free == InState("free") \cap Pcbs
  IN  IF free /= {} THEN {[p |-> v, lists |-> lists] : v \in free}
      ELSE IF Listed("timewait") /= {} THEN kill("timewait")
      ELSE kill("active")

Zeroed(a) == [a.lists EXCEPT !.next[a.p] = Null]

-----------------------------------------------------------------------------
(* The API. *)

\* A pcb whose tcp_connect failed keeps a port that is on no list.
Failed(p) == pcb[p].state = "closed" /\ pcb[p].port /= 0 /\ p \notin Listed("bound")
Fresh(p) == pcb[p].state = "closed" /\ (Failed(p) => "retryConnect" \in Misuse)

\* tcp_new
TcpNew ==
  \E a \in PcbAllocations :
    /\ pcb' = [pcb EXCEPT ![a.p] = [Unused EXCEPT !.state = "closed"]]
    /\ lists' = Zeroed(a)
    /\ UNCHANGED tcp_port

\* tcp_bind, of a pcb that is not bound; the state is not looked at.
TcpBind(p, ip, port) ==
  LET chosen == IF port = 0 THEN NewPort ELSE [port |-> port, last |-> tcp_port]
  IN  /\ \/ pcb[p].state = "closed" /\ pcb[p].port = 0
         \/ pcb[p].state = "active" /\ "bindActive" \in Misuse
      /\ tcp_port' = chosen.last
      /\ IF chosen.port = 0 \/ InUse(ip, chosen.port)
           THEN UNCHANGED <<pcb, lists>>
           ELSE /\ pcb' = [pcb EXCEPT ![p].port = chosen.port,
                                      ![p].ip = IF ip = IpAny THEN @ ELSE ip]
                /\ lists' = Reg(lists, "bound", p)

\* tcp_listen: a smaller pcb takes the place of p.
TcpListen(p) ==
  /\ Fresh(p) /\ pcb[p].port /= 0
  /\ \E l \in InState("free") \cap Listeners :
       /\ pcb' = [pcb EXCEPT ![p] = Unused,
                             ![l] = [pcb[p] EXCEPT !.state = "listen"]]
       /\ lists' = Reg(Rmv(lists, "bound", p), "listen", l)
  /\ UNCHANGED tcp_port

\* tcp_connect: without memory for the SYN the port stays with the pcb.
TcpConnect(p, r) ==
  LET chosen == IF pcb[p].port = 0 THEN NewPort ELSE [port |-> pcb[p].port, last |-> tcp_port]
      named == [pcb EXCEPT ![p].ip = IF @ = IpAny THEN Here ELSE @,
                           ![p].remote = r, ![p].port = chosen.port]
  IN  /\ Fresh(p)
      /\ tcp_port' = chosen.last
      /\ \/ /\ chosen.port /= 0
            /\ pcb' = [named EXCEPT ![p].state = "active"]
            /\ lists' = Reg(IF pcb[p].port /= 0 THEN Rmv(lists, "bound", p) ELSE lists,
                            "active", p)
         \/ pcb' = named /\ UNCHANGED lists

\* tcp_close of a pcb without a connection
TcpClose(p) ==
  /\ \/ pcb[p].state = "closed"
        /\ lists' = IF pcb[p].port /= 0 THEN Rmv(lists, "bound", p) ELSE lists
     \/ pcb[p].state = "listen" /\ lists' = Rmv(lists, "listen", p)
  /\ pcb' = PcbFreed(p)
  /\ UNCHANGED tcp_port

\* tcp_abandon looks for the pcb among the active ones.
TcpAbort(p) ==
  /\ \/ pcb[p].state = "active"
     \/ pcb[p].state = "closed" /\ (p \in Listed("bound") => "abortBound" \in Misuse)
  /\ lists' = Rmv(lists, "active", p)
  /\ pcb' = PcbFreed(p)
  /\ UNCHANGED tcp_port

-----------------------------------------------------------------------------
(* Segments and timers. *)

Mine(p, r, port) == pcb[p].remote = r /\ pcb[p].port = port /\ pcb[p].ip = Here

\* Mutant: connections in TIME_WAIT are not searched.
Waiting_None(r, port) == {}

Waiting(r, port) == {p \in Listed("timewait") : Mine(p, r, port)}

Connected(r, port) == {p \in Listed("active") : Mine(p, r, port)}
Listening(port) == {p \in Listed("listen") : pcb[p].port = port /\ pcb[p].ip \in {Here, IpAny}}

\* tcp_input of a segment for a connection
SegmentForConnection(r, port) ==
  /\ \E p \in Connected(r, port) : lists' = ToFront(lists, "active", p)
  /\ UNCHANGED <<pcb, tcp_port>>

\* tcp_input of a segment for a listener, which tcp_listen_input takes only if
\* it is a SYN, if there is a pcb, and if there is memory for the answer.
SegmentForListener(r, port) ==
  /\ Connected(r, port) = {} /\ Waiting(r, port) = {}
  /\ \E l \in Listening(port) :
       LET found == ToFront(lists, "listen", l)
       IN  \/ lists' = found /\ UNCHANGED pcb
           \/ \E a \in PcbAllocations :
                LET L == ToFront(Zeroed(a), "listen", l)
                IN  \/ /\ pcb' = [pcb EXCEPT ![a.p] =
                             [state |-> "active", ip |-> Here, port |-> port, remote |-> r]]
                       /\ lists' = Reg(L, "active", a.p)
                    \/ pcb' = PcbFreed(a.p) /\ lists' = L
  /\ UNCHANGED tcp_port

\* A connection ends, in TIME_WAIT or at once: tcp_process and tcp_input,
\* tcp_slowtmr, tcp_close.
ConnectionEnds(p) ==
  /\ pcb[p].state = "active"
  /\ LET L == Rmv(lists, "active", p)
     IN  \/ pcb' = [pcb EXCEPT ![p].state = "timewait"] /\ lists' = Reg(L, "timewait", p)
         \/ pcb' = PcbFreed(p) /\ lists' = L
  /\ UNCHANGED tcp_port

\* tcp_slowtmr: 2 MSL are over.
TimeWaitEnds(p) ==
  /\ pcb[p].state = "timewait"
  /\ lists' = Rmv(lists, "timewait", p)
  /\ pcb' = PcbFreed(p)
  /\ UNCHANGED tcp_port

-----------------------------------------------------------------------------
PortsInit ==
  /\ pcb = [p \in All |-> Unused]
  /\ lists = [head |-> [name \in {"listen", "bound", "active", "timewait"} |-> Null],
              next |-> [p \in All |-> Null]]
  /\ tcp_port = RangeStart

PortsNext ==
  \/ TcpNew
  \/ \E p \in Pcbs, ip \in {IpAny, Here}, port \in {0} \cup AppPorts : TcpBind(p, ip, port)
  \/ \E p \in Pcbs : TcpListen(p)
  \/ \E p \in Pcbs, r \in Remotes : TcpConnect(p, r)
  \/ \E p \in All : TcpClose(p)
  \/ \E p \in Pcbs : TcpAbort(p)
  \/ \E r \in Remotes, port \in PortRange \cup AppPorts : SegmentForConnection(r, port)
  \/ \E r \in Remotes, port \in PortRange \cup AppPorts : SegmentForListener(r, port)
  \/ \E p \in Pcbs : ConnectionEnds(p)
  \/ \E p \in Pcbs : TimeWaitEnds(p)

PortsSpec == PortsInit /\ [][PortsNext]_portVars

-----------------------------------------------------------------------------
(* Properties. *)

\* The axioms of tcp_impl.h:325: every pcb that is not closed is on one list,
\* that of its state, and no list leads to a pcb that was freed, however the
\* next pointers were moved around; a closed pcb is on a list if it is bound.
Axioms ==
  /\ Listed("listen") = InState("listen")
  /\ Listed("active") = InState("active")
  /\ Listed("timewait") = InState("timewait")
  /\ Listed("bound") \subseteq InState("closed")
  /\ \A p \in Listed("bound") : pcb[p].port /= 0

\* Two pcbs that wait for connections, or may do so, do not claim the same
\* address and port (tcp_bind, tcp_new_port, tcp_listen).
NoSharedPort ==
  \A p, q \in Listed("bound") \cup Listed("listen") :
    p /= q /\ pcb[p].port = pcb[q].port => ~Overlap(pcb[p].ip, pcb[q].ip)

\* A segment belongs to one connection at most: no two have the same ends.
UniqueConnections ==
  \A p, q \in Listed("active") \cup Listed("timewait") :
    p /= q /\ pcb[p].remote = pcb[q].remote => pcb[p].port /= pcb[q].port

\* tcp_new_port finds a port whenever one is free, in spite of its limit.
FindsFreePort == NewPort.port = 0 => \A port \in PortRange : PortTaken(port)

\* What is promised about ports and connections.
PortsOK == NoSharedPort /\ UniqueConnections /\ FindsFreePort
=============================================================================
