------------------------------- MODULE Etharp -------------------------------
(***************************************************************************)
(* The ARP table of lwIP, etharp.c: entries are created by packets that    *)
(* leave and by ARP packets that arrive, age, are renewed before they      *)
(* expire, and are recycled when the table is full.  A pending entry keeps *)
(* one packet, a static one does not age.  An entry that was freed keeps   *)
(* its addresses in memory.                                                *)
(***************************************************************************)
EXTENDS Naturals

CONSTANTS
  Hosts,        \* the IP addresses of the link
  NoHost,       \* no address
  Macs,         \* the Ethernet addresses
  NoMac,        \* all zero
  Claims,       \* the addresses a host may say it has
  TableSize,    \* ARP_TABLE_SIZE
  MaxAge,       \* ARP_MAXAGE
  ReRequest,    \* ARP_AGE_REREQUEST_USED
  MaxPending    \* ARP_MAXPENDING

ASSUME ArpAssumption ==
  /\ NoHost \notin Hosts /\ NoMac \notin Macs
  /\ Claims \in [Hosts -> SUBSET Macs]
  /\ {TableSize, MaxAge, ReRequest, MaxPending} \subseteq Nat \ {0}
  /\ MaxPending <= MaxAge /\ ReRequest < MaxAge

VARIABLES
  arp_table,    \* state, addresses, age, and the destination of the packet kept
  cached,       \* etharp_cached_entry
  heard,        \* history: the address last heard, or set, of a host
  wire          \* the packets of the last step: destination and address used

etharpVars == <<arp_table, cached, heard, wire>>

Slot == 0 .. TableSize - 1
Packet(h, m) == [ip |-> h, mac |-> m]

In(states) == {i \in Slot : arp_table[i].state \in states}
Aging == {"stable", "rerequesting"}
Resolved == Aging \cup {"static"}
FirstOf(S) == CHOOSE i \in S : \A j \in S : i <= j

\* etharp_free_entry
Freed(e) == [e EXCEPT !.state = "empty", !.q = NoHost]

-----------------------------------------------------------------------------
(* etharp_find_entry with ETHARP_FLAG_TRY_HARD. *)

Matching(h) == {i \in In({"pending"} \cup Resolved) : arp_table[i].ip = h}

\* The last of the oldest.
OldestOf(S) ==
  CHOOSE i \in S : \A j \in S :
    \/ arp_table[j].ctime < arp_table[i].ctime
    \/ arp_table[j].ctime = arp_table[i].ctime /\ j <= i

\* Stable entries go first, pending ones that keep a packet last, static ones
\* never.
Recyclable ==
  LET waiting == {i \in In({"pending"}) : arp_table[i].q /= NoHost}
  IN  IF In(Aging) /= {} THEN OldestOf(In(Aging))
      ELSE IF In({"pending"}) \ waiting /= {} THEN OldestOf(In({"pending"}) \ waiting)
      ELSE OldestOf(waiting)

Possible(h) == Matching(h) /= {} \/ In({"static"}) /= Slot

SlotFor(h) ==
  IF Matching(h) /= {} THEN FirstOf(Matching(h))
  ELSE IF In({"empty"}) /= {} THEN FirstOf(In({"empty"}))
  ELSE Recyclable

\* Mutant: the packet of the entry that is recycled stays.
Found_KeepsPacket(h) ==
  LET e == arp_table[SlotFor(h)]
  IN  IF Matching(h) /= {} THEN e
      ELSE [e EXCEPT !.state = "empty", !.ip = h, !.ctime = 0]

\* The entry that is found, or made.
Found(h) ==
  LET e == arp_table[SlotFor(h)]
  IN  IF Matching(h) /= {} THEN e ELSE [Freed(e) EXCEPT !.ip = h, !.ctime = 0]

-----------------------------------------------------------------------------
\* etharp_tmr
Older(e) ==
  LET age == e.ctime + 1
  IN  IF e.state \in {"empty", "static"} THEN e
      ELSE IF age >= MaxAge \/ (e.state = "pending" /\ age >= MaxPending)
        THEN [Freed(e) EXCEPT !.ctime = age]
      ELSE [e EXCEPT !.ctime = age,
                     !.state = IF e.state = "rerequesting" THEN "stable" ELSE @]

EtharpTmr ==
  /\ arp_table' = [i \in Slot |-> Older(arp_table[i])]
  /\ wire' = {}
  /\ UNCHANGED <<cached, heard>>

\* etharp_update_arp_entry: the packet that is kept goes out.
Update(h, m, state) ==
  LET e == Found(h)
  IN  /\ arp_table' = [arp_table EXCEPT ![SlotFor(h)] =
           [e EXCEPT !.state = state, !.mac = m, !.ctime = 0, !.q = NoHost]]
      /\ wire' = IF e.q = NoHost THEN {} ELSE {Packet(e.q, m)}

\* etharp_arp_input: host h says that its address is m.  A packet that is not
\* for this board makes no new entry.  A static entry becomes a stable one.
EtharpArpInput(h, m, forUs) ==
  /\ heard' = [heard EXCEPT ![h] = m]
  /\ IF Matching(h) /= {} \/ (forUs /\ Possible(h))
       THEN Update(h, m, "stable")
       ELSE wire' = {} /\ UNCHANGED arp_table
  /\ UNCHANGED cached

\* etharp_add_static_entry
EtharpAddStatic(h, m) ==
  /\ Possible(h)
  /\ heard' = [heard EXCEPT ![h] = m]
  /\ Update(h, m, "static")
  /\ UNCHANGED cached

\* etharp_remove_static_entry
EtharpRemoveStatic(h) ==
  /\ \E i \in Matching(h) \cap In({"static"}) :
       arp_table' = [arp_table EXCEPT ![i] = Freed(@)]
  /\ wire' = {}
  /\ UNCHANGED <<cached, heard>>

\* Mutant: a repeated query keeps the entry young.
EtharpQuery_Younger(h, packet) ==
  /\ Possible(h) /\ Matching(h) \cap In(Resolved) = {}
  /\ \E kept \in BOOLEAN :
       arp_table' = [arp_table EXCEPT ![SlotFor(h)] =
         [Found(h) EXCEPT !.state = "pending", !.ctime = 0,
                          !.q = IF packet /\ kept THEN h ELSE @]]
  /\ wire' = {}
  /\ UNCHANGED <<cached, heard>>

\* etharp_query for an address that is not resolved: the packet takes the place
\* of the one kept before, if there is memory for its copy.  Without a slot it
\* is dropped.
EtharpQuery(h, packet) ==
  /\ Possible(h) /\ Matching(h) \cap In(Resolved) = {}
  /\ \E kept \in BOOLEAN :
       arp_table' = [arp_table EXCEPT ![SlotFor(h)] =
         [Found(h) EXCEPT !.state = "pending",
                          !.q = IF packet /\ kept THEN h ELSE @]]
  /\ wire' = {}
  /\ UNCHANGED <<cached, heard>>

\* etharp_output_to_arp_index: an entry about to expire is requested again, if
\* there is memory for the request.
OutputToIndex(h, i) ==
  /\ \E sent \in BOOLEAN :
       arp_table' = [arp_table EXCEPT ![i].state =
         IF @ = "stable" /\ arp_table[i].ctime >= ReRequest /\ sent
           THEN "rerequesting" ELSE @]
  /\ wire' = {Packet(h, arp_table[i].mac)}
  /\ cached' = i
  /\ UNCHANGED heard

\* Mutant: the entry used last is taken whatever its address.
CachedFits_AnyHost(h) == cached \in In(Resolved)

\* The entry used last is tried first.
CachedFits(h) == cached \in In(Resolved) /\ arp_table[cached].ip = h

\* etharp_output of a packet to a neighbour, or to the gateway
EtharpOutput(h) ==
  LET resolved == Matching(h) \cap In(Resolved)
  IN  \/ CachedFits(h) /\ OutputToIndex(h, cached)
      \/ ~CachedFits(h) /\ resolved /= {} /\ OutputToIndex(h, FirstOf(resolved))
      \/ ~CachedFits(h) /\ EtharpQuery(h, TRUE)

\* etharp_cleanup_netif
EtharpCleanup ==
  /\ arp_table' = [i \in Slot |-> Freed(arp_table[i])]
  /\ wire' = {}
  /\ UNCHANGED <<cached, heard>>

-----------------------------------------------------------------------------
EtharpInit ==
  /\ arp_table = [i \in Slot |->
       [state |-> "empty", ip |-> NoHost, mac |-> NoMac, ctime |-> 0, q |-> NoHost]]
  /\ cached = 0
  /\ heard = [h \in Hosts |-> NoMac]
  /\ wire = {}

EtharpNext ==
  \/ EtharpTmr
  \/ \E h \in Hosts, forUs \in BOOLEAN : \E m \in Claims[h] : EtharpArpInput(h, m, forUs)
  \/ \E h \in Hosts : \E m \in Claims[h] : EtharpAddStatic(h, m)
  \/ \E h \in Hosts : EtharpRemoveStatic(h)
  \/ \E h \in Hosts : EtharpOutput(h)
  \/ \E h \in Hosts : EtharpQuery(h, FALSE)
  \/ EtharpCleanup

EtharpSpec == EtharpInit /\ [][EtharpNext]_etharpVars

-----------------------------------------------------------------------------
(* Properties. *)

EtharpTypeOK ==
  /\ arp_table \in [Slot -> [state : {"empty", "pending"} \cup Resolved,
                             ip : Hosts \cup {NoHost}, mac : Macs \cup {NoMac},
                             ctime : 0 .. MaxAge, q : Hosts \cup {NoHost}]]
  /\ cached \in Slot
  /\ heard \in [Hosts -> Macs \cup {NoMac}]

\* A host has one entry, although entries are recycled and freed ones keep their
\* addresses; only a pending entry keeps a packet (the assertion of line 369),
\* and it is one for its host; and the ages are below their limits.
TableOK ==
  /\ EtharpTypeOK
  /\ \A h \in Hosts : \A i, j \in Matching(h) : i = j
  /\ \A i \in Slot : arp_table[i].q /= NoHost =>
       arp_table[i].state = "pending" /\ arp_table[i].q = arp_table[i].ip
  /\ \A i \in In(Aging) : arp_table[i].ctime < MaxAge
  /\ \A i \in In({"pending"}) : arp_table[i].ctime < MaxPending

\* Each packet goes to the address its destination was last heard of with,
\* whatever became of the entries it waited or was looked up in.
NoStrayPacket == \A p \in wire : p.mac = heard[p.ip] /\ p.mac /= NoMac

\* A query does not stay open: its entry is resolved, expires or is recycled,
\* however often packets for the host are sent.
PendingEnds ==
  \A h \in Hosts :
    Matching(h) \cap In({"pending"}) /= {} ~> Matching(h) \cap In({"pending"}) = {}
=============================================================================
