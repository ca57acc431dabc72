------------------------------ MODULE IpProofs ------------------------------
(***************************************************************************)
(* Proofs about the two tables under IP, the ARP table (Etharp) and the    *)
(* list of datagrams in reassembly (IpReass).                              *)
(*                                                                         *)
(* Etharp, for every table, every set of hosts and addresses and every     *)
(* limit of the ages: the table stays consistent, and no packet goes to an *)
(* address that its destination was not last heard of with.                *)
(*                                                                         *)
(* IpReass, for every length of a datagram and of its fragments and every  *)
(* limit: the count of pbufs is that of the fragments held, and what is    *)
(* handed on starts and ends right, has nothing twice, and misses at most  *)
(* one stretch, in front of the fragment that came last: nothing, if the   *)
(* datagram has at most three units.  The sums are functions of a          *)
(* sequence, so there is first a part that shows that they exist and what  *)
(* one element adds to them; then one on the loop that removes datagrams,  *)
(* and one on the place of a fragment in the list.                         *)
(***************************************************************************)
EXTENDS Etharp, IpReass, Integers, FiniteSetTheorems, SequenceTheorems,
        WellFoundedInduction, TLAPS

\* The addresses of an entry in use are those of its host.
Current ==
  /\ \A i \in In({"pending"} \cup Resolved) : arp_table[i].ip \in Hosts
  /\ \A i \in In(Resolved) : /\ arp_table[i].mac = heard[arp_table[i].ip]
                             /\ arp_table[i].mac /= NoMac

IInv == TableOK /\ Current

-----------------------------------------------------------------------------
(* The search for an entry.                                                *)

LEMMA LeastExists ==
  ASSUME NEW S \in SUBSET Nat, S /= {}
  PROVE  \E i \in S : \A j \in S : i <= j
  <1>1. PICK x \in S : \A y \in S : ~(<<y, x>> \in OpToRel(<, Nat))
    BY NatLessThanWellFounded, WFMin
  <1>2. \A y \in S : ~(y < x)
    BY <1>1 DEF OpToRel
  <1> QED BY <1>2

LEMMA GreatestExists ==
  ASSUME NEW b \in Nat, NEW S \in SUBSET (0 .. b), S /= {}
  PROVE  \E i \in S : \A j \in S : j <= i
  <1> DEFINE T == {b - i : i \in S}
  <1>0. \A i \in S : i \in Nat /\ i <= b /\ b - i \in Nat
    OBVIOUS
  <1>1. T \in SUBSET Nat /\ T /= {}
    BY <1>0
  <1>2. PICK x \in T : \A y \in T : x <= y
    BY <1>1, LeastExists
  <1>3. PICK i \in S : x = b - i
    BY <1>2
  <1>4. \A j \in S : b - i <= b - j
    BY <1>2, <1>3
  <1>5. \A j \in S : j <= i
    BY <1>0, <1>4
  <1> QED BY <1>5

LEMMA FirstOfIn ==
  ASSUME NEW S \in SUBSET Slot, S /= {}
  PROVE  FirstOf(S) \in S
  <1>1. S \in SUBSET Nat
    BY ArpAssumption DEF Slot
  <1>2. \E i \in S : \A j \in S : i <= j
    BY <1>1, LeastExists
  <1> QED BY <1>2 DEF FirstOf

LEMMA OldestOfIn ==
  ASSUME EtharpTypeOK, NEW S \in SUBSET Slot, S /= {}
  PROVE  OldestOf(S) \in S
  <1> DEFINE Ages == {arp_table[i].ctime : i \in S}
  <1>1. Ages \in SUBSET (0 .. MaxAge) /\ Ages /= {} /\ MaxAge \in Nat
    BY ArpAssumption DEF EtharpTypeOK
  <1>2. PICK a \in Ages : \A c \in Ages : c <= a
    BY <1>1, GreatestExists
  <1> DEFINE T == {i \in S : arp_table[i].ctime = a}
  <1>3. T \in SUBSET (0 .. TableSize - 1) /\ T /= {} /\ TableSize - 1 \in Nat
    BY ArpAssumption DEF Slot
  <1>4. PICK i \in T : \A j \in T : j <= i
    BY <1>3, GreatestExists
  <1>5. \A j \in S : \/ arp_table[j].ctime < arp_table[i].ctime
                     \/ arp_table[j].ctime = arp_table[i].ctime /\ j <= i
    <2> TAKE j \in S
    <2>1. arp_table[j].ctime <= a /\ arp_table[j].ctime \in Nat /\ a \in Nat
          /\ arp_table[i].ctime = a
      BY <1>1, <1>2, <1>4
    <2> QED BY <2>1, <1>4
  <1>6. i \in S
    BY <1>4
  <1> HIDE DEF T
  <1> QED BY <1>5, <1>6 DEF OldestOf

\* The entry that is found or made.
LEMMA SlotFound ==
  ASSUME EtharpTypeOK, NEW h \in Hosts, Possible(h)
  PROVE  /\ SlotFor(h) \in Slot
         /\ Matching(h) /= {} => SlotFor(h) \in Matching(h)
  <1>1. Matching(h) \subseteq Slot /\ \A s : In(s) \subseteq Slot
    BY DEF Matching, In
  <1>2. CASE Matching(h) /= {}
    BY <1>1, <1>2, FirstOfIn DEF SlotFor
  <1>3. CASE Matching(h) = {} /\ In({"empty"}) /= {}
    BY <1>1, <1>3, FirstOfIn DEF SlotFor
  <1>4. CASE Matching(h) = {} /\ In({"empty"}) = {}
    <2> DEFINE waiting == {i \in In({"pending"}) : arp_table[i].q /= NoHost}
    <2>1. SlotFor(h) = Recyclable
      BY <1>4 DEF SlotFor
    <2>2. CASE In(Aging) /= {}
      <3>1. In(Aging) \in SUBSET Slot
        BY <1>1
      <3>2. SlotFor(h) = OldestOf(In(Aging))
        BY <2>1, <2>2 DEF Recyclable
      <3> QED BY <2>2, <3>1, <3>2, <1>4, OldestOfIn
    <2>3. CASE In(Aging) = {} /\ In({"pending"}) \ waiting /= {}
      <3>1. In({"pending"}) \ waiting \in SUBSET Slot
        BY <1>1
      <3>2. SlotFor(h) = OldestOf(In({"pending"}) \ waiting)
        BY <2>1, <2>3 DEF Recyclable
      <3> QED BY <2>3, <3>1, <3>2, <1>4, OldestOfIn
    <2>4. CASE In(Aging) = {} /\ In({"pending"}) \ waiting = {}
      <3>1. PICK i \in Slot : arp_table[i].state /= "static"
        BY <1>4 DEF Possible, In
      <3>2. arp_table[i].state \in {"empty", "pending"} \cup Resolved
        BY DEF EtharpTypeOK
      <3>3. i \in In({"pending"})
        BY <3>1, <3>2, <2>4, <1>4 DEF In, Resolved
      <3>4. waiting /= {} /\ waiting \in SUBSET Slot
        BY <3>3, <2>4, <1>1
      <3>5. SlotFor(h) = OldestOf(waiting)
        BY <2>1, <2>4 DEF Recyclable
      <3> QED BY <3>4, <3>5, <1>4, OldestOfIn
    <2> QED BY <2>2, <2>3, <2>4
  <1> QED BY <1>2, <1>3, <1>4

-----------------------------------------------------------------------------
(* The invariant.                                                          *)

Entry == [state : {"empty", "pending"} \cup Resolved, ip : Hosts \cup {NoHost},
          mac : Macs \cup {NoMac}, ctime : 0 .. MaxAge, q : Hosts \cup {NoHost}]

\* What the invariant says, slot by slot.
SlotsOK(t, hd) ==
  /\ t \in [Slot -> Entry]
  /\ hd \in [Hosts -> Macs \cup {NoMac}]
  /\ \A i, j \in Slot : /\ t[i].state /= "empty" /\ t[j].state /= "empty"
                        /\ t[i].ip = t[j].ip
                        => i = j
  /\ \A i \in Slot :
       /\ t[i].state /= "empty" => t[i].ip \in Hosts
       /\ t[i].q /= NoHost => t[i].state = "pending" /\ t[i].q = t[i].ip
       /\ t[i].state \in Aging => t[i].ctime < MaxAge
       /\ t[i].state = "pending" => t[i].ctime < MaxPending
       /\ t[i].state \in Resolved => t[i].mac = hd[t[i].ip] /\ t[i].mac /= NoMac

LEMMA InvIsSlotsOK == IInv <=> SlotsOK(arp_table, heard) /\ cached \in Slot
  <1>1. ASSUME IInv PROVE SlotsOK(arp_table, heard) /\ cached \in Slot
    <2>1. EtharpTypeOK /\ arp_table \in [Slot -> Entry]
      BY <1>1 DEF IInv, TableOK, EtharpTypeOK, Entry
    <2>2. \A i \in Slot : arp_table[i].state \in {"empty", "pending"} \cup Resolved
      BY <2>1 DEF Entry
    <2>3. \A i \in Slot : arp_table[i].state /= "empty" => arp_table[i].ip \in Hosts
      BY <1>1, <2>2 DEF IInv, Current, In
    <2>4. \A i, j \in Slot : /\ arp_table[i].state /= "empty" /\ arp_table[j].state /= "empty"
                             /\ arp_table[i].ip = arp_table[j].ip
                             => i = j
      BY <1>1, <2>2, <2>3 DEF IInv, TableOK, Matching, In
    <2>5. \A i \in Slot :
       /\ arp_table[i].q /= NoHost =>
            arp_table[i].state = "pending" /\ arp_table[i].q = arp_table[i].ip
       /\ arp_table[i].state \in Aging => arp_table[i].ctime < MaxAge
       /\ arp_table[i].state = "pending" => arp_table[i].ctime < MaxPending
      BY <1>1 DEF IInv, TableOK, In
    <2>6. \A i \in Slot : arp_table[i].state \in Resolved =>
            arp_table[i].mac = heard[arp_table[i].ip] /\ arp_table[i].mac /= NoMac
      BY <1>1 DEF IInv, Current, In
    <2> QED BY <2>1, <2>3, <2>4, <2>5, <2>6 DEF SlotsOK, EtharpTypeOK
  <1>2. ASSUME SlotsOK(arp_table, heard), cached \in Slot PROVE IInv
    <2>1. EtharpTypeOK
      BY <1>2 DEF SlotsOK, EtharpTypeOK, Entry
    <2>2. \A i \in In({"pending"} \cup Resolved) : i \in Slot /\ arp_table[i].state /= "empty"
      BY DEF In, Resolved, Aging
    <2>3. \A h \in Hosts : \A i, j \in Matching(h) : i = j
      BY <1>2, <2>2 DEF SlotsOK, Matching
    <2>4. TableOK
      BY <1>2, <2>1, <2>3 DEF SlotsOK, TableOK, In
    <2>5. Current
      BY <1>2, <2>2 DEF SlotsOK, Current, In
    <2> QED BY <2>4, <2>5 DEF IInv
  <1> QED BY <1>1, <1>2

\* The entry of a host is changed, or made where there was none for it.
LEMMA EntryChanged ==
  ASSUME NEW t, NEW hd, SlotsOK(t, hd), NEW s \in Slot, NEW h \in Hosts,
         (t[s].state /= "empty" /\ t[s].ip = h)
           \/ (\A i \in Slot : ~(t[i].state /= "empty" /\ t[i].ip = h)),
         NEW e \in Entry, e.state /= "empty", e.ip = h,
         e.q /= NoHost => e.state = "pending" /\ e.q = h,
         e.state \in Aging => e.ctime < MaxAge,
         e.state = "pending" => e.ctime < MaxPending,
         NEW hd2 \in [Hosts -> Macs \cup {NoMac}],
         \A k \in Hosts : k /= h => hd2[k] = hd[k],
         e.state \in Resolved => e.mac = hd2[h] /\ e.mac /= NoMac
  PROVE  SlotsOK([t EXCEPT ![s] = e], hd2)
  <1> DEFINE u == [t EXCEPT ![s] = e]
  <1>1. t \in [Slot -> Entry]
    BY DEF SlotsOK
  <1>2. u \in [Slot -> Entry] /\ u[s] = e /\ \A i \in Slot : i /= s => u[i] = t[i]
    BY <1>1
  <1>3. \A i \in Slot : i /= s /\ t[i].state /= "empty" => t[i].ip /= h
    BY DEF SlotsOK
  <1> HIDE DEF u
  <1>4. \A i, j \in Slot : /\ u[i].state /= "empty" /\ u[j].state /= "empty"
                           /\ u[i].ip = u[j].ip
                           => i = j
    <2> SUFFICES ASSUME NEW i \in Slot, NEW j \in Slot,
                        u[i].state /= "empty", u[j].state /= "empty", u[i].ip = u[j].ip
                 PROVE  i = j
      OBVIOUS
    <2>1. CASE i = s \/ j = s
      BY <2>1, <1>2, <1>3
    <2>2. CASE i /= s /\ j /= s
      BY <2>2, <1>2 DEF SlotsOK
    <2> QED BY <2>1, <2>2
  <1>5. ASSUME NEW i \in Slot
        PROVE  /\ u[i].state /= "empty" => u[i].ip \in Hosts
               /\ u[i].q /= NoHost => u[i].state = "pending" /\ u[i].q = u[i].ip
               /\ u[i].state \in Aging => u[i].ctime < MaxAge
               /\ u[i].state = "pending" => u[i].ctime < MaxPending
               /\ u[i].state \in Resolved => u[i].mac = hd2[u[i].ip] /\ u[i].mac /= NoMac
    <2>1. CASE i = s
      BY <2>1, <1>2
    <2>2. CASE i /= s
      <3>1. u[i] = t[i] /\ (t[i].state \in Resolved => t[i].state /= "empty")
        BY <2>2, <1>2 DEF Resolved, Aging
      <3>2. t[i].state \in Resolved => t[i].ip \in Hosts /\ hd2[t[i].ip] = hd[t[i].ip]
        BY <2>2, <3>1, <1>3 DEF SlotsOK
      <3> QED BY <3>1, <3>2 DEF SlotsOK
    <2> QED BY <2>1, <2>2
  <1>6. SlotsOK(u, hd2)
    BY <1>2, <1>4, <1>5 DEF SlotsOK
  <1> QED BY <1>6 DEF u

\* The entry that is found or made is that of the host.
LEMMA FoundFacts ==
  ASSUME SlotsOK(arp_table, heard), cached \in Slot, NEW h \in Hosts, Possible(h)
  PROVE  /\ SlotFor(h) \in Slot
         /\ Found(h) \in Entry /\ Found(h).ip = h
         /\ Found(h).q /= NoHost => Found(h).q = h
         /\ Found(h).state = "pending" => Found(h).ctime < MaxPending
         /\ Found(h).state = "empty" => Found(h).ctime = 0
         /\ Matching(h) \cap In(Resolved) = {} => Found(h).state \in {"empty", "pending"}
         /\ (arp_table[SlotFor(h)].state /= "empty" /\ arp_table[SlotFor(h)].ip = h)
              \/ (\A i \in Slot : ~(arp_table[i].state /= "empty" /\ arp_table[i].ip = h))
  <1> DEFINE s == SlotFor(h)
             e == arp_table[s]
  <1>0. EtharpTypeOK
    BY InvIsSlotsOK DEF IInv, TableOK
  <1>1. s \in Slot /\ (Matching(h) /= {} => s \in Matching(h))
    BY <1>0, SlotFound
  <1>2. e \in Entry /\ \A i \in Slot : arp_table[i] \in Entry
    BY <1>1 DEF SlotsOK
  <1>3. CASE Matching(h) /= {}
    <2>1. Found(h) = e
      BY <1>3 DEF Found
    <2>2. e.ip = h /\ e.state /= "empty" /\ e.state \in {"pending"} \cup Resolved
      BY <1>1, <1>3 DEF Matching, In, Resolved, Aging
    <2>3. e.q /= NoHost => e.q = h
      BY <2>2, <1>1 DEF SlotsOK
    <2>4. e.state = "pending" => e.ctime < MaxPending
      BY <1>1 DEF SlotsOK
    <2>5. Matching(h) \cap In(Resolved) = {} => e.state = "pending"
      BY <2>2, <1>1, <1>3 DEF In
    <2> HIDE DEF e, s
    <2>6. /\ Found(h) \in Entry /\ Found(h).ip = h
          /\ Found(h).q /= NoHost => Found(h).q = h
          /\ Found(h).state = "pending" => Found(h).ctime < MaxPending
          /\ Found(h).state = "empty" => Found(h).ctime = 0
          /\ Matching(h) \cap In(Resolved) = {} => Found(h).state \in {"empty", "pending"}
      BY <2>1, <2>2, <2>3, <2>4, <2>5, <1>2
    <2> QED BY <2>2, <2>6, <1>1 DEF e, s
  <1>4. CASE Matching(h) = {}
    <2>1. Found(h) = [Freed(e) EXCEPT !.ip = h, !.ctime = 0]
      BY <1>4 DEF Found
    <2>2. 0 \in 0 .. MaxAge
      BY ArpAssumption
    <2>3. \A i \in Slot : ~(arp_table[i].state /= "empty" /\ arp_table[i].ip = h)
      <3> SUFFICES ASSUME NEW i \in Slot, arp_table[i].state /= "empty", arp_table[i].ip = h
                   PROVE  FALSE
        OBVIOUS
      <3>1. arp_table[i].state \in {"pending"} \cup Resolved
        BY <1>2 DEF Entry
      <3>2. i \in Matching(h)
        BY <3>1 DEF Matching, In
      <3> QED BY <3>2, <1>4
    <2> HIDE DEF e, s
    <2>4. Found(h) = [state |-> "empty", ip |-> h, mac |-> e.mac, ctime |-> 0, q |-> NoHost]
      BY <2>1, <1>2 DEF Freed, Entry
    <2>5. Found(h) \in Entry
      BY <2>2, <2>4, <1>2 DEF Entry
    <2>6. Found(h).ip = h /\ Found(h).q = NoHost /\ Found(h).state = "empty" /\ Found(h).ctime = 0
      BY <2>4
    <2> QED BY <2>3, <2>5, <2>6, <1>1 DEF s
  <1> QED BY <1>3, <1>4

LEMMA LimitFacts ==
  /\ MaxAge \in Nat /\ MaxPending \in Nat /\ ReRequest \in Nat /\ TableSize \in Nat \ {0}
  /\ 0 < MaxAge /\ 0 < MaxPending /\ MaxPending <= MaxAge
  /\ NoHost \notin Hosts /\ NoMac \notin Macs
  /\ \A h \in Hosts : Claims[h] \subseteq Macs
  BY ArpAssumption

LEMMA InitSlotsOK == EtharpInit => SlotsOK(arp_table, heard) /\ cached \in Slot
  <1> SUFFICES ASSUME EtharpInit PROVE SlotsOK(arp_table, heard) /\ cached \in Slot
    OBVIOUS
  <1>1. cached \in Slot
    BY LimitFacts DEF EtharpInit, Slot
  <1>2. arp_table \in [Slot -> Entry] /\ heard \in [Hosts -> Macs \cup {NoMac}]
    BY LimitFacts DEF EtharpInit, Entry
  <1>3. \A i \in Slot : arp_table[i].state = "empty" /\ arp_table[i].q = NoHost
    BY DEF EtharpInit
  <1> QED BY <1>1, <1>2, <1>3 DEF SlotsOK, Resolved, Aging

\* Entries that only lose their packet, or their place, or age.
LEMMA EntriesShrink ==
  ASSUME NEW t, NEW hd, SlotsOK(t, hd), NEW u \in [Slot -> Entry],
         \A i \in Slot :
           /\ u[i].state /= "empty" =>
                /\ u[i].ip = t[i].ip /\ u[i].mac = t[i].mac /\ t[i].state /= "empty"
                /\ u[i].state \in Resolved => t[i].state \in Resolved
                /\ u[i].q = t[i].q /\ (t[i].state = "pending" => u[i].state = "pending")
                /\ u[i].state \in Aging => u[i].ctime < MaxAge
                /\ u[i].state = "pending" => u[i].ctime < MaxPending
           /\ u[i].state = "empty" => u[i].q = NoHost
  PROVE  SlotsOK(u, hd)
  <1>1. \A i, j \in Slot : /\ u[i].state /= "empty" /\ u[j].state /= "empty"
                           /\ u[i].ip = u[j].ip
                           => i = j
    BY DEF SlotsOK
  <1>2. ASSUME NEW i \in Slot
        PROVE  /\ u[i].state /= "empty" => u[i].ip \in Hosts
               /\ u[i].q /= NoHost => u[i].state = "pending" /\ u[i].q = u[i].ip
               /\ u[i].state \in Aging => u[i].ctime < MaxAge
               /\ u[i].state = "pending" => u[i].ctime < MaxPending
               /\ u[i].state \in Resolved => u[i].mac = hd[u[i].ip] /\ u[i].mac /= NoMac
    <2>1. CASE u[i].state = "empty"
      BY <2>1 DEF Resolved, Aging
    <2>2. CASE u[i].state /= "empty"
      BY <2>2 DEF SlotsOK, Resolved, Aging
    <2> QED BY <2>1, <2>2
  <1> QED BY <1>1, <1>2 DEF SlotsOK

\* An entry that is resolved, and one that waits.
LEMMA UpdateRecord ==
  ASSUME NEW f \in Entry, NEW st, NEW m, NEW q
  PROVE  [f EXCEPT !.state = st, !.mac = m, !.ctime = 0, !.q = q] =
           [state |-> st, ip |-> f.ip, mac |-> m, ctime |-> 0, q |-> q]
  <1>1. PICK r : r = [f EXCEPT !.state = st]
    OBVIOUS
  <1>2. r = [state |-> st, ip |-> f.ip, mac |-> f.mac, ctime |-> f.ctime, q |-> f.q]
    BY <1>1 DEF Entry
  <1>3. PICK s : s = [r EXCEPT !.mac = m]
    OBVIOUS
  <1>4. s = [state |-> st, ip |-> f.ip, mac |-> m, ctime |-> f.ctime, q |-> f.q]
    BY <1>2, <1>3
  <1>5. PICK t : t = [s EXCEPT !.ctime = 0]
    OBVIOUS
  <1>6. t = [state |-> st, ip |-> f.ip, mac |-> m, ctime |-> 0, q |-> f.q]
    BY <1>4, <1>5
  <1>7. [t EXCEPT !.q = q] = [state |-> st, ip |-> f.ip, mac |-> m, ctime |-> 0, q |-> q]
    BY <1>6
  <1> QED BY <1>1, <1>3, <1>5, <1>7

LEMMA QueryRecord ==
  ASSUME NEW f \in Entry, NEW st, NEW q
  PROVE  [f EXCEPT !.state = st, !.q = q] =
           [state |-> st, ip |-> f.ip, mac |-> f.mac, ctime |-> f.ctime, q |-> q]
  <1>1. PICK r : r = [f EXCEPT !.state = st]
    OBVIOUS
  <1>2. r = [state |-> st, ip |-> f.ip, mac |-> f.mac, ctime |-> f.ctime, q |-> f.q]
    BY <1>1 DEF Entry
  <1>3. [r EXCEPT !.q = q] =
          [state |-> st, ip |-> f.ip, mac |-> f.mac, ctime |-> f.ctime, q |-> q]
    BY <1>2
  <1> QED BY <1>1, <1>3

LEMMA StepSlotsOK ==
  ASSUME SlotsOK(arp_table, heard), cached \in Slot, [EtharpNext]_etharpVars
  PROVE  SlotsOK(arp_table, heard)' /\ cached' \in Slot
  <1>1. arp_table \in [Slot -> Entry] /\ heard \in [Hosts -> Macs \cup {NoMac}]
    BY DEF SlotsOK
  <1>2. CASE EtharpTmr
    <2>1. arp_table' = [i \in Slot |-> Older(arp_table[i])]
      BY <1>2 DEF EtharpTmr
    <2>2. ASSUME NEW i \in Slot
          PROVE  /\ Older(arp_table[i]) \in Entry
                 /\ Older(arp_table[i]).state /= "empty" =>
                      /\ Older(arp_table[i]).ip = arp_table[i].ip
                      /\ Older(arp_table[i]).mac = arp_table[i].mac
                      /\ arp_table[i].state /= "empty"
                      /\ Older(arp_table[i]).state \in Resolved => arp_table[i].state \in Resolved
                      /\ Older(arp_table[i]).q = arp_table[i].q
                      /\ arp_table[i].state = "pending" => Older(arp_table[i]).state = "pending"
                      /\ Older(arp_table[i]).state \in Aging => Older(arp_table[i]).ctime < MaxAge
                      /\ Older(arp_table[i]).state = "pending" => Older(arp_table[i]).ctime < MaxPending
                 /\ Older(arp_table[i]).state = "empty" => Older(arp_table[i]).q = NoHost
      <3> DEFINE e == arp_table[i]
                 age == e.ctime + 1
      <3>1. /\ e \in Entry /\ e.ctime \in Nat
            /\ e.state \in {"empty", "pending"} \cup Resolved
            /\ e.q /= NoHost => e.state = "pending"
            /\ e.state \in Aging => e.ctime < MaxAge
            /\ e.state = "pending" => e.ctime < MaxPending
        BY <1>1, LimitFacts DEF SlotsOK, Entry
      <3>2. e.state \notin {"empty", "static"} => age \in 0 .. MaxAge
        BY <3>1, LimitFacts DEF Resolved, Aging
      <3> HIDE DEF e
      <3>3. CASE e.state \in {"empty", "static"}
        <4>1. Older(e) = e
          BY <3>3 DEF Older
        <4> QED BY <3>1, <3>3, <4>1 DEF e, Aging
      <3>4. CASE /\ e.state \notin {"empty", "static"}
                 /\ age >= MaxAge \/ (e.state = "pending" /\ age >= MaxPending)
        <4>1. Older(e) = [state |-> "empty", ip |-> e.ip, mac |-> e.mac, ctime |-> age, q |-> NoHost]
          BY <3>1, <3>4 DEF Older, Freed, Entry
        <4>2. Older(e) \in Entry
          BY <3>1, <3>2, <3>4, <4>1 DEF Entry
        <4>3. Older(e).state = "empty" /\ Older(e).q = NoHost
          BY <4>1
        <4> QED BY <4>2, <4>3 DEF e
      <3>5. CASE /\ e.state \notin {"empty", "static"}
                 /\ ~(age >= MaxAge \/ (e.state = "pending" /\ age >= MaxPending))
        <4> DEFINE st == IF e.state = "rerequesting" THEN "stable" ELSE e.state
        <4>1. Older(e) = [state |-> st, ip |-> e.ip, mac |-> e.mac, ctime |-> age, q |-> e.q]
          BY <3>1, <3>5 DEF Older, Entry
        <4>2. st \in {"empty", "pending"} \cup Resolved
          BY <3>1 DEF Resolved, Aging
        <4>3. Older(e) \in Entry
          BY <3>1, <3>2, <3>5, <4>1, <4>2 DEF Entry
        <4>4. age < MaxAge /\ (e.state = "pending" => age < MaxPending)
          BY <3>1, <3>5, LimitFacts
        <4>5. /\ Older(e).state = st /\ Older(e).ip = e.ip /\ Older(e).mac = e.mac
              /\ Older(e).ctime = age /\ Older(e).q = e.q
          BY <4>1
        <4>6. /\ st \in Resolved => e.state \in Resolved
              /\ e.state = "pending" => st = "pending"
              /\ st = "pending" => e.state = "pending"
              /\ e.state /= "empty" /\ st /= "empty"
          BY <3>1, <3>5 DEF Resolved, Aging
        <4> HIDE DEF st, age
        <4> QED BY <4>3, <4>4, <4>5, <4>6 DEF e
      <3> QED BY <3>3, <3>4, <3>5
    <2>3. arp_table' \in [Slot -> Entry] /\ \A i \in Slot : arp_table'[i] = Older(arp_table[i])
      BY <2>1, <2>2
    <2>4. SlotsOK(arp_table', heard)
      BY <2>2, <2>3, EntriesShrink
    <2> QED BY <1>2, <2>4 DEF EtharpTmr
  <1>3. ASSUME NEW h \in Hosts, NEW m \in Macs, NEW st \in {"stable", "static"},
               Possible(h), Update(h, m, st), heard' = [heard EXCEPT ![h] = m]
        PROVE  SlotsOK(arp_table', heard')
    <2>0. PICK f, s : f = Found(h) /\ s = SlotFor(h)
      OBVIOUS
    <2> DEFINE e == [state |-> st, ip |-> h, mac |-> m, ctime |-> 0, q |-> NoHost]
    <2>2. /\ s \in Slot /\ f \in Entry /\ f.ip = h
          /\ (arp_table[s].state /= "empty" /\ arp_table[s].ip = h)
               \/ (\A i \in Slot : ~(arp_table[i].state /= "empty" /\ arp_table[i].ip = h))
      BY <2>0, <1>3, FoundFacts
    <2>3. [f EXCEPT !.state = st, !.mac = m, !.ctime = 0, !.q = NoHost] = e
      <3>1. [f EXCEPT !.state = st, !.mac = m, !.ctime = 0, !.q = NoHost] =
              [state |-> st, ip |-> f.ip, mac |-> m, ctime |-> 0, q |-> NoHost]
        <4>1. f \in Entry
          BY <2>2
        <4> QED BY <4>1, UpdateRecord, ZenonT(60)
      <3> QED BY <2>2, <3>1
    <2>1. arp_table' = [arp_table EXCEPT ![s] = e]
      BY <2>0, <2>3, <1>3 DEF Update
    <2>4. e \in Entry
      <3>1. 0 \in 0 .. MaxAge /\ st \in {"empty", "pending"} \cup Resolved
        BY LimitFacts DEF Resolved, Aging
      <3> QED BY <3>1 DEF Entry
    <2>5. e.state = st /\ e.ip = h /\ e.mac = m /\ e.ctime = 0 /\ e.q = NoHost
      OBVIOUS
    <2>6. /\ heard' \in [Hosts -> Macs \cup {NoMac}] /\ heard'[h] = m /\ m /= NoMac
          /\ \A k \in Hosts : k /= h => heard'[k] = heard[k]
      BY <1>1, <1>3, LimitFacts
    <2> HIDE DEF e
    <2>7. /\ e.state /= "empty"
          /\ e.q /= NoHost => e.state = "pending" /\ e.q = h
          /\ e.state \in Aging => e.ctime < MaxAge
          /\ e.state = "pending" => e.ctime < MaxPending
          /\ e.state \in Resolved => e.mac = heard'[h] /\ e.mac /= NoMac
      BY <2>5, <2>6, LimitFacts
    <2>8. SlotsOK([arp_table EXCEPT ![s] = e], heard')
      BY <2>2, <2>4, <2>5, <2>6, <2>7, EntryChanged
    <2> QED BY <2>1, <2>8
  <1>4. CASE \E h \in Hosts, forUs \in BOOLEAN : \E m \in Claims[h] : EtharpArpInput(h, m, forUs)
    <2>0. PICK h \in Hosts, forUs \in BOOLEAN : \E m \in Claims[h] : EtharpArpInput(h, m, forUs)
      BY <1>4
    <2>1. PICK m \in Claims[h] : EtharpArpInput(h, m, forUs)
      BY <2>0
    <2>2. m \in Macs /\ heard' = [heard EXCEPT ![h] = m] /\ cached' = cached
      BY <2>1, LimitFacts DEF EtharpArpInput
    <2>3. CASE Matching(h) /= {} \/ (forUs /\ Possible(h))
      <3>1. Possible(h) /\ Update(h, m, "stable")
        BY <2>1, <2>3 DEF EtharpArpInput, Possible
      <3> QED BY <2>2, <3>1, <1>3
    <2>4. CASE ~(Matching(h) /= {} \/ (forUs /\ Possible(h)))
      <3>1. arp_table' = arp_table
        BY <2>1, <2>4 DEF EtharpArpInput
      <3>2. \A i \in Slot : arp_table[i].state \in Resolved => arp_table[i].ip /= h
        BY <2>4 DEF Matching, In
      <3>3. /\ heard' \in [Hosts -> Macs \cup {NoMac}]
            /\ \A k \in Hosts : k /= h => heard'[k] = heard[k]
        BY <1>1, <2>2
      <3>4. \A i \in Slot : arp_table[i].state \in Resolved =>
              arp_table[i].ip \in Hosts /\ arp_table[i].mac = heard'[arp_table[i].ip]
        BY <3>2, <3>3 DEF SlotsOK, Resolved, Aging
      <3> QED BY <2>2, <3>1, <3>3, <3>4 DEF SlotsOK
    <2> QED BY <2>3, <2>4
  <1>5. CASE \E h \in Hosts : \E m \in Claims[h] : EtharpAddStatic(h, m)
    <2>0. PICK h \in Hosts : \E m \in Claims[h] : EtharpAddStatic(h, m)
      BY <1>5
    <2>1. PICK m \in Claims[h] : EtharpAddStatic(h, m)
      BY <2>0
    <2>2. m \in Macs
      BY LimitFacts
    <2> QED BY <2>1, <2>2, <1>3 DEF EtharpAddStatic
  <1>6. ASSUME NEW T \in SUBSET Slot,
               arp_table' = [i \in Slot |-> IF i \in T THEN Freed(arp_table[i]) ELSE arp_table[i]],
               UNCHANGED heard
        PROVE  SlotsOK(arp_table', heard')
    <2>1. \A i \in Slot : /\ Freed(arp_table[i]) \in Entry
                          /\ Freed(arp_table[i]).state = "empty"
                          /\ Freed(arp_table[i]).q = NoHost
      BY <1>1 DEF Freed, Entry
    <2>2. arp_table' \in [Slot -> Entry]
      BY <1>1, <1>6, <2>1
    <2>3. \A i \in Slot : \/ arp_table'[i].state = "empty" /\ arp_table'[i].q = NoHost
                          \/ arp_table'[i] = arp_table[i]
      BY <1>6, <2>1
    <2>4. SlotsOK(arp_table', heard)
      <3>1. \A i \in Slot : /\ arp_table[i].state = "empty" => arp_table[i].q = NoHost
                            /\ arp_table[i].state \in Aging => arp_table[i].ctime < MaxAge
                            /\ arp_table[i].state = "pending" => arp_table[i].ctime < MaxPending
        BY DEF SlotsOK
      <3> QED BY <2>2, <2>3, <3>1, EntriesShrink
    <2> QED BY <1>6, <2>4
  <1>7. CASE \E h \in Hosts : EtharpRemoveStatic(h)
    <2>0. PICK h \in Hosts : EtharpRemoveStatic(h)
      BY <1>7
    <2>1. PICK i \in Matching(h) \cap In({"static"}) :
            /\ arp_table' = [arp_table EXCEPT ![i] = Freed(@)]
            /\ UNCHANGED <<cached, heard>>
      BY <2>0 DEF EtharpRemoveStatic
    <2>2. i \in Slot
      BY DEF In
    <2>3. arp_table' = [j \in Slot |-> IF j \in {i} THEN Freed(arp_table[j]) ELSE arp_table[j]]
      BY <1>1, <2>1, <2>2
    <2> QED BY <2>1, <2>2, <2>3, <1>6
  <1>8. CASE EtharpCleanup
    <2>1. arp_table' = [i \in Slot |-> IF i \in Slot THEN Freed(arp_table[i]) ELSE arp_table[i]]
      BY <1>8 DEF EtharpCleanup
    <2> QED BY <1>8, <2>1, <1>6 DEF EtharpCleanup
  <1>9. ASSUME NEW h \in Hosts, NEW packet \in BOOLEAN, EtharpQuery(h, packet)
        PROVE  SlotsOK(arp_table', heard') /\ cached' \in Slot
    <2>0. PICK f, s : f = Found(h) /\ s = SlotFor(h)
      OBVIOUS
    <2>1. PICK kept \in BOOLEAN :
            arp_table' = [arp_table EXCEPT ![s] =
              [f EXCEPT !.state = "pending", !.q = IF packet /\ kept THEN h ELSE f.q]]
      BY <2>0, <1>9 DEF EtharpQuery
    <2> DEFINE q == IF packet /\ kept THEN h ELSE f.q
               e == [state |-> "pending", ip |-> h, mac |-> f.mac, ctime |-> f.ctime, q |-> q]
    <2>2. /\ s \in Slot /\ f \in Entry /\ f.ip = h
          /\ f.q /= NoHost => f.q = h
          /\ f.state = "pending" => f.ctime < MaxPending
          /\ f.state = "empty" => f.ctime = 0
          /\ f.state \in {"empty", "pending"}
          /\ (arp_table[s].state /= "empty" /\ arp_table[s].ip = h)
               \/ (\A i \in Slot : ~(arp_table[i].state /= "empty" /\ arp_table[i].ip = h))
      BY <2>0, <1>9, FoundFacts DEF EtharpQuery
    <2>3. [f EXCEPT !.state = "pending", !.q = q] = e
      BY <2>2, QueryRecord
    <2>4. e \in Entry
      BY <2>2 DEF Entry
    <2>5. /\ e.state = "pending" /\ e.ip = h /\ e.ctime = f.ctime
          /\ e.q = q /\ (q /= NoHost => q = h)
      BY <2>2
    <2>6. f.ctime < MaxPending
      BY <2>2, LimitFacts
    <2>8. arp_table' = [arp_table EXCEPT ![s] = e]
      BY <2>1, <2>3
    <2> HIDE DEF e, q
    <2>7. /\ e.state /= "empty" /\ e.state \notin Aging /\ e.state \notin Resolved
          /\ e.q /= NoHost => e.state = "pending" /\ e.q = h
          /\ e.state = "pending" => e.ctime < MaxPending
      BY <2>5, <2>6 DEF Resolved, Aging
    <2>9. SlotsOK(arp_table', heard)
      BY <1>1, <2>2, <2>4, <2>5, <2>7, <2>8, EntryChanged
    <2> QED BY <1>9, <2>9 DEF EtharpQuery
  <1>10. ASSUME NEW h \in Hosts, NEW i \in Slot, arp_table[i].state \in Resolved, OutputToIndex(h, i)
         PROVE  SlotsOK(arp_table', heard') /\ cached' \in Slot
    <2>1. PICK sent \in BOOLEAN :
            arp_table' = [arp_table EXCEPT ![i].state =
              IF @ = "stable" /\ arp_table[i].ctime >= ReRequest /\ sent
                THEN "rerequesting" ELSE @]
      BY <1>10 DEF OutputToIndex
    <2> DEFINE st == IF arp_table[i].state = "stable" /\ arp_table[i].ctime >= ReRequest /\ sent
                       THEN "rerequesting" ELSE arp_table[i].state
               e == [state |-> st, ip |-> arp_table[i].ip, mac |-> arp_table[i].mac,
                     ctime |-> arp_table[i].ctime, q |-> arp_table[i].q]
    <2>2. arp_table[i] \in Entry
      BY <1>1
    <2>3. arp_table' = [arp_table EXCEPT ![i] = e]
      <3>1. [arp_table[i] EXCEPT !.state = st] = e
        BY <2>2 DEF Entry
      <3>2. arp_table' = [arp_table EXCEPT ![i] = [arp_table[i] EXCEPT !.state = st]]
        BY <2>1
      <3> QED BY <3>1, <3>2
    <2>4. st \in Resolved /\ (st \in Aging => arp_table[i].state \in Aging)
          /\ st /= "pending" /\ st /= "empty"
          /\ arp_table[i].state /= "pending" /\ arp_table[i].state /= "empty"
      BY <1>10 DEF Resolved, Aging
    <2> HIDE DEF st
    <2>5. e \in Entry
      BY <2>2, <2>4 DEF Entry
    <2>6. /\ e.state = st /\ e.ip = arp_table[i].ip /\ e.mac = arp_table[i].mac
          /\ e.ctime = arp_table[i].ctime /\ e.q = arp_table[i].q
      OBVIOUS
    <2> HIDE DEF e
    <2>7. arp_table' \in [Slot -> Entry] /\ arp_table'[i] = e
          /\ \A j \in Slot : j /= i => arp_table'[j] = arp_table[j]
      BY <1>1, <2>3, <2>5
    <2>8. ASSUME NEW j \in Slot
          PROVE  /\ arp_table'[j].state /= "empty" =>
                      /\ arp_table'[j].ip = arp_table[j].ip
                      /\ arp_table'[j].mac = arp_table[j].mac /\ arp_table[j].state /= "empty"
                      /\ arp_table'[j].state \in Resolved => arp_table[j].state \in Resolved
                      /\ arp_table'[j].q = arp_table[j].q
                      /\ arp_table[j].state = "pending" => arp_table'[j].state = "pending"
                      /\ arp_table'[j].state \in Aging => arp_table'[j].ctime < MaxAge
                      /\ arp_table'[j].state = "pending" => arp_table'[j].ctime < MaxPending
                 /\ arp_table'[j].state = "empty" => arp_table'[j].q = NoHost
      <3>1. /\ arp_table[j].state = "empty" => arp_table[j].q = NoHost
            /\ arp_table[j].state \in Aging => arp_table[j].ctime < MaxAge
            /\ arp_table[j].state = "pending" => arp_table[j].ctime < MaxPending
        BY DEF SlotsOK
      <3>2. CASE j = i
        BY <3>1, <3>2, <2>4, <2>6, <2>7, <1>10
      <3>3. CASE j /= i
        BY <3>1, <3>3, <2>7
      <3> QED BY <3>2, <3>3
    <2>9. SlotsOK(arp_table', heard)
      BY <2>7, <2>8, EntriesShrink
    <2> QED BY <1>10, <2>9 DEF OutputToIndex
  <1>11. CASE \E h \in Hosts : EtharpOutput(h)
    <2>1. PICK h \in Hosts : EtharpOutput(h)
      BY <1>11
    <2>2. CASE CachedFits(h) /\ OutputToIndex(h, cached)
      BY <2>2, <1>10 DEF CachedFits, In
    <2>3. CASE Matching(h) \cap In(Resolved) /= {}
               /\ OutputToIndex(h, FirstOf(Matching(h) \cap In(Resolved)))
      <3>1. PICK i : i = FirstOf(Matching(h) \cap In(Resolved))
        OBVIOUS
      <3>2. Matching(h) \cap In(Resolved) \in SUBSET Slot
        BY DEF In
      <3>3. i \in Slot /\ arp_table[i].state \in Resolved
        BY <2>3, <3>1, <3>2, FirstOfIn DEF In
      <3> QED BY <2>3, <3>1, <3>3, <1>10
    <2>4. CASE EtharpQuery(h, TRUE)
      BY <2>4, <1>9
    <2> QED BY <2>1, <2>2, <2>3, <2>4 DEF EtharpOutput
  <1>12. CASE \E h \in Hosts : EtharpQuery(h, FALSE)
    BY <1>12, <1>9
  <1>13. CASE UNCHANGED etharpVars
    BY <1>13 DEF etharpVars
  <1> QED BY <1>2, <1>4, <1>5, <1>7, <1>8, <1>11, <1>12, <1>13 DEF EtharpNext

-----------------------------------------------------------------------------
(* The theorems.                                                           *)

\* The ARP table stays consistent (etharp_find_entry, etharp_tmr and what calls
\* them): a host has one entry, a packet waits only in a pending entry for its
\* own destination, and no entry is older than its limit.
THEOREM EtharpTableOK == EtharpSpec => []TableOK
  <1>1. EtharpInit => IInv
    BY InitSlotsOK, InvIsSlotsOK
  <1>2. IInv /\ [EtharpNext]_etharpVars => IInv'
    <2> SUFFICES ASSUME IInv, [EtharpNext]_etharpVars PROVE IInv'
      OBVIOUS
    <2>1. SlotsOK(arp_table, heard)' /\ cached' \in Slot
      BY InvIsSlotsOK, StepSlotsOK
    <2>2. (IInv <=> SlotsOK(arp_table, heard) /\ cached \in Slot)'
      BY InvIsSlotsOK, PTL
    <2> QED BY <2>1, <2>2
  <1>3. IInv => TableOK
    BY DEF IInv
  <1> QED BY <1>1, <1>2, <1>3, PTL DEF EtharpSpec

\* What Update sends goes to the address just heard.
LEMMA UpdateSends ==
  ASSUME SlotsOK(arp_table, heard), cached \in Slot,
         NEW h \in Hosts, NEW m \in Macs, NEW st, Possible(h), Update(h, m, st),
         heard' = [heard EXCEPT ![h] = m]
  PROVE  NoStrayPacket'
  <1>1. PICK f : f = Found(h)
    OBVIOUS
  <1>2. f.q /= NoHost => f.q = h
    BY <1>1, FoundFacts
  <1>3. wire' = IF f.q = NoHost THEN {} ELSE {Packet(f.q, m)}
    BY <1>1 DEF Update
  <1>4. heard'[h] = m /\ m /= NoMac
    BY LimitFacts DEF SlotsOK
  <1>5. \A p \in wire' : p.mac = m /\ p.ip = h
    BY <1>2, <1>3 DEF Packet
  <1> QED BY <1>4, <1>5 DEF NoStrayPacket

\* What is sent with a resolved entry goes to the address last heard.
LEMMA OutputSends ==
  ASSUME SlotsOK(arp_table, heard), NEW h \in Hosts, NEW i \in Slot,
         arp_table[i].state \in Resolved, arp_table[i].ip = h, OutputToIndex(h, i)
  PROVE  NoStrayPacket'
  <1>1. arp_table[i].mac = heard[h] /\ arp_table[i].mac /= NoMac
    BY DEF SlotsOK
  <1>2. wire' = {Packet(h, arp_table[i].mac)} /\ heard' = heard
    BY DEF OutputToIndex
  <1>3. \A p \in wire' : p.mac = arp_table[i].mac /\ p.ip = h
    BY <1>2 DEF Packet
  <1> QED BY <1>1, <1>2, <1>3 DEF NoStrayPacket

\* No packet leaves for an address that its destination was not last heard of
\* with (etharp_output, etharp_update_arp_entry), although entries are
\* recycled, the entry used last is tried first, and packets wait in entries.
THEOREM EtharpNoStray == EtharpSpec => []NoStrayPacket
  <1>1. EtharpInit => IInv /\ NoStrayPacket
    BY InitSlotsOK, InvIsSlotsOK DEF EtharpInit, NoStrayPacket
  <1>2. IInv /\ NoStrayPacket /\ [EtharpNext]_etharpVars => (IInv /\ NoStrayPacket)'
    <2> SUFFICES ASSUME IInv, NoStrayPacket, [EtharpNext]_etharpVars
                 PROVE  (IInv /\ NoStrayPacket)'
      OBVIOUS
    <2>1. SlotsOK(arp_table, heard) /\ cached \in Slot
      BY InvIsSlotsOK
    <2>2. IInv'
      <3>1. SlotsOK(arp_table, heard)' /\ cached' \in Slot
        BY <2>1, StepSlotsOK
      <3>2. (IInv <=> SlotsOK(arp_table, heard) /\ cached \in Slot)'
        BY InvIsSlotsOK, PTL
      <3> QED BY <3>1, <3>2
    <2>3. wire' = {} => NoStrayPacket'
      BY DEF NoStrayPacket
    <2> SUFFICES NoStrayPacket'
      BY <2>2
    <2>4. CASE EtharpTmr
      BY <2>4, <2>3 DEF EtharpTmr
    <2>5. CASE \E h \in Hosts, forUs \in BOOLEAN : \E m \in Claims[h] : EtharpArpInput(h, m, forUs)
      <3>1. PICK h \in Hosts, forUs \in BOOLEAN : \E m \in Claims[h] : EtharpArpInput(h, m, forUs)
        BY <2>5
      <3>2. PICK m \in Claims[h] : EtharpArpInput(h, m, forUs)
        BY <3>1
      <3>3. m \in Macs /\ heard' = [heard EXCEPT ![h] = m]
        BY <3>2, LimitFacts DEF EtharpArpInput
      <3>4. CASE Matching(h) /= {} \/ (forUs /\ Possible(h))
        <4>1. Possible(h) /\ Update(h, m, "stable")
          BY <3>2, <3>4 DEF EtharpArpInput, Possible
        <4> QED BY <2>1, <3>3, <4>1, UpdateSends
      <3>5. CASE ~(Matching(h) /= {} \/ (forUs /\ Possible(h)))
        BY <3>2, <3>5, <2>3 DEF EtharpArpInput
      <3> QED BY <3>4, <3>5
    <2>6. CASE \E h \in Hosts : \E m \in Claims[h] : EtharpAddStatic(h, m)
      <3>1. PICK h \in Hosts : \E m \in Claims[h] : EtharpAddStatic(h, m)
        BY <2>6
      <3>2. PICK m \in Claims[h] : EtharpAddStatic(h, m)
        BY <3>1
      <3>3. m \in Macs
        BY LimitFacts
      <3> QED BY <2>1, <3>2, <3>3, UpdateSends DEF EtharpAddStatic
    <2>7. CASE \E h \in Hosts : EtharpRemoveStatic(h)
      BY <2>7, <2>3 DEF EtharpRemoveStatic
    <2>8. CASE \E h \in Hosts : EtharpOutput(h)
      <3>1. PICK h \in Hosts : EtharpOutput(h)
        BY <2>8
      <3>2. CASE CachedFits(h) /\ OutputToIndex(h, cached)
        <4>1. arp_table[cached].state \in Resolved /\ arp_table[cached].ip = h
          BY <3>2 DEF CachedFits, In
        <4> QED BY <2>1, <3>2, <4>1, OutputSends
      <3>3. CASE /\ Matching(h) \cap In(Resolved) /= {}
                 /\ OutputToIndex(h, FirstOf(Matching(h) \cap In(Resolved)))
        <4>1. PICK i : i = FirstOf(Matching(h) \cap In(Resolved))
          OBVIOUS
        <4>2. Matching(h) \cap In(Resolved) \in SUBSET Slot
          BY DEF In
        <4>3. i \in Matching(h) \cap In(Resolved)
          BY <3>3, <4>1, <4>2, FirstOfIn
        <4>4. i \in Slot /\ arp_table[i].state \in Resolved /\ arp_table[i].ip = h
          BY <4>3 DEF Matching, In
        <4> QED BY <2>1, <3>3, <4>1, <4>4, OutputSends
      <3>4. CASE EtharpQuery(h, TRUE)
        BY <3>4, <2>3 DEF EtharpQuery
      <3> QED BY <3>1, <3>2, <3>3, <3>4 DEF EtharpOutput
    <2>9. CASE \E h \in Hosts : EtharpQuery(h, FALSE)
      BY <2>9, <2>3 DEF EtharpQuery
    <2>10. CASE EtharpCleanup
      BY <2>10, <2>3 DEF EtharpCleanup
    <2>11. CASE UNCHANGED etharpVars
      BY <2>11 DEF etharpVars, NoStrayPacket
    <2> QED
      BY <2>4, <2>5, <2>6, <2>7, <2>8, <2>9, <2>10, <2>11 DEF EtharpNext
  <1> QED BY <1>1, <1>2, PTL DEF EtharpSpec
-----------------------------------------------------------------------------
(* Sums.                                                                   *)

\* f adds up the first n numbers of t.
AddsUp(f, t, n) == f = [k \in 0 .. n |-> IF k = 0 THEN 0 ELSE f[k - 1] + t[k]]

\* There are such sums: one more number makes one more sum.
LEMMA SumsExist == ASSUME NEW t, NEW N \in Nat PROVE \E f : AddsUp(f, t, N)
  <1> DEFINE S == {n \in 0 .. N : ~ \E f : AddsUp(f, t, n)}
  <1> SUFFICES ASSUME S /= {} PROVE FALSE
    OBVIOUS
  <1>1. S \in SUBSET Nat
    OBVIOUS
  <1>2. PICK n \in S : \A k \in S : n <= k
    <2> HIDE DEF S
    <2> QED BY <1>1, LeastExists
  <1>3. n \in 0 .. N /\ ~ \E f : AddsUp(f, t, n)
    OBVIOUS
  <1>4. \A k \in 0 .. N : k < n => \E f : AddsUp(f, t, k)
    BY <1>2
  <1> HIDE DEF S
  <1>5. CASE n = 0
    <2> DEFINE f == [k \in 0 .. n |-> 0]
    <2>1. f = [k \in 0 .. n |-> IF k = 0 THEN 0 ELSE f[k - 1] + t[k]]
      BY <1>5
    <2> QED BY <1>3, <2>1 DEF AddsUp
  <1>6. CASE n /= 0
    <2>1. n - 1 \in 0 .. N /\ n - 1 < n /\ n \in Nat
      BY <1>3, <1>6
    <2>2. PICK f : AddsUp(f, t, n - 1)
      BY <1>4, <2>1
    <2> DEFINE g == [k \in 0 .. n |-> IF k = n THEN f[n - 1] + t[n] ELSE f[k]]
    <2>3. \A k \in 0 .. n - 1 : f[k] = IF k = 0 THEN 0 ELSE f[k - 1] + t[k]
      BY <2>2 DEF AddsUp
    <2>4. ASSUME NEW k \in 0 .. n
          PROVE  g[k] = IF k = 0 THEN 0 ELSE g[k - 1] + t[k]
      <3>1. CASE k = n
        <4>1. k /= 0 /\ k - 1 \in 0 .. n /\ k - 1 /= n
          BY <1>6, <2>1, <3>1
        <4>2. g[k - 1] = f[k - 1]
          BY <4>1
        <4>3. g[k] = f[n - 1] + t[n]
          BY <2>1, <3>1
        <4> HIDE DEF g
        <4> QED BY <3>1, <4>1, <4>2, <4>3
      <3>2. CASE k /= n
        <4>1. k \in 0 .. n - 1 /\ (k /= 0 => k - 1 \in 0 .. n /\ k - 1 /= n)
          BY <2>1, <3>2
        <4>2. g[k] = f[k] /\ (k /= 0 => g[k - 1] = f[k - 1])
          BY <3>2, <4>1
        <4> HIDE DEF g
        <4> QED BY <2>3, <4>1, <4>2
      <3> QED BY <3>1, <3>2
    <2>5. g = [k \in 0 .. n |-> g[k]]
      OBVIOUS
    <2> HIDE DEF g
    <2>6. AddsUp(g, t, n)
      BY <2>4, <2>5 DEF AddsUp
    <2> QED BY <1>3, <2>6
  <1> QED BY <1>5, <1>6

\* f[k] is the sum of the first k of the n numbers t.
Partial(f, t, n) ==
  /\ f[0] = 0
  /\ \A k \in 1 .. n : f[k] = f[k - 1] + t[k]
  /\ \A k \in 0 .. n : f[k] \in Nat

LEMMA NumbersLen ==
  ASSUME NEW n \in Nat, NEW S, NEW t \in [1 .. n -> S]
  PROVE  t \in Seq(S) /\ Len(t) = n /\ DOMAIN t = 1 .. n
  <1>1. t \in Seq(S)
    BY SeqDef
  <1>2. Len(t) \in Nat /\ DOMAIN t = 1 .. Len(t) /\ DOMAIN t = 1 .. n
    BY <1>1, LenProperties
  <1> QED BY <1>1, <1>2

LEMMA SumIs ==
  ASSUME NEW n \in Nat, NEW t \in [1 .. n -> Nat]
  PROVE  \E f : Partial(f, t, n) /\ SumOf(t) = f[n]
  <1> DEFINE sum == CHOOSE f : f = [k \in 0 .. Len(t) |-> IF k = 0 THEN 0 ELSE f[k - 1] + t[k]]
  <1>0. Len(t) = n
    BY NumbersLen
  <1>1. \E f : AddsUp(f, t, Len(t))
    BY <1>0, SumsExist
  <1>2. AddsUp(sum, t, Len(t))
    BY <1>1 DEF AddsUp
  <1>3. SumOf(t) = sum[n]
    BY <1>0 DEF SumOf
  <1> HIDE DEF sum
  <1>4. \A k \in 0 .. n : sum[k] = IF k = 0 THEN 0 ELSE sum[k - 1] + t[k]
    BY <1>0, <1>2 DEF AddsUp
  <1>5. 0 \in 0 .. n /\ \A k \in 1 .. n : k \in 0 .. n /\ k /= 0
    OBVIOUS
  <1>6. sum[0] = 0 /\ \A k \in 1 .. n : sum[k] = sum[k - 1] + t[k]
    BY <1>4, <1>5
  <1>7. \A k \in 0 .. n : sum[k] \in Nat
    <2> DEFINE S == {k \in 0 .. n : sum[k] \notin Nat}
    <2> SUFFICES ASSUME S /= {} PROVE FALSE
      OBVIOUS
    <2>1. S \in SUBSET Nat
      OBVIOUS
    <2>2. PICK k \in S : \A j \in S : k <= j
      <3> HIDE DEF S
      <3> QED BY <2>1, LeastExists
    <2>3. k \in 0 .. n /\ sum[k] \notin Nat /\ k /= 0
      BY <1>6
    <2>4. k \in 1 .. n /\ k - 1 \in 0 .. n /\ ~(k <= k - 1)
      BY <2>3
    <2>5. sum[k - 1] \in Nat
      BY <2>2, <2>4
    <2> HIDE DEF S
    <2> QED BY <1>6, <2>3, <2>4, <2>5
  <1> QED BY <1>3, <1>6, <1>7 DEF Partial

\* There are no other sums.
LEMMA SumOnly ==
  ASSUME NEW n \in Nat, NEW t \in [1 .. n -> Nat], NEW g, g[0] = 0,
         \A k \in 1 .. n : g[k] = g[k - 1] + t[k]
  PROVE  SumOf(t) = g[n] /\ SumOf(t) \in Nat
  <1>1. PICK f : Partial(f, t, n) /\ SumOf(t) = f[n]
    BY SumIs
  <1> DEFINE S == {k \in 0 .. n : f[k] /= g[k]}
  <1>2. S = {}
    <2> SUFFICES ASSUME S /= {} PROVE FALSE
      OBVIOUS
    <2>1. S \in SUBSET Nat
      OBVIOUS
    <2>2. PICK k \in S : \A j \in S : k <= j
      <3> HIDE DEF S
      <3> QED BY <2>1, LeastExists
    <2>3. k \in 0 .. n /\ f[k] /= g[k] /\ k /= 0
      BY <1>1 DEF Partial
    <2>4. k \in 1 .. n /\ k - 1 \in 0 .. n /\ ~(k <= k - 1)
      BY <2>3
    <2>5. f[k - 1] = g[k - 1]
      BY <2>2, <2>4
    <2> HIDE DEF S
    <2> QED BY <1>1, <2>3, <2>4, <2>5 DEF Partial
  <1> QED BY <1>1, <1>2 DEF Partial

LEMMA SumNat == ASSUME NEW n \in Nat, NEW t \in [1 .. n -> Nat] PROVE SumOf(t) \in Nat
  BY SumIs DEF Partial

\* t is u with one number more, the i-th.
OneMore(t, u, n, i) ==
  /\ n \in Nat /\ i \in 1 .. n + 1
  /\ t \in [1 .. n + 1 -> Nat] /\ u \in [1 .. n -> Nat]
  /\ \A j \in 1 .. n : u[j] = IF j < i THEN t[j] ELSE t[j + 1]

LEMMA SumOneMore ==
  ASSUME NEW t, NEW u, NEW n, NEW i, OneMore(t, u, n, i)
  PROVE  SumOf(t) = SumOf(u) + t[i] /\ SumOf(u) \in Nat
  <1>0. /\ n \in Nat /\ i \in 1 .. n + 1
        /\ t \in [1 .. n + 1 -> Nat] /\ u \in [1 .. n -> Nat]
        /\ \A j \in 1 .. n : u[j] = IF j < i THEN t[j] ELSE t[j + 1]
    BY DEF OneMore
  <1>1. PICK f : Partial(f, u, n) /\ SumOf(u) = f[n]
    BY <1>0, SumIs
  <1>2. /\ f[0] = 0 /\ \A k \in 1 .. n : f[k] = f[k - 1] + u[k]
        /\ \A k \in 0 .. n : f[k] \in Nat
    BY <1>1 DEF Partial
  <1> DEFINE g == [k \in 0 .. n + 1 |-> IF k < i THEN f[k] ELSE f[k - 1] + t[i]]
  <1>3. g[0] = 0
    BY <1>0, <1>2
  <1>4. ASSUME NEW k \in 1 .. n + 1 PROVE g[k] = g[k - 1] + t[k]
    <2>1. k \in 0 .. n + 1 /\ k - 1 \in 0 .. n + 1 /\ k - 1 \in 0 .. n
      BY <1>0
    <2>2. /\ g[k] = IF k < i THEN f[k] ELSE f[k - 1] + t[i]
          /\ g[k - 1] = IF k - 1 < i THEN f[k - 1] ELSE f[k - 2] + t[i]
      BY <1>0, <2>1
    <2>3. t[k] \in Nat /\ t[i] \in Nat /\ f[k - 1] \in Nat
      BY <1>0, <1>2, <2>1
    <2> HIDE DEF g
    <2>4. CASE k < i
      <3>1. k \in 1 .. n /\ k - 1 < i /\ u[k] = t[k]
        BY <1>0, <2>4
      <3> QED BY <1>2, <2>2, <2>4, <3>1
    <2>5. CASE k = i
      <3>1. ~(k < i) /\ k - 1 < i
        BY <1>0, <2>5
      <3> QED BY <2>2, <2>3, <2>5, <3>1
    <2>6. CASE k > i
      <3>1. k - 1 \in 1 .. n /\ ~(k - 1 < i) /\ ~(k < i) /\ (k - 1) + 1 = k /\ (k - 1) - 1 = k - 2
        BY <1>0, <2>6
      <3>2. u[k - 1] = t[k] /\ f[k - 1] = f[k - 2] + u[k - 1]
        BY <1>0, <1>2, <3>1
      <3>3. f[k - 2] \in Nat
        <4>1. k - 2 \in 0 .. n
          BY <1>0, <3>1
        <4> QED BY <1>2, <4>1
      <3> QED BY <2>2, <2>3, <3>1, <3>2, <3>3
    <2> QED BY <1>0, <2>4, <2>5, <2>6
  <1>5. g[n + 1] = f[n] + t[i]
    BY <1>0
  <1> HIDE DEF g
  <1>6. SumOf(t) = g[n + 1]
    <2>1. n + 1 \in Nat /\ t \in [1 .. n + 1 -> Nat]
      BY <1>0
    <2> QED BY <2>1, <1>3, <1>4, SumOnly
  <1>7. n \in 0 .. n
    BY <1>0
  <1> QED BY <1>1, <1>2, <1>5, <1>6, <1>7

\* One number is replaced.
LEMMA SumReplaced ==
  ASSUME NEW n \in Nat, NEW t \in [1 .. n -> Nat], NEW u \in [1 .. n -> Nat],
         NEW i \in 1 .. n, \A j \in 1 .. n : j /= i => u[j] = t[j]
  PROVE  /\ SumOf(u) = SumOf(t) - t[i] + u[i]
         /\ SumOf(t) \in Nat /\ SumOf(u) \in Nat /\ t[i] <= SumOf(t)
  <1> DEFINE m == n - 1
             v == [j \in 1 .. m |-> IF j < i THEN t[j] ELSE t[j + 1]]
  <1>1. m \in Nat /\ n = m + 1
    OBVIOUS
  <1>2. \A j \in 1 .. m : v[j] \in Nat /\ j \in 1 .. n /\ j + 1 \in 1 .. n
    <2> TAKE j \in 1 .. m
    <2>1. j \in 1 .. n /\ j + 1 \in 1 .. n
      BY <1>1
    <2> QED BY <2>1
  <1>3. v \in [1 .. m -> Nat] /\ \A j \in 1 .. m : v[j] = IF j < i THEN t[j] ELSE t[j + 1]
    BY <1>2
  <1>4. \A j \in 1 .. m : v[j] = IF j < i THEN u[j] ELSE u[j + 1]
    <2> TAKE j \in 1 .. m
    <2>1. CASE j < i
      BY <1>2, <1>3, <2>1
    <2>2. CASE ~(j < i)
      <3>1. j + 1 /= i
        BY <2>2
      <3> QED BY <1>2, <1>3, <2>2, <3>1
    <2> QED BY <2>1, <2>2
  <1> HIDE DEF v, m
  <1>5. OneMore(t, v, m, i) /\ OneMore(u, v, m, i)
    BY <1>1, <1>3, <1>4 DEF OneMore
  <1>6. /\ SumOf(t) = SumOf(v) + t[i] /\ SumOf(u) = SumOf(v) + u[i]
        /\ SumOf(v) \in Nat /\ t[i] \in Nat /\ u[i] \in Nat
    BY <1>5, SumOneMore
  <1> QED BY <1>6

\* u has the first m numbers of t, and e the others.
Split(t, u, e, n, m) ==
  /\ n \in Nat /\ m \in 0 .. n
  /\ t \in [1 .. n -> Nat] /\ u \in [1 .. m -> Nat] /\ e \in [1 .. n -> Nat]
  /\ \A j \in 1 .. m : u[j] = t[j] /\ e[j] = 0
  /\ \A j \in 1 .. n : j > m => e[j] = t[j]

LEMMA SumSplit ==
  ASSUME NEW t, NEW u, NEW e, NEW n, NEW m, Split(t, u, e, n, m)
  PROVE  SumOf(t) = SumOf(u) + SumOf(e) /\ SumOf(u) \in Nat /\ SumOf(e) \in Nat
  <1> USE DEF Split
  <1>0. m \in Nat
    OBVIOUS
  <1>1. PICK f : Partial(f, u, m) /\ SumOf(u) = f[m]
    BY <1>0, SumIs
  <1>2. PICK h : Partial(h, e, n) /\ SumOf(e) = h[n]
    BY SumIs
  <1> DEFINE g == [k \in 0 .. n |-> h[k] + (IF k <= m THEN f[k] ELSE f[m])]
  <1>3. /\ f[0] = 0 /\ \A k \in 1 .. m : f[k] = f[k - 1] + u[k]
        /\ \A k \in 0 .. m : f[k] \in Nat
        /\ h[0] = 0 /\ \A k \in 1 .. n : h[k] = h[k - 1] + e[k]
        /\ \A k \in 0 .. n : h[k] \in Nat
    BY <1>1, <1>2 DEF Partial
  <1>4. g[0] = 0
    BY <1>0, <1>3
  <1>5. ASSUME NEW k \in 1 .. n PROVE g[k] = g[k - 1] + t[k]
    <2>1. k \in 0 .. n /\ k - 1 \in 0 .. n /\ m \in 0 .. m
      BY <1>0
    <2>2. /\ g[k] = h[k] + (IF k <= m THEN f[k] ELSE f[m])
          /\ g[k - 1] = h[k - 1] + (IF k - 1 <= m THEN f[k - 1] ELSE f[m])
      BY <2>1
    <2>3. t[k] \in Nat /\ h[k - 1] \in Nat /\ f[m] \in Nat /\ h[k] = h[k - 1] + e[k]
      BY <1>3, <2>1
    <2> HIDE DEF g
    <2>4. CASE k <= m
      <3>1. k \in 1 .. m /\ k - 1 <= m /\ k - 1 \in 0 .. m
        BY <1>0, <2>4
      <3>2. f[k] = f[k - 1] + t[k] /\ h[k] = h[k - 1] + 0 /\ f[k - 1] \in Nat
        BY <1>3, <2>3, <3>1
      <3> QED BY <2>2, <2>3, <2>4, <3>1, <3>2
    <2>5. CASE k > m
      <3>1. e[k] = t[k] /\ ~(k <= m) /\ (k - 1 <= m => k - 1 = m)
        BY <1>0, <2>5
      <3> QED BY <2>2, <2>3, <3>1
    <2> QED BY <1>0, <2>4, <2>5
  <1>6. g[n] = h[n] + f[m]
    BY <1>0
  <1> HIDE DEF g
  <1>7. SumOf(t) = g[n]
    BY <1>4, <1>5, SumOnly
  <1>8. n \in 0 .. n /\ m \in 0 .. m
    OBVIOUS
  <1> QED BY <1>1, <1>2, <1>3, <1>6, <1>7, <1>8

-----------------------------------------------------------------------------
(* Datagrams.                                                              *)

Datagram == [id : Datagrams, timer : 0 .. ReassMaxAge, last : BOOLEAN,
             p : Seq(Fragment)]

\* The pbufs that wait in q.
Total(q) == SumOf([i \in DOMAIN q |-> PbufsOf(q[i])])

LEMMA Limits ==
  /\ DatagramLen \in Nat \ {0} /\ FragmentLen \in Nat \ {0} /\ UnitPbufs \in Nat \ {0}
  /\ MaxPbufs \in Nat \ {0} /\ ReassData \in Nat \ {0}
  /\ FragmentLen < DatagramLen /\ ReassMaxAge \in Nat
  BY ReassAssumption

LEMMA ClenPositive ==
  ASSUME NEW f \in Fragment
  PROVE  Clen(f) \in Nat \ {0}
  <1>1. f.start \in Nat /\ f.end \in Nat /\ f.start < f.end
    BY Limits DEF Fragment
  <1>2. f.end - f.start - 1 \in Nat
    BY <1>1
  <1> DEFINE a == f.end - f.start - 1
  <1>3. \A x, y \in Nat : x * y \in Nat
    OBVIOUS
  <1>4. a * UnitPbufs \in Nat
    BY <1>2, <1>3, Limits
  <1> HIDE DEF a
  <1>5. 1 + a * UnitPbufs \in Nat \ {0}
    BY <1>4
  <1> QED BY <1>5 DEF Clen, a

LEMMA Listed ==
  ASSUME NEW S, NEW q \in Seq(S)
  PROVE  /\ Len(q) \in Nat /\ DOMAIN q = 1 .. Len(q) /\ q \in [1 .. Len(q) -> S]
         /\ \A i \in 1 .. Len(q) : q[i] \in S
  BY LenProperties

LEMMA LengthsOf ==
  ASSUME NEW p \in Seq(Fragment)
  PROVE  [k \in DOMAIN p |-> Clen(p[k])] \in [1 .. Len(p) -> Nat]
  <1>1. DOMAIN p = 1 .. Len(p) /\ \A i \in 1 .. Len(p) : p[i] \in Fragment
    BY Listed
  <1>2. \A i \in 1 .. Len(p) : Clen(p[i]) \in Nat
    BY <1>1, ClenPositive
  <1> QED BY <1>1, <1>2

LEMMA PbufsNat ==
  ASSUME NEW r \in Datagram
  PROVE  PbufsOf(r) \in Nat
  <1>1. r.p \in Seq(Fragment)
    BY DEF Datagram
  <1> DEFINE t == [k \in DOMAIN r.p |-> Clen(r.p[k])]
  <1>2. t \in [1 .. Len(r.p) -> Nat] /\ Len(r.p) \in Nat
    BY <1>1, LengthsOf, Listed
  <1> HIDE DEF t
  <1>3. SumOf(t) \in Nat
    BY <1>2, SumNat
  <1> QED BY <1>3 DEF PbufsOf, t

\* The numbers that Total adds.
LEMMA Numbers ==
  ASSUME NEW q \in Seq(Datagram)
  PROVE  /\ [i \in DOMAIN q |-> PbufsOf(q[i])] \in [1 .. Len(q) -> Nat]
         /\ Total(q) \in Nat
  <1>1. DOMAIN q = 1 .. Len(q) /\ Len(q) \in Nat /\ \A i \in 1 .. Len(q) : q[i] \in Datagram
    BY Listed
  <1>2. \A i \in 1 .. Len(q) : PbufsOf(q[i]) \in Nat
    BY <1>1, PbufsNat
  <1> DEFINE t == [i \in DOMAIN q |-> PbufsOf(q[i])]
  <1>3. t \in [1 .. Len(q) -> Nat]
    BY <1>1, <1>2
  <1> HIDE DEF t
  <1>4. SumOf(t) \in Nat
    BY <1>1, <1>3, SumNat
  <1> QED BY <1>3, <1>4 DEF t, Total

\* q is r with one datagram more, the i-th.
OneMoreOf(q, r, i) ==
  /\ q \in Seq(Datagram) /\ r \in Seq(Datagram)
  /\ Len(q) = Len(r) + 1 /\ i \in 1 .. Len(q)
  /\ \A j \in 1 .. Len(r) : r[j] = IF j < i THEN q[j] ELSE q[j + 1]

LEMMA TotalOneMore ==
  ASSUME NEW q, NEW r, NEW i, OneMoreOf(q, r, i)
  PROVE  /\ Total(q) = Total(r) + PbufsOf(q[i])
         /\ Total(q) \in Nat /\ Total(r) \in Nat /\ PbufsOf(q[i]) \in Nat
  <1> DEFINE t == [j \in DOMAIN q |-> PbufsOf(q[j])]
             u == [j \in DOMAIN r |-> PbufsOf(r[j])]
             n == Len(r)
  <1>1. /\ q \in Seq(Datagram) /\ r \in Seq(Datagram)
        /\ n \in Nat /\ Len(q) = n + 1 /\ i \in 1 .. n + 1
        /\ DOMAIN q = 1 .. n + 1 /\ DOMAIN r = 1 .. n
        /\ \A j \in 1 .. n : r[j] = IF j < i THEN q[j] ELSE q[j + 1]
    BY Listed DEF OneMoreOf
  <1>2. t \in [1 .. n + 1 -> Nat] /\ u \in [1 .. n -> Nat]
    BY <1>1, Numbers
  <1>3. \A j \in 1 .. n : u[j] = IF j < i THEN t[j] ELSE t[j + 1]
    <2> TAKE j \in 1 .. n
    <2>1. j \in 1 .. n + 1 /\ j + 1 \in 1 .. n + 1
      BY <1>1
    <2>2. u[j] = PbufsOf(r[j]) /\ t[j] = PbufsOf(q[j]) /\ t[j + 1] = PbufsOf(q[j + 1])
      BY <1>1, <2>1
    <2> QED BY <1>1, <2>2
  <1>4. t[i] = PbufsOf(q[i])
    BY <1>1
  <1>5. Total(q) = SumOf(t) /\ Total(r) = SumOf(u) /\ Total(q) \in Nat
    BY <1>1, Numbers DEF Total
  <1> HIDE DEF t, u, n
  <1>6. OneMore(t, u, n, i)
    BY <1>1, <1>2, <1>3 DEF OneMore
  <1>7. SumOf(t) = SumOf(u) + t[i] /\ SumOf(u) \in Nat /\ t[i] \in Nat
    BY <1>6, SumOneMore, <1>1, <1>2
  <1> QED BY <1>4, <1>5, <1>7

LEMMA TotalReplaced ==
  ASSUME NEW q \in Seq(Datagram), NEW i \in DOMAIN q, NEW r \in Datagram
  PROVE  /\ [q EXCEPT ![i] = r] \in Seq(Datagram)
         /\ Total([q EXCEPT ![i] = r]) = Total(q) - PbufsOf(q[i]) + PbufsOf(r)
         /\ Total(q) \in Nat /\ PbufsOf(q[i]) <= Total(q)
  <1> DEFINE s == [q EXCEPT ![i] = r]
             t == [j \in DOMAIN q |-> PbufsOf(q[j])]
             u == [j \in DOMAIN s |-> PbufsOf(s[j])]
             n == Len(q)
  <1>1. n \in Nat /\ DOMAIN q = 1 .. n /\ q \in [1 .. n -> Datagram] /\ i \in 1 .. n
    BY Listed
  <1>2. s \in [1 .. n -> Datagram]
    BY <1>1
  <1>3. s \in Seq(Datagram) /\ Len(s) = n /\ DOMAIN s = 1 .. n
    BY <1>1, <1>2, NumbersLen
  <1>4. t \in [1 .. n -> Nat] /\ Total(q) \in Nat
    BY Numbers
  <1>5. u \in [1 .. n -> Nat]
    <2> HIDE DEF s
    <2> QED BY <1>3, Numbers
  <1>6. \A j \in 1 .. n : j /= i => u[j] = t[j]
    BY <1>1, <1>3
  <1>7. u[i] = PbufsOf(r) /\ t[i] = PbufsOf(q[i])
    BY <1>1, <1>3
  <1>8. Total(s) = SumOf(u) /\ Total(q) = SumOf(t)
    BY DEF Total
  <1> HIDE DEF s, t, u, n
  <1>9. SumOf(u) = SumOf(t) - t[i] + u[i] /\ t[i] <= SumOf(t)
    BY <1>1, <1>4, <1>5, <1>6, SumReplaced
  <1> QED BY <1>3, <1>4, <1>7, <1>8, <1>9 DEF s

\* Without takes one entry out.
LEMMA WithoutIs ==
  ASSUME NEW S, NEW q \in Seq(S), NEW i \in DOMAIN q
  PROVE  /\ Without(q, i) \in Seq(S)
         /\ Len(q) = Len(Without(q, i)) + 1
         /\ \A j \in 1 .. Len(Without(q, i)) :
              Without(q, i)[j] = IF j < i THEN q[j] ELSE q[j + 1]
  <1> DEFINE n == Len(q)
             a == SubSeq(q, 1, i - 1)
             b == SubSeq(q, i + 1, n)
  <1>1. n \in Nat /\ i \in 1 .. n /\ DOMAIN q = 1 .. n /\ i \in Int
    BY Listed
  <1>2. /\ a \in Seq(S) /\ Len(a) = i - 1
        /\ \A j \in 1 .. i - 1 : a[j] = q[j]
    <2>1. 1 \in 1 .. n + 1 /\ i - 1 \in 1 - 1 .. n
      BY <1>1
    <2>2. /\ a \in Seq(S) /\ Len(a) = i - 1 - 1 + 1
          /\ \A j \in 1 .. i - 1 - 1 + 1 : a[j] = q[1 + j - 1]
      BY <2>1, SubSeqProperties
    <2> HIDE DEF a
    <2> QED BY <1>1, <2>2
  <1>3. /\ b \in Seq(S) /\ Len(b) = n - i
        /\ \A j \in 1 .. n - i : b[j] = q[i + j]
    <2>1. i + 1 \in 1 .. n + 1 /\ n \in (i + 1) - 1 .. n
      BY <1>1
    <2>2. /\ b \in Seq(S) /\ Len(b) = n - (i + 1) + 1
          /\ \A j \in 1 .. n - (i + 1) + 1 : b[j] = q[i + 1 + j - 1]
      BY <2>1, SubSeqProperties
    <2>3. n - (i + 1) + 1 = n - i /\ \A j \in 1 .. n - i : i + 1 + j - 1 = i + j
      BY <1>1
    <2> HIDE DEF b
    <2> QED BY <2>2, <2>3
  <1>4. Without(q, i) = a \o b
    BY DEF Without
  <1> HIDE DEF a, b
  <1>5. /\ a \o b \in Seq(S) /\ Len(a \o b) = Len(a) + Len(b)
        /\ \A j \in 1 .. Len(a) + Len(b) :
             (a \o b)[j] = IF j <= Len(a) THEN a[j] ELSE b[j - Len(a)]
    BY <1>2, <1>3, ConcatProperties
  <1>6. Len(a) + Len(b) = n - 1
    BY <1>1, <1>2, <1>3
  <1>7. ASSUME NEW j \in 1 .. n - 1
        PROVE  (a \o b)[j] = IF j < i THEN q[j] ELSE q[j + 1]
    <2>1. (a \o b)[j] = IF j <= i - 1 THEN a[j] ELSE b[j - (i - 1)]
      BY <1>2, <1>5, <1>6
    <2>2. CASE j < i
      <3>1. j <= i - 1 /\ j \in 1 .. i - 1
        BY <1>1, <2>2
      <3> QED BY <1>2, <2>1, <2>2, <3>1
    <2>3. CASE ~(j < i)
      <3>1. ~(j <= i - 1) /\ j - (i - 1) \in 1 .. n - i /\ i + (j - (i - 1)) = j + 1
        BY <1>1, <2>3
      <3> QED BY <1>3, <2>1, <2>3, <3>1
    <2> QED BY <2>2, <2>3
  <1>8. Without(q, i) \in Seq(S) /\ Len(Without(q, i)) = n - 1 /\ n = (n - 1) + 1
    <2>1. Without(q, i) \in Seq(S)
      BY <1>4, <1>5
    <2>2. Len(Without(q, i)) = n - 1
      BY <1>4, <1>5, <1>6
    <2>3. n = (n - 1) + 1
      BY <1>1
    <2> QED BY <2>1, <2>2, <2>3
  <1>9. \A j \in 1 .. n - 1 : Without(q, i)[j] = IF j < i THEN q[j] ELSE q[j + 1]
    BY <1>4, <1>7
  <1> QED BY <1>8, <1>9

LEMMA WithoutOne ==
  ASSUME NEW q \in Seq(Datagram), NEW i \in DOMAIN q
  PROVE  OneMoreOf(q, Without(q, i), i)
  BY WithoutIs, Listed DEF OneMoreOf

-----------------------------------------------------------------------------
(* ip_reass_remove_oldest_datagram takes datagrams off the end of the list. *)

\* What the loop has left of q, for the sake of d.
IsRest(s, q, d) ==
  /\ s \in [q : Seq(Datagram), freed : Nat, again : BOOLEAN, failed : BOOLEAN]
  /\ Len(s.q) <= Len(q)
  /\ \A j \in 1 .. Len(s.q) : s.q[j] = q[j]
  /\ Total(q) = Total(s.q) + s.freed
  /\ s.freed > 0 => Len(s.q) < Len(q)
  /\ s.again => Others(s.q, d) /= {}

LEMMA OneTurn ==
  ASSUME NEW q \in Seq(Datagram), NEW d, NEW needed \in Nat, NEW s, IsRest(s, q, d)
  PROVE  IsRest(RemoveOne(s, d, needed), q, d)
  <1> DEFINE i == OldestOther(s.q, d)
             x == RemoveOne(s, d, needed)
  <1> SUFFICES IsRest(x, q, d)
    OBVIOUS
  <1>0. /\ s \in [q : Seq(Datagram), freed : Nat, again : BOOLEAN, failed : BOOLEAN]
        /\ s.q \in Seq(Datagram) /\ s.freed \in Nat
        /\ Len(s.q) <= Len(q)
        /\ \A j \in 1 .. Len(s.q) : s.q[j] = q[j]
        /\ Total(q) = Total(s.q) + s.freed
        /\ s.freed > 0 => Len(s.q) < Len(q)
    BY DEF IsRest
  <1>n. /\ Len(q) \in Nat /\ Len(s.q) \in Nat
        /\ DOMAIN s.q = 1 .. Len(s.q) /\ Total(q) \in Nat /\ Total(s.q) \in Nat
    BY <1>0, Listed, Numbers
  <1>1. CASE ~s.again
    <2>1. x = s
      BY <1>1 DEF RemoveOne
    <2> QED BY <2>1
  <1>2. CASE s.again /\ i /= Len(s.q)
    <2>1. x = [s EXCEPT !.again = FALSE, !.failed = TRUE]
      BY <1>2 DEF RemoveOne
    <2>2. /\ x \in [q : Seq(Datagram), freed : Nat, again : BOOLEAN, failed : BOOLEAN]
          /\ x.q = s.q /\ x.freed = s.freed /\ ~x.again
      BY <1>0, <2>1
    <2> HIDE DEF x
    <2> QED BY <1>0, <2>2 DEF IsRest
  <1>3. CASE s.again /\ i = Len(s.q)
    <2> DEFINE w == Without(s.q, i)
               n == s.freed + PbufsOf(s.q[i])
               a == n < needed /\ Cardinality(Others(s.q, d)) > 1
    <2>1. x = [q |-> w, freed |-> n, failed |-> FALSE, again |-> a]
      BY <1>3 DEF RemoveOne
    <2>2. Others(s.q, d) /= {}
      BY <1>3 DEF IsRest
    <2>3. i \in DOMAIN s.q /\ i \in Nat /\ i = Len(s.q)
      BY <1>n, <1>3, <2>2 DEF Others
    <2>4. OneMoreOf(s.q, w, i)
      BY <1>0, <2>3, WithoutOne
    <2>5. /\ w \in Seq(Datagram) /\ Len(s.q) = Len(w) + 1
          /\ \A j \in 1 .. Len(w) : w[j] = IF j < i THEN s.q[j] ELSE s.q[j + 1]
      BY <2>4 DEF OneMoreOf
    <2>6. Len(w) \in Nat /\ DOMAIN w = 1 .. Len(w)
      BY <2>5, Listed
    <2>7. \A j \in 1 .. Len(w) : w[j] = s.q[j]
      <3> TAKE j \in 1 .. Len(w)
      <3>1. j < i
        BY <2>3, <2>5, <2>6
      <3> QED BY <2>5, <3>1
    <2>8. /\ Total(s.q) = Total(w) + PbufsOf(s.q[i])
          /\ Total(w) \in Nat /\ PbufsOf(s.q[i]) \in Nat
      BY <2>4, TotalOneMore
    <2>9. a => Others(w, d) /= {}
      <3> SUFFICES ASSUME Cardinality(Others(s.q, d)) > 1, Others(w, d) = {} PROVE FALSE
        OBVIOUS
      <3>1. Others(s.q, d) \subseteq {i}
        <4> SUFFICES ASSUME NEW j \in Others(s.q, d), j /= i PROVE FALSE
          OBVIOUS
        <4>1. j \in 1 .. Len(s.q) /\ s.q[j].id /= d
          BY <1>n DEF Others
        <4>2. j \in 1 .. Len(w)
          BY <2>3, <2>5, <2>6, <4>1
        <4>3. j \in Others(w, d)
          BY <2>6, <2>7, <4>1, <4>2 DEF Others
        <4> QED BY <4>3
      <3>2. IsFiniteSet({i}) /\ Cardinality({i}) = 1
        BY FS_Singleton
      <3>3. Cardinality(Others(s.q, d)) <= 1
        BY <3>1, <3>2, FS_Subset
      <3>4. Cardinality(Others(s.q, d)) \in Nat
        BY <3>1, <3>2, FS_Subset, FS_CardinalityType
      <3> QED BY <3>3, <3>4
    <2>10. n \in Nat /\ a \in BOOLEAN /\ Total(q) = Total(w) + n
      BY <1>0, <1>n, <2>8
    <2>11. Len(w) < Len(q) /\ Len(w) <= Len(q)
      BY <1>0, <1>n, <2>5, <2>6
    <2>12. \A j \in 1 .. Len(w) : w[j] = q[j]
      <3> TAKE j \in 1 .. Len(w)
      <3>1. j \in 1 .. Len(s.q)
        BY <2>5, <2>6
      <3> QED BY <1>0, <2>7, <3>1
    <2> HIDE DEF w, n, a, x
    <2>13. /\ x \in [q : Seq(Datagram), freed : Nat, again : BOOLEAN, failed : BOOLEAN]
           /\ x.q = w /\ x.freed = n /\ (x.again => a)
      BY <2>1, <2>5, <2>10
    <2> QED BY <2>9, <2>10, <2>11, <2>12, <2>13 DEF IsRest
  <1> QED BY <1>1, <1>2, <1>3

\* The states of the loop.
Loop(f, q, d, needed, n) ==
  f = [k \in 0 .. n |->
         IF k = 0
           THEN [q |-> q, freed |-> 0, again |-> Others(q, d) /= {}, failed |-> FALSE]
           ELSE RemoveOne(f[k - 1], d, needed)]

LEMMA LoopExists == ASSUME NEW q, NEW d, NEW needed, NEW N \in Nat
                    PROVE  \E f : Loop(f, q, d, needed, N)
  <1> DEFINE S == {n \in 0 .. N : ~ \E f : Loop(f, q, d, needed, n)}
             first == [q |-> q, freed |-> 0, again |-> Others(q, d) /= {}, failed |-> FALSE]
  <1> SUFFICES ASSUME S /= {} PROVE FALSE
    OBVIOUS
  <1>1. S \in SUBSET Nat
    OBVIOUS
  <1>2. PICK n \in S : \A k \in S : n <= k
    <2> HIDE DEF S
    <2> QED BY <1>1, LeastExists
  <1>3. n \in 0 .. N /\ ~ \E f : Loop(f, q, d, needed, n)
    OBVIOUS
  <1>4. \A k \in 0 .. N : k < n => \E f : Loop(f, q, d, needed, k)
    BY <1>2
  <1>f. \A f, k : Loop(f, q, d, needed, k) <=>
          f = [j \in 0 .. k |-> IF j = 0 THEN first ELSE RemoveOne(f[j - 1], d, needed)]
    BY DEF Loop
  <1> HIDE DEF S, first
  <1>5. CASE n = 0
    <2> DEFINE f == [k \in 0 .. n |-> first]
    <2>1. f = [k \in 0 .. n |-> IF k = 0 THEN first ELSE RemoveOne(f[k - 1], d, needed)]
      BY <1>5
    <2> QED BY <1>3, <1>f, <2>1
  <1>6. CASE n /= 0
    <2>1. n - 1 \in 0 .. N /\ n - 1 < n /\ n \in Nat
      BY <1>3, <1>6
    <2>2. PICK f : Loop(f, q, d, needed, n - 1)
      BY <1>4, <2>1
    <2> DEFINE g == [k \in 0 .. n |-> IF k = n THEN RemoveOne(f[n - 1], d, needed) ELSE f[k]]
    <2>3. \A k \in 0 .. n - 1 :
            f[k] = IF k = 0 THEN first ELSE RemoveOne(f[k - 1], d, needed)
      BY <1>f, <2>2
    <2>4. ASSUME NEW k \in 0 .. n
          PROVE  g[k] = IF k = 0 THEN first ELSE RemoveOne(g[k - 1], d, needed)
      <3>1. CASE k = n
        <4>1. k /= 0 /\ k - 1 \in 0 .. n /\ k - 1 /= n
          BY <1>6, <2>1, <3>1
        <4>2. g[k - 1] = f[k - 1]
          BY <4>1
        <4>3. g[k] = RemoveOne(f[n - 1], d, needed)
          BY <2>1, <3>1
        <4> HIDE DEF g
        <4> QED BY <3>1, <4>1, <4>2, <4>3
      <3>2. CASE k /= n
        <4>1. k \in 0 .. n - 1 /\ (k /= 0 => k - 1 \in 0 .. n /\ k - 1 /= n)
          BY <2>1, <3>2
        <4>2. g[k] = f[k] /\ (k /= 0 => g[k - 1] = f[k - 1])
          BY <3>2, <4>1
        <4> HIDE DEF g
        <4> QED BY <2>3, <4>1, <4>2
      <3> QED BY <3>1, <3>2
    <2>5. g = [k \in 0 .. n |-> g[k]]
      OBVIOUS
    <2> HIDE DEF g
    <2>6. Loop(g, q, d, needed, n)
      <3>1. g = [j \in 0 .. n |-> IF j = 0 THEN first ELSE RemoveOne(g[j - 1], d, needed)]
        BY <2>4, <2>5
      <3> QED BY <1>f, <3>1
    <2> QED BY <1>3, <2>6
  <1> QED BY <1>5, <1>6

LEMMA RemoveOldestIs ==
  ASSUME NEW q \in Seq(Datagram), NEW d, NEW needed \in Nat
  PROVE  IsRest(RemoveOldest(q, d, needed), q, d)
  <1> DEFINE first == [q |-> q, freed |-> 0, again |-> Others(q, d) /= {}, failed |-> FALSE]
             n == Len(q)
             pass == CHOOSE f : f = [k \in 0 .. n |->
                       IF k = 0 THEN first ELSE RemoveOne(f[k - 1], d, needed)]
  <1>0. n \in Nat /\ Total(q) \in Nat
    BY Listed, Numbers
  <1>1. \E f : Loop(f, q, d, needed, n)
    BY <1>0, LoopExists
  <1>2. pass = [k \in 0 .. n |-> IF k = 0 THEN first ELSE RemoveOne(pass[k - 1], d, needed)]
    BY <1>1 DEF Loop
  <1>3. RemoveOldest(q, d, needed) = pass[n]
    BY DEF RemoveOldest
  <1>4. IsRest(first, q, d)
    <2>1. /\ first \in [q : Seq(Datagram), freed : Nat, again : BOOLEAN, failed : BOOLEAN]
          /\ first.q = q /\ first.freed = 0 /\ (first.again => Others(q, d) /= {})
      OBVIOUS
    <2> HIDE DEF first
    <2> QED BY <1>0, <2>1 DEF IsRest
  <1> HIDE DEF pass, first
  <1>5. \A k \in 0 .. n : pass[k] = IF k = 0 THEN first ELSE RemoveOne(pass[k - 1], d, needed)
    BY <1>2
  <1> DEFINE S == {k \in 0 .. n : ~IsRest(pass[k], q, d)}
  <1>6. S = {}
    <2> SUFFICES ASSUME S /= {} PROVE FALSE
      OBVIOUS
    <2>1. S \in SUBSET Nat
      OBVIOUS
    <2>2. PICK k \in S : \A j \in S : k <= j
      <3> HIDE DEF S
      <3> QED BY <2>1, LeastExists
    <2>3. k \in 0 .. n /\ ~IsRest(pass[k], q, d)
      OBVIOUS
    <2>4. k /= 0
      BY <1>4, <1>5, <2>3
    <2>5. k - 1 \in 0 .. n /\ ~(k <= k - 1)
      BY <2>3, <2>4
    <2>6. IsRest(pass[k - 1], q, d)
      BY <2>2, <2>5
    <2> HIDE DEF S, n
    <2>7. IsRest(RemoveOne(pass[k - 1], d, needed), q, d)
      BY <2>6, OneTurn
    <2> QED BY <1>5, <2>3, <2>4, <2>7
  <1>7. n \in 0 .. n
    BY <1>0
  <1> QED BY <1>3, <1>6, <1>7

-----------------------------------------------------------------------------
(* Lists in the order of the ages.                                         *)

Ordered(q) ==
  \A i, j \in DOMAIN q : i < j => q[i].id /= q[j].id /\ q[j].timer <= q[i].timer

Filled(q) == \A i \in DOMAIN q : q[i].p /= <<>>

Waiting(q) == q \in Seq(Datagram) /\ Len(q) <= ReassData /\ Ordered(q)

LEMMA RestKeeps ==
  ASSUME NEW q, Waiting(q), Filled(q), NEW s, NEW d, IsRest(s, q, d)
  PROVE  /\ Waiting(s.q) /\ Filled(s.q)
         /\ Total(q) \in Nat /\ Total(s.q) \in Nat /\ s.freed \in Nat
         /\ Total(s.q) = Total(q) - s.freed
  <1>1. /\ q \in Seq(Datagram) /\ Len(q) <= ReassData /\ Ordered(q)
    BY DEF Waiting
  <1>2. /\ s.q \in Seq(Datagram) /\ s.freed \in Nat
        /\ Len(s.q) <= Len(q)
        /\ \A j \in 1 .. Len(s.q) : s.q[j] = q[j]
        /\ Total(q) = Total(s.q) + s.freed
    BY DEF IsRest
  <1>3. /\ Len(q) \in Nat /\ Len(s.q) \in Nat
        /\ DOMAIN q = 1 .. Len(q) /\ DOMAIN s.q = 1 .. Len(s.q)
        /\ Total(q) \in Nat /\ Total(s.q) \in Nat
    BY <1>1, <1>2, Listed, Numbers
  <1>4. \A j \in DOMAIN s.q : j \in DOMAIN q /\ s.q[j] = q[j]
    BY <1>2, <1>3
  <1>5. Ordered(s.q)
    BY <1>1, <1>4 DEF Ordered
  <1>6. Filled(s.q)
    BY <1>4 DEF Filled
  <1>7. Len(s.q) <= ReassData
    BY <1>1, <1>2, <1>3, Limits
  <1> QED BY <1>2, <1>3, <1>5, <1>6, <1>7 DEF Waiting

LEMMA WithoutKeeps ==
  ASSUME NEW q, Waiting(q), NEW i \in DOMAIN q,
         \A j \in DOMAIN q : j /= i => q[j].p /= <<>>
  PROVE  /\ Waiting(Without(q, i)) /\ Filled(Without(q, i))
         /\ Total(Without(q, i)) = Total(q) - PbufsOf(q[i])
         /\ Total(Without(q, i)) \in Nat /\ Total(q) \in Nat /\ PbufsOf(q[i]) \in Nat
  <1> DEFINE w == Without(q, i)
  <1>1. q \in Seq(Datagram) /\ Len(q) <= ReassData /\ Ordered(q)
    BY DEF Waiting
  <1>2. OneMoreOf(q, w, i)
    BY <1>1, WithoutOne
  <1> HIDE DEF w
  <1>3. /\ w \in Seq(Datagram) /\ Len(q) = Len(w) + 1 /\ i \in 1 .. Len(q)
        /\ \A j \in 1 .. Len(w) : w[j] = IF j < i THEN q[j] ELSE q[j + 1]
    BY <1>2 DEF OneMoreOf
  <1>4. /\ Len(q) \in Nat /\ Len(w) \in Nat
        /\ DOMAIN q = 1 .. Len(q) /\ DOMAIN w = 1 .. Len(w)
    BY <1>1, <1>3, Listed
  <1> DEFINE e(j) == IF j < i THEN j ELSE j + 1
  <1>5. \A j \in DOMAIN w : e(j) \in DOMAIN q /\ w[j] = q[e(j)] /\ e(j) /= i
    <2> TAKE j \in DOMAIN w
    <2>1. CASE j < i
      BY <1>3, <1>4, <2>1
    <2>2. CASE ~(j < i)
      BY <1>3, <1>4, <2>2
    <2> QED BY <2>1, <2>2
  <1>6. \A j, k \in DOMAIN w : j < k => e(j) < e(k)
    BY <1>3, <1>4
  <1> HIDE DEF e
  <1>7. Ordered(w)
    BY <1>1, <1>5, <1>6 DEF Ordered
  <1>8. Filled(w)
    BY <1>5 DEF Filled
  <1>9. Len(w) <= ReassData
    BY <1>1, <1>3, <1>4, Limits
  <1>10. /\ Total(q) = Total(w) + PbufsOf(q[i])
         /\ Total(q) \in Nat /\ Total(w) \in Nat /\ PbufsOf(q[i]) \in Nat
    BY <1>2, TotalOneMore
  <1> QED BY <1>3, <1>7, <1>8, <1>9, <1>10 DEF Waiting, w

\* ip_reass_enqueue_new_datagram: the new one is the first.
LEMMA NewKeeps ==
  ASSUME NEW w, Waiting(w), Filled(w), Len(w) < ReassData,
         NEW d \in Datagrams, IndexOf(w, d) = {}
  PROVE  LET q == <<New(d)>> \o w IN
         /\ Waiting(q) /\ 1 \in DOMAIN q
         /\ \A j \in DOMAIN q : j /= 1 => q[j].p /= <<>>
         /\ Total(q) = Total(w)
  <1> DEFINE x == New(d)
             q == <<x>> \o w
  <1>1. w \in Seq(Datagram) /\ Ordered(w) /\ Len(w) \in Nat /\ DOMAIN w = 1 .. Len(w)
        /\ \A i \in 1 .. Len(w) : w[i] \in Datagram
    BY Listed DEF Waiting
  <1>2. /\ x \in Datagram /\ x.id = d /\ x.timer = ReassMaxAge /\ x.p = <<>>
    <2>1. <<>> \in Seq(Fragment)
      OBVIOUS
    <2> QED BY <2>1, Limits DEF New, Datagram
  <1>3. \A r \in Datagram : r.timer \in 0 .. ReassMaxAge
    BY DEF Datagram
  <1> HIDE DEF x
  <1>4. <<x>> \in Seq(Datagram) /\ Len(<<x>>) = 1 /\ <<x>>[1] = x
    BY <1>2
  <1>5. /\ q \in Seq(Datagram) /\ Len(q) = 1 + Len(w)
        /\ \A j \in 1 .. 1 + Len(w) : q[j] = IF j <= 1 THEN <<x>>[j] ELSE w[j - 1]
    BY <1>1, <1>4, ConcatProperties
  <1> HIDE DEF q
  <1>6. DOMAIN q = 1 .. Len(w) + 1 /\ Len(q) = Len(w) + 1
    BY <1>1, <1>5, Listed
  <1>7. q[1] = x /\ 1 \in DOMAIN q
    BY <1>1, <1>4, <1>5, <1>6
  <1>8. \A j \in DOMAIN q : j /= 1 => j - 1 \in DOMAIN w /\ q[j] = w[j - 1]
    BY <1>1, <1>5, <1>6
  <1>9. Ordered(q)
    <2> SUFFICES ASSUME NEW i \in DOMAIN q, NEW j \in DOMAIN q, i < j
                 PROVE  q[i].id /= q[j].id /\ q[j].timer <= q[i].timer
      BY DEF Ordered
    <2>1. j /= 1 /\ j - 1 \in DOMAIN w /\ q[j] = w[j - 1]
      BY <1>6, <1>8
    <2>2. CASE i = 1
      <3>1. w[j - 1].id /= d
        BY <2>1 DEF IndexOf
      <3>2. w[j - 1].timer <= ReassMaxAge
        BY <1>1, <1>3, <2>1, Limits
      <3> QED BY <1>2, <1>7, <2>1, <2>2, <3>1, <3>2
    <2>3. CASE i /= 1
      <3>1. i - 1 \in DOMAIN w /\ q[i] = w[i - 1] /\ i - 1 < j - 1
        BY <1>6, <1>8, <2>3
      <3> QED BY <1>1, <2>1, <3>1 DEF Ordered
    <2> QED BY <2>2, <2>3
  <1>10. Len(q) <= ReassData
    BY <1>1, <1>6, Limits
  <1>11. OneMoreOf(q, w, 1)
    <2>1. \A j \in 1 .. Len(w) : w[j] = q[j + 1] /\ ~(j < 1)
      BY <1>1, <1>5
    <2>2. 1 \in 1 .. Len(q)
      BY <1>1, <1>6
    <2> QED BY <1>1, <1>5, <1>6, <2>1, <2>2 DEF OneMoreOf
  <1>12. PbufsOf(x) = 0
    <2> DEFINE t == [k \in DOMAIN x.p |-> Clen(x.p[k])]
    <2>1. x.p \in Seq(Fragment) /\ Len(x.p) = 0
      BY <1>2 DEF Datagram
    <2>2. t \in [1 .. 0 -> Nat]
      BY <2>1, LengthsOf
    <2>3. PbufsOf(x) = SumOf(t)
      BY DEF PbufsOf
    <2> HIDE DEF t
    <2>4. \E f : Partial(f, t, 0) /\ SumOf(t) = f[0]
      BY <2>2, SumIs
    <2> QED BY <2>3, <2>4 DEF Partial
  <1>13. Total(q) = Total(w)
    BY <1>7, <1>11, <1>12, TotalOneMore
  <1>14. \A j \in DOMAIN q : j /= 1 => q[j].p /= <<>>
    BY <1>8 DEF Filled
  <1> QED BY <1>5, <1>7, <1>9, <1>10, <1>13, <1>14 DEF Waiting, q, x

\* Datagram i is replaced by one of the same name and age.
LEMMA ReplacedKeeps ==
  ASSUME NEW q, Waiting(q), NEW i \in DOMAIN q, NEW r \in Datagram,
         \A j \in DOMAIN q : j /= i => q[j].p /= <<>>,
         r.id = q[i].id, r.timer = q[i].timer, r.p /= <<>>
  PROVE  /\ Waiting([q EXCEPT ![i] = r]) /\ Filled([q EXCEPT ![i] = r])
         /\ Total([q EXCEPT ![i] = r]) = Total(q) - PbufsOf(q[i]) + PbufsOf(r)
  <1> DEFINE s == [q EXCEPT ![i] = r]
  <1>1. q \in Seq(Datagram) /\ Len(q) <= ReassData /\ Ordered(q)
    BY DEF Waiting
  <1>2. s \in Seq(Datagram) /\ Total(s) = Total(q) - PbufsOf(q[i]) + PbufsOf(r)
    BY <1>1, TotalReplaced
  <1>3. DOMAIN s = DOMAIN q /\ s[i] = r /\ \A j \in DOMAIN q : j /= i => s[j] = q[j]
    OBVIOUS
  <1> HIDE DEF s
  <1>4. Len(s) = Len(q)
    BY <1>1, <1>2, <1>3, Listed
  <1>5. \A j \in DOMAIN q : s[j].id = q[j].id /\ s[j].timer = q[j].timer /\ s[j].p /= <<>>
    BY <1>3
  <1>6. Ordered(s)
    BY <1>1, <1>3, <1>5 DEF Ordered
  <1>7. Filled(s)
    BY <1>3, <1>5 DEF Filled
  <1> QED BY <1>1, <1>2, <1>4, <1>6, <1>7 DEF Waiting, s

-----------------------------------------------------------------------------
(* The fragments of a datagram.                                            *)

LEMMA SizeUpTo ==
  ASSUME NEW n \in Nat
  PROVE  IsFiniteSet(1 .. n) /\ Cardinality(1 .. n) = n
  <1>1. 1 \in Int /\ n \in Int
    OBVIOUS
  <1>2. Cardinality(1 .. n) = IF 1 > n THEN 0 ELSE n - 1 + 1
    BY <1>1, FS_Interval
  <1> QED BY <1>1, <1>2, FS_Interval

\* The loop passes the fragments that start before f.
LEMMA AheadIs ==
  ASSUME NEW q \in Seq(Fragment), NEW f
  PROVE  /\ Ahead(q, f) \in 0 .. Len(q)
         /\ \A j \in 1 .. Ahead(q, f) : q[j].start < f.start
  <1> DEFINE S == {i \in DOMAIN q : \A j \in 1 .. i : q[j].start < f.start}
  <1>1. Len(q) \in Nat /\ DOMAIN q = 1 .. Len(q)
    BY Listed
  <1>2. Ahead(q, f) = Cardinality(S)
    BY DEF Ahead
  <1>3. CASE S = {}
    <2>1. Cardinality(S) = 0
      BY <1>3, FS_EmptySet
    <2> HIDE DEF S
    <2> QED BY <1>1, <1>2, <2>1
  <1>4. CASE S /= {}
    <2>1. S \in SUBSET (0 .. Len(q))
      BY <1>1
    <2>2. PICK m \in S : \A j \in S : j <= m
      <3> HIDE DEF S
      <3> QED BY <1>1, <1>4, <2>1, GreatestExists
    <2>3. m \in 1 .. Len(q) /\ \A j \in 1 .. m : q[j].start < f.start
      BY <1>1
    <2>4. \A i \in 1 .. m : i \in S
      BY <1>1, <2>3
    <2>5. S = 1 .. m
      <3>1. \A i \in S : i \in 1 .. m
        BY <1>1, <2>2
      <3> HIDE DEF S
      <3> QED BY <2>4, <3>1
    <2> HIDE DEF S
    <2>6. Cardinality(S) = m
      BY <2>3, <2>5, SizeUpTo
    <2> QED BY <1>1, <1>2, <2>3, <2>6
  <1> QED BY <1>3, <1>4

\* What is in front of f, and what behind it.
LEMMA Parted ==
  ASSUME NEW q \in Seq(Fragment), NEW f, NEW m, m = Ahead(q, f)
  PROVE  /\ m \in 0 .. Len(q) /\ Len(q) \in Nat
         /\ InFront(q, f) \in Seq(Fragment) /\ Len(InFront(q, f)) = m
         /\ \A j \in 1 .. m : InFront(q, f)[j] = q[j]
         /\ Behind(q, f) \in Seq(Fragment) /\ Len(Behind(q, f)) = Len(q) - m
         /\ \A j \in 1 .. Len(q) - m : Behind(q, f)[j] = q[m + j]
  <1> DEFINE n == Len(q)
             a == SubSeq(q, 1, m)
             b == SubSeq(q, m + 1, n)
  <1>1. n \in Nat /\ DOMAIN q = 1 .. n /\ \A j \in 1 .. n : q[j] \in Fragment
    BY Listed
  <1>2. m \in 0 .. n
    BY AheadIs
  <1>3. a \in Seq(Fragment) /\ Len(a) = m /\ \A j \in 1 .. m : a[j] = q[j]
    <2>1. 1 \in Int /\ m \in Int /\ \A j \in 1 .. m : q[j] \in Fragment
      BY <1>1, <1>2
    <2>2. /\ a \in Seq(Fragment) /\ Len(a) = IF 1 <= m THEN m - 1 + 1 ELSE 0
          /\ \A j \in 1 .. m - 1 + 1 : a[j] = q[1 + j - 1]
      BY <2>1, SubSeqProperties
    <2> HIDE DEF a
    <2> QED BY <1>2, <2>2
  <1>4. b \in Seq(Fragment) /\ Len(b) = n - m /\ \A j \in 1 .. n - m : b[j] = q[m + j]
    <2>1. m + 1 \in Int /\ n \in Int /\ \A j \in m + 1 .. n : q[j] \in Fragment
      BY <1>1, <1>2
    <2>2. /\ b \in Seq(Fragment) /\ Len(b) = IF m + 1 <= n THEN n - (m + 1) + 1 ELSE 0
          /\ \A j \in 1 .. n - (m + 1) + 1 : b[j] = q[m + 1 + j - 1]
      BY <2>1, SubSeqProperties
    <2>3. n - (m + 1) + 1 = n - m /\ \A j \in 1 .. n - m : m + 1 + j - 1 = m + j
      BY <1>1, <1>2
    <2> HIDE DEF b
    <2> QED BY <1>1, <1>2, <2>2, <2>3
  <1>5. InFront(q, f) = a /\ Behind(q, f) = b
    BY DEF InFront, Behind
  <1> HIDE DEF a, b
  <1> QED BY <1>1, <1>2, <1>3, <1>4, <1>5

Chained(q, f) == InFront(q, f) \o <<f>> \o Behind(q, f)

\* p has f among the fragments q, behind the m-th.
IsChained(p, q, f, m) ==
  /\ p \in Seq(Fragment) /\ q \in Seq(Fragment)
  /\ m \in 0 .. Len(q) /\ Len(p) = Len(q) + 1
  /\ p[m + 1] = f
  /\ \A j \in 1 .. Len(q) + 1 : j <= m => p[j] = q[j]
  /\ \A j \in 1 .. Len(q) + 1 : j > m + 1 => p[j] = q[j - 1]

LEMMA ChainedIs ==
  ASSUME NEW q \in Seq(Fragment), NEW f \in Fragment, NEW m, m = Ahead(q, f)
  PROVE  IsChained(Chained(q, f), q, f, m)
  <1> DEFINE n == Len(q)
             a == InFront(q, f)
             b == Behind(q, f)
             o == <<f>>
             c == a \o o
             p == c \o b
  <1>1. /\ m \in 0 .. n /\ n \in Nat
        /\ a \in Seq(Fragment) /\ Len(a) = m
        /\ \A j \in 1 .. m : a[j] = q[j]
        /\ b \in Seq(Fragment) /\ Len(b) = n - m
        /\ \A j \in 1 .. n - m : b[j] = q[m + j]
    BY Parted
  <1>2. Chained(q, f) = p
    BY DEF Chained
  <1> HIDE DEF a, b
  <1>3. o \in Seq(Fragment) /\ Len(o) = 1 /\ o[1] = f
    OBVIOUS
  <1> HIDE DEF o
  <1>4. /\ c \in Seq(Fragment) /\ Len(c) = m + 1
        /\ \A j \in 1 .. m + 1 : c[j] = IF j <= m THEN a[j] ELSE o[j - m]
    <2>1. /\ c \in Seq(Fragment) /\ Len(c) = Len(a) + Len(o)
          /\ \A j \in 1 .. Len(a) + Len(o) : c[j] = IF j <= Len(a) THEN a[j] ELSE o[j - Len(a)]
      BY <1>1, <1>3, ConcatProperties
    <2> HIDE DEF c
    <2> QED BY <1>1, <1>3, <2>1
  <1>5. c[m + 1] = f /\ \A j \in 1 .. m : c[j] = q[j]
    <2>1. m + 1 \in 1 .. m + 1 /\ ~(m + 1 <= m) /\ m + 1 - m = 1
      BY <1>1
    <2>2. \A j \in 1 .. m : j \in 1 .. m + 1 /\ j <= m
      BY <1>1
    <2> HIDE DEF c
    <2>3. c[m + 1] = f
      <3>1. c[m + 1] = o[m + 1 - m]
        BY <1>1, <1>4, <2>1
      <3> QED BY <1>3, <2>1, <3>1
    <2>4. \A j \in 1 .. m : c[j] = a[j]
      BY <1>4, <2>2
    <2> QED BY <1>1, <2>3, <2>4
  <1> HIDE DEF c
  <1>6. /\ p \in Seq(Fragment) /\ Len(p) = (m + 1) + (n - m)
        /\ \A j \in 1 .. (m + 1) + (n - m) :
             p[j] = IF j <= m + 1 THEN c[j] ELSE b[j - (m + 1)]
    BY <1>1, <1>4, ConcatProperties
  <1>7. (m + 1) + (n - m) = n + 1
    BY <1>1
  <1> HIDE DEF p
  <1>8. p[m + 1] = f
    <2>1. m + 1 \in 1 .. n + 1
      BY <1>1
    <2> QED BY <1>5, <1>6, <1>7, <2>1
  <1>9. ASSUME NEW j \in 1 .. n + 1, j <= m PROVE p[j] = q[j]
    <2>1. j \in 1 .. m /\ j <= m + 1
      BY <1>1, <1>9
    <2> QED BY <1>5, <1>6, <1>7, <2>1
  <1>10. ASSUME NEW j \in 1 .. n + 1, j > m + 1 PROVE p[j] = q[j - 1]
    <2>1. ~(j <= m + 1) /\ j - (m + 1) \in 1 .. n - m /\ m + (j - (m + 1)) = j - 1
      BY <1>1, <1>10
    <2>2. p[j] = b[j - (m + 1)]
      BY <1>6, <1>7, <2>1
    <2>3. b[j - (m + 1)] = q[m + (j - (m + 1))]
      BY <1>1, <2>1
    <2> QED BY <2>1, <2>2, <2>3
  <1>11. IsChained(p, q, f, m)
    BY <1>1, <1>6, <1>7, <1>8, <1>9, <1>10 DEF IsChained
  <1> QED BY <1>2, <1>11

\* One fragment more: so many pbufs more.
LEMMA ChainedPbufs ==
  ASSUME NEW q \in Seq(Fragment), NEW f \in Fragment
  PROVE  LET lens(p) == [k \in DOMAIN p |-> Clen(p[k])] IN
         SumOf(lens(Chained(q, f))) = SumOf(lens(q)) + Clen(f)
  <1> DEFINE p == Chained(q, f)
             n == Len(q)
             t == [k \in DOMAIN p |-> Clen(p[k])]
             u == [k \in DOMAIN q |-> Clen(q[k])]
  <1>m. PICK m : m = Ahead(q, f)
    OBVIOUS
  <1>1. /\ m \in 0 .. n /\ n \in Nat /\ DOMAIN q = 1 .. n
        /\ p \in Seq(Fragment) /\ Len(p) = n + 1
        /\ p[m + 1] = f
        /\ \A j \in 1 .. n + 1 : j <= m => p[j] = q[j]
        /\ \A j \in 1 .. n + 1 : j > m + 1 => p[j] = q[j - 1]
    <2>1. IsChained(p, q, f, m) /\ n \in Nat /\ DOMAIN q = 1 .. n
      BY <1>m, ChainedIs, Listed
    <2> HIDE DEF p
    <2> QED BY <2>1 DEF IsChained
  <1> HIDE DEF p
  <1>2. DOMAIN p = 1 .. n + 1
    BY <1>1, Listed
  <1>3. t \in [1 .. n + 1 -> Nat] /\ u \in [1 .. n -> Nat]
    BY <1>1, LengthsOf
  <1>4. \A j \in 1 .. n : u[j] = IF j < m + 1 THEN t[j] ELSE t[j + 1]
    <2> TAKE j \in 1 .. n
    <2>1. j \in 1 .. n + 1 /\ j + 1 \in 1 .. n + 1 /\ (j + 1) - 1 = j
      BY <1>1
    <2>2. CASE j < m + 1
      <3>1. p[j] = q[j]
        BY <1>1, <2>1, <2>2
      <3> QED BY <1>1, <1>2, <2>1, <2>2, <3>1
    <2>3. CASE ~(j < m + 1)
      <3>1. j + 1 > m + 1
        BY <1>1, <2>3
      <3>2. p[j + 1] = q[(j + 1) - 1]
        BY <1>1, <2>1, <3>1
      <3> QED BY <1>1, <1>2, <2>1, <2>3, <3>2
    <2> QED BY <2>2, <2>3
  <1>5. m + 1 \in 1 .. n + 1 /\ t[m + 1] = Clen(f)
    BY <1>1, <1>2
  <1> HIDE DEF t, u
  <1>6. OneMore(t, u, n, m + 1)
    BY <1>1, <1>3, <1>4, <1>5 DEF OneMore
  <1>7. SumOf(t) = SumOf(u) + t[m + 1]
    BY <1>6, SumOneMore
  <1> QED BY <1>5, <1>7 DEF t, u, p

-----------------------------------------------------------------------------
(* The invariant.                                                          *)

\* Fragments from the start, nothing twice, with at most one stretch missing, and
\* that not in front of the last one.
NearlyWhole(p) ==
  /\ p \in Seq(Fragment) /\ p[1].start = 0
  /\ \E k \in 0 .. Len(p) : \A i \in 1 .. Len(p) - 1 :
       IF i = k /\ i + 1 < Len(p) THEN p[i].end <= p[i + 1].start
       ELSE p[i].end = p[i + 1].start

\* A datagram that is handed on begins and ends as it was sent, nothing of it is
\* there twice, and at most one stretch is missing: in front of the fragment that
\* came last, which ip_reass_chain_frag_into_datagram_and_validate does not compare
\* with the one before it when it goes between two others.
AtMostOneHole ==
  delivered /= <<>> =>
    NearlyWhole(delivered) /\ delivered[Len(delivered)].end = DatagramLen

ReassInv ==
  /\ Waiting(reassdatagrams) /\ Filled(reassdatagrams)
  /\ pbufcount = Total(reassdatagrams) /\ pbufcount <= MaxPbufs
  /\ AtMostOneHole

\* What is found complete.
LEMMA CompleteIs ==
  ASSUME NEW q \in Seq(Fragment), NEW f \in Fragment,
         ~Unwanted(q, f), Complete(q, f)
  PROVE  NearlyWhole(Chained(q, f))
  <1> DEFINE p == Chained(q, f)
             n == Len(q)
             a == InFront(q, f)
             b == Behind(q, f)
             o == <<f>>
             c == o \o b
             e == a \o o
  <1>m. PICK m : m = Ahead(q, f)
    OBVIOUS
  <1>1. IsChained(p, q, f, m)
    BY <1>m, ChainedIs
  <1>2. /\ m \in 0 .. n /\ n \in Nat /\ DOMAIN q = 1 .. n
        /\ a \in Seq(Fragment) /\ Len(a) = m
        /\ \A j \in 1 .. m : a[j] = q[j]
        /\ b \in Seq(Fragment) /\ Len(b) = n - m
        /\ \A j \in 1 .. n - m : b[j] = q[m + j]
    <2>1. n \in Nat /\ DOMAIN q = 1 .. n
      BY Listed
    <2> QED BY <1>m, <2>1, Parted
  <1>3. \A j \in 1 .. m : q[j].start < f.start
    BY <1>m, AheadIs
  <1>4. Joined(a) /\ Joined(c) /\ e[1].start = 0 /\ (b = <<>> => Joined(e))
    BY DEF Complete
  <1>5. \A j \in 1 .. m : ~(f.start < q[j].end)
    <2> TAKE j \in 1 .. m
    <2>1. j \in DOMAIN q /\ q[j] \in Fragment
      BY <1>2, Listed
    <2>2. q[j].start <= f.start
      BY <1>3, <2>1, Limits DEF Fragment
    <2> QED BY <2>1, <2>2 DEF Unwanted
  <1>6. o \in Seq(Fragment) /\ Len(o) = 1 /\ o[1] = f
    OBVIOUS
  <1> HIDE DEF p, a, b, o
  <1>7. /\ p \in Seq(Fragment) /\ Len(p) = n + 1 /\ p[m + 1] = f
        /\ \A j \in 1 .. n + 1 : j <= m => p[j] = q[j]
        /\ \A j \in 1 .. n + 1 : j > m + 1 => p[j] = q[j - 1]
    BY <1>1 DEF IsChained
  <1>8. /\ c \in Seq(Fragment) /\ Len(c) = 1 + (n - m)
        /\ c[1] = f /\ \A j \in 2 .. 1 + (n - m) : c[j] = p[m + j]
    <2>1. /\ c \in Seq(Fragment) /\ Len(c) = Len(o) + Len(b)
          /\ \A j \in 1 .. Len(o) + Len(b) : c[j] = IF j <= Len(o) THEN o[j] ELSE b[j - Len(o)]
      BY <1>2, <1>6, ConcatProperties
    <2> HIDE DEF c
    <2>2. c \in Seq(Fragment) /\ Len(c) = 1 + (n - m) /\ c[1] = f
      BY <1>2, <1>6, <2>1
    <2>3. ASSUME NEW j \in 2 .. 1 + (n - m) PROVE c[j] = p[m + j]
      <3>1. /\ j \in 1 .. 1 + (n - m) /\ ~(j <= 1) /\ j - 1 \in 1 .. n - m
            /\ m + j \in 1 .. n + 1 /\ m + j > m + 1 /\ m + (j - 1) = (m + j) - 1
        BY <1>2, <2>3
      <3>2. c[j] = b[j - 1]
        BY <1>2, <1>6, <2>1, <3>1
      <3>3. b[j - 1] = q[m + (j - 1)]
        BY <1>2, <3>1
      <3>4. p[m + j] = q[(m + j) - 1]
        BY <1>7, <3>1
      <3> QED BY <3>1, <3>2, <3>3, <3>4
    <2> QED BY <2>2, <2>3
  <1> HIDE DEF c
  <1>9. p[1].start = 0
    <2>1. /\ Len(e) = Len(a) + Len(o)
          /\ \A j \in 1 .. Len(a) + Len(o) : e[j] = IF j <= Len(a) THEN a[j] ELSE o[j - Len(a)]
      BY <1>2, <1>6, ConcatProperties
    <2> HIDE DEF e
    <2>2. CASE m = 0
      <3>1. 1 \in 1 .. Len(a) + Len(o) /\ ~(1 <= Len(a)) /\ 1 - Len(a) = 1
        BY <1>2, <1>6, <2>2
      <3>2. e[1] = o[1 - Len(a)]
        BY <2>1, <3>1
      <3>3. e[1] = f
        BY <1>6, <3>1, <3>2
      <3>4. p[1] = f
        BY <1>7, <2>2
      <3> QED BY <1>4, <3>3, <3>4
    <2>3. CASE m /= 0
      <3>1. 1 \in 1 .. Len(a) + Len(o) /\ 1 <= Len(a) /\ 1 \in 1 .. m /\ 1 \in 1 .. n + 1
        BY <1>2, <1>6, <2>3
      <3>2. e[1] = a[1] /\ a[1] = q[1] /\ p[1] = q[1]
        BY <1>2, <1>7, <2>1, <3>1
      <3> QED BY <1>4, <3>2
    <2> QED BY <2>2, <2>3
  <1>e. ASSUME m = n, m /= 0 PROVE q[m].end = f.start
    <2>1. b = <<>>
      BY <1>2, <1>e, EmptySeq
    <2>2. /\ Len(e) = Len(a) + Len(o)
          /\ \A j \in 1 .. Len(a) + Len(o) : e[j] = IF j <= Len(a) THEN a[j] ELSE o[j - Len(a)]
      BY <1>2, <1>6, ConcatProperties
    <2>3. Joined(e)
      BY <1>4, <2>1
    <2> HIDE DEF e
    <2>4. /\ m \in 1 .. Len(e) - 1 /\ m \in 1 .. Len(a) + Len(o) /\ m <= Len(a)
          /\ m + 1 \in 1 .. Len(a) + Len(o) /\ ~(m + 1 <= Len(a)) /\ (m + 1) - Len(a) = 1
          /\ m \in 1 .. m
      BY <1>2, <1>6, <1>e, <2>2
    <2>5. e[m].end = e[m + 1].start
      BY <2>3, <2>4 DEF Joined
    <2>6. e[m] = a[m] /\ a[m] = q[m] /\ e[m + 1] = o[(m + 1) - Len(a)]
      BY <1>2, <2>2, <2>4
    <2>7. e[m + 1] = f
      BY <1>6, <2>4, <2>6
    <2> QED BY <2>5, <2>6, <2>7
  <1> HIDE DEF e
  <1>10. ASSUME NEW i \in 1 .. n
         PROVE  IF i = m /\ i + 1 < Len(p) THEN p[i].end <= p[i + 1].start
                ELSE p[i].end = p[i + 1].start
    <2>1. CASE i < m
      <3>1. i \in 1 .. Len(a) - 1
        BY <1>2, <2>1
      <3>2. a[i].end = a[i + 1].start
        BY <1>4, <3>1 DEF Joined
      <3>3. /\ i \in 1 .. m /\ i + 1 \in 1 .. m /\ i \in 1 .. n + 1 /\ i + 1 \in 1 .. n + 1
            /\ i <= m /\ i + 1 <= m /\ i /= m
        BY <1>2, <2>1
      <3>4. p[i] = a[i] /\ p[i + 1] = a[i + 1]
        BY <1>2, <1>7, <3>3
      <3> QED BY <3>2, <3>3, <3>4
    <2>2. CASE i = m
      <3>1. i \in 1 .. m /\ i \in 1 .. n + 1 /\ i <= m /\ m \in 1 .. m
        BY <1>2, <2>2
      <3>2. p[i] = q[i] /\ p[i + 1] = f
        BY <1>7, <2>2, <3>1
      <3>3. q[i] \in Fragment /\ ~(f.start < q[i].end)
        BY <1>2, <1>5, <3>1, Listed
      <3>4. q[i].end \in Nat /\ f.start \in Nat
        BY <3>3, Limits DEF Fragment
      <3>5. i + 1 < Len(p) \/ m = n
        <4>1. m \in 0 .. n /\ n \in Nat
          BY <1>2
        <4>2. Len(p) = n + 1
          BY <1>7
        <4> HIDE DEF n
        <4> QED BY <2>2, <4>1, <4>2
      <3>6. i + 1 < Len(p) \/ p[i].end = p[i + 1].start
        BY <1>e, <2>2, <3>1, <3>2, <3>5
      <3> QED BY <2>2, <3>2, <3>3, <3>4, <3>6
    <2>3. CASE i > m
      <3> DEFINE j == i - m
      <3>1. j \in 1 .. Len(c) - 1 /\ j + 1 \in 2 .. 1 + (n - m) /\ i /= m
            /\ m + j = i /\ m + (j + 1) = i + 1
        BY <1>2, <1>8, <2>3
      <3> HIDE DEF j
      <3>2. c[j].end = c[j + 1].start
        BY <1>4, <3>1 DEF Joined
      <3>3. c[j + 1] = p[i + 1]
        BY <1>8, <3>1
      <3>4. c[j] = p[i]
        <4>1. CASE j = 1
          BY <1>7, <1>8, <3>1, <4>1
        <4>2. CASE j /= 1
          <5>1. j \in 2 .. 1 + (n - m)
            BY <1>2, <3>1, <4>2
          <5> QED BY <1>8, <3>1, <5>1
        <4> QED BY <4>1, <4>2
      <3> QED BY <3>1, <3>2, <3>3, <3>4
    <2> QED BY <1>2, <2>1, <2>2, <2>3
  <1>11. m \in 0 .. Len(p) /\ Len(p) - 1 = n
    BY <1>2, <1>7
  <1>12. NearlyWhole(p)
    BY <1>7, <1>9, <1>10, <1>11 DEF NearlyWhole
  <1> QED BY <1>12 DEF p

-----------------------------------------------------------------------------
(* The steps.                                                              *)

LEMMA NothingHeld ==
  ASSUME NEW p \in Seq(Fragment), NEW f, Unwanted(p, f)
  PROVE  p /= <<>>
  <1> SUFFICES ASSUME p = <<>> PROVE FALSE
    OBVIOUS
  <1>1. Len(p) = 0 /\ DOMAIN p = {}
    OBVIOUS
  <1>2. Len(InFront(p, f)) = 0 /\ InFront(p, f) \in Seq(Fragment)
    <2>1. PICK m : m = Ahead(p, f)
      OBVIOUS
    <2>2. /\ m \in 0 .. Len(p)
          /\ InFront(p, f) \in Seq(Fragment) /\ Len(InFront(p, f)) = m
      BY <2>1, Parted
    <2> QED BY <1>1, <2>2
  <1>3. InFront(p, f) = <<>>
    BY <1>2, EmptySeq
  <1> QED BY <1>1, <1>3 DEF Unwanted

LEMMA LeaveKeeps ==
  ASSUME NEW q, Waiting(q), Filled(q), NEW count, count = Total(q), count <= MaxPbufs,
         Leave(q, count, <<>>)
  PROVE  ReassInv'
  <1>1. reassdatagrams' = q /\ pbufcount' = count /\ delivered' = <<>>
    BY DEF Leave
  <1> QED BY <1>1 DEF ReassInv, AtMostOneHole

LEMMA HaltKeeps == ASSUME ReassInv, Halt PROVE ReassInv'
  <1>1. /\ reassdatagrams' = reassdatagrams /\ pbufcount' = pbufcount
        /\ delivered' = <<>>
    BY DEF Halt
  <1> QED BY <1>1 DEF ReassInv, AtMostOneHole

\* A fragment is thrown away, joins its datagram or completes it.
LEMMA ChainKeeps ==
  ASSUME ReassInv, NEW q, Waiting(q), NEW i \in DOMAIN q,
         \A j \in DOMAIN q : j /= i => q[j].p /= <<>>,
         NEW count, count = Total(q), NEW f \in Fragment, count + Clen(f) <= MaxPbufs,
         Chain(q, i, count, f)
  PROVE  ReassInv'
  <1> DEFINE x == q[i]
             r == [x EXCEPT !.last = @ \/ f.end = DatagramLen, !.timer = TimerOf(x)]
             p == Chained(r.p, f)
             s == [r EXCEPT !.p = p]
             done == r.last /\ Complete(r.p, f)
  <1>1. q \in Seq(Datagram) /\ x \in Datagram /\ Total(q) \in Nat
    BY Listed, Numbers DEF Waiting
  <1>2. Clen(f) \in Nat \ {0}
    BY ClenPositive
  <1>3. r \in Datagram /\ r.id = x.id /\ r.timer = x.timer /\ r.p = x.p
    BY <1>1 DEF Datagram, TimerOf
  <1>4. r.p \in Seq(Fragment)
    BY <1>3 DEF Datagram
  <1>5. \/ Unwanted(r.p, f) /\ Leave([q EXCEPT ![i] = r], AfterThrow(count, f), <<>>)
        \/ /\ ~Unwanted(r.p, f)
           /\ Leave([q EXCEPT ![i] = s], count + Clen(f), <<>>)
        \/ /\ ~Unwanted(r.p, f) /\ done
           /\ IF p[Len(p)].end = DatagramLen
                THEN Leave(Without(q, i), count - PbufsOf(r), p)
                ELSE Halt
    BY DEF Chain, Chained
  <1>6. PbufsOf(r) = PbufsOf(x) /\ PbufsOf(x) \in Nat
    BY <1>1, <1>3, PbufsNat DEF PbufsOf
  <1>7. CASE Unwanted(r.p, f) /\ Leave([q EXCEPT ![i] = r], AfterThrow(count, f), <<>>)
    <2>1. r.p /= <<>>
      BY <1>4, <1>7, NothingHeld
    <2> DEFINE z == [q EXCEPT ![i] = r]
    <2> HIDE DEF r
    <2>2. /\ Waiting(z) /\ Filled(z)
          /\ Total(z) = Total(q) - PbufsOf(q[i]) + PbufsOf(r)
      BY <1>3, <2>1, ReplacedKeeps
    <2> HIDE DEF z
    <2>3. Total(z) = count /\ count <= MaxPbufs
      BY <1>1, <1>2, <1>6, <2>2, Limits
    <2>4. Leave(z, count, <<>>)
      BY <1>7 DEF AfterThrow, z
    <2> QED BY <2>2, <2>3, <2>4, LeaveKeeps
  <1>8. CASE /\ ~Unwanted(r.p, f)
             /\ Leave([q EXCEPT ![i] = s], count + Clen(f), <<>>)
    <2>1. p \in Seq(Fragment) /\ p /= <<>>
      <3>m. PICK m : m = Ahead(r.p, f)
        OBVIOUS
      <3>1. IsChained(p, r.p, f, m) /\ Len(r.p) \in Nat
        BY <1>4, <3>m, ChainedIs, Listed
      <3> HIDE DEF p, r
      <3>2. p \in Seq(Fragment) /\ Len(p) = Len(r.p) + 1
        BY <3>1 DEF IsChained
      <3> QED BY <3>1, <3>2, EmptySeq
    <2>2. PbufsOf(s) = PbufsOf(r) + Clen(f)
      <3>1. s.p = p
        <4> HIDE DEF p, r
        <4> QED BY <1>3 DEF Datagram
      <3>2. SumOf([k \in DOMAIN p |-> Clen(p[k])])
              = SumOf([k \in DOMAIN r.p |-> Clen(r.p[k])]) + Clen(f)
        BY <1>4, ChainedPbufs
      <3> HIDE DEF s, p, r
      <3> QED BY <3>1, <3>2 DEF PbufsOf
    <2> HIDE DEF p, r
    <2>3. s \in Datagram /\ s.id = r.id /\ s.timer = r.timer /\ s.p /= <<>>
      BY <1>3, <2>1 DEF Datagram
    <2> HIDE DEF s
    <2> DEFINE z == [q EXCEPT ![i] = s]
    <2>4. /\ Waiting(z) /\ Filled(z)
          /\ Total(z) = Total(q) - PbufsOf(q[i]) + PbufsOf(s)
      BY <1>3, <2>3, ReplacedKeeps
    <2> HIDE DEF z
    <2>5. Total(z) = count + Clen(f)
      BY <1>1, <1>2, <1>6, <2>2, <2>4
    <2>6. Leave(z, count + Clen(f), <<>>)
      BY <1>8 DEF z
    <2> QED BY <2>4, <2>5, <2>6, LeaveKeeps
  <1>9. CASE /\ ~Unwanted(r.p, f) /\ done
             /\ IF p[Len(p)].end = DatagramLen
                  THEN Leave(Without(q, i), count - PbufsOf(r), p)
                  ELSE Halt
    <2>1. CASE Halt
      BY <2>1, HaltKeeps
    <2>2. CASE p[Len(p)].end = DatagramLen /\ Leave(Without(q, i), count - PbufsOf(r), p)
      <3> DEFINE w == Without(q, i)
      <3>1. /\ Waiting(w) /\ Filled(w) /\ Total(w) = Total(q) - PbufsOf(x)
            /\ Total(w) \in Nat
        BY WithoutKeeps
      <3>2. NearlyWhole(p)
        <4>1. ~Unwanted(r.p, f) /\ Complete(r.p, f)
          BY <1>9
        <4> HIDE DEF r
        <4> QED BY <1>4, <4>1, CompleteIs
      <3>3. /\ reassdatagrams' = w /\ pbufcount' = count - PbufsOf(r)
            /\ delivered' = p
        BY <2>2 DEF Leave
      <3> HIDE DEF w, p, r, s
      <3>4. pbufcount' = Total(w) /\ pbufcount' <= MaxPbufs
        BY <1>1, <1>2, <1>6, <3>1, <3>3, Limits
      <3>5. AtMostOneHole'
        BY <2>2, <3>2, <3>3 DEF AtMostOneHole
      <3> QED BY <3>1, <3>3, <3>4, <3>5 DEF ReassInv
    <2> QED BY <1>9, <2>1, <2>2
  <1> QED BY <1>5, <1>7, <1>8, <1>9

\* A fragment arrives.
LEMMA ReassKeeps ==
  ASSUME ReassInv, NEW d \in Datagrams, NEW f \in Fragment, IpReass(d, f)
  PROVE  ReassInv'
  <1> DEFINE q     == reassdatagrams
             full  == pbufcount + Clen(f) > MaxPbufs
             one   == IF full THEN RemoveOldest(q, d, Clen(f)) ELSE Nothing(q)
             count == pbufcount - one.freed
             new   == IndexOf(one.q, d) = {}
             none  == new /\ Len(one.q) = ReassData
             two   == IF none THEN RemoveOldest(one.q, d, Clen(f)) ELSE Nothing(one.q)
  <1>1. /\ Waiting(q) /\ Filled(q) /\ q \in Seq(Datagram)
        /\ pbufcount = Total(q) /\ pbufcount <= MaxPbufs
    BY DEF ReassInv, Waiting
  <1>2. Clen(f) \in Nat \ {0}
    BY ClenPositive
  <1>3. ASSUME NEW w \in Seq(Datagram) PROVE IsRest(Nothing(w), w, d)
    <2>1. /\ Nothing(w) \in [q : Seq(Datagram), freed : Nat, again : BOOLEAN, failed : BOOLEAN]
          /\ Nothing(w).q = w /\ Nothing(w).freed = 0 /\ ~Nothing(w).again
      BY DEF Nothing
    <2>2. Total(w) \in Nat /\ Len(w) \in Nat
      BY Numbers, Listed
    <2> QED BY <2>1, <2>2 DEF IsRest
  <1>4. IsRest(one, q, d)
    <2>1. CASE full
      BY <1>1, <1>2, <2>1, RemoveOldestIs
    <2>2. CASE ~full
      BY <1>1, <1>3, <2>2
    <2> QED BY <2>1, <2>2
  <1>5. ~full => one.freed = 0
    BY DEF Nothing
  <1>6. IpReass(d, f) <=>
          /\ ~stopped
          /\ \/ (one.failed \/ two.failed) /\ Halt
             \/ /\ ~one.failed /\ full
                /\ one.freed = 0 \/ count + Clen(f) > MaxPbufs
                /\ Leave(one.q, count, <<>>)
             \/ /\ ~one.failed
                /\ full => one.freed > 0 /\ count + Clen(f) <= MaxPbufs
                /\ \/ /\ ~two.failed /\ none /\ two.freed < Clen(f)
                      /\ Leave(two.q, count - two.freed, <<>>)
                   \/ /\ ~two.failed /\ new /\ (none => two.freed >= Clen(f))
                      /\ Chain(<<New(d)>> \o two.q, 1, count - two.freed, f)
                   \/ /\ ~new
                      /\ \E i \in IndexOf(one.q, d) : Chain(one.q, i, count, f)
    BY DEF IpReass
  <1> HIDE DEF one, full
  <1>7. /\ Waiting(one.q) /\ Filled(one.q) /\ one.q \in Seq(Datagram)
        /\ one.freed \in Nat /\ Total(one.q) \in Nat /\ Total(q) \in Nat
        /\ count = Total(one.q) /\ count <= MaxPbufs
    <2>1. /\ Waiting(one.q) /\ Filled(one.q)
          /\ one.freed \in Nat /\ Total(one.q) \in Nat /\ Total(q) \in Nat
          /\ Total(one.q) = Total(q) - one.freed
      BY <1>1, <1>4, RestKeeps
    <2>2. one.q \in Seq(Datagram)
      BY <2>1 DEF Waiting
    <2> HIDE DEF q
    <2> QED BY <1>1, <2>1, <2>2, Limits
  <1>8. IsRest(two, one.q, d)
    <2>1. CASE none
      BY <1>2, <1>7, <2>1, RemoveOldestIs
    <2>2. CASE ~none
      BY <1>3, <1>7, <2>2
    <2> QED BY <2>1, <2>2
  <1>9. ~none => two = Nothing(one.q)
    OBVIOUS
  <1> HIDE DEF two
  <1>10. /\ Waiting(two.q) /\ Filled(two.q) /\ two.q \in Seq(Datagram)
         /\ two.freed \in Nat /\ count - two.freed = Total(two.q)
         /\ count - two.freed <= MaxPbufs
    <2>1. /\ Waiting(two.q) /\ Filled(two.q)
          /\ two.freed \in Nat /\ Total(two.q) \in Nat /\ Total(one.q) \in Nat
          /\ Total(two.q) = Total(one.q) - two.freed
      BY <1>7, <1>8, RestKeeps
    <2>2. two.q \in Seq(Datagram)
      BY <2>1 DEF Waiting
    <2> HIDE DEF count
    <2> QED BY <1>7, <2>1, <2>2, Limits
  <1> HIDE DEF q, count
  <1>11. CASE Halt
    BY <1>11, HaltKeeps
  <1>12. CASE Leave(one.q, count, <<>>)
    BY <1>7, <1>12, LeaveKeeps
  <1>13. CASE Leave(two.q, count - two.freed, <<>>)
    BY <1>10, <1>13, LeaveKeeps
  <1>14. ASSUME full => one.freed > 0 /\ count + Clen(f) <= MaxPbufs
         PROVE  count + Clen(f) <= MaxPbufs
    <2>1. CASE full
      BY <1>14, <2>1
    <2>2. CASE ~full
      <3>1. pbufcount + Clen(f) <= MaxPbufs
        BY <1>1, <1>2, <1>7, <2>2, Limits DEF full
      <3>2. count = pbufcount
        BY <1>1, <1>5, <1>7, <2>2 DEF count
      <3> QED BY <3>1, <3>2
    <2> QED BY <2>1, <2>2
  <1>15. CASE /\ full => one.freed > 0 /\ count + Clen(f) <= MaxPbufs
              /\ new /\ (none => two.freed >= Clen(f))
              /\ Chain(<<New(d)>> \o two.q, 1, count - two.freed, f)
    <2>1. count + Clen(f) <= MaxPbufs
      BY <1>14, <1>15
    <2>2. count - two.freed + Clen(f) <= MaxPbufs
      BY <1>2, <1>7, <1>10, <2>1, Limits
    <2>3. /\ Len(two.q) <= Len(one.q) /\ (two.freed > 0 => Len(two.q) < Len(one.q))
          /\ \A j \in 1 .. Len(two.q) : two.q[j] = one.q[j]
      BY <1>8 DEF IsRest
    <2>4. /\ Len(one.q) \in Nat /\ Len(two.q) \in Nat /\ Len(one.q) <= ReassData
          /\ DOMAIN one.q = 1 .. Len(one.q) /\ DOMAIN two.q = 1 .. Len(two.q)
      BY <1>7, <1>10, Listed DEF Waiting
    <2>5. Len(two.q) < ReassData
      <3>1. CASE none
        BY <1>2, <1>10, <1>15, <2>3, <2>4, <3>1, Limits
      <3>2. CASE ~none
        BY <1>15, <2>3, <2>4, <3>2, Limits
      <3> QED BY <3>1, <3>2
    <2>6. IndexOf(two.q, d) = {}
      <3>1. IndexOf(one.q, d) = {}
        BY <1>15
      <3>2. \A j \in DOMAIN two.q : j \in DOMAIN one.q /\ two.q[j] = one.q[j]
        BY <2>3, <2>4
      <3> QED BY <3>1, <3>2 DEF IndexOf
    <2> DEFINE w == <<New(d)>> \o two.q
    <2>7. /\ Waiting(w) /\ 1 \in DOMAIN w
          /\ \A j \in DOMAIN w : j /= 1 => w[j].p /= <<>>
          /\ Total(w) = Total(two.q)
      BY <1>10, <2>5, <2>6, NewKeeps
    <2>8. Chain(w, 1, count - two.freed, f)
      BY <1>15
    <2> DEFINE c == count - two.freed
    <2>9. c = Total(w) /\ c + Clen(f) <= MaxPbufs /\ Chain(w, 1, c, f)
      BY <1>10, <2>2, <2>7, <2>8
    <2> HIDE DEF w, c
    <2> QED BY <2>7, <2>9, ChainKeeps
  <1>16. CASE /\ full => one.freed > 0 /\ count + Clen(f) <= MaxPbufs
              /\ \E i \in IndexOf(one.q, d) : Chain(one.q, i, count, f)
    <2>1. count + Clen(f) <= MaxPbufs
      BY <1>14, <1>16
    <2>2. PICK i \in IndexOf(one.q, d) : Chain(one.q, i, count, f)
      BY <1>16
    <2>3. i \in DOMAIN one.q /\ \A j \in DOMAIN one.q : one.q[j].p /= <<>>
      BY <1>7 DEF IndexOf, Filled
    <2> QED BY <1>7, <2>1, <2>2, <2>3, ChainKeeps
  <1> QED BY <1>6, <1>11, <1>12, <1>13, <1>15, <1>16

\* The k-th number from 1 on is k.
LEMMA KthIs ==
  ASSUME NEW m \in Nat, NEW k \in 1 .. m
  PROVE  KthOf(1 .. m, k) = k
  <1>1. \A i \in 1 .. m : {j \in 1 .. m : j <= i} = 1 .. i
    OBVIOUS
  <1>2. \A i \in 1 .. m : Cardinality({j \in 1 .. m : j <= i}) = i
    <2> TAKE i \in 1 .. m
    <2>1. {j \in 1 .. m : j <= i} = 1 .. i /\ i \in Nat
      BY <1>1
    <2>2. Cardinality(1 .. i) = i
      BY <2>1, SizeUpTo
    <2> QED BY <2>1, <2>2
  <1>3. KthOf(1 .. m, k) \in 1 .. m
        /\ Cardinality({j \in 1 .. m : j <= KthOf(1 .. m, k)}) = k
    <2>1. \E i \in 1 .. m : Cardinality({j \in 1 .. m : j <= i}) = k
      BY <1>2
    <2> QED BY <2>1 DEF KthOf
  <1> QED BY <1>2, <1>3

\* Those that have time left come first, because the list is in the order of the
\* ages.
LEMMA KeptFirst ==
  ASSUME NEW q, Waiting(q)
  PROVE  \E m \in 0 .. Len(q) :
           {i \in DOMAIN q : q[i].timer > 0} = 1 .. m
  <1> DEFINE S == {i \in DOMAIN q : q[i].timer > 0}
  <1>1. /\ Len(q) \in Nat /\ DOMAIN q = 1 .. Len(q) /\ Ordered(q)
        /\ \A i \in 1 .. Len(q) : q[i].timer \in Nat
    <2>1. q \in Seq(Datagram) /\ Ordered(q)
      BY DEF Waiting
    <2>2. \A r \in Datagram : r.timer \in Nat
      BY Limits DEF Datagram
    <2> QED BY <2>1, <2>2, Listed
  <1>2. CASE S = {}
    <2>1. S = 1 .. 0 /\ 0 \in 0 .. Len(q)
      BY <1>1, <1>2
    <2> QED BY <2>1
  <1>3. CASE S /= {}
    <2>1. S \in SUBSET (0 .. Len(q))
      BY <1>1
    <2>2. PICK m \in S : \A j \in S : j <= m
      <3> HIDE DEF S
      <3> QED BY <1>1, <1>3, <2>1, GreatestExists
    <2>3. m \in 1 .. Len(q) /\ q[m].timer > 0
      BY <1>1
    <2>4. ASSUME NEW i \in 1 .. m PROVE i \in S
      <3>1. i \in 1 .. Len(q) /\ (i = m \/ i < m)
        BY <1>1, <2>3
      <3>2. i < m => q[m].timer <= q[i].timer
        BY <1>1, <2>3, <3>1 DEF Ordered
      <3>3. q[i].timer > 0
        BY <1>1, <2>3, <3>1, <3>2
      <3> QED BY <1>1, <3>1, <3>3
    <2>5. \A i \in S : i \in 1 .. m
      BY <1>1, <2>2
    <2>6. S = 1 .. m /\ m \in 0 .. Len(q)
      <3> HIDE DEF S
      <3>1. S = 1 .. m
        BY <2>4, <2>5
      <3>2. m \in 0 .. Len(q)
        BY <1>1, <2>3
      <3> QED BY <3>1, <3>2
    <2> QED BY <2>6
  <1> QED BY <1>2, <1>3

\* The timer takes a tick off each datagram that has one left, and frees the others.
LEMMA TmrKeeps == ASSUME ReassInv, IpReassTmr PROVE ReassInv'
  <1> DEFINE q    == reassdatagrams
             n    == Len(q)
             kept == {i \in DOMAIN q : q[i].timer > 0}
             w    == [k \in 1 .. Cardinality(kept) |->
                        [q[KthOf(kept, k)] EXCEPT !.timer = @ - 1]]
             t    == [i \in DOMAIN q |-> PbufsOf(q[i])]
             e    == [i \in DOMAIN q |-> IF i \in kept THEN 0 ELSE PbufsOf(q[i])]
  <1>1. /\ Waiting(q) /\ Filled(q) /\ q \in Seq(Datagram) /\ Ordered(q) /\ n <= ReassData
        /\ pbufcount = Total(q) /\ pbufcount <= MaxPbufs
    BY DEF ReassInv, Waiting
  <1>2. /\ reassdatagrams' = w /\ pbufcount' = pbufcount - SumOf(e) /\ delivered' = <<>>
    BY DEF IpReassTmr
  <1>3. PICK m \in 0 .. n : kept = 1 .. m
    BY <1>1, KeptFirst
  <1>4. n \in Nat /\ DOMAIN q = 1 .. n /\ \A i \in 1 .. n : q[i] \in Datagram
    BY <1>1, Listed
  <1>5. m \in Nat /\ Cardinality(kept) = m
    <2>1. m \in Nat
      BY <1>3, <1>4
    <2>2. Cardinality(1 .. m) = m
      BY <2>1, SizeUpTo
    <2> HIDE DEF kept
    <2> QED BY <1>3, <2>1, <2>2
  <1>6. \A i \in 1 .. m : i \in 1 .. n /\ q[i].timer > 0
    BY <1>3, <1>4
  <1>7. w = [k \in 1 .. m |-> [q[k] EXCEPT !.timer = @ - 1]]
    <2>1. \A k \in 1 .. m : KthOf(kept, k) = k
      BY <1>3, <1>5, KthIs
    <2> HIDE DEF kept
    <2> QED BY <1>5, <2>1
  <1>8. t \in [1 .. n -> Nat] /\ Total(q) = SumOf(t) /\ Total(q) \in Nat
    BY <1>1, <1>4, Numbers DEF Total
  <1>9. e \in [1 .. n -> Nat]
    <2>1. \A i \in 1 .. n : PbufsOf(q[i]) \in Nat
      BY <1>4, PbufsNat
    <2> HIDE DEF kept
    <2> QED BY <1>4, <2>1
  <1>10. /\ \A j \in 1 .. n : j <= m => e[j] = 0
         /\ \A j \in 1 .. n : j > m => e[j] = t[j]
    <2>1. \A j \in 1 .. n : j \in kept <=> j <= m
      BY <1>3, <1>4
    <2> HIDE DEF kept
    <2> QED BY <1>4, <2>1
  <1> HIDE DEF w, kept, e
  <1>11. ASSUME NEW k \in 1 .. m
         PROVE  /\ w[k] \in Datagram
                /\ w[k].id = q[k].id /\ w[k].p = q[k].p /\ w[k].timer = q[k].timer - 1
    <2>1. w[k] = [q[k] EXCEPT !.timer = @ - 1]
      BY <1>7
    <2>2. q[k] \in Datagram /\ q[k].timer > 0
      BY <1>4, <1>6
    <2>3. q[k].timer \in 0 .. ReassMaxAge /\ q[k].timer - 1 \in 0 .. ReassMaxAge
      BY <2>2, Limits DEF Datagram
    <2> QED BY <2>1, <2>2, <2>3 DEF Datagram
  <1>12. w \in [1 .. m -> Datagram]
    BY <1>7, <1>11
  <1>13. w \in Seq(Datagram) /\ Len(w) = m /\ DOMAIN w = 1 .. m
    BY <1>5, <1>12, NumbersLen
  <1>14. Ordered(w)
    <2> SUFFICES ASSUME NEW i \in 1 .. m, NEW j \in 1 .. m, i < j
                 PROVE  w[i].id /= w[j].id /\ w[j].timer <= w[i].timer
      BY <1>13 DEF Ordered
    <2>1. i \in 1 .. n /\ j \in 1 .. n
      BY <1>6
    <2>2. q[i].id /= q[j].id /\ q[j].timer <= q[i].timer
      BY <1>1, <1>4, <2>1 DEF Ordered
    <2>3. q[i].timer \in Int /\ q[j].timer \in Int
      BY <1>4, <2>1, Limits DEF Datagram
    <2> QED BY <1>11, <2>2, <2>3
  <1>15. Filled(w)
    BY <1>1, <1>4, <1>6, <1>11, <1>13 DEF Filled
  <1>16. Len(w) <= ReassData
    BY <1>1, <1>3, <1>4, <1>5, <1>13, Limits
  <1> DEFINE u == [i \in DOMAIN w |-> PbufsOf(w[i])]
  <1>17. u \in [1 .. m -> Nat] /\ Total(w) = SumOf(u)
    BY <1>13, Numbers DEF Total
  <1>18. \A j \in 1 .. m : u[j] = t[j]
    <2> TAKE j \in 1 .. m
    <2>1. PbufsOf(w[j]) = PbufsOf(q[j])
      BY <1>11 DEF PbufsOf
    <2> QED BY <1>4, <1>6, <1>13, <2>1
  <1> HIDE DEF u, t, n
  <1>19. SumOf(t) = SumOf(u) + SumOf(e) /\ SumOf(u) \in Nat /\ SumOf(e) \in Nat
    <2>1. \A j \in 1 .. m : u[j] = t[j] /\ e[j] = 0
      BY <1>4, <1>6, <1>10, <1>18
    <2>2. \A j \in 1 .. n : j > m => e[j] = t[j]
      BY <1>10
    <2>3. /\ n \in Nat /\ m \in 0 .. n
          /\ t \in [1 .. n -> Nat] /\ u \in [1 .. m -> Nat] /\ e \in [1 .. n -> Nat]
      BY <1>3, <1>4, <1>8, <1>9, <1>17
    <2>4. Split(t, u, e, n, m)
      BY <2>1, <2>2, <2>3 DEF Split
    <2> QED BY <2>4, SumSplit
  <1> HIDE DEF q
  <1>20. pbufcount' = Total(w) /\ pbufcount' <= MaxPbufs
    BY <1>1, <1>2, <1>8, <1>17, <1>19, Limits
  <1>21. Waiting(w)
    BY <1>13, <1>14, <1>16 DEF Waiting
  <1> QED BY <1>2, <1>15, <1>20, <1>21 DEF ReassInv, AtMostOneHole

LEMMA ReassInitInv == ReassInit => ReassInv
  <1> SUFFICES ASSUME ReassInit PROVE ReassInv
    OBVIOUS
  <1>1. reassdatagrams = <<>> /\ pbufcount = 0 /\ delivered = <<>>
    BY DEF ReassInit
  <1>2. /\ <<>> \in Seq(Datagram) /\ Len(<<>>) = 0 /\ DOMAIN <<>> = {}
    OBVIOUS
  <1>3. Ordered(<<>>) /\ Filled(<<>>)
    BY <1>2 DEF Ordered, Filled
  <1>4. Total(<<>>) = 0
    <2> DEFINE t == [i \in DOMAIN <<>> |-> PbufsOf(<<>>[i])]
    <2>1. t \in [1 .. 0 -> Nat]
      BY <1>2
    <2>2. Total(<<>>) = SumOf(t)
      BY DEF Total
    <2> HIDE DEF t
    <2>3. \E f : Partial(f, t, 0) /\ SumOf(t) = f[0]
      BY <2>1, SumIs
    <2> QED BY <2>2, <2>3 DEF Partial
  <1> QED BY <1>1, <1>2, <1>3, <1>4, Limits DEF ReassInv, Waiting, AtMostOneHole

LEMMA ReassStepInv == ReassInv /\ [ReassNext]_reassVars => ReassInv'
  <1> SUFFICES ASSUME ReassInv, [ReassNext]_reassVars PROVE ReassInv'
    OBVIOUS
  <1>1. CASE \E d \in Datagrams, f \in Fragment : IpReass(d, f)
    BY <1>1, ReassKeeps
  <1>2. CASE IpReassTmr
    BY <1>2, TmrKeeps
  <1>3. CASE UNCHANGED reassVars
    <2>1. /\ reassdatagrams' = reassdatagrams /\ pbufcount' = pbufcount
          /\ delivered' = delivered
      BY <1>3 DEF reassVars
    <2> QED BY <2>1 DEF ReassInv, AtMostOneHole
  <1> QED BY <1>1, <1>2, <1>3 DEF ReassNext, Stopped

LEMMA ReassInvariant == ReassSpec => []ReassInv
  BY ReassInitInv, ReassStepInv, PTL DEF ReassSpec

\* The counter of pbufs is the number of pbufs that wait, within its limit, and the
\* records are within theirs and in the order of their ages, whatever arrives and
\* whatever is thrown out for it.
THEOREM ReassCountKept == ReassSpec => []CountIsKept
  <1>1. ReassInv => CountIsKept
    <2> SUFFICES ASSUME ReassInv PROVE CountIsKept
      OBVIOUS
    <2>1. /\ reassdatagrams \in Seq(Datagram) /\ Ordered(reassdatagrams)
          /\ Len(reassdatagrams) <= ReassData /\ Filled(reassdatagrams)
          /\ pbufcount = Total(reassdatagrams) /\ pbufcount <= MaxPbufs
      BY DEF ReassInv, Waiting
    <2>2. \A i \in DOMAIN reassdatagrams : reassdatagrams[i].timer \in 0 .. ReassMaxAge
      <3>1. \A i \in DOMAIN reassdatagrams : reassdatagrams[i] \in Datagram
        BY <2>1, Listed
      <3> QED BY <3>1 DEF Datagram
    <2> QED BY <2>1, <2>2 DEF CountIsKept, Total, Ordered, Filled
  <1> QED BY <1>1, ReassInvariant, PTL

\* A datagram that ip_reass_chain_frag_into_datagram_and_validate finds complete
\* starts and ends as it was sent, has nothing twice, and lacks at most one
\* stretch, in front of the fragment that came last and never in front of the end.
THEOREM ReassOneHole == ReassSpec => []AtMostOneHole
  <1>1. ReassInv => AtMostOneHole
    BY DEF ReassInv
  <1> QED BY <1>1, ReassInvariant, PTL

\* The hole needs four units: what is handed on of a datagram of up to three is
\* what was sent.  With four it need not be (ip_frag.c:369).
THEOREM ReassSmallIsWhole ==
  ASSUME DatagramLen <= 3
  PROVE  ReassSpec => []ReassembledIsOriginal
  <1>1. ReassInv => ReassembledIsOriginal
    <2> SUFFICES ASSUME ReassInv, delivered /= <<>>
                 PROVE  /\ delivered[1].start = 0
                        /\ delivered[Len(delivered)].end = DatagramLen
                        /\ Joined(delivered)
      BY DEF ReassembledIsOriginal
    <2>1. NearlyWhole(delivered) /\ delivered[Len(delivered)].end = DatagramLen
      BY DEF ReassInv, AtMostOneHole
    <2>2. PICK k \in 0 .. Len(delivered) : \A i \in 1 .. Len(delivered) - 1 :
            IF i = k /\ i + 1 < Len(delivered)
              THEN delivered[i].end <= delivered[i + 1].start
              ELSE delivered[i].end = delivered[i + 1].start
      BY <2>1 DEF NearlyWhole
    <2>3. /\ Len(delivered) \in Nat
          /\ \A i \in 1 .. Len(delivered) : delivered[i] \in Fragment
      BY <2>1, Listed DEF NearlyWhole
    <2>4. \A i \in 1 .. Len(delivered) :
            /\ delivered[i].start \in Nat /\ delivered[i].end \in Nat
            /\ delivered[i].start < delivered[i].end /\ delivered[i].end <= 3
      BY <2>3, Limits DEF Fragment
    <2>5. ASSUME NEW i \in 1 .. Len(delivered) - 1
          PROVE  delivered[i].end = delivered[i + 1].start
      <3>1. CASE i + 1 < Len(delivered)
        <4>1. /\ i \in 1 .. Len(delivered) /\ i + 1 \in 1 .. Len(delivered)
              /\ i + 2 \in 1 .. Len(delivered) /\ i + 1 \in 1 .. Len(delivered) - 1
              /\ (i + 1) + 1 = i + 2
          BY <2>3, <3>1
        <4>2. delivered[i].end <= delivered[i + 1].start
          BY <2>2, <2>4, <4>1
        <4>3. delivered[i + 1].end <= delivered[i + 2].start
          BY <2>2, <2>4, <4>1
        <4> QED BY <2>4, <4>1, <4>2, <4>3
      <3>2. CASE ~(i + 1 < Len(delivered))
        BY <2>2, <3>2
      <3> QED BY <3>1, <3>2
    <2> QED BY <2>1, <2>5 DEF NearlyWhole, Joined
  <1> QED BY <1>1, ReassInvariant, PTL
=============================================================================
