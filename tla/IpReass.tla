------------------------------ MODULE IpReass ------------------------------
(***************************************************************************)
(* The reassembly of IP fragments, ip_frag.c: a list of datagrams, the     *)
(* newest first, each with the fragments that have arrived in the order of *)
(* their offsets.  A timer and two limits remove datagrams that are not    *)
(* complete.  The network loses, repeats and reorders fragments, and may   *)
(* cut the same datagram in several ways.                                  *)
(***************************************************************************)
EXTENDS Naturals, Sequences, FiniteSets

CONSTANTS
  Datagrams,    \* source, destination and id of a datagram
  DatagramLen,  \* its length, in units of a fragment's offset
  FragmentLen,  \* the longest fragment
  UnitPbufs,    \* the pbufs of each unit of a fragment but the first
  MaxPbufs,     \* IP_REASS_MAX_PBUFS
  ReassData,    \* MEMP_NUM_REASSDATA
  ReassMaxAge   \* IP_REASS_MAXAGE

ASSUME ReassAssumption ==
  /\ {DatagramLen, FragmentLen, UnitPbufs, MaxPbufs, ReassData} \subseteq Nat \ {0}
  /\ FragmentLen < DatagramLen
  /\ ReassMaxAge \in Nat

VARIABLES
  reassdatagrams,   \* id, timer, flags (the last fragment was seen) and p
  pbufcount,        \* ip_reass_pbufcount
  delivered,        \* what this step has handed on: the fragments of a datagram
  stopped           \* an assertion has failed

reassVars == <<reassdatagrams, pbufcount, delivered, stopped>>

Fragment == {f \in [start : 0 .. DatagramLen - 1, end : 1 .. DatagramLen] :
               f.start < f.end /\ f.end - f.start <= FragmentLen}

\* pbuf_clen: the first unit is in one pbuf, with the headers.
Clen(f) == 1 + (f.end - f.start - 1) * UnitPbufs

SumOf(t) ==
  LET sum[k \in 0 .. Len(t)] == IF k = 0 THEN 0 ELSE sum[k - 1] + t[k]
  IN  sum[Len(t)]

PbufsOf(r) == SumOf([k \in DOMAIN r.p |-> Clen(r.p[k])])

Without(q, i) == SubSeq(q, 1, i - 1) \o SubSeq(q, i + 1, Len(q))

-----------------------------------------------------------------------------
(* ip_reass_remove_oldest_datagram: datagrams other than d are freed, the  *)
(* oldest first, until there are enough pbufs or no other one is left.     *)

Others(q, d) == {i \in DOMAIN q : q[i].id /= d}

OldestOther(q, d) ==
  CHOOSE i \in Others(q, d) : \A j \in Others(q, d) :
    \/ q[i].timer < q[j].timer
    \/ q[i].timer = q[j].timer /\ j <= i

\* One turn of the loop.  The predecessor it passes on is that of the last
\* datagram, and an assertion fails when the oldest one is another.
RemoveOne(s, d, needed) ==
  LET i == OldestOther(s.q, d)
      n == s.freed + PbufsOf(s.q[i])
  IN  IF ~s.again THEN s
      ELSE IF i /= Len(s.q) THEN [s EXCEPT !.again = FALSE, !.failed = TRUE]
      ELSE [q |-> Without(s.q, i), freed |-> n, failed |-> FALSE,
            again |-> n < needed /\ Cardinality(Others(s.q, d)) > 1]

RemoveOldest(q, d, needed) ==
  LET pass[k \in 0 .. Len(q)] ==
        IF k = 0
          THEN [q |-> q, freed |-> 0, again |-> Others(q, d) /= {}, failed |-> FALSE]
          ELSE RemoveOne(pass[k - 1], d, needed)
  IN  pass[Len(q)]

Nothing(q) == [q |-> q, freed |-> 0, again |-> FALSE, failed |-> FALSE]

-----------------------------------------------------------------------------
(* ip_reass_chain_frag_into_datagram_and_validate *)

\* The fragments before the first one that does not start before f.
Ahead(q, f) == Cardinality({i \in DOMAIN q : \A j \in 1 .. i : q[j].start < f.start})

InFront(q, f) == SubSeq(q, 1, Ahead(q, f))
Behind(q, f) == SubSeq(q, Ahead(q, f) + 1, Len(q))

\* Repeated and overlapping fragments are thrown away, except that the end of
\* one with the lowest offset is not looked at.
Unwanted(q, f) ==
  \/ \E i \in DOMAIN q : q[i].start <= f.start /\ f.start < q[i].end
  \/ InFront(q, f) /= <<>> /\ Behind(q, f) /= <<>> /\ f.end > Behind(q, f)[1].start

Joined(q) == \A i \in 1 .. Len(q) - 1 : q[i].end = q[i + 1].start

\* Mutant: the offset of the first fragment is not looked at.
Complete_AnyStart(q, f) ==
  /\ Joined(InFront(q, f))
  /\ Behind(q, f) = <<>> => Joined(InFront(q, f) \o <<f>>)
  /\ Joined(<<f>> \o Behind(q, f))

\* The fragments are found complete.  A fragment put between two others is not
\* compared with the one in front of it.
Complete(q, f) ==
  /\ Joined(InFront(q, f))
  /\ Behind(q, f) = <<>> => Joined(InFront(q, f) \o <<f>>)
  /\ Joined(<<f>> \o Behind(q, f))
  /\ (InFront(q, f) \o <<f>>)[1].start = 0

\* Mutant: the pbufs of a fragment that is thrown away stay counted.
AfterThrow_Counted(count, f) == count + Clen(f)

\* Label freepbuf.
AfterThrow(count, f) == count

\* Mutant: a fragment gives its datagram more time.
TimerOf_Renewed(r) == ReassMaxAge

TimerOf(r) == r.timer

Leave(q, count, packet) ==
  /\ reassdatagrams' = q
  /\ pbufcount' = count
  /\ delivered' = packet
  /\ UNCHANGED stopped

Halt ==
  /\ stopped' = TRUE
  /\ delivered' = <<>>
  /\ UNCHANGED <<reassdatagrams, pbufcount>>

\* Fragment f joins datagram i of q.  The last fragment is noted before it is
\* known whether it will be kept: when it was thrown away, the datagram may end
\* too soon, and an assertion fails.
Chain(q, i, count, f) ==
  LET r    == [q[i] EXCEPT !.last = @ \/ f.end = DatagramLen, !.timer = TimerOf(q[i])]
      p    == InFront(r.p, f) \o <<f>> \o Behind(r.p, f)
      done == r.last /\ Complete(r.p, f)
  IN  \/ /\ Unwanted(r.p, f)
         /\ Leave([q EXCEPT ![i] = r], AfterThrow(count, f), <<>>)
      \/ /\ ~Unwanted(r.p, f) /\ ~done
         /\ Leave([q EXCEPT ![i] = [r EXCEPT !.p = p]], count + Clen(f), <<>>)
      \/ /\ ~Unwanted(r.p, f) /\ done
         /\ IF p[Len(p)].end = DatagramLen
              THEN Leave(Without(q, i), count - PbufsOf(r), p)
              ELSE Halt

-----------------------------------------------------------------------------
IndexOf(q, d) == {i \in DOMAIN q : q[i].id = d}

New(d) == [id |-> d, timer |-> ReassMaxAge, last |-> FALSE, p |-> <<>>]

\* ip_reass: first there must be room for the pbufs, then, if the datagram is a
\* new one, for its record (ip_reass_enqueue_new_datagram).
IpReass(d, f) ==
  LET full  == pbufcount + Clen(f) > MaxPbufs
      one   == IF full THEN RemoveOldest(reassdatagrams, d, Clen(f))
                       ELSE Nothing(reassdatagrams)
      count == pbufcount - one.freed
      new   == IndexOf(one.q, d) = {}
      none  == new /\ Len(one.q) = ReassData
      two   == IF none THEN RemoveOldest(one.q, d, Clen(f)) ELSE Nothing(one.q)
  IN  /\ ~stopped
      /\ \/ (one.failed \/ two.failed) /\ Halt
         \/ /\ ~one.failed /\ full
            /\ one.freed = 0 \/ count + Clen(f) > MaxPbufs
            /\ Leave(one.q, count, <<>>)
         \/ /\ ~one.failed
            /\ full => one.freed > 0 /\ count + Clen(f) <= MaxPbufs
            /\ \/ /\ ~two.failed /\ none /\ two.freed < Clen(f)
                  /\ Leave(two.q, count - two.freed, <<>>)
               \/ /\ ~two.failed /\ new /\ (none => two.freed >= Clen(f))
                  /\ Chain(<<New(d)>> \o two.q, 1, count - two.freed, f)
               \/ /\ ~new
                  /\ \E i \in IndexOf(one.q, d) : Chain(one.q, i, count, f)

\* The k-th number of S.
KthOf(S, k) == CHOOSE i \in S : Cardinality({j \in S : j <= i}) = k

\* ip_reass_tmr
IpReassTmr ==
  LET q    == reassdatagrams
      kept == {i \in DOMAIN q : q[i].timer > 0}
  IN  /\ ~stopped
      /\ reassdatagrams' = [k \in 1 .. Cardinality(kept) |->
                              [q[KthOf(kept, k)] EXCEPT !.timer = @ - 1]]
      /\ pbufcount' = pbufcount
           - SumOf([i \in DOMAIN q |-> IF i \in kept THEN 0 ELSE PbufsOf(q[i])])
      /\ delivered' = <<>>
      /\ UNCHANGED stopped

Stopped == stopped /\ UNCHANGED reassVars

ReassInit ==
  /\ reassdatagrams = <<>>
  /\ pbufcount = 0
  /\ delivered = <<>>
  /\ stopped = FALSE

ReassNext ==
  \/ \E d \in Datagrams, f \in Fragment : IpReass(d, f)
  \/ IpReassTmr
  \/ Stopped

ReassSpec == ReassInit /\ [][ReassNext]_reassVars

-----------------------------------------------------------------------------
(* Properties. *)

\* The counter of pbufs, which is changed in five places, is the number of pbufs
\* that wait, within its limit; so are the records.  The list is in the order of
\* the ages, without two records of one datagram, and no datagram is empty.
CountIsKept ==
  LET q == reassdatagrams
  IN  /\ pbufcount = SumOf([i \in DOMAIN q |-> PbufsOf(q[i])])
      /\ pbufcount <= MaxPbufs
      /\ Len(q) <= ReassData
      /\ \A i, j \in DOMAIN q : i < j => q[i].id /= q[j].id /\ q[j].timer <= q[i].timer
      /\ \A i \in DOMAIN q : q[i].p /= <<>> /\ q[i].timer \in 0 .. ReassMaxAge

\* A datagram that is handed on has all its bytes, each of them once and in
\* order: what line 441 says of the fragments when they are found valid.
ReassembledIsOriginal ==
  delivered /= <<>> =>
    /\ delivered[1].start = 0 /\ delivered[Len(delivered)].end = DatagramLen
    /\ Joined(delivered)

\* A datagram does not wait for ever for its last fragment, whatever arrives.
DatagramsExpire ==
  \A d \in Datagrams :
    IndexOf(reassdatagrams, d) /= {} ~> IndexOf(reassdatagrams, d) = {} \/ stopped
=============================================================================
