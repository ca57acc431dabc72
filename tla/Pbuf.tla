-------------------------------- MODULE Pbuf --------------------------------
(***************************************************************************)
(* Packet buffers (pbuf.c): chains of pbufs, the counts of the pointers to *)
(* them, and the two lengths that each of them keeps.  Whoever works with  *)
(* pbufs is reduced to the pointers it holds.                              *)
(***************************************************************************)
EXTENDS Naturals, FiniteSets

CONSTANTS
  Pbufs,        \* PBUF_POOL_SIZE
  NoPbuf,       \* NULL
  BufSize,      \* PBUF_POOL_BUFSIZE
  Offsets,      \* the room pbuf_alloc leaves for headers
  MaxPacket,    \* bound on the length asked for
  MaxRef        \* bound on the pointers to one pbuf

ASSUME PbufAssumption ==
  /\ IsFiniteSet(Pbufs) /\ NoPbuf \notin Pbufs
  /\ BufSize \in Nat \ {0} /\ MaxPacket \in Nat /\ MaxRef \in Nat \ {0}
  /\ \A o \in Offsets : o \in 0 .. BufSize - 1

VARIABLES
  buf,          \* the fields of each pbuf; room is what lies before payload
  held          \* the pointers to it from outside of the pbufs

pbufVars == <<buf, held>>

Idle == [ref |-> 0, len |-> 0, tot_len |-> 0, room |-> 0, next |-> NoPbuf]
Preds(p) == {q \in Pbufs : buf[q].next = p}

\* The chain that starts at p, as a function on 1 .. n.
ChainOf(B, p) ==
  LET at[i \in 1 .. Cardinality(Pbufs)] ==
        IF i = 1 THEN p
        ELSE IF at[i - 1] = NoPbuf THEN NoPbuf ELSE B[at[i - 1]].next
  IN  [i \in {j \in DOMAIN at : at[j] /= NoPbuf} |-> at[i]]
Members(B, p) == {ChainOf(B, p)[i] : i \in DOMAIN ChainOf(B, p)}
LastOf(B, p) == LET c == ChainOf(B, p) IN c[Cardinality(DOMAIN c)]

\* Mutant: the whole chain is freed with its head.
FreeChain_Whole(B, p) ==
  IF B[p].ref > 1 THEN [B EXCEPT ![p].ref = @ - 1]
    ELSE [q \in Pbufs |-> IF q \in Members(B, p) THEN Idle ELSE B[q]]

\* pbuf_free: down the chain as long as nobody else points to a pbuf.
FreeChain(B, p) ==
  LET c == ChainOf(B, p)
      reached == {i \in DOMAIN c : \A j \in 1 .. i - 1 : B[c[j]].ref = 1}
      gone == {c[i] : i \in {j \in reached : B[c[j]].ref = 1}}
      kept == {c[i] : i \in {j \in reached : B[c[j]].ref > 1}}
  IN  [q \in Pbufs |-> IF q \in gone THEN Idle
                       ELSE IF q \in kept THEN [B[q] EXCEPT !.ref = @ - 1]
                       ELSE B[q]]

-----------------------------------------------------------------------------
(* The rule that the code states and does not check: a chain is changed    *)
(* through its head, and only while no other chain ends in it.             *)

IsHead(p) == held[p] > 0 /\ Preds(p) = {}
Unshared(p) ==
  IsHead(p) /\ \A q \in Members(buf, p) : Cardinality(Preds(q)) <= 1

\* pbuf_alloc of PBUF_POOL: a chain that is long enough; if the pool runs out in
\* the middle, the part there is is freed again.
PbufAlloc(length, offset) ==
  LET first == IF length < BufSize - offset THEN length ELSE BufSize - offset
      needed == 1 + (length - first + BufSize - 1) \div BufSize
      free == {p \in Pbufs : buf[p].ref = 0}
      n == IF needed < Cardinality(free) THEN needed ELSE Cardinality(free)
      q == CHOOSE s \in [1 .. n -> free] : \A i, j \in 1 .. n : i /= j => s[i] /= s[j]
      rem(i) == IF i = 1 THEN length ELSE length - first - (i - 2) * BufSize
      new(i) == [ref |-> 1, tot_len |-> rem(i), room |-> IF i = 1 THEN offset ELSE 0,
                 len |-> IF i = 1 THEN first ELSE IF rem(i) < BufSize THEN rem(i) ELSE BufSize,
                 next |-> IF i = n THEN NoPbuf ELSE q[i + 1]]
      chained == [p \in Pbufs |->
                   IF \E i \in 1 .. n : q[i] = p THEN new(CHOOSE i \in 1 .. n : q[i] = p)
                   ELSE buf[p]]
  IN  /\ n > 0
      /\ IF n < needed
           THEN buf' = FreeChain(chained, q[1]) /\ UNCHANGED held
           ELSE buf' = chained /\ held' = [held EXCEPT ![q[1]] = 1]

\* pbuf_ref, by somebody who sees a chain that it holds
PbufRef(p) ==
  /\ \E h \in Pbufs : held[h] > 0 /\ p \in Members(buf, h)
  /\ buf[p].ref < MaxRef
  /\ buf' = [buf EXCEPT ![p].ref = @ + 1]
  /\ held' = [held EXCEPT ![p] = @ + 1]

\* pbuf_free, of a pointer that is then forgotten
PbufFree(p) ==
  /\ held[p] > 0
  /\ buf' = FreeChain(buf, p)
  /\ held' = [held EXCEPT ![p] = @ - 1]

\* Mutant: the last pbuf of the head chain is left out.
Appended_NotLast(B, h, t) ==
  LET l == LastOf(B, h)
  IN  [q \in Pbufs |->
        IF q = l THEN [B[q] EXCEPT !.next = t]
        ELSE IF q \in Members(B, h) THEN [B[q] EXCEPT !.tot_len = @ + B[t].tot_len]
        ELSE B[q]]

\* pbuf_cat: every pbuf of the first chain now has the second one behind it.
Appended(B, h, t) ==
  LET l == LastOf(B, h)
  IN  [q \in Pbufs |->
        IF q \notin Members(B, h) THEN B[q]
        ELSE [B[q] EXCEPT !.tot_len = @ + B[t].tot_len, !.next = IF q = l THEN t ELSE @]]

\* pbuf_cat takes over the pointer to t.
PbufCat(h, t) ==
  /\ Unshared(h) /\ held[t] > 0 /\ t \notin Members(buf, h)
  /\ buf' = Appended(buf, h, t)
  /\ held' = [held EXCEPT ![t] = @ - 1]

\* pbuf_chain does not.
PbufChain(h, t) ==
  /\ Unshared(h) /\ held[t] > 0 /\ t \notin Members(buf, h)
  /\ buf[t].ref < MaxRef
  /\ buf' = [Appended(buf, h, t) EXCEPT ![t].ref = @ + 1]
  /\ UNCHANGED held

\* pbuf_dechain
PbufDechain(p) ==
  LET q == buf[p].next
      cut == [buf EXCEPT ![q].tot_len = buf[p].tot_len - buf[p].len,
                         ![p].next = NoPbuf, ![p].tot_len = buf[p].len]
  IN  /\ IsHead(p) /\ q /= NoPbuf
      /\ buf' = FreeChain(cut, q)
      /\ UNCHANGED held

\* pbuf_realloc: the pbufs that stay, the one that is cut, and the rest
PbufRealloc(p, newLen) ==
  LET c == ChainOf(buf, p)
      rem[i \in 1 .. Cardinality(Pbufs)] ==
        IF i = 1 THEN newLen ELSE rem[i - 1] - buf[c[i - 1]].len
      shrunk(last) ==
        [q \in Pbufs |->
          IF q = c[last] THEN [buf[q] EXCEPT !.len = rem[last], !.tot_len = rem[last],
                                             !.next = NoPbuf]
          ELSE IF \E i \in 1 .. last - 1 : q = c[i]
            THEN [buf[q] EXCEPT !.tot_len = @ - (buf[p].tot_len - newLen)]
          ELSE buf[q]]
  IN  /\ Unshared(p) /\ newLen < buf[p].tot_len
      /\ \E last \in DOMAIN c :
           /\ rem[last] <= buf[c[last]].len
           /\ \A i \in 1 .. last - 1 : rem[i] > buf[c[i]].len
           /\ buf' = IF buf[c[last]].next = NoPbuf THEN shrunk(last)
                     ELSE FreeChain(shrunk(last), buf[c[last]].next)
      /\ UNCHANGED held

\* pbuf_header with a negative and with a positive increment
HideHeader(p, n) ==
  /\ IsHead(p) /\ n <= buf[p].len
  /\ buf' = [buf EXCEPT ![p].len = @ - n, ![p].tot_len = @ - n, ![p].room = @ + n]
  /\ UNCHANGED held
RevealHeader(p, n) ==
  /\ IsHead(p) /\ n <= buf[p].room
  /\ buf' = [buf EXCEPT ![p].len = @ + n, ![p].tot_len = @ + n, ![p].room = @ - n]
  /\ UNCHANGED held

-----------------------------------------------------------------------------
PbufInit == buf = [p \in Pbufs |-> Idle] /\ held = [p \in Pbufs |-> 0]

PbufNext ==
  \/ \E length \in 0 .. MaxPacket, offset \in Offsets : PbufAlloc(length, offset)
  \/ \E p \in Pbufs : PbufRef(p)
  \/ \E p \in Pbufs : PbufFree(p)
  \/ \E h, t \in Pbufs : PbufCat(h, t)
  \/ \E h, t \in Pbufs : PbufChain(h, t)
  \/ \E p \in Pbufs : PbufDechain(p)
  \/ \E p \in Pbufs, newLen \in 0 .. MaxPacket : PbufRealloc(p, newLen)
  \/ \E p \in Pbufs : HideHeader(p, 1)
  \/ \E p \in Pbufs : RevealHeader(p, 1)

PbufSpec == PbufInit /\ [][PbufNext]_pbufVars

\* The count of a pbuf is the number of pointers to it, from outside and from
\* other pbufs (the note of pbuf_free): nobody points to a pbuf that was freed,
\* and none that nobody points to is kept, whatever chains were cut and joined.
RefsCounted ==
  \A p \in Pbufs : buf[p].ref = held[p] + Cardinality(Preds(p))

\* tot_len is what is left of the packet from each pbuf on (pbuf_dechain asserts
\* it): so walks by length, as pbuf_realloc does them, end inside the chain.
LengthsAddUp ==
  \A p \in Pbufs : buf[p].ref > 0 =>
    buf[p].tot_len = buf[p].len + (IF buf[p].next = NoPbuf THEN 0
                                   ELSE buf[buf[p].next].tot_len)
=============================================================================
