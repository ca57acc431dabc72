------------------------------ MODULE MemProofs ------------------------------
(***************************************************************************)
(* Proofs about the memory of lwIP.                                        *)
(*                                                                         *)
(* Mem, for every heap, every size of the headers and every size asked     *)
(* for: after any sequence of mem_malloc, mem_free and mem_trim the        *)
(* headers are a chain of blocks without a gap, free blocks are merged,    *)
(* lfree is the lowest of them and each allocation has its block.          *)
(*                                                                         *)
(* Pbuf, for every pool and every packet: the counts and the lengths of    *)
(* the pbufs are right.  No chain is assumed to end: that the walk of      *)
(* pbuf_free meets each pbuf at most once follows from the counts, and     *)
(* that of the operations through a head from Unshared.                    *)
(***************************************************************************)
EXTENDS Mem, Pbuf, Integers, FiniteSetTheorems, WellFoundedInduction, TLAPS

\* Free blocks are merged, except perhaps the blocks of S with their next ones.
PluggedBut(r, S) ==
  \A h \in DOMAIN r \ ({MemSize} \cup S) : r[h].used \/ r[r[h].next].used

\* s is r with a flag set to b.
IsFlagged(s, r, h, b) ==
  /\ Chained(s)
  /\ DOMAIN s = DOMAIN r
  /\ \A k \in DOMAIN r : /\ s[k].next = r[k].next
                         /\ s[k].prev = r[k].prev
                         /\ s[k].used = IF k = h THEN b ELSE r[k].used

\* s is r with block h cut before rest.
IsSplit(s, r, h, rest) ==
  /\ Chained(s)
  /\ rest \notin DOMAIN r /\ rest \in Nat /\ h < rest /\ rest < r[h].next
  /\ DOMAIN s = DOMAIN r \cup {rest}
  /\ \A k \in DOMAIN r : /\ s[k].next = IF k = h THEN rest ELSE r[k].next
                         /\ s[k].used = IF k = h THEN TRUE ELSE r[k].used
  /\ s[rest].next = r[h].next
  /\ s[rest].used = FALSE

\* s is r with block h and the one behind it made one.
IsJoin(s, r, h) ==
  /\ Chained(s)
  /\ DOMAIN s = DOMAIN r \ {r[h].next}
  /\ h \in DOMAIN s /\ r[r[h].next].next \in DOMAIN s
  /\ \A k \in DOMAIN s :
       /\ s[k].next = IF k = h THEN r[r[h].next].next ELSE r[k].next
       /\ s[k].used = r[k].used
       /\ k /= h => r[k].next /= r[h].next \/ k = MemSize

-----------------------------------------------------------------------------
(* The helpers.                                                            *)

LEMMA LowestIsLeast ==
  ASSUME NEW S \in SUBSET Nat, S /= {}
  PROVE  Lowest(S) \in S /\ \A k \in S : Lowest(S) <= k
  <1>1. PICK x \in S : \A y \in S : ~(<<y, x>> \in OpToRel(<, Nat))
    BY NatLessThanWellFounded, WFMin
  <1>2. \A y \in S : ~(y < x)
    BY <1>1 DEF OpToRel
  <1>3. \A y \in S : x <= y
    BY <1>2
  <1> QED BY <1>3 DEF Lowest

\* What a chain says of a block.
LEMMA BlockFacts ==
  ASSUME NEW r, Chained(r), NEW h \in DOMAIN r, h /= MemSize
  PROVE  /\ h \in Nat /\ h < MemSize
         /\ r[h].next \in DOMAIN r /\ r[h].prev \in DOMAIN r /\ r[h].used \in BOOLEAN
         /\ r[h].next \in Nat /\ r[h].next <= MemSize /\ r[h].prev \in Nat
         /\ h + Header + MinSize <= r[h].next
         /\ h < r[h].next
         /\ \A k \in DOMAIN r : k <= h \/ r[h].next <= k
         /\ r[h].next /= MemSize => r[r[h].next].prev = h
         /\ h /= 0 => r[r[h].prev].next = h
  <1>1. h \in 0 .. MemSize /\ MemSize \in Nat /\ Header \in Nat /\ MinSize \in Nat \ {0}
    BY MemAssumption DEF Chained
  <1>2. r[h] \in [next : DOMAIN r, prev : DOMAIN r, used : BOOLEAN]
    BY DEF Chained
  <1>3. r[h].next \in DOMAIN r /\ r[h].prev \in DOMAIN r /\ r[h].used \in BOOLEAN
    BY <1>2
  <1>4. r[h].next \in 0 .. MemSize /\ r[h].prev \in 0 .. MemSize
    BY <1>3 DEF Chained
  <1>5. /\ h + Header + MinSize <= r[h].next
        /\ \A k \in DOMAIN r : k <= h \/ r[h].next <= k
        /\ r[h].next /= MemSize => r[r[h].next].prev = h
        /\ h /= 0 => r[r[h].prev].next = h
    BY DEF Chained
  <1> QED BY <1>1, <1>3, <1>4, <1>5

\* Setting the flag of a block keeps the chain.
LEMMA WithUsedChained ==
  ASSUME NEW r, Chained(r), NEW h \in DOMAIN r, h /= MemSize, NEW b \in BOOLEAN
  PROVE  IsFlagged(WithUsed(r, h, b), r, h, b)
  <1> DEFINE s == WithUsed(r, h, b)
  <1>1. /\ r \in [DOMAIN r -> [next : DOMAIN r, prev : DOMAIN r, used : BOOLEAN]]
        /\ {0, MemSize} \subseteq DOMAIN r
    BY DEF Chained
  <1>2. /\ DOMAIN s = DOMAIN r
        /\ s \in [DOMAIN s -> [next : DOMAIN s, prev : DOMAIN s, used : BOOLEAN]]
        /\ \A k \in DOMAIN r : /\ s[k].next = r[k].next /\ s[k].prev = r[k].prev
                               /\ s[k].used = IF k = h THEN b ELSE r[k].used
        /\ s[MemSize] = r[MemSize]
    BY <1>1 DEF WithUsed
  <1> HIDE DEF s
  <1>3. Chained(s)
    <2>1. \A k \in DOMAIN s \ {MemSize} :
             /\ k + Header + MinSize <= s[k].next
             /\ \A j \in DOMAIN s : j <= k \/ s[k].next <= j
             /\ s[k].next /= MemSize => s[s[k].next].prev = k
             /\ k /= 0 => s[s[k].prev].next = k
      <3> SUFFICES ASSUME NEW k \in DOMAIN r, k /= MemSize
                   PROVE  /\ k + Header + MinSize <= s[k].next
                          /\ \A j \in DOMAIN s : j <= k \/ s[k].next <= j
                          /\ s[k].next /= MemSize => s[s[k].next].prev = k
                          /\ k /= 0 => s[s[k].prev].next = k
        BY <1>2
      <3>1. /\ k + Header + MinSize <= r[k].next
            /\ \A j \in DOMAIN r : j <= k \/ r[k].next <= j
            /\ r[k].next /= MemSize => r[r[k].next].prev = k
            /\ k /= 0 => r[r[k].prev].next = k
            /\ r[k].next \in DOMAIN r /\ r[k].prev \in DOMAIN r
        BY BlockFacts
      <3>2. s[k].next = r[k].next /\ s[k].prev = r[k].prev
        BY <1>2
      <3>3. s[s[k].next].prev = r[r[k].next].prev /\ s[s[k].prev].next = r[r[k].prev].next
        BY <1>2, <3>1, <3>2
      <3>4. k + Header + MinSize <= s[k].next
        BY <3>1, <3>2
      <3>5. \A j \in DOMAIN s : j <= k \/ s[k].next <= j
        BY <1>2, <3>1, <3>2
      <3> QED BY <3>1, <3>2, <3>3, <3>4, <3>5
    <2> QED BY <1>1, <1>2, <2>1 DEF Chained
  <1> QED BY <1>2, <1>3 DEF s, IsFlagged

\* A block is split in two: the second one is free.
LEMMA SplitChained ==
  ASSUME NEW r, Chained(r), NEW h \in DOMAIN r, h /= MemSize,
         NEW n \in Nat, MinSize <= n, h + Header + n + Header + MinSize <= r[h].next
  PROVE  IsSplit(Split(r, h, n), r, h, h + Header + n)
  <1> DEFINE rest == h + Header + n
             g == r[h].next
             s == Split(r, h, n)
             D == DOMAIN r
  <1>1. Header \in Nat \ {0} /\ MinSize \in Nat \ {0} /\ MemSize \in Nat
    BY MemAssumption
  <1>2. /\ {0, MemSize} \subseteq D /\ D \subseteq 0 .. MemSize
        /\ r[0].prev = 0 /\ r[MemSize] = [next |-> MemSize, prev |-> MemSize, used |-> TRUE]
        /\ \A k \in D : r[k] \in [next : D, prev : D, used : BOOLEAN]
    BY DEF Chained
  <1>3. /\ h \in Nat /\ g \in D /\ g \in Nat /\ g <= MemSize
        /\ \A k \in D : k <= h \/ g <= k
    BY BlockFacts
  <1>4. rest \in Nat /\ h < rest /\ rest + Header + MinSize <= g /\ rest < g
        /\ h + Header + MinSize <= rest
    BY <1>1, <1>3
  <1>5. rest \notin D /\ rest \in 0 .. MemSize /\ rest /= MemSize /\ rest /= 0
    BY <1>1, <1>2, <1>3, <1>4
  <1>6. /\ DOMAIN s = D \cup {rest}
        /\ s[h] = [next |-> rest, prev |-> r[h].prev, used |-> TRUE]
        /\ s[rest] = [next |-> g, prev |-> h, used |-> FALSE]
        /\ \A k \in D : k /= h /\ k /= g => s[k] = r[k]
        /\ g /= MemSize => s[g] = [r[g] EXCEPT !.prev = rest]
        /\ g = MemSize => s[g] = r[g]
    <2> HIDE DEF rest, D
    <2>1. s = [k \in D \cup {rest} |->
                 IF k = h THEN [next |-> rest, prev |-> r[h].prev, used |-> TRUE]
                 ELSE IF k = rest THEN [next |-> g, prev |-> h, used |-> FALSE]
                 ELSE IF k = g /\ k /= MemSize THEN [r[k] EXCEPT !.prev = rest]
                 ELSE r[k]]
      BY DEF Split, rest, D
    <2>2. h \in D /\ g \in D /\ rest /= h /\ rest /= g /\ h /= g
      BY <1>3, <1>4 DEF D
    <2> HIDE DEF s, g
    <2> QED BY <2>1, <2>2, <1>5
  <1>7. \A k \in D : /\ s[k].next = IF k = h THEN rest ELSE r[k].next
                     /\ s[k].used = IF k = h THEN TRUE ELSE r[k].used
                     /\ s[k].prev = IF k = g /\ g /= MemSize THEN rest ELSE r[k].prev
    <2>1. h < g
      BY <1>3, <1>4
    <2> TAKE k \in D
    <2>2. CASE k = h
      <3> HIDE DEF s, g, rest, D
      <3> QED BY <2>1, <2>2, <1>6
    <2>3. CASE k = g
      <3>1. k /= h
        BY <2>1, <2>3, <1>3
      <3>2. r[g] \in [next : D, prev : D, used : BOOLEAN]
        BY <1>2, <1>3
      <3> HIDE DEF s, g, rest, D
      <3> QED BY <2>3, <3>1, <3>2, <1>6
    <2>4. CASE k /= h /\ k /= g
      <3> HIDE DEF s, g, rest, D
      <3> QED BY <2>4, <1>6
    <2> QED BY <2>2, <2>3, <2>4
  <1>8. s[rest].next = g /\ s[rest].used = FALSE /\ s[rest].prev = h
    <2> HIDE DEF s, g, rest, D
    <2> QED BY <1>6
  <1>9. \A k \in D \cup {rest} : s[k] \in [next : D \cup {rest}, prev : D \cup {rest}, used : BOOLEAN]
    <2>1. h \in D
      BY DEF D
    <2> HIDE DEF s, g, rest, D
    <2>2. s[h] \in [next : D \cup {rest}, prev : D \cup {rest}, used : BOOLEAN]
      BY <2>1, <1>2, <1>6
    <2>3. s[rest] \in [next : D \cup {rest}, prev : D \cup {rest}, used : BOOLEAN]
      BY <2>1, <1>3, <1>6
    <2>4. g \in D /\ s[g] \in [next : D \cup {rest}, prev : D \cup {rest}, used : BOOLEAN]
      BY <1>2, <1>3, <1>6
    <2> QED BY <1>2, <1>6, <2>2, <2>3, <2>4
  <1>10. ASSUME NEW k \in D \cup {rest}, k /= MemSize
         PROVE  /\ k + Header + MinSize <= s[k].next
                /\ \A j \in D \cup {rest} : j <= k \/ s[k].next <= j
                /\ s[k].next /= MemSize => s[s[k].next].prev = k
                /\ k /= 0 => s[s[k].prev].next = k
    <2>1. h \in D /\ D \subseteq Nat /\ r[h].prev \in D /\ h < g
      BY <1>2, <1>3, <1>4 DEF D
    <2>2. g /= MemSize => r[g].prev = h
      BY BlockFacts
    <2>3. CASE k = rest
      <3>1. s[k].next = g /\ s[k].prev = h
        BY <2>3, <1>8
      <3>2. s[g].prev = (IF g /= MemSize THEN rest ELSE r[g].prev) /\ s[h].next = rest
        BY <2>1, <1>3, <1>7
      <3>3. \A j \in D \cup {rest} : j <= rest \/ g <= j
        <4> SUFFICES ASSUME NEW j \in D PROVE j <= rest \/ g <= j
          BY <1>4
        <4>1. j \in Nat /\ (j <= h \/ g <= j)
          BY <2>1, <1>3
        <4> HIDE DEF g, rest, D
        <4> QED BY <4>1, <1>3, <1>4
      <3> HIDE DEF s, g, rest, D
      <3> QED BY <2>3, <3>1, <3>2, <3>3, <1>4
    <2>4. CASE k = h
      <3>1. s[k].next = rest /\ s[k].prev = r[k].prev
        <4> HIDE DEF s, g, rest, D
        <4> QED BY <2>4, <1>6
      <3>2. \A j \in D \cup {rest} : j <= h \/ rest <= j
        <4> SUFFICES ASSUME NEW j \in D PROVE j <= h \/ rest <= j
          BY <1>4
        <4>1. j \in Nat /\ (j <= h \/ g <= j)
          BY <2>1, <1>3
        <4> HIDE DEF g, rest, D
        <4> QED BY <4>1, <1>3, <1>4
      <3>3. s[rest].prev = k
        BY <2>4, <1>8
      <3>4. ASSUME k /= 0 PROVE s[s[k].prev].next = k
        <4>1. r[k].prev \in D /\ r[r[k].prev].next = k
          BY <2>4, <2>1, <3>4, BlockFacts
        <4>2. r[k].prev /= h
          BY <2>4, <2>1, <4>1, <1>3
        <4>3. s[r[k].prev].next = r[r[k].prev].next
          BY <4>1, <4>2, <1>7
        <4> HIDE DEF s, g, rest, D
        <4> QED BY <3>1, <4>1, <4>3
      <3> HIDE DEF s, g, rest, D
      <3> QED BY <2>4, <3>1, <3>2, <3>3, <3>4, <1>4
    <2>5. CASE k \in D /\ k /= h
      <3>1. /\ k \in Nat /\ r[k].next \in Nat
            /\ k + Header + MinSize <= r[k].next /\ k < r[k].next
            /\ \A j \in D : j <= k \/ r[k].next <= j
            /\ r[k].next /= MemSize => r[r[k].next].prev = k
            /\ k /= 0 => r[r[k].prev].next = k
            /\ r[k].next \in D /\ r[k].prev \in D
        BY <1>10, <2>5, BlockFacts
      <3>2. s[k].next = r[k].next
        BY <2>5, <1>7
      <3>3. \A j \in D \cup {rest} : j <= k \/ r[k].next <= j
        <4>1. k <= h \/ g <= k
          BY <2>5, <1>3
        <4>2. h <= k \/ r[k].next <= h
          BY <2>1, <3>1
        <4>3. rest <= k \/ r[k].next <= rest
          <5> HIDE DEF g, rest, D
          <5> QED BY <4>1, <4>2, <2>1, <2>5, <3>1, <1>3, <1>4
        <4> QED BY <3>1, <4>3
      <3>4. ASSUME r[k].next /= MemSize PROVE s[r[k].next].prev = k
        <4>1. r[k].next /= g
          BY <3>1, <3>4, <2>2, <2>5
        <4>2. s[r[k].next].prev = r[r[k].next].prev
          BY <3>1, <4>1, <1>7
        <4> QED BY <3>1, <3>4, <4>2
      <3>5. ASSUME k /= 0 PROVE s[s[k].prev].next = k
        <4>1. CASE k = g
          <5>1. s[k].prev = rest
            <6> HIDE DEF s, g, rest, D
            <6> QED BY <1>10, <2>5, <4>1, <1>7
          <5>2. s[rest].next = k
            BY <4>1, <1>8
          <5> HIDE DEF s, rest
          <5> QED BY <5>1, <5>2
        <4>2. CASE k /= g
          <5>1. s[k].prev = r[k].prev
            <6> HIDE DEF s, g, rest, D
            <6> QED BY <2>5, <4>2, <1>7
          <5>2. r[k].prev /= h
            BY <3>1, <3>5, <4>2
          <5>3. s[r[k].prev].next = r[r[k].prev].next
            BY <3>1, <5>2, <1>7
          <5> HIDE DEF s
          <5> QED BY <3>1, <3>5, <5>1, <5>3
        <4> QED BY <4>1, <4>2
      <3> HIDE DEF s, g, rest, D
      <3> QED BY <3>1, <3>2, <3>3, <3>4, <3>5
    <2> QED BY <2>3, <2>4, <2>5
  <1>11. Chained(s)
    <2>1. /\ {0, MemSize} \subseteq DOMAIN s /\ DOMAIN s \subseteq 0 .. MemSize
      BY <1>2, <1>5, <1>6
    <2>2. s \in [DOMAIN s -> [next : DOMAIN s, prev : DOMAIN s, used : BOOLEAN]]
      <3>1. s = [k \in DOMAIN s |-> s[k]]
        BY DEF Split
      <3> HIDE DEF s
      <3> QED BY <1>6, <1>9, <3>1
    <2>3. s[0].prev = 0
      <3>1. 0 /= g
        BY <1>3, <1>4
      <3> HIDE DEF s, g, rest
      <3> QED BY <1>2, <1>7, <3>1
    <2>4. s[MemSize] = [next |-> MemSize, prev |-> MemSize, used |-> TRUE]
      <3> HIDE DEF s, g, rest
      <3> QED BY <1>2, <1>6
    <2> HIDE DEF s, g, rest
    <2> QED BY <1>6, <1>10, <2>1, <2>2, <2>3, <2>4 DEF Chained
  <1> HIDE DEF s, rest
  <1>12. IsSplit(s, r, h, rest)
    BY <1>3, <1>4, <1>5, <1>6, <1>7, <1>8, <1>11 DEF IsSplit
  <1> QED BY <1>12 DEF s, rest

\* A block takes in the one behind it.
LEMMA JoinChained ==
  ASSUME NEW r, Chained(r), NEW h \in DOMAIN r, h /= MemSize, r[h].next /= MemSize
  PROVE  IsJoin(Join(r, h), r, h)
  <1> DEFINE g == r[h].next
             e == r[g].next
             D == DOMAIN r
             s == Join(r, h)
  <1>1. Header \in Nat \ {0} /\ MinSize \in Nat \ {0} /\ MemSize \in Nat
    BY MemAssumption
  <1>2. /\ {0, MemSize} \subseteq D /\ D \subseteq 0 .. MemSize
        /\ r[0].prev = 0 /\ r[MemSize] = [next |-> MemSize, prev |-> MemSize, used |-> TRUE]
        /\ \A k \in D : r[k] \in [next : D, prev : D, used : BOOLEAN]
    BY DEF Chained
  <1>3. /\ h \in Nat /\ g \in D /\ g \in Nat /\ h < g /\ h + Header + MinSize <= g
        /\ \A k \in D : k <= h \/ g <= k
        /\ r[g].prev = h
    BY BlockFacts
  <1>4. /\ e \in D /\ e \in Nat /\ g < e /\ g + Header + MinSize <= e
        /\ \A k \in D : k <= g \/ e <= k
        /\ e /= MemSize => r[e].prev = g
    BY <1>3, BlockFacts
  <1>5. h /= g /\ e /= g /\ e /= h /\ g /= 0 /\ e /= 0
    BY <1>3, <1>4
  <1>6. /\ DOMAIN s = D \ {g}
        /\ s[h] = [r[h] EXCEPT !.next = e]
        /\ e /= MemSize => s[e] = [r[e] EXCEPT !.prev = h]
        /\ e = MemSize => s[e] = r[e]
        /\ \A k \in D \ {g} : k /= h /\ k /= e => s[k] = r[k]
    <2>1. s = [k \in D \ {g} |->
                 IF k = h THEN [r[h] EXCEPT !.next = e]
                 ELSE IF k = e /\ k /= MemSize THEN [r[k] EXCEPT !.prev = h]
                 ELSE r[k]]
      BY DEF Join
    <2>2. h \in D
      BY DEF D
    <2> HIDE DEF s, g, e, D
    <2> QED BY <2>1, <2>2, <1>4, <1>5
  <1>7. \A k \in D \ {g} : /\ s[k].next = IF k = h THEN e ELSE r[k].next
                           /\ s[k].prev = IF k = e /\ e /= MemSize THEN h ELSE r[k].prev
                           /\ s[k].used = r[k].used
    <2> TAKE k \in D \ {g}
    <2>1. r[k] \in [next : D, prev : D, used : BOOLEAN]
      BY <1>2
    <2>2. CASE k = h
      <3> HIDE DEF s, g, e, D
      <3> QED BY <2>1, <2>2, <1>5, <1>6
    <2>3. CASE k = e
      <3> HIDE DEF s, g, e, D
      <3> QED BY <2>1, <2>3, <1>5, <1>6
    <2>4. CASE k /= h /\ k /= e
      <3> HIDE DEF s, g, e, D
      <3> QED BY <2>4, <1>6
    <2> QED BY <2>2, <2>3, <2>4
  <1>8. \A k \in D \ {MemSize} : k /= h => r[k].next /= g
    BY <1>3, BlockFacts
  <1>9. \A k \in D \ {g} : r[k].prev = g => k = e
    <2> SUFFICES ASSUME NEW k \in D \ {g}, r[k].prev = g PROVE k = e
      OBVIOUS
    <2>1. k /= 0 /\ k /= MemSize
      <3> HIDE DEF g, D
      <3> QED BY <1>2, <1>5, g /= MemSize DEF g
    <2>2. r[r[k].prev].next = k
      BY <2>1, BlockFacts
    <2> QED BY <2>2
  <1>10. \A k \in D \ {g} : s[k] \in [next : D \ {g}, prev : D \ {g}, used : BOOLEAN]
    <2> TAKE k \in D \ {g}
    <2>1. r[k] \in [next : D, prev : D, used : BOOLEAN]
      BY <1>2
    <2>2. h \in D \ {g} /\ e \in D \ {g}
      BY <1>4, <1>5
    <2>3. k /= h => r[k].next \in D \ {g}
      BY <2>1, <1>2, <1>8
    <2>4. k /= e => r[k].prev \in D \ {g}
      BY <2>1, <1>9
    <2>5. CASE k = h
      <3>1. k /= e
        BY <2>5, <1>5
      <3> HIDE DEF s, g, e, D
      <3> QED BY <2>1, <2>2, <2>4, <2>5, <3>1, <1>6
    <2>6. CASE k = e
      <3>1. k /= h
        BY <2>6, <1>5
      <3>2. e = MemSize => r[e].prev \in D \ {g}
        BY <1>2, <1>5
      <3> HIDE DEF s, g, e, D
      <3> QED BY <2>1, <2>2, <2>3, <2>6, <3>1, <3>2, <1>6
    <2>7. CASE k /= h /\ k /= e
      <3> HIDE DEF s, g, e, D
      <3> QED BY <2>1, <2>3, <2>4, <2>7, <1>6
    <2> QED BY <2>5, <2>6, <2>7
  <1>11. ASSUME NEW k \in D \ {g}, k /= MemSize
         PROVE  /\ k + Header + MinSize <= s[k].next
                /\ \A j \in D \ {g} : j <= k \/ s[k].next <= j
                /\ s[k].next /= MemSize => s[s[k].next].prev = k
                /\ k /= 0 => s[s[k].prev].next = k
    <2>1. /\ k \in Nat /\ r[k].next \in Nat
          /\ k + Header + MinSize <= r[k].next /\ k < r[k].next
          /\ \A j \in D : j <= k \/ r[k].next <= j
          /\ r[k].next /= MemSize => r[r[k].next].prev = k
          /\ k /= 0 => r[r[k].prev].next = k
          /\ r[k].next \in D /\ r[k].prev \in D
      BY <1>11, BlockFacts
    <2>2. h \in D \ {g} /\ e \in D \ {g} /\ D \subseteq Nat
      BY <1>2, <1>4, <1>5
    <2>3. /\ k + Header + MinSize <= s[k].next
          /\ \A j \in D \ {g} : j <= k \/ s[k].next <= j
          /\ s[k].next /= MemSize => s[s[k].next].prev = k
      <3>1. CASE k = h
        <4>1. s[k].next = e
          BY <3>1, <2>2, <1>7
        <4>2. e /= MemSize => s[e].prev = h
          BY <2>2, <1>7
        <4>3. \A j \in D \ {g} : j <= h \/ e <= j
          <5> TAKE j \in D \ {g}
          <5>1. j \in Nat /\ (j <= h \/ g <= j) /\ (j <= g \/ e <= j) /\ j /= g
            BY <2>2, <1>3, <1>4
          <5> HIDE DEF g, e, D
          <5> QED BY <5>1, <1>3, <1>4
        <4>4. h + Header + MinSize <= e
          <5> HIDE DEF g, e
          <5> QED BY <1>1, <1>3, <1>4
        <4> HIDE DEF s, g, e, D
        <4> QED BY <3>1, <4>1, <4>2, <4>3, <4>4
      <3>2. CASE k /= h
        <4>1. s[k].next = r[k].next /\ r[k].next /= g
          BY <3>2, <1>7, <1>8, <1>11
        <4>2. r[k].next /= MemSize => r[k].next /= e
          <5>1. e /= MemSize => r[e].prev = g
            BY <1>4
          <5> HIDE DEF g, e
          <5> QED BY <5>1, <2>1, k /= g
        <4>3. s[r[k].next].prev = IF r[k].next = e /\ e /= MemSize THEN h ELSE r[r[k].next].prev
          BY <4>1, <2>1, <1>7
        <4> HIDE DEF s, g, e, D
        <4> QED BY <4>1, <4>2, <4>3, <2>1
      <3> QED BY <3>1, <3>2
    <2>4. ASSUME k /= 0 PROVE s[s[k].prev].next = k
      <3>1. CASE k = e
        <4>1. s[k].prev = h
          BY <3>1, <2>2, <1>7, <1>11
        <4>2. s[h].next = e
          BY <2>2, <1>7
        <4> HIDE DEF s, e
        <4> QED BY <3>1, <4>1, <4>2
      <3>2. CASE k /= e
        <4>1. s[k].prev = r[k].prev
          BY <3>2, <1>7
        <4>2. r[k].prev /= h
          <5>1. r[r[k].prev].next = k /\ k /= g
            BY <2>1, <2>4
          <5> QED BY <5>1
        <4>3. r[k].prev \in D \ {g}
          BY <3>2, <2>1, <1>9
        <4>4. s[r[k].prev].next = r[r[k].prev].next
          BY <4>2, <4>3, <1>7
        <4> HIDE DEF s
        <4> QED BY <4>1, <4>4, <2>1, <2>4
      <3> QED BY <3>1, <3>2
    <2> QED BY <2>3, <2>4
  <1>12. Chained(s)
    <2>1. {0, MemSize} \subseteq DOMAIN s /\ DOMAIN s \subseteq 0 .. MemSize
      BY <1>2, <1>5, <1>6
    <2>2. s \in [DOMAIN s -> [next : DOMAIN s, prev : DOMAIN s, used : BOOLEAN]]
      <3>1. s = [k \in DOMAIN s |-> s[k]]
        BY DEF Join
      <3> HIDE DEF s
      <3> QED BY <1>6, <1>10, <3>1
    <2>3. s[0].prev = 0
      <3>1. 0 \in D \ {g} /\ 0 /= e
        BY <1>2, <1>5
      <3> HIDE DEF s, g, e, D
      <3> QED BY <1>2, <1>7, <3>1
    <2>4. s[MemSize] = [next |-> MemSize, prev |-> MemSize, used |-> TRUE]
      <3>1. MemSize \in D \ {g}
        BY <1>2
      <3> HIDE DEF s, g, e, D
      <3> QED BY <1>2, <1>6, <3>1
    <2> HIDE DEF s, g, e
    <2> QED BY <1>6, <1>11, <2>1, <2>2, <2>3, <2>4 DEF Chained
  <1> HIDE DEF s
  <1>13. IsJoin(s, r, h)
    BY <1>3, <1>4, <1>5, <1>6, <1>7, <1>8, <1>12 DEF IsJoin
  <1> QED BY <1>13 DEF s

-----------------------------------------------------------------------------
(* Free blocks stay merged.                                                *)

LEMMA SplitPlugged ==
  ASSUME NEW r, Chained(r), NEW h \in DOMAIN r, h /= MemSize,
         NEW n \in Nat, MinSize <= n, h + Header + n + Header + MinSize <= r[h].next,
         PluggedBut(r, {h}), r[r[h].next].used
  PROVE  Plugged(Split(r, h, n))
  <1> DEFINE rest == h + Header + n
             s == Split(r, h, n)
  <1>1. IsSplit(s, r, h, rest)
    BY SplitChained
  <1>2. r[h].next \in DOMAIN r /\ r[h].next /= h
    BY BlockFacts
  <1> SUFFICES ASSUME NEW k \in DOMAIN r \cup {rest}, k /= MemSize
               PROVE  s[k].used \/ s[s[k].next].used
    BY <1>1 DEF Plugged, IsSplit
  <1> HIDE DEF s, rest
  <1>3. CASE k = rest
    BY <1>1, <1>2, <1>3 DEF IsSplit
  <1>4. CASE k = h
    BY <1>1, <1>4 DEF IsSplit
  <1>5. CASE k \in DOMAIN r /\ k /= h
    <2>1. r[k].next \in DOMAIN r
      BY <1>5, BlockFacts
    <2>2. r[k].used \/ r[r[k].next].used
      BY <1>5 DEF PluggedBut
    <2>3. s[r[k].next].used = IF r[k].next = h THEN TRUE ELSE r[r[k].next].used
      BY <2>1, <1>1 DEF IsSplit
    <2> QED BY <2>2, <2>3, <1>1, <1>5 DEF IsSplit
  <1> QED BY <1>3, <1>4, <1>5

LEMMA JoinPlugged ==
  ASSUME NEW r, Chained(r), NEW h \in DOMAIN r, h /= MemSize, NEW S,
         r[h].next /= MemSize, ~r[r[h].next].used, r[h].next \notin S,
         PluggedBut(r, S \cup {h})
  PROVE  PluggedBut(Join(r, h), S)
  <1> DEFINE g == r[h].next
             e == r[g].next
             s == Join(r, h)
  <1>1. /\ DOMAIN s = DOMAIN r \ {g} /\ h \in DOMAIN s /\ e \in DOMAIN s
        /\ \A k \in DOMAIN s : /\ s[k].next = IF k = h THEN e ELSE r[k].next
                               /\ s[k].used = r[k].used
                               /\ k /= h => r[k].next /= g \/ k = MemSize
    BY JoinChained DEF IsJoin
  <1>2. g \in DOMAIN r /\ g /= h
    BY BlockFacts
  <1>3. r[e].used
    BY <1>2 DEF PluggedBut
  <1> SUFFICES ASSUME NEW k \in DOMAIN s, k \notin S, k /= MemSize
               PROVE  s[k].used \/ s[s[k].next].used
    BY DEF PluggedBut
  <1>4. CASE k = h
    BY <1>1, <1>3, <1>4
  <1>5. CASE k /= h
    <2>1. k \in DOMAIN r /\ r[k].next \in DOMAIN s
      BY <1>1, <1>5, BlockFacts
    <2>2. r[k].used \/ r[r[k].next].used
      BY <2>1, <1>5 DEF PluggedBut
    <2>3. s[k].next = r[k].next /\ s[k].used = r[k].used
          /\ s[r[k].next].used = r[r[k].next].used
      BY <2>1, <1>1, <1>5
    <2> QED BY <2>2, <2>3
  <1> QED BY <1>4, <1>5

-----------------------------------------------------------------------------
(* Each operation.                                                         *)

LEMMA SizeFacts ==
  ASSUME NEW n \in Requests
  PROVE  /\ n \in Nat /\ BlockSize(n) \in Nat
         /\ MinSize <= BlockSize(n) /\ n <= BlockSize(n)
         /\ Header \in Nat \ {0} /\ MinSize \in Nat \ {0} /\ MemSize \in Nat
  BY MemAssumption DEF BlockSize

LEMMA InitOK == MemInit => HeapOK
  <1> SUFFICES ASSUME MemInit PROVE HeapOK
    OBVIOUS
  <1>1. /\ MemSize \in Nat /\ Header \in Nat \ {0} /\ MinSize \in Nat \ {0}
        /\ Header + MinSize <= MemSize /\ MemSize /= 0
    BY MemAssumption
  <1>2. /\ DOMAIN ram = {0, MemSize}
        /\ ram[0] = [next |-> MemSize, prev |-> 0, used |-> FALSE]
        /\ ram[MemSize] = [next |-> MemSize, prev |-> MemSize, used |-> TRUE]
        /\ ram \in [{0, MemSize} -> [next : {0, MemSize}, prev : {0, MemSize}, used : BOOLEAN]]
    BY <1>1 DEF MemInit
  <1>3. Chained(ram)
    BY <1>1, <1>2 DEF Chained
  <1>4. Plugged(ram)
    BY <1>2 DEF Plugged
  <1>5. IsLowestFree(ram, lfree)
    <2>1. lfree = 0 /\ ~ram[0].used
      BY <1>2 DEF MemInit
    <2>2. \A h \in {0, MemSize} : ~(h < 0)
      BY <1>1
    <2> QED BY <1>2, <2>1, <2>2 DEF IsLowestFree
  <1>6. HasOwners(ram, owned)
    BY <1>1, <1>2 DEF HasOwners, MemInit
  <1> QED BY <1>3, <1>4, <1>5, <1>6 DEF HeapOK

\* The block that mem_malloc finds is free and big enough.
LEMMA MallocBlock ==
  ASSUME HeapOK, NEW n \in Requests, Malloc(n),
         NEW h, h = Lowest(Fitting(BlockSize(n)))
  PROVE  /\ h \in DOMAIN ram /\ h \in Nat /\ lfree <= h /\ ~ram[h].used
         /\ Room(ram, h) >= BlockSize(n) /\ h /= MemSize
         /\ lfree \in DOMAIN ram /\ lfree \in Nat
         /\ ram[h].next \in DOMAIN ram /\ ram[h].next \in Nat /\ ram[ram[h].next].used
         /\ h + Header + BlockSize(n) <= ram[h].next
  <1> DEFINE size == BlockSize(n)
  <1>1. Chained(ram) /\ Plugged(ram) /\ IsLowestFree(ram, lfree)
    BY DEF HeapOK
  <1>2. /\ n \in Nat /\ size \in Nat /\ MinSize <= size /\ n <= size
        /\ Header \in Nat \ {0} /\ MinSize \in Nat \ {0} /\ MemSize \in Nat
    BY SizeFacts
  <1>3. h \in Fitting(size)
    <2>1. Fitting(size) \in SUBSET Nat
      BY <1>1, <1>2 DEF Fitting, Chained
    <2>2. Fitting(size) /= {}
      BY DEF Malloc
    <2> QED BY <2>1, <2>2, LowestIsLeast
  <1>4. h \in DOMAIN ram /\ h \in Nat /\ lfree <= h /\ ~ram[h].used
        /\ Room(ram, h) >= size /\ h /= MemSize /\ lfree \in DOMAIN ram /\ lfree \in Nat
    <2>1. h \in DOMAIN ram /\ lfree <= h /\ ~ram[h].used /\ Room(ram, h) >= size
      BY <1>3 DEF Fitting
    <2>2. ram[MemSize].used /\ DOMAIN ram \subseteq 0 .. MemSize
      BY <1>1 DEF Chained
    <2>3. lfree \in DOMAIN ram
      BY <1>1 DEF IsLowestFree
    <2> QED BY <2>1, <2>2, <2>3, <1>2
  <1>5. ram[h].next \in DOMAIN ram /\ ram[h].next \in Nat /\ ram[ram[h].next].used
    <2>1. ram[h].next \in DOMAIN ram /\ ram[h].next \in Nat
      BY <1>1, <1>4, BlockFacts
    <2> QED BY <2>1, <1>1, <1>4 DEF Plugged
  <1>6. h + Header + size <= ram[h].next
    <2> HIDE DEF size
    <2> QED BY <1>2, <1>4, <1>5 DEF Room
  <1> QED BY <1>4, <1>5, <1>6

\* The first fit is split, or taken as it is.
LEMMA MallocOK == ASSUME HeapOK, NEW n \in Requests, Malloc(n) PROVE HeapOK'
  <1> DEFINE size == BlockSize(n)
             h == Lowest(Fitting(size))
             rest == h + Header + size
  <1>1. Chained(ram) /\ Plugged(ram) /\ IsLowestFree(ram, lfree) /\ HasOwners(ram, owned)
    BY DEF HeapOK
  <1>2. /\ n \in Nat /\ size \in Nat /\ MinSize <= size /\ n <= size
        /\ Header \in Nat \ {0} /\ MinSize \in Nat \ {0} /\ MemSize \in Nat
    BY SizeFacts
  <1>4. h \in DOMAIN ram /\ h \in Nat /\ lfree <= h /\ ~ram[h].used
        /\ Room(ram, h) >= size /\ h /= MemSize /\ lfree \in DOMAIN ram /\ lfree \in Nat
    BY MallocBlock
  <1>5. ram[h].next \in DOMAIN ram /\ ram[h].next \in Nat /\ ram[ram[h].next].used
    BY MallocBlock
  <1>6. h + Header + size <= ram[h].next
    BY MallocBlock
  \* What both cases have in common.
  <1>7. /\ Chained(ram') /\ Plugged(ram')
        /\ DOMAIN ram \subseteq DOMAIN ram'
        /\ \A k \in DOMAIN ram : /\ ram'[k].used = IF k = h THEN TRUE ELSE ram[k].used
                                 /\ k /= h => ram'[k].next = ram[k].next
        /\ \A k \in DOMAIN ram' \ DOMAIN ram : ~ram'[k].used /\ h < k
        /\ h + Header + size <= ram'[h].next
    <2>1. CASE Room(ram, h) >= size + Header + MinSize
      <3>1. ram' = Split(ram, h, size)
        BY <2>1 DEF Malloc, Taken
      <3>2. h + Header + size + Header + MinSize <= ram[h].next
        <4> HIDE DEF h, size
        <4> QED BY <2>1, <1>2, <1>4, <1>5 DEF Room
      <3>3. PluggedBut(ram, {h})
        BY <1>1 DEF Plugged, PluggedBut
      <3>4. Plugged(ram')
        <4> HIDE DEF h, size
        <4> QED BY <3>1, <3>2, <3>3, <1>1, <1>2, <1>4, <1>5, SplitPlugged
      <3>5. /\ rest \notin DOMAIN ram /\ h < rest
            /\ DOMAIN ram' = DOMAIN ram \cup {rest}
            /\ \A k \in DOMAIN ram :
                 /\ ram'[k].next = IF k = h THEN rest ELSE ram[k].next
                 /\ ram'[k].used = IF k = h THEN TRUE ELSE ram[k].used
            /\ ram'[rest].used = FALSE
            /\ Chained(ram')
        <4>1. IsSplit(ram', ram, h, rest)
          BY <3>1, <3>2, <1>1, <1>2, <1>4, SplitChained
        <4> HIDE DEF h, rest
        <4> QED BY <4>1 DEF IsSplit
      <3>6. ram'[h].next = rest
        BY <3>5, <1>4
      <3>7. rest <= rest
        <4> HIDE DEF h, size
        <4> QED BY <1>2, <1>4
      <3> HIDE DEF h, size
      <3> QED BY <3>4, <3>5, <3>6, <3>7, <1>4
    <2>2. CASE ~(Room(ram, h) >= size + Header + MinSize)
      <3>1. ram' = WithUsed(ram, h, TRUE)
        BY <2>2 DEF Malloc, Taken
      <3>2. /\ Chained(ram') /\ DOMAIN ram' = DOMAIN ram
            /\ \A k \in DOMAIN ram : /\ ram'[k].next = ram[k].next
                                     /\ ram'[k].used = IF k = h THEN TRUE ELSE ram[k].used
        <4>1. IsFlagged(ram', ram, h, TRUE)
          BY <3>1, <1>1, <1>4, WithUsedChained
        <4> HIDE DEF h
        <4> QED BY <4>1 DEF IsFlagged
      <3>3. Plugged(ram')
        <4> SUFFICES ASSUME NEW k \in DOMAIN ram, k /= MemSize
                     PROVE  ram'[k].used \/ ram'[ram'[k].next].used
          BY <3>2 DEF Plugged
        <4>1. ram[k].next \in DOMAIN ram
          BY <1>1, BlockFacts
        <4>2. ram[k].used \/ ram[ram[k].next].used
          BY <1>1 DEF Plugged
        <4>3. ram'[ram[k].next].used
                = IF ram[k].next = h THEN TRUE ELSE ram[ram[k].next].used
          BY <4>1, <3>2
        <4> HIDE DEF h
        <4> QED BY <4>2, <4>3, <3>2
      <3>4. ram'[h].next = ram[h].next
        BY <3>2, <1>4
      <3> HIDE DEF h, size
      <3> QED BY <3>2, <3>3, <3>4, <1>4, <1>6
    <2> QED BY <2>1, <2>2
  <1>8. IsLowestFree(ram', lfree')
    <2>1. lfree' = IF h = lfree THEN NextFree(ram', h) ELSE lfree
      BY DEF Malloc
    <2>2. \A k \in DOMAIN ram : k < lfree => ram[k].used
      BY <1>1 DEF IsLowestFree
    <2>3. DOMAIN ram' \subseteq 0 .. MemSize /\ MemSize \in DOMAIN ram'
      BY <1>7 DEF Chained
    <2>4. CASE h = lfree
      <3> DEFINE F == {k \in DOMAIN ram' : h <= k /\ (~ram'[k].used \/ k = MemSize)}
      <3>1. F \in SUBSET Nat
        BY <2>3, <1>2
      <3>2. MemSize \in F
        <4>1. h <= MemSize
          BY <1>1, <1>4, <1>2, BlockFacts
        <4> QED BY <4>1, <2>3
      <3>3. lfree' = Lowest(F) /\ Lowest(F) \in F /\ \A k \in F : Lowest(F) <= k
        BY <2>1, <2>4, <3>1, <3>2, LowestIsLeast DEF NextFree
      <3>4. ASSUME NEW k \in DOMAIN ram', k < lfree' PROVE ram'[k].used
        <4>1. k \in Nat /\ lfree' \in Nat
          BY <2>3, <3>1, <3>3, <1>2
        <4>2. CASE h <= k
          <5>1. k \notin F
            <6> HIDE DEF F
            <6> QED BY <3>3, <3>4, <4>1
          <5> QED BY <4>2, <5>1
        <4>3. CASE k < h
          <5>1. k \in DOMAIN ram
            <6> HIDE DEF h
            <6> QED BY <4>1, <4>3, <1>4, <1>7
          <5>2. ram[k].used
            BY <5>1, <4>3, <2>2, <2>4
          <5> HIDE DEF h
          <5> QED BY <5>1, <5>2, <1>7
        <4> HIDE DEF h
        <4> QED BY <4>1, <4>2, <4>3, <1>4
      <3>5. lfree' \in DOMAIN ram' /\ (lfree' = MemSize \/ ~ram'[lfree'].used)
        BY <3>3
      <3> QED BY <3>4, <3>5 DEF IsLowestFree
    <2>5. CASE h /= lfree
      <3>1. lfree' = lfree /\ lfree < h
        <4> HIDE DEF h
        <4> QED BY <2>1, <2>5, <1>4
      <3>2. lfree = MemSize \/ ~ram[lfree].used
        BY <1>1 DEF IsLowestFree
      <3>3. lfree \in DOMAIN ram' /\ (lfree = MemSize \/ ~ram'[lfree].used)
        <4> HIDE DEF h
        <4> QED BY <3>2, <2>5, <1>4, <1>7
      <3>4. ASSUME NEW k \in DOMAIN ram', k < lfree PROVE ram'[k].used
        <4>1. k \in DOMAIN ram
          <5>1. k \in Nat
            BY <2>3
          <5> HIDE DEF h
          <5> QED BY <5>1, <3>1, <3>4, <1>4, <1>7
        <4>2. ram[k].used
          BY <4>1, <3>4, <2>2
        <4> HIDE DEF h
        <4> QED BY <4>1, <4>2, <1>7
      <3> QED BY <3>1, <3>3, <3>4 DEF IsLowestFree
    <2> QED BY <2>4, <2>5
  <1>9. HasOwners(ram', owned')
    <2>1. owned' = [k \in DOMAIN owned \cup {h} |-> IF k = h THEN n ELSE owned[k]]
      BY DEF Malloc
    <2>2. /\ DOMAIN owned = {k \in DOMAIN ram \ {MemSize} : ram[k].used}
          /\ \A k \in DOMAIN owned : owned[k] \in Requests
                                     /\ k + Header + owned[k] <= ram[k].next
      BY <1>1 DEF HasOwners
    <2>3. DOMAIN owned' = {k \in DOMAIN ram' \ {MemSize} : ram'[k].used}
      <3> HIDE DEF h
      <3> QED BY <2>1, <2>2, <1>4, <1>7
    <2>4. owned'[h] = n /\ h + Header + n <= ram'[h].next
      <3>1. ram'[h].next \in Nat
        BY <1>4, <1>7, BlockFacts
      <3> HIDE DEF h, size
      <3> QED BY <2>1, <3>1, <1>2, <1>4, <1>7
    <2>5. \A k \in DOMAIN owned : k /= h => owned'[k] = owned[k] /\ ram'[k].next = ram[k].next
      <3> HIDE DEF h
      <3> QED BY <2>1, <2>2, <1>7
    <2>6. DOMAIN owned' = DOMAIN owned \cup {h}
      BY <2>1
    <2> SUFFICES ASSUME NEW k \in DOMAIN owned'
                 PROVE  owned'[k] \in Requests /\ k + Header + owned'[k] <= ram'[k].next
      BY <2>3 DEF HasOwners
    <2> HIDE DEF h
    <2> QED BY <2>2, <2>4, <2>5, <2>6
  <1> QED BY <1>7, <1>8, <1>9 DEF HeapOK

\* The block is merged with the free one behind it and the one in front of it.
LEMMA FreeOK == ASSUME HeapOK, NEW h \in DOMAIN owned, Free(h) PROVE HeapOK'
  <1> DEFINE p == ram[h].prev
             g == ram[h].next
             r == WithUsed(ram, h, FALSE)
             f == Forward(r, h)
             S == {p} \ {h}
  <1>1. Chained(ram) /\ Plugged(ram) /\ IsLowestFree(ram, lfree) /\ HasOwners(ram, owned)
    BY DEF HeapOK
  <1>2. h \in DOMAIN ram /\ h /= MemSize /\ ram[h].used
    BY <1>1 DEF HasOwners
  <1>3. /\ h \in Nat /\ h < MemSize /\ p \in DOMAIN ram /\ g \in DOMAIN ram
        /\ p \in Nat /\ g \in Nat /\ h < g /\ MemSize \in Nat
        /\ h /= 0 => ram[p].next = h
        /\ DOMAIN ram \subseteq Nat
    BY <1>1, <1>2, BlockFacts, MemAssumption DEF Chained
  <1>4. p = h \/ (p < h /\ p /= MemSize /\ ram[p].next = h)
    <2>1. CASE h = 0
      BY <2>1, <1>1 DEF Chained
    <2>2. CASE h /= 0
      <3>1. ram[p].next = h
        BY <2>2, <1>3
      <3>2. p /= MemSize
        <4>1. ram[MemSize].next = MemSize
          BY <1>1 DEF Chained
        <4> HIDE DEF p
        <4> QED BY <3>1, <4>1, <1>2
      <3>3. p < ram[p].next
        BY <3>2, <1>1, <1>3, BlockFacts
      <3> HIDE DEF p
      <3> QED BY <3>1, <3>2, <3>3
    <2> QED BY <2>1, <2>2
  <1>5. IsFlagged(r, ram, h, FALSE)
    BY <1>1, <1>2, WithUsedChained
  <1>6. /\ Chained(r) /\ DOMAIN r = DOMAIN ram
        /\ r[h].next = g /\ r[h].prev = p /\ ~r[h].used
        /\ \A k \in DOMAIN ram : /\ r[k].next = ram[k].next
                                 /\ r[k].used = IF k = h THEN FALSE ELSE ram[k].used
    <2> HIDE DEF r
    <2> QED BY <1>2, <1>5 DEF IsFlagged
  <1>7. PluggedBut(r, S \cup {h})
    <2> SUFFICES ASSUME NEW k \in DOMAIN ram, k /= MemSize, k /= p, k /= h
                 PROVE  r[k].used \/ r[r[k].next].used
      BY <1>6 DEF PluggedBut
    <2>1. ram[k].next \in DOMAIN ram /\ (k < h \/ k > h)
      BY <1>1, <1>3, BlockFacts
    <2>2. ram[k].next /= h
      <3>1. h /= 0 => ram[h].prev = p
        OBVIOUS
      <3>2. ram[k].next /= MemSize => ram[ram[k].next].prev = k
        BY <1>1, BlockFacts
      <3> QED BY <3>2, <1>2
    <2>3. ram[k].used \/ ram[ram[k].next].used
      BY <1>1 DEF Plugged
    <2> HIDE DEF r
    <2> QED BY <2>1, <2>2, <2>3, <1>6
  \* The block behind it.
  <1>8. /\ Chained(f) /\ PluggedBut(f, S)
        /\ DOMAIN f \subseteq DOMAIN ram /\ h \in DOMAIN f /\ p \in DOMAIN f
        /\ \A k \in DOMAIN ram \ DOMAIN f : ~ram[k].used
        /\ \A k \in DOMAIN f : /\ f[k].used = IF k = h THEN FALSE ELSE ram[k].used
                               /\ k /= h => f[k].next = ram[k].next
        /\ \A k \in DOMAIN ram : k < h => k \in DOMAIN f
    <2>1. CASE ~r[g].used
      <3>1. f = Join(r, h)
        BY <2>1, <1>6 DEF Forward
      <3>2. g /= MemSize
        <4> HIDE DEF g, r
        <4>1. r[MemSize] = [next |-> MemSize, prev |-> MemSize, used |-> TRUE]
          BY <1>6 DEF Chained
        <4>2. r[MemSize].used
          BY <4>1
        <4> QED BY <2>1, <4>2
      <3>3. IsJoin(f, r, h)
        BY <3>1, <3>2, <1>2, <1>6, JoinChained
      <3>4. g \notin S /\ p /= g
        <4> HIDE DEF p, g
        <4> QED BY <1>3, <1>4
      <3>5. PluggedBut(f, S)
        <4> HIDE DEF S, g, r
        <4> QED BY <2>1, <3>1, <3>2, <3>4, <1>2, <1>6, <1>7, JoinPlugged
      <3>6. DOMAIN f = DOMAIN ram \ {g} /\ Chained(f)
            /\ \A k \in DOMAIN f : /\ f[k].used = r[k].used
                                   /\ k /= h => f[k].next = r[k].next
        <4> HIDE DEF f, r, g
        <4> QED BY <3>3, <1>6 DEF IsJoin
      <3>7. ~ram[g].used
        <4> HIDE DEF g, r
        <4>1. g /= h
          BY <1>3
        <4>2. r[g].used = ram[g].used
          BY <4>1, <1>3, <1>6
        <4> QED BY <2>1, <4>2
      <3> HIDE DEF f, r, g, p, S
      <3>8. /\ DOMAIN f \subseteq DOMAIN ram /\ h \in DOMAIN f /\ p \in DOMAIN f
            /\ \A k \in DOMAIN ram \ DOMAIN f : ~ram[k].used
        <4>1. h /= g
          BY <1>3
        <4> QED BY <3>4, <3>6, <3>7, <4>1, <1>2, <1>3
      <3>9. \A k \in DOMAIN f : /\ f[k].used = IF k = h THEN FALSE ELSE ram[k].used
                                /\ k /= h => f[k].next = ram[k].next
        BY <3>6, <3>8, <1>6
      <3>10. \A k \in DOMAIN ram : k < h => k \in DOMAIN f
        BY <3>6, <1>3
      <3>11. Chained(f)
        BY <3>6
      <3> QED BY <3>5, <3>8, <3>9, <3>10, <3>11
    <2>2. CASE r[g].used
      <3>1. f = r
        BY <2>2, <1>6 DEF Forward
      <3>2. PluggedBut(f, S)
        <4> SUFFICES ASSUME NEW k \in DOMAIN r, k /= MemSize, k \notin S
                     PROVE  r[k].used \/ r[r[k].next].used
          BY <3>1 DEF PluggedBut
        <4>1. CASE k = h
          BY <4>1, <2>2, <1>6
        <4>2. CASE k /= h
          BY <4>2, <1>7 DEF PluggedBut
        <4> QED BY <4>1, <4>2
      <3> HIDE DEF f, r, g, p, S
      <3> QED BY <3>1, <3>2, <1>2, <1>3, <1>6
    <2> QED BY <2>1, <2>2
  \* The block in front of it.
  <1>9. /\ Chained(ram') /\ Plugged(ram')
        /\ DOMAIN ram' \subseteq DOMAIN ram
        /\ \A k \in DOMAIN ram \ DOMAIN ram' : k = h \/ ~ram[k].used
        /\ \A k \in DOMAIN ram' : /\ ram'[k].used = IF k = h THEN FALSE ELSE ram[k].used
                                  /\ k /= h /\ ram[k].used => ram'[k].next = ram[k].next
        /\ \A k \in DOMAIN ram : k < h => k \in DOMAIN ram'
        /\ ram[p].used \/ p = h => h \in DOMAIN ram'
    <2>1. ram' = IF p /= h /\ ~r[p].used THEN Join(f, p) ELSE f
      BY <1>6 DEF Free, PlugHoles
    <2>2. r[p].used = IF p = h THEN FALSE ELSE ram[p].used
      BY <1>3, <1>6
    <2>3. CASE p /= h /\ ~r[p].used
      <3>1. ram' = Join(f, p)
        BY <2>1, <2>3
      <3>2. f[p].next = h /\ p /= MemSize /\ ~f[h].used /\ ~ram[p].used /\ p < h
        <4> HIDE DEF p, f, r
        <4> QED BY <2>2, <2>3, <1>3, <1>4, <1>8
      <3>3. IsJoin(ram', f, p)
        <4> HIDE DEF f, p
        <4> QED BY <3>1, <3>2, <1>2, <1>8, JoinChained
      <3>4. PluggedBut(f, {} \cup {p})
        <4>1. {} \cup {p} = S
          BY <2>3
        <4> QED BY <4>1, <1>8
      <3>5. PluggedBut(ram', {})
        <4> HIDE DEF f, p
        <4> QED BY <3>1, <3>2, <3>4, <1>2, <1>8, JoinPlugged
      <3>6. Plugged(ram')
        BY <3>5 DEF Plugged, PluggedBut
      <3>7. /\ Chained(ram') /\ DOMAIN ram' = DOMAIN f \ {h}
            /\ \A k \in DOMAIN ram' : /\ ram'[k].used = f[k].used
                                      /\ k /= p => ram'[k].next = f[k].next
        <4> HIDE DEF f, p
        <4> QED BY <3>2, <3>3 DEF IsJoin
      <3> HIDE DEF f, p, r, S
      <3>8. /\ DOMAIN ram' \subseteq DOMAIN ram
            /\ \A k \in DOMAIN ram \ DOMAIN ram' : k = h \/ ~ram[k].used
        BY <3>7, <1>8
      <3>9. \A k \in DOMAIN ram' :
              /\ ram'[k].used = IF k = h THEN FALSE ELSE ram[k].used
              /\ k /= h /\ ram[k].used => ram'[k].next = ram[k].next
        <4> TAKE k \in DOMAIN ram'
        <4>1. k \in DOMAIN f /\ k /= h
          BY <3>7
        <4>2. ram[k].used => k /= p
          BY <3>2
        <4> QED BY <4>1, <4>2, <3>7, <1>8
      <3>10. \A k \in DOMAIN ram : k < h => k \in DOMAIN ram'
        BY <3>7, <1>3, <1>8
      <3> QED BY <2>3, <3>2, <3>6, <3>7, <3>8, <3>9, <3>10
    <2>4. CASE ~(p /= h /\ ~r[p].used)
      <3>1. ram' = f
        BY <2>1, <2>4
      <3>2. Plugged(ram')
        <4> SUFFICES ASSUME NEW k \in DOMAIN f, k /= MemSize
                     PROVE  f[k].used \/ f[f[k].next].used
          BY <3>1 DEF Plugged
        <4>1. CASE k \in S
          <5>1. k = p /\ p /= h
            BY <4>1
          <5> HIDE DEF f, p, r
          <5> QED BY <5>1, <2>2, <2>4, <1>8
        <4>2. CASE k \notin S
          BY <4>2, <1>8 DEF PluggedBut
        <4> QED BY <4>1, <4>2
      <3> HIDE DEF f, p, r, S
      <3> QED BY <3>1, <3>2, <1>8
    <2> QED BY <2>3, <2>4
  <1>10. IsLowestFree(ram', lfree')
    <2>1. /\ lfree \in DOMAIN ram /\ lfree \in Nat /\ lfree /= h
          /\ lfree = MemSize \/ ~ram[lfree].used
          /\ \A k \in DOMAIN ram : k < lfree => ram[k].used
      BY <1>1, <1>2, <1>3 DEF IsLowestFree
    <2>2. CASE h < lfree
      <3>1. p < h => ram[p].used
        <4> HIDE DEF p
        <4> QED BY <2>1, <2>2, <1>3
      <3>2. lfree' = h
        <4> HIDE DEF p
        <4>1. lfree' = IF h = h /\ p /= h /\ ~ram[p].used THEN p ELSE h
          BY <2>2 DEF Free, LowestAfterFree, p
        <4> QED BY <3>1, <4>1, <1>4
      <3>3. h \in DOMAIN ram'
        <4> HIDE DEF p
        <4> QED BY <3>1, <1>4, <1>9
      <3>4. ASSUME NEW k \in DOMAIN ram', k < h PROVE ram'[k].used
        <4>1. k \in DOMAIN ram /\ k < lfree /\ k /= h
          <5>1. k \in DOMAIN ram /\ k \in Nat
            BY <1>3, <1>9
          <5> QED BY <5>1, <3>4, <2>1, <2>2, <1>3
        <4>2. ram[k].used
          BY <4>1, <2>1
        <4> QED BY <4>1, <4>2, <1>9
      <3> QED BY <3>2, <3>3, <3>4, <1>9 DEF IsLowestFree
    <2>3. CASE ~(h < lfree)
      <3>1. lfree < h
        BY <2>1, <2>3, <1>3
      <3>2. lfree' = lfree
        BY <2>1, <2>3 DEF Free, LowestAfterFree
      <3>3. lfree \in DOMAIN ram' /\ ~ram'[lfree].used
        <4>1. lfree /= MemSize
          BY <2>1, <3>1, <1>3
        <4>2. lfree \in DOMAIN ram'
          BY <2>1, <3>1, <1>9
        <4> QED BY <2>1, <4>1, <4>2, <1>9
      <3>4. ASSUME NEW k \in DOMAIN ram', k < lfree PROVE ram'[k].used
        <4>1. k \in DOMAIN ram /\ k /= h /\ ram[k].used
          <5>1. k \in DOMAIN ram /\ k \in Nat
            BY <1>3, <1>9
          <5> QED BY <5>1, <3>4, <2>1, <3>1, <1>3
        <4> QED BY <4>1, <1>9
      <3> QED BY <3>2, <3>3, <3>4 DEF IsLowestFree
    <2> QED BY <2>2, <2>3
  <1>11. HasOwners(ram', owned')
    <2>1. owned' = [k \in DOMAIN owned \ {h} |-> owned[k]]
      BY DEF Free
    <2>2. /\ DOMAIN owned = {k \in DOMAIN ram \ {MemSize} : ram[k].used}
          /\ \A k \in DOMAIN owned : owned[k] \in Requests
                                     /\ k + Header + owned[k] <= ram[k].next
      BY <1>1 DEF HasOwners
    <2>3. DOMAIN owned' = {k \in DOMAIN ram' \ {MemSize} : ram'[k].used}
      BY <2>1, <2>2, <1>9
    <2>4. \A k \in DOMAIN owned' : owned'[k] = owned[k] /\ ram'[k].next = ram[k].next
                                   /\ k \in DOMAIN owned
      BY <2>1, <2>2, <2>3, <1>9
    <2> SUFFICES ASSUME NEW k \in DOMAIN owned'
                 PROVE  owned'[k] \in Requests /\ k + Header + owned'[k] <= ram'[k].next
      BY <2>3 DEF HasOwners
    <2> QED BY <2>2, <2>4
  <1> QED BY <1>9, <1>10, <1>11 DEF HeapOK

\* The rest goes to the free block behind, becomes a block, or stays.
LEMMA TrimOK ==
  ASSUME HeapOK, NEW h \in DOMAIN owned, NEW n \in Requests, Trim(h, n)
  PROVE  HeapOK'
  <1> DEFINE size == BlockSize(n)
             g == ram[h].next
             rest == h + Header + size
             free == ~ram[g].used
             b == IF free THEN Join(ram, h) ELSE ram
             cut == free \/ size + Header + MinSize <= Room(ram, h)
  <1>1. Chained(ram) /\ Plugged(ram) /\ IsLowestFree(ram, lfree) /\ HasOwners(ram, owned)
    BY DEF HeapOK
  <1>2. /\ n \in Nat /\ size \in Nat /\ MinSize <= size /\ n <= size
        /\ Header \in Nat \ {0} /\ MinSize \in Nat \ {0} /\ MemSize \in Nat
    BY SizeFacts
  <1>3. h \in DOMAIN ram /\ h /= MemSize /\ ram[h].used
    BY <1>1 DEF HasOwners
  <1>4. /\ h \in Nat /\ g \in DOMAIN ram /\ g \in Nat /\ h < g
        /\ DOMAIN ram \subseteq Nat
        /\ \A k \in DOMAIN ram : k <= h \/ g <= k
    BY <1>1, <1>3, BlockFacts, MemAssumption DEF Chained
  <1>5. rest <= g /\ rest \in Nat
    <2>1. size <= Room(ram, h)
      BY DEF Trim
    <2> HIDE DEF g, size
    <2> QED BY <2>1, <1>2, <1>4 DEF Room, g
  <1>6. /\ owned' = [owned EXCEPT ![h] = n]
        /\ DOMAIN owned = {k \in DOMAIN ram \ {MemSize} : ram[k].used}
        /\ \A k \in DOMAIN owned : owned[k] \in Requests
                                   /\ k + Header + owned[k] <= ram[k].next
    BY <1>1 DEF HasOwners, Trim
  <1>7. /\ lfree \in DOMAIN ram /\ lfree \in Nat /\ lfree /= h
        /\ lfree = MemSize \/ ~ram[lfree].used
        /\ \A k \in DOMAIN ram : k < lfree => ram[k].used
    BY <1>1, <1>3, <1>4 DEF IsLowestFree
  <1>8. CASE size < Room(ram, h) /\ cut
    <2>1. /\ ram' = Split(b, h, size)
          /\ lfree' = IF (free /\ lfree = g) \/ (~free /\ rest < lfree) THEN rest ELSE lfree
      BY <1>8 DEF Trim
    <2>2. rest < g
      <3> HIDE DEF g, size
      <3> QED BY <1>8, <1>2, <1>4 DEF Room, g
    \* Block h, perhaps with the free one behind it.
    <2>3. /\ Chained(b) /\ h \in DOMAIN b /\ PluggedBut(b, {h})
          /\ b[b[h].next].used
          /\ rest + Header + MinSize <= b[h].next
          /\ \A k \in DOMAIN b : /\ k \in DOMAIN ram /\ b[k].used = ram[k].used
                                 /\ k /= h => b[k].next = ram[k].next
          /\ \A k \in DOMAIN ram \ DOMAIN b : free /\ k = g
          /\ free => g \notin DOMAIN b
      <3>1. CASE free
        <4>1. b = Join(ram, h)
          BY <3>1
        <4>2. g /= MemSize
          <5>1. ram[MemSize].used
            BY <1>1 DEF Chained
          <5> HIDE DEF g
          <5> QED BY <3>1, <5>1
        <4>3. IsJoin(b, ram, h)
          BY <4>1, <4>2, <1>1, <1>3, JoinChained
        <4>4. PluggedBut(ram, {h} \cup {h}) /\ g \notin {h}
          BY <1>1, <1>4 DEF Plugged, PluggedBut
        <4>5. PluggedBut(b, {h})
          <5> HIDE DEF b
          <5> QED BY <3>1, <4>1, <4>2, <4>4, <1>1, <1>3, JoinPlugged
        <4>6. ram[ram[g].next].used
          BY <3>1, <4>2, <1>1, <1>4 DEF Plugged
        <4>7. g + Header + MinSize <= ram[g].next /\ ram[g].next \in Nat
          BY <4>2, <1>1, <1>4, BlockFacts
        <4> HIDE DEF b, g, rest
        <4>8. /\ Chained(b) /\ DOMAIN b = DOMAIN ram \ {g}
              /\ h \in DOMAIN b /\ ram[g].next \in DOMAIN b
              /\ b[h].next = ram[g].next
              /\ \A k \in DOMAIN b : /\ b[k].used = ram[k].used
                                     /\ k /= h => b[k].next = ram[k].next
          BY <4>3 DEF IsJoin, g
        <4>9. b[b[h].next].used
          BY <4>6, <4>8
        <4>10. rest + Header + MinSize <= b[h].next
          <5>1. b[h].next = ram[g].next
            BY <4>8
          <5> QED BY <5>1, <2>2, <4>7, <1>2, <1>4, <1>5
        <4> QED BY <3>1, <4>5, <4>8, <4>9, <4>10
      <3>2. CASE ~free
        <4>1. b = ram
          BY <3>2
        <4>2. PluggedBut(b, {h})
          BY <4>1, <1>1 DEF Plugged, PluggedBut
        <4>3. rest + Header + MinSize <= b[h].next
          <5>1. size + Header + MinSize <= Room(ram, h)
            BY <1>8, <3>2
          <5>2. b[h].next = g
            BY <4>1
          <5> HIDE DEF g, size, b
          <5> QED BY <5>1, <5>2, <1>2, <1>4 DEF Room, g
        <4>4. b[b[h].next].used
          BY <3>2, <4>1
        <4> HIDE DEF b, g, rest
        <4> QED BY <3>2, <4>1, <4>2, <4>3, <4>4, <1>1, <1>3
      <3> QED BY <3>1, <3>2
    <2>4. Plugged(ram')
      <3> HIDE DEF b, size
      <3> QED BY <2>1, <2>3, <1>2, <1>3, SplitPlugged
    <2>5. IsSplit(ram', b, h, rest)
      <3> HIDE DEF b, size
      <3> QED BY <2>1, <2>3, <1>2, <1>3, SplitChained
    <2> HIDE DEF b, rest, size
    <2>6. /\ Chained(ram') /\ DOMAIN ram' = DOMAIN b \cup {rest} /\ rest \notin DOMAIN b
          /\ \A k \in DOMAIN b : /\ ram'[k].used = IF k = h THEN TRUE ELSE b[k].used
                                 /\ ram'[k].next = IF k = h THEN rest ELSE b[k].next
          /\ ~ram'[rest].used /\ h < rest
      BY <2>5 DEF IsSplit
    <2>7. \A k \in DOMAIN ram' : k /= rest => /\ k \in DOMAIN ram
                                              /\ ram'[k].used = ram[k].used
      BY <2>3, <2>6, <1>3
    <2>8. IsLowestFree(ram', lfree')
      <3>1. \A k \in DOMAIN ram : k < rest => k <= h
        BY <2>2, <1>4, <1>5
      <3>2. CASE (free /\ lfree = g) \/ (~free /\ rest < lfree)
        <4>1. lfree' = rest /\ h < lfree
          BY <2>1, <3>2, <1>4, <1>5, <1>7, <2>6
        <4>2. ASSUME NEW k \in DOMAIN ram', k < rest PROVE ram'[k].used
          <5>1. k \in DOMAIN ram /\ k \in Nat /\ k <= h
            BY <2>7, <3>1, <4>2, <1>4, <1>5
          <5>2. k < lfree /\ k /= rest
            BY <5>1, <4>1, <4>2, <1>4, <1>5, <1>7
          <5> QED BY <5>1, <5>2, <1>7, <2>7
        <4> QED BY <4>1, <4>2, <2>6 DEF IsLowestFree
      <3>3. CASE ~((free /\ lfree = g) \/ (~free /\ rest < lfree))
        <4>1. lfree' = lfree
          BY <2>1, <3>3
        <4>2. lfree < h /\ lfree \in DOMAIN b
          <5>1. CASE free
            <6>1. g \in DOMAIN ram /\ ~ram[g].used
              BY <5>1, <1>4
            <6>2. lfree <= g /\ lfree /= g
              BY <5>1, <6>1, <3>3, <1>4, <1>7
            <6>3. lfree < h
              BY <6>2, <1>4, <1>7
            <6> HIDE DEF g
            <6> QED BY <6>2, <6>3, <1>7, <2>3
          <5>2. CASE ~free
            <6>1. lfree \in DOMAIN b
              BY <5>2, <1>7, <2>3
            <6>2. lfree <= rest /\ lfree /= rest
              BY <5>2, <6>1, <3>3, <1>5, <1>7, <2>6
            <6>3. lfree <= h
              BY <6>2, <3>1, <1>5, <1>7
            <6> QED BY <6>1, <6>3, <1>4, <1>7
          <5> QED BY <5>1, <5>2
        <4>3. lfree \in DOMAIN ram' /\ (lfree = MemSize \/ ~ram'[lfree].used)
          BY <4>2, <2>6, <2>7, <1>7
        <4>4. ASSUME NEW k \in DOMAIN ram', k < lfree PROVE ram'[k].used
          <5>1. k /= rest
            BY <4>2, <4>4, <2>6, <1>4, <1>5, <1>7
          <5> QED BY <5>1, <4>4, <2>7, <1>7
        <4> QED BY <4>1, <4>3, <4>4 DEF IsLowestFree
      <3> QED BY <3>2, <3>3
    <2>9. HasOwners(ram', owned')
      <3>1. DOMAIN owned' = DOMAIN owned
        BY <1>6
      <3>2. DOMAIN owned = {k \in DOMAIN ram' \ {MemSize} : ram'[k].used}
        <4>1. ASSUME NEW k \in DOMAIN owned PROVE k \in DOMAIN b
          <5>1. k \in DOMAIN ram /\ ram[k].used
            BY <4>1, <1>6
          <5>2. ~free \/ k /= g
            BY <5>1
          <5> HIDE DEF g
          <5> QED BY <5>1, <5>2, <2>3
        <4> QED BY <4>1, <2>6, <2>7, <1>6
      <3>3. ASSUME NEW k \in DOMAIN owned'
            PROVE  owned'[k] \in Requests /\ k + Header + owned'[k] <= ram'[k].next
        <4>1. CASE k = h
          <5>1. owned'[k] = n /\ ram'[k].next = rest
            BY <4>1, <1>6, <2>3, <2>6
          <5>2. h + Header + n <= rest
            BY <1>2, <1>4 DEF rest
          <5> QED BY <4>1, <5>1, <5>2
        <4>2. CASE k /= h
          <5>1. owned'[k] = owned[k] /\ k \in DOMAIN owned
            BY <3>1, <4>2, <1>6
          <5>2. k \in DOMAIN b
            BY <5>1, <3>2, <2>6
          <5>3. ram'[k].next = ram[k].next
            BY <4>2, <5>2, <2>3, <2>6
          <5> QED BY <5>1, <5>3, <1>6
        <4> QED BY <4>1, <4>2
      <3> QED BY <3>1, <3>2, <3>3 DEF HasOwners
    <2> QED BY <2>4, <2>6, <2>8, <2>9 DEF HeapOK
  <1>9. CASE ~(size < Room(ram, h) /\ cut)
    <2>1. ram' = ram /\ lfree' = lfree
      BY <1>9 DEF Trim
    <2>2. HasOwners(ram', owned')
      <3>1. h + Header + n <= ram[h].next
        <4> HIDE DEF size, g
        <4> QED BY <1>2, <1>4, <1>5 DEF g
      <3> HIDE DEF g
      <3> QED BY <2>1, <3>1, <1>6 DEF HasOwners
    <2> QED BY <2>1, <2>2, <1>1 DEF HeapOK
  <1> QED BY <1>8, <1>9

-----------------------------------------------------------------------------
\* However many calls of mem_malloc, mem_free and mem_trim there have been, the
\* headers are a chain of blocks that fills the heap, free blocks are merged,
\* lfree is the lowest of them, and every allocation has its block.
THEOREM MemHeapOK == MemSpec => []HeapOK
  <1>1. MemInit => HeapOK
    BY InitOK
  <1>2. HeapOK /\ [MemNext]_memVars => HeapOK'
    <2> SUFFICES ASSUME HeapOK, [MemNext]_memVars PROVE HeapOK'
      OBVIOUS
    <2>1. CASE \E n \in Requests : Malloc(n)
      BY <2>1, MallocOK
    <2>2. CASE \E h \in DOMAIN owned : Free(h)
      BY <2>2, FreeOK
    <2>3. CASE \E h \in DOMAIN owned, n \in Requests : Trim(h, n)
      BY <2>3, TrimOK
    <2>4. CASE UNCHANGED memVars
      BY <2>4 DEF memVars, HeapOK
    <2> QED BY <2>1, <2>2, <2>3, <2>4 DEF MemNext
  <1> QED BY <1>1, <1>2, PTL DEF MemSpec

\* The block that the byte at a is in.
LEMMA BlockAt ==
  ASSUME NEW r, Chained(r), NEW a \in Nat, a < MemSize
  PROVE  \E h \in DOMAIN r : h /= MemSize /\ h <= a /\ a < r[h].next
  <1> DEFINE T == {MemSize - k : k \in {k \in DOMAIN r : k <= a}}
  <1>1. MemSize \in Nat /\ {0, MemSize} \subseteq DOMAIN r /\ DOMAIN r \subseteq 0 .. MemSize
    BY MemAssumption DEF Chained
  <1>2. T \in SUBSET Nat /\ T /= {}
    BY <1>1
  <1>3. Lowest(T) \in T /\ \A t \in T : Lowest(T) <= t
    BY <1>2, LowestIsLeast
  <1>4. PICK h \in DOMAIN r : h <= a /\ Lowest(T) = MemSize - h
    BY <1>3
  <1>5. \A k \in DOMAIN r : k <= a => k <= h
    <2> SUFFICES ASSUME NEW k \in DOMAIN r, k <= a PROVE k <= h
      OBVIOUS
    <2>1. MemSize - k \in T
      OBVIOUS
    <2>2. MemSize - h <= MemSize - k
      <3> HIDE DEF T
      <3> QED BY <2>1, <1>3, <1>4
    <2>3. k \in Nat /\ h \in Nat
      BY <1>1
    <2> QED BY <2>2, <2>3, <1>1
  <1>6. h /= MemSize
    BY <1>1, <1>4
  <1>7. r[h].next \in DOMAIN r /\ h \in Nat /\ r[h].next \in Nat /\ h < r[h].next
    BY <1>6, BlockFacts
  <1> QED BY <1>4, <1>5, <1>6, <1>7

\* mem_malloc fails only when no gap between the blocks in use would do.
THEOREM MemOverlooksNothing == MemSpec => []NothingOverlooked
  <1>1. HeapOK => NothingOverlooked
    <2> SUFFICES ASSUME HeapOK, NEW q \in Requests, Fitting(BlockSize(q)) = {},
                        NEW a \in 0 .. MemSize, a + Header + BlockSize(q) <= MemSize
                 PROVE  \E h \in DOMAIN owned : h < a + Header + BlockSize(q) /\ a < ram[h].next
      BY DEF NothingOverlooked
    <2> DEFINE n == BlockSize(q)
    <2>1. n \in Nat /\ Header \in Nat \ {0} /\ MinSize \in Nat \ {0} /\ MemSize \in Nat
          /\ a \in Nat
      BY SizeFacts
    <2>2. Chained(ram) /\ Plugged(ram) /\ IsLowestFree(ram, lfree) /\ HasOwners(ram, owned)
      BY DEF HeapOK
    <2>3. a < MemSize
      <3> HIDE DEF n
      <3> QED BY <2>1 DEF n
    <2>4. PICK h \in DOMAIN ram : h /= MemSize /\ h <= a /\ a < ram[h].next
      BY <2>1, <2>2, <2>3, BlockAt
    <2>5. h \in Nat /\ ram[h].next \in DOMAIN ram /\ ram[h].next \in Nat
          /\ h < ram[h].next
      BY <2>2, <2>4, BlockFacts
    <2>6. CASE ram[h].used
      <3>1. h \in DOMAIN owned
        BY <2>2, <2>4, <2>6 DEF HasOwners
      <3>2. h < a + Header + n
        <4> HIDE DEF n
        <4> QED BY <2>1, <2>4, <2>5
      <3> QED BY <2>4, <3>1, <3>2
    <2>7. CASE ~ram[h].used
      <3> DEFINE g == ram[h].next
      <3>1. ram[g].used
        BY <2>2, <2>4, <2>7 DEF Plugged
      <3>2. lfree <= h
        BY <2>2, <2>5, <2>7, <2>1 DEF IsLowestFree, Chained
      <3>3. g < a + Header + n
        <4> SUFFICES ASSUME ~(g < a + Header + n) PROVE FALSE
          OBVIOUS
        <4>1. Room(ram, h) >= n /\ h + n < MemSize
          <5>1. a + Header + n <= MemSize
            OBVIOUS
          <5> HIDE DEF n, g
          <5> QED BY <5>1, <2>1, <2>4, <2>5 DEF Room, g
        <4>2. h \in Fitting(n)
          BY <4>1, <3>2, <2>7 DEF Fitting
        <4> QED BY <4>2
      <3>4. g /= MemSize
        <4> HIDE DEF n, g
        <4>1. a + Header + n <= MemSize
          BY DEF n
        <4> QED BY <3>3, <4>1, <2>1
      <3>5. g \in DOMAIN owned
        BY <3>1, <3>4, <2>2, <2>5 DEF HasOwners
      <3>6. g < ram[g].next /\ ram[g].next \in Nat
        BY <3>4, <2>2, <2>5, BlockFacts
      <3>7. a < ram[g].next
        <4>1. a < g /\ g \in Nat
          BY <2>4, <2>5
        <4> HIDE DEF g
        <4> QED BY <4>1, <3>6, <2>1
      <3> QED BY <3>3, <3>5, <3>7
    <2> QED BY <2>6, <2>7
  <1> QED BY <1>1, MemHeapOK, PTL

-----------------------------------------------------------------------------
(* The blocks implement the abstract heap: no byte is given to two.        *)

\* The allocations by address, as Heap sees them.
Held(o) == [p \in {h + Header : h \in DOMAIN o} |-> o[p - Header]]

LEMMA HeldFacts ==
  ASSUME NEW o, DOMAIN o \subseteq Nat
  PROVE  /\ DOMAIN Held(o) = {h + Header : h \in DOMAIN o}
         /\ \A h \in DOMAIN o : h + Header \in DOMAIN Held(o) /\ Held(o)[h + Header] = o[h]
         /\ \A h \in Nat : h + Header \in DOMAIN Held(o) => h \in DOMAIN o
  <1>1. Header \in Nat
    BY MemAssumption
  <1>2. \A h \in DOMAIN o : (h + Header) - Header = h
    BY <1>1
  <1>3. \A h, k \in Nat : h + Header = k + Header => h = k
    BY <1>1
  <1> QED BY <1>2, <1>3 DEF Held

\* The bytes of n from h on are in the heap and nobody else's.
LEMMA BytesAvailable ==
  ASSUME HeapOK, NEW h \in DOMAIN ram, h /= MemSize, NEW n \in Nat,
         h + Header + n <= ram[h].next
  PROVE  Allocations!Available(h + Header, n, h + Header)
  <1>1. Chained(ram) /\ HasOwners(ram, owned)
    BY DEF HeapOK
  <1>2. /\ h \in Nat /\ ram[h].next \in Nat /\ ram[h].next <= MemSize
        /\ Header \in Nat /\ MemSize \in Nat /\ DOMAIN ram \subseteq Nat
    BY <1>1, BlockFacts, MemAssumption DEF Chained
  <1>3. DOMAIN owned \subseteq DOMAIN ram /\ MemSize \notin DOMAIN owned
        /\ \A k \in DOMAIN owned : owned[k] \in Requests /\ k + Header + owned[k] <= ram[k].next
    BY <1>1 DEF HasOwners
  <1>4. ASSUME NEW q \in DOMAIN Held(owned) \ {h + Header}
        PROVE  ((h + Header) .. (h + Header + n - 1))
                 \cap (q .. (q + Held(owned)[q] - 1)) = {}
    <2>0. DOMAIN owned \subseteq Nat
      BY <1>2, <1>3
    <2>1. PICK k \in DOMAIN owned : q = k + Header
      BY <1>4 DEF Held
    <2>2. Held(owned)[q] = owned[k]
      BY <2>0, <2>1, HeldFacts
    <2>3. k /= h /\ k \in DOMAIN ram /\ k /= MemSize /\ k \in Nat
      BY <2>1, <1>2, <1>3, <1>4
    <2>4. ram[k].next \in Nat /\ (h <= k \/ ram[k].next <= h) /\ (k <= h \/ ram[h].next <= k)
      BY <2>3, <1>1, BlockFacts
    <2>5. k + Header + owned[k] <= ram[k].next /\ owned[k] \in Nat
      BY <1>3, MemAssumption
    <2>6. ram[k].next <= h \/ ram[h].next <= k
      BY <2>3, <2>4, <1>2
    <2>7. \A x \in Nat : ~(/\ h + Header <= x /\ x <= h + Header + n - 1
                           /\ k + Header <= x /\ x <= k + Header + owned[k] - 1)
      BY <2>3, <2>4, <2>5, <2>6, <1>2
    <2>8. \A x \in (h + Header) .. (h + Header + n - 1) : x \in Nat
      BY <1>2
    <2> QED BY <2>1, <2>2, <2>3, <2>5, <2>7, <2>8, <1>2
  <1>5. h + Header \in 0 .. MemSize /\ h + Header + n <= MemSize
    BY <1>2
  <1> QED BY <1>4, <1>5 DEF Allocations!Available, Allocations!Extent, Held

\* Every operation gives out bytes that nobody has, and takes back what was given.
THEOREM MemImplementsHeap == MemSpec => ImplementsHeap
  <1>1. MemInit => Allocations!Init
    <2> SUFFICES ASSUME MemInit PROVE Held(owned) = <<>>
      BY DEF Allocations!Init, Held
    <2>1. DOMAIN owned = {}
      BY DEF MemInit
    <2> QED BY <2>1 DEF Held
  <1>2. HeapOK /\ HeapOK' /\ [MemNext]_memVars => [Allocations!Next]_(Held(owned))
    <2> SUFFICES ASSUME HeapOK, HeapOK', [MemNext]_memVars
                 PROVE  [Allocations!Next]_(Held(owned))
      OBVIOUS
    <2>1. DOMAIN owned \subseteq Nat /\ DOMAIN owned \subseteq DOMAIN ram
          /\ MemSize \notin DOMAIN owned /\ Header \in Nat /\ DOMAIN ram \subseteq Nat
      BY MemAssumption DEF HeapOK, HasOwners, Chained
    <2>2. ASSUME NEW n \in Requests, Malloc(n) PROVE Allocations!Next
      <3>0. PICK h : h = Lowest(Fitting(BlockSize(n)))
        OBVIOUS
      <3> DEFINE p == h + Header
      <3>1. h \in DOMAIN ram /\ h /= MemSize /\ h \in Nat /\ ~ram[h].used /\ n \in Nat
        BY <3>0, <2>2, MallocBlock, SizeFacts
      <3>2. h + Header + n <= ram[h].next
        <4>1. /\ h + Header + BlockSize(n) <= ram[h].next /\ ram[h].next \in Nat
              /\ BlockSize(n) \in Nat /\ n <= BlockSize(n)
          BY <3>0, <2>2, MallocBlock, SizeFacts
        <4> QED BY <4>1, <3>1, <2>1
      <3>3. h \notin DOMAIN owned
        BY <3>1 DEF HeapOK, HasOwners
      <3>4. Allocations!Available(p, n, p)
        BY <3>1, <3>2, BytesAvailable
      <3>5. p \notin DOMAIN Held(owned)
        BY <3>1, <3>3, <2>1, HeldFacts
      <3>6. owned' = [k \in DOMAIN owned \cup {h} |-> IF k = h THEN n ELSE owned[k]]
        BY <3>0, <2>2 DEF Malloc
      <3>7. DOMAIN owned' = DOMAIN owned \cup {h} /\ owned'[h] = n
            /\ \A k \in DOMAIN owned : owned'[k] = owned[k]
        BY <3>3, <3>6
      <3>8. Held(owned') = [x \in DOMAIN Held(owned) \cup {p} |->
                              IF x = p THEN n ELSE Held(owned)[x]]
        <4>1. DOMAIN Held(owned') = DOMAIN Held(owned) \cup {p}
          BY <3>7 DEF Held
        <4>2. ASSUME NEW x \in DOMAIN Held(owned') PROVE
                Held(owned')[x] = IF x = p THEN n ELSE Held(owned)[x]
          <5>1. PICK k \in DOMAIN owned' : x = k + Header
            BY <4>2 DEF Held
          <5>2. Held(owned')[x] = owned'[k]
            BY <5>1, <3>1, <3>7, <2>1, HeldFacts
          <5>3. CASE k = h
            BY <5>1, <5>2, <5>3, <3>7
          <5>4. CASE k /= h
            <6>1. k \in DOMAIN owned /\ Held(owned)[x] = owned[k] /\ x \in DOMAIN Held(owned)
              BY <5>1, <5>4, <3>7, <2>1, HeldFacts
            <6>2. x /= p
              BY <6>1, <3>5
            <6> QED BY <5>2, <6>1, <6>2, <3>7
          <5> QED BY <5>3, <5>4
        <4> HIDE DEF p
        <4> QED BY <4>1, <4>2 DEF Held
      <3>9. Allocations!Alloc(p)
        BY <3>4, <3>5, <3>8 DEF Allocations!Alloc, Held
      <3>10. p \in DOMAIN Held(owned')
        BY <3>7, <3>1, <2>1, HeldFacts
      <3> QED BY <3>9, <3>10 DEF Allocations!Next, Held
    <2>3. ASSUME NEW h \in DOMAIN owned, Free(h) PROVE Allocations!Next
      <3> DEFINE p == h + Header
      <3>1. p \in DOMAIN Held(owned) /\ h \in Nat
        BY <2>1, HeldFacts
      <3>2. owned' = [k \in DOMAIN owned \ {h} |-> owned[k]]
        BY <2>3 DEF Free
      <3>3. Held(owned') = [x \in DOMAIN Held(owned) \ {p} |-> Held(owned)[x]]
        <4>1. DOMAIN Held(owned') = DOMAIN Held(owned) \ {p}
          BY <3>1, <3>2, <2>1 DEF Held
        <4>2. ASSUME NEW x \in DOMAIN Held(owned') PROVE Held(owned')[x] = Held(owned)[x]
          <5>1. PICK k \in DOMAIN owned' : x = k + Header
            BY <4>2 DEF Held
          <5>2. k \in DOMAIN owned /\ owned'[k] = owned[k]
            BY <5>1, <3>2
          <5>3. Held(owned')[x] = owned'[k] /\ Held(owned)[x] = owned[k]
            BY <5>1, <5>2, <3>2, <2>1, HeldFacts
          <5> QED BY <5>2, <5>3
        <4> HIDE DEF p
        <4> QED BY <4>1, <4>2 DEF Held
      <3>4. Allocations!Free(p)
        BY <3>1, <3>3 DEF Allocations!Free, Held
      <3> QED BY <3>1, <3>4 DEF Allocations!Next, Held
    <2>4. ASSUME NEW h \in DOMAIN owned, NEW n \in Requests, Trim(h, n)
          PROVE  Allocations!Next
      <3> DEFINE p == h + Header
      <3>1. p \in DOMAIN Held(owned) /\ h \in DOMAIN ram /\ h /= MemSize /\ h \in Nat
        BY <2>1, HeldFacts
      <3>2. n \in Nat /\ h + Header + n <= ram[h].next
        <4>1. BlockSize(n) <= Room(ram, h) /\ ram[h].next \in Nat
          BY <2>4, <3>1, BlockFacts DEF Trim, HeapOK
        <4>2. n \in Nat /\ BlockSize(n) \in Nat /\ n <= BlockSize(n)
          BY SizeFacts
        <4> QED BY <4>1, <4>2, <3>1, <2>1 DEF Room
      <3>3. Allocations!Available(p, n, p)
        BY <3>1, <3>2, BytesAvailable
      <3>4. owned' = [owned EXCEPT ![h] = n]
        BY <2>4 DEF Trim
      <3>5. Held(owned') = [Held(owned) EXCEPT ![p] = n]
        <4>1. DOMAIN owned' = DOMAIN owned /\ owned'[h] = n
              /\ \A k \in DOMAIN owned : k /= h => owned'[k] = owned[k]
          BY <3>4
        <4>2. DOMAIN Held(owned') = DOMAIN Held(owned)
          BY <4>1 DEF Held
        <4>3. ASSUME NEW x \in DOMAIN Held(owned')
              PROVE  Held(owned')[x] = IF x = p THEN n ELSE Held(owned)[x]
          <5>1. PICK k \in DOMAIN owned : x = k + Header
            BY <4>1, <4>3 DEF Held
          <5>2. Held(owned')[x] = owned'[k] /\ Held(owned)[x] = owned[k]
            BY <5>1, <4>1, <2>1, HeldFacts
          <5>3. x = p <=> k = h
            BY <5>1, <3>1, <2>1
          <5> HIDE DEF p
          <5> QED BY <5>2, <5>3, <4>1
        <4> HIDE DEF p
        <4> QED BY <4>2, <4>3 DEF Held
      <3>6. Allocations!Resize(p)
        BY <3>1, <3>3, <3>5 DEF Allocations!Resize, Held
      <3> QED BY <3>1, <3>6 DEF Allocations!Next, Held
    <2>5. CASE UNCHANGED memVars
      BY <2>5 DEF memVars
    <2> QED BY <2>2, <2>3, <2>4, <2>5 DEF MemNext
  <1>3. Allocations!Spec <=> Allocations!Init /\ [][Allocations!Next]_(Held(owned))
    BY DEF Allocations!Spec, Held
  <1> QED BY <1>1, <1>2, <1>3, MemHeapOK, PTL DEF MemSpec, ImplementsHeap

-----------------------------------------------------------------------------
(* Pbuf.                                                                   *)

\* What the fields of the pbufs hold; a pbuf whose count is 0 is blank.
PbufTyped(B) ==
  /\ B \in [Pbufs -> [ref : Nat, len : Int, tot_len : Int, room : Int,
                      next : Pbufs \cup {NoPbuf}]]
  /\ \A p \in Pbufs : B[p].ref = 0 => B[p] = Idle

\* The pbufs whose next is p.
PredsIn(B, p) == {q \in Pbufs : B[q].next = p}

\* ext counts what is not a pointer from another pbuf.
CountedBy(B, ext) ==
  \A p \in Pbufs : B[p].ref = ext[p] + Cardinality(PredsIn(B, p))

\* The same, with one more pointer to h.
CountedAnd(B, ext, h) ==
  \A p \in Pbufs : B[p].ref = ext[p] + Cardinality(PredsIn(B, p)) + (IF p = h THEN 1 ELSE 0)

Behind(B, p) == IF B[p].next = NoPbuf THEN 0 ELSE B[B[p].next].tot_len
SumsUp(B, p) == B[p].tot_len = B[p].len + Behind(B, p)

PbufsOK(B, ext) ==
  /\ PbufTyped(B)
  /\ ext \in [Pbufs -> Nat]
  /\ CountedBy(B, ext)
  /\ \A p \in Pbufs : SumsUp(B, p)

PbufInv == PbufsOK(buf, held)

\* c[1] .. c[n] are p and what follows it, to the end if n < Cardinality(Pbufs).
IsChain(B, p, c, n) ==
  /\ n \in 1 .. Cardinality(Pbufs)
  /\ c \in [1 .. n -> Pbufs]
  /\ c[1] = p
  /\ \A i \in 1 .. n - 1 : B[c[i]].next = c[i + 1]
  /\ n < Cardinality(Pbufs) => B[c[n]].next = NoPbuf

-----------------------------------------------------------------------------
(* Sets of naturals and of pbufs.                                          *)

LEMMA LeastNat == ASSUME NEW S, S \subseteq Nat, S /= {}
                  PROVE  \E m \in S : \A k \in S : m <= k
  <1> DEFINE R == OpToRel(<, Nat)
  <1>1. IsWellFoundedOn(R, Nat)
    BY NatLessThanWellFounded
  <1>2. PICK m \in S : \A k \in S : ~(<<k, m>> \in R)
    BY <1>1, WFMin
  <1>3. \A k \in S : ~(k < m)
    BY <1>2 DEF OpToRel
  <1> QED BY ONLY <1>3, m \in S, S \subseteq Nat

LEMMA PredsFinite ==
  ASSUME NEW B, NEW p
  PROVE  /\ IsFiniteSet(PredsIn(B, p)) /\ Cardinality(PredsIn(B, p)) \in Nat
         /\ Cardinality(PredsIn(B, p)) = 0 <=> PredsIn(B, p) = {}
  <1>1. PredsIn(B, p) \in SUBSET Pbufs
    BY DEF PredsIn
  <1>2. IsFiniteSet(PredsIn(B, p))
    BY <1>1, PbufAssumption, FS_Subset
  <1> QED BY <1>2, FS_CardinalityType, FS_EmptySet

LEMMA PbufCount ==
  /\ Cardinality(Pbufs) \in Nat
  /\ \A p \in Pbufs : Cardinality(Pbufs) \in 1 .. Cardinality(Pbufs)
  <1>1. Cardinality(Pbufs) \in Nat /\ (Cardinality(Pbufs) = 0 => Pbufs = {})
    BY PbufAssumption, FS_CardinalityType, FS_EmptySet
  <1> QED BY <1>1

-----------------------------------------------------------------------------
(* Chains.                                                                 *)

\* What ChainOf computes is a chain.
\* The step that the recursion of ChainOf makes.
Onward(B, x) == IF x = NoPbuf THEN NoPbuf ELSE B[x].next

\* f makes these steps from p on.
Walks(B, p, f, m) ==
  /\ f \in [1 .. m -> Pbufs \cup {NoPbuf}]
  /\ f[1] = p
  /\ \A i \in 1 .. m : i > 1 => f[i] = Onward(B, f[i - 1])

LEMMA WalkLonger ==
  ASSUME NEW B, PbufTyped(B), NEW p \in Pbufs, NEW m \in Nat, m > 1,
         NEW f, Walks(B, p, f, m - 1)
  PROVE  \E g : Walks(B, p, g, m)
  <1> DEFINE g == [i \in 1 .. m |-> IF i < m THEN f[i] ELSE Onward(B, f[m - 1])]
  <1>1. f \in [1 .. m - 1 -> Pbufs \cup {NoPbuf}] /\ f[1] = p
        /\ \A i \in 1 .. m - 1 : i > 1 => f[i] = Onward(B, f[i - 1])
    BY DEF Walks
  <1>2. f[m - 1] \in Pbufs \cup {NoPbuf}
    BY <1>1
  <1>3. \A x \in Pbufs \cup {NoPbuf} : Onward(B, x) \in Pbufs \cup {NoPbuf}
    BY DEF Onward, PbufTyped
  <1>4. ASSUME NEW i \in 1 .. m PROVE g[i] \in Pbufs \cup {NoPbuf}
    <2>1. CASE i < m
      <3>1. i \in 1 .. m - 1
        BY <2>1
      <3> QED BY <1>1, <2>1, <3>1
    <2>2. CASE ~(i < m)
      BY <1>2, <1>3, <2>2
    <2> QED BY <2>1, <2>2
  <1>5. g[1] = p
    BY <1>1
  <1>6. ASSUME NEW i \in 1 .. m, i > 1 PROVE g[i] = Onward(B, g[i - 1])
    <2>1. i - 1 \in 1 .. m /\ i - 1 < m /\ g[i - 1] = f[i - 1]
      BY <1>6
    <2>2. CASE i < m
      <3>1. i \in 1 .. m - 1
        BY <2>2
      <3> QED BY <1>1, <1>6, <2>1, <2>2, <3>1
    <2>3. CASE ~(i < m)
      <3>1. i = m
        BY <2>3
      <3> QED BY <2>1, <3>1
    <2> QED BY <2>2, <2>3
  <1>7. g \in [1 .. m -> Pbufs \cup {NoPbuf}]
    BY <1>4
  <1> QED BY <1>5, <1>6, <1>7 DEF Walks

LEMMA WalkExists ==
  ASSUME NEW B, PbufTyped(B), NEW p \in Pbufs
  PROVE  \A m \in Nat \ {0} : \E f : Walks(B, p, f, m)
  <1> DEFINE S == {m \in Nat \ {0} : ~ \E f : Walks(B, p, f, m)}
  <1> SUFFICES ASSUME S /= {} PROVE FALSE
    OBVIOUS
  <1>1. PICK m \in S : \A k \in S : m <= k
    BY LeastNat
  <1>2. Walks(B, p, [i \in 1 .. 1 |-> p], 1)
    BY DEF Walks
  <1>3. m \in Nat /\ m > 1
    BY <1>2
  <1>4. m - 1 \notin S /\ m - 1 \in Nat \ {0}
    BY <1>1, <1>3
  <1>5. PICK f : Walks(B, p, f, m - 1)
    BY <1>4
  <1> QED BY <1>3, <1>5, WalkLonger

\* What ChainOf computes is a chain.
LEMMA ChainIs ==
  ASSUME NEW B, PbufTyped(B), NEW p \in Pbufs
  PROVE  \E n \in 1 .. Cardinality(Pbufs) :
           /\ DOMAIN ChainOf(B, p) = 1 .. n
           /\ IsChain(B, p, ChainOf(B, p), n)
  <1> DEFINE N == Cardinality(Pbufs)
             W(f) == [i \in 1 .. N |->
                        IF i = 1 THEN p
                        ELSE IF f[i - 1] = NoPbuf THEN NoPbuf ELSE B[f[i - 1]].next]
             h == CHOOSE f : f = W(f)
             c == ChainOf(B, p)
  <1>1. N \in Nat /\ N >= 1
    BY PbufCount
  <1>2. \E f : f = W(f)
    <2>1. PICK f : Walks(B, p, f, N)
      BY <1>1, WalkExists
    <2>2. f \in [1 .. N -> Pbufs \cup {NoPbuf}] /\ f[1] = p
          /\ \A i \in 1 .. N : i > 1 => f[i] = Onward(B, f[i - 1])
      BY <2>1 DEF Walks
    <2>3. ASSUME NEW i \in 1 .. N PROVE f[i] = W(f)[i]
      <3>1. CASE i = 1
        BY <2>2, <3>1
      <3>2. CASE i > 1
        BY <2>2, <3>2 DEF Onward
      <3> QED BY <3>1, <3>2
    <2>4. f = [i \in 1 .. N |-> f[i]] /\ W(f) = [i \in 1 .. N |-> W(f)[i]]
      BY <2>2
    <2> QED BY <2>3, <2>4
  <1>3. h = W(h)
    <2> HIDE DEF W
    <2> QED BY <1>2
  <1>4. c = [i \in {j \in DOMAIN h : h[j] /= NoPbuf} |-> h[i]]
    BY DEF ChainOf
  <1>5. DOMAIN h = 1 .. N /\ h[1] = p /\ \A i \in 1 .. N : i > 1 => h[i] = Onward(B, h[i - 1])
    <2> HIDE DEF h
    <2>1. DOMAIN h = 1 .. N
      BY <1>3
    <2>2. \A i \in 1 .. N : h[i] = W(h)[i]
      BY <1>3
    <2>3. h[1] = p
      BY <1>1, <2>2
    <2>4. ASSUME NEW i \in 1 .. N, i > 1 PROVE h[i] = Onward(B, h[i - 1])
      BY <2>2, <2>4 DEF Onward
    <2> QED BY <2>1, <2>3, <2>4
  <1> HIDE DEF h, c
  <1>6. \A i \in 1 .. N : h[i] \in Pbufs \cup {NoPbuf}
    <2> DEFINE S == {i \in 1 .. N : h[i] \notin Pbufs \cup {NoPbuf}}
    <2> SUFFICES ASSUME S /= {} PROVE FALSE
      OBVIOUS
    <2>0. S \subseteq Nat
      BY <1>1
    <2> HIDE DEF S
    <2>1. PICK i \in S : \A k \in S : i <= k
      BY <2>0, LeastNat
    <2> USE DEF S
    <2>2. i > 1 /\ i - 1 \in 1 .. N /\ i - 1 \notin S
      BY <1>1, <1>5, <2>1
    <2>3. h[i - 1] \in Pbufs \cup {NoPbuf}
      BY <2>2
    <2> QED BY <1>5, <2>2, <2>3 DEF Onward, PbufTyped
  \* The walk ends where it first meets NoPbuf.
  <1>7. \E n \in 1 .. N : /\ \A i \in 1 .. n : h[i] /= NoPbuf
                          /\ \A i \in n + 1 .. N : h[i] = NoPbuf
    <2> DEFINE S == {i \in 1 .. N : h[i] = NoPbuf}
    <2>1. CASE S = {}
      <3>1. /\ \A i \in 1 .. N : h[i] /= NoPbuf
            /\ \A i \in N + 1 .. N : h[i] = NoPbuf
        BY <1>1, <2>1
      <3>2. N \in 1 .. N
        BY <1>1
      <3> QED BY <3>1, <3>2
    <2>2. CASE S /= {}
      <3>0. S \subseteq Nat
        BY <1>1
      <3>1. PICK m \in S : \A k \in S : m <= k
        <4> HIDE DEF S
        <4> QED BY <2>2, <3>0, LeastNat
      <3>2. p /= NoPbuf
        BY PbufAssumption
      <3>3. m > 1
        BY <1>5, <3>1, <3>2
      <3>4. \A i \in 1 .. m - 1 : h[i] /= NoPbuf
        BY <1>1, <3>1
      <3>5. \A i \in m .. N : h[i] = NoPbuf
        <4> DEFINE T == {i \in m .. N : h[i] /= NoPbuf}
        <4> SUFFICES ASSUME T /= {} PROVE FALSE
          OBVIOUS
        <4>0. T \subseteq Nat
          BY <1>1, <3>1
        <4>1. PICK i \in T : \A k \in T : i <= k
          <5> HIDE DEF T
          <5> QED BY <4>0, LeastNat
        <4>2. i \in 1 .. N /\ i > m /\ i - 1 \in m .. N /\ i - 1 \notin T
          BY <1>1, <3>1, <4>1
        <4>3. h[i - 1] = NoPbuf
          BY <4>2
        <4> QED BY <1>5, <3>3, <4>2, <4>3 DEF Onward
      <3>6. m - 1 \in 1 .. N
        BY <1>1, <3>1, <3>3
      <3> QED BY <3>4, <3>5, <3>6
    <2> QED BY <2>1, <2>2
  <1>8. PICK n \in 1 .. N : /\ \A i \in 1 .. n : h[i] /= NoPbuf
                            /\ \A i \in n + 1 .. N : h[i] = NoPbuf
    BY <1>7
  <1>9. {j \in DOMAIN h : h[j] /= NoPbuf} = 1 .. n
    BY <1>1, <1>5, <1>8
  <1>10. c = [i \in 1 .. n |-> h[i]]
    BY <1>4, <1>9
  <1>11. c \in [1 .. n -> Pbufs]
    BY <1>1, <1>6, <1>8, <1>10
  <1>12. c[1] = p
    BY <1>5, <1>10
  <1>13. ASSUME NEW i \in 1 .. n - 1 PROVE B[c[i]].next = c[i + 1]
    <2>1. i \in 1 .. n /\ i + 1 \in 1 .. n /\ i + 1 \in 1 .. N /\ i + 1 > 1 /\ (i + 1) - 1 = i
      BY <1>1
    <2>2. h[i + 1] = Onward(B, h[i])
      BY <1>5, <2>1
    <2> QED BY <1>8, <1>10, <2>1, <2>2 DEF Onward
  <1>14. n < N => B[c[n]].next = NoPbuf
    <2> SUFFICES ASSUME n < N PROVE B[c[n]].next = NoPbuf
      OBVIOUS
    <2>1. n + 1 \in 1 .. N /\ n + 1 > 1 /\ (n + 1) - 1 = n /\ n + 1 \in n + 1 .. N /\ n \in 1 .. n
      BY <1>1
    <2>2. h[n + 1] = Onward(B, h[n]) /\ h[n + 1] = NoPbuf
      BY <1>5, <1>8, <2>1
    <2> QED BY <1>8, <1>10, <2>1, <2>2 DEF Onward
  <1>15. DOMAIN c = 1 .. n
    BY <1>10
  <1>16. IsChain(B, p, c, n)
    BY <1>11, <1>12, <1>13, <1>14 DEF IsChain
  <1> QED BY <1>15, <1>16 DEF c

\* Only what is before it in c points to any of c[1] .. c[m].
Unforked(B, c, m) ==
  /\ PredsIn(B, c[1]) = {}
  /\ \A i \in 2 .. m : \A x, y \in Pbufs :
       B[x].next = c[i] /\ B[y].next = c[i] => x = y

LEMMA NoRepeat ==
  ASSUME NEW B, NEW p, NEW c, NEW n, IsChain(B, p, c, n),
         NEW m \in 1 .. n, Unforked(B, c, m)
  PROVE  \A i, j \in 1 .. m : c[i] = c[j] => i = j
  <1>0. n \in Nat /\ m \in Nat /\ m >= 1 /\ m <= n /\ c \in [1 .. n -> Pbufs]
        /\ \A i \in 1 .. n - 1 : B[c[i]].next = c[i + 1]
    BY PbufCount DEF IsChain
  <1> DEFINE S == {i \in 1 .. m : \E j \in 1 .. m : i < j /\ c[i] = c[j]}
  <1>1. S = {}
    <2> SUFFICES ASSUME S /= {} PROVE FALSE
      OBVIOUS
    <2>0. S \subseteq Nat
      OBVIOUS
    <2>1. PICK i \in S : \A k \in S : i <= k
      <3> HIDE DEF S
      <3> QED BY <2>0, LeastNat
    <2>2. PICK j \in 1 .. m : i < j /\ c[i] = c[j]
      OBVIOUS
    <2>3. i \in 1 .. m
      OBVIOUS
    <2>4. j - 1 \in 1 .. n - 1 /\ (j - 1) + 1 = j /\ j - 1 \in 1 .. m /\ c[j - 1] \in Pbufs
      BY <1>0, <2>2, <2>3
    <2>5. B[c[j - 1]].next = c[i]
      BY <1>0, <2>2, <2>4
    <2>6. CASE i = 1
      BY <2>4, <2>5, <2>6 DEF Unforked, PredsIn
    <2>7. CASE i > 1
      <3>1. i - 1 \in 1 .. n - 1 /\ (i - 1) + 1 = i /\ i - 1 \in 1 .. m /\ c[i - 1] \in Pbufs /\ i \in 2 .. m
        BY <1>0, <2>3, <2>7
      <3>2. B[c[i - 1]].next = c[i]
        BY <1>0, <3>1
      <3>3. c[i - 1] = c[j - 1]
        BY <2>4, <2>5, <3>1, <3>2 DEF Unforked
      <3>4. i - 1 < j - 1
        BY <2>2, <2>3
      <3>5. i - 1 \in S
        BY <2>4, <3>1, <3>3, <3>4
      <3>6. i <= i - 1
        BY <2>1, <3>5
      <3> QED BY <2>3, <3>6
    <2> QED BY <2>3, <2>6, <2>7
  <1>2. ASSUME NEW i \in 1 .. m, NEW j \in 1 .. m, c[i] = c[j] PROVE i = j
    <2>1. ~(i < j)
      BY <1>1, <1>2
    <2>2. ~(j < i)
      BY <1>1, <1>2
    <2> QED BY <2>1, <2>2
  <1> QED BY <1>2

LEMMA ChainEnds ==
  ASSUME NEW B, PbufTyped(B), NEW p \in Pbufs, NEW c, NEW n, IsChain(B, p, c, n),
         Unforked(B, c, n)
  PROVE  B[c[n]].next = NoPbuf
  <1> DEFINE N == Cardinality(Pbufs)
  <1>0. /\ n \in 1 .. N /\ N \in Nat /\ n \in 1 .. n /\ n >= 1
        /\ c \in [1 .. n -> Pbufs]
        /\ \A i \in 1 .. n - 1 : B[c[i]].next = c[i + 1]
        /\ n < N => B[c[n]].next = NoPbuf
    BY PbufCount DEF IsChain
  <1>1. \A i, j \in 1 .. n : c[i] = c[j] => i = j
    BY <1>0, NoRepeat
  <1> SUFFICES ASSUME n = N, B[c[n]].next \in Pbufs PROVE FALSE
    BY <1>0 DEF PbufTyped
  <1>2. c \in Injection(1 .. n, Pbufs)
    BY <1>0, <1>1 DEF Injection, IsInjective
  <1>3. IsFiniteSet(1 .. n) /\ Cardinality(1 .. n) = N
    BY <1>0, FS_Interval
  <1>4. c \in Surjection(1 .. n, Pbufs)
    BY <1>2, <1>3, PbufAssumption, FS_Injection
  <1>5. PICK i \in 1 .. n : c[i] = B[c[n]].next
    BY <1>4 DEF Surjection
  <1>6. c[n] \in Pbufs
    BY <1>0
  <1>7. CASE i = 1
    BY <1>5, <1>6, <1>7 DEF Unforked, PredsIn
  <1>8. CASE i > 1
    <2>1. i - 1 \in 1 .. n - 1 /\ (i - 1) + 1 = i /\ i - 1 \in 1 .. n /\ i \in 2 .. n /\ c[i - 1] \in Pbufs
          /\ i - 1 /= n
      BY <1>0, <1>8
    <2>2. B[c[i - 1]].next = c[i]
      BY <1>0, <2>1
    <2>3. c[i - 1] = c[n]
      BY <1>5, <1>6, <2>1, <2>2 DEF Unforked
    <2> QED BY <1>0, <1>1, <2>1, <2>3
  <1> QED BY <1>0, <1>7, <1>8

-----------------------------------------------------------------------------
(* pbuf_free.                                                              *)

\* A pbuf to which only one pbuf points, or none.
LEMMA OnePred ==
  ASSUME NEW B, NEW q, Cardinality(PredsIn(B, q)) <= 1
  PROVE  \A x, y \in Pbufs : B[x].next = q /\ B[y].next = q => x = y
  <1>1. IsFiniteSet(PredsIn(B, q)) /\ Cardinality(PredsIn(B, q)) \in Nat
        /\ (Cardinality(PredsIn(B, q)) = 0 <=> PredsIn(B, q) = {})
    BY PredsFinite
  <1>2. PredsIn(B, q) = {} \/ \E x : PredsIn(B, q) = {x}
    BY <1>1, FS_Singleton
  <1> QED BY <1>2 DEF PredsIn

\* What pbuf_free does to a chain: c[1] .. c[m] are freed, c[m + 1] loses a pointer.
Freed(B, c, n, m) ==
  [q \in Pbufs |-> IF \E i \in 1 .. m : q = c[i] THEN Idle
                   ELSE IF m < n /\ q = c[m + 1] THEN [B[q] EXCEPT !.ref = @ - 1]
                   ELSE B[q]]

IsFreed(B, p, c, n, m) ==
  /\ m \in 0 .. n
  /\ \A i \in 1 .. m : B[c[i]].ref = 1
  /\ m < n => B[c[m + 1]].ref > 1
  /\ FreeChain(B, p) = Freed(B, c, n, m)

LEMMA FreeChainIs ==
  ASSUME NEW B, PbufTyped(B), NEW p \in Pbufs, NEW ext \in [Pbufs -> Nat],
         CountedAnd(B, ext, p)
  PROVE  \E n \in 1 .. Cardinality(Pbufs), m \in Nat :
           IsChain(B, p, ChainOf(B, p), n) /\ IsFreed(B, p, ChainOf(B, p), n, m)
  <1> DEFINE N == Cardinality(Pbufs)
             c == ChainOf(B, p)
  <1>1. PICK n \in 1 .. N : DOMAIN c = 1 .. n /\ IsChain(B, p, c, n)
    BY ChainIs
  <1> DEFINE reached == {i \in DOMAIN c : \A j \in 1 .. i - 1 : B[c[j]].ref = 1}
             gone == {c[i] : i \in {j \in reached : B[c[j]].ref = 1}}
             kept == {c[i] : i \in {j \in reached : B[c[j]].ref > 1}}
  <1>2. FreeChain(B, p) = [q \in Pbufs |-> IF q \in gone THEN Idle
                             ELSE IF q \in kept THEN [B[q] EXCEPT !.ref = @ - 1]
                             ELSE B[q]]
    BY DEF FreeChain
  <1> HIDE DEF c
  <1>3. /\ n \in Nat /\ n >= 1 /\ N \in Nat
        /\ c \in [1 .. n -> Pbufs]
        /\ c[1] = p
        /\ \A i \in 1 .. n - 1 : B[c[i]].next = c[i + 1]
    BY <1>1, PbufCount DEF IsChain
  <1>4. ASSUME NEW i \in 1 .. n PROVE B[c[i]].ref \in Nat /\ B[c[i]].ref >= 1
    <2>1. c[i] \in Pbufs
      BY <1>3
    <2>2. Cardinality(PredsIn(B, c[i])) \in Nat /\ (Cardinality(PredsIn(B, c[i])) = 0 <=> PredsIn(B, c[i]) = {})
      BY PredsFinite
    <2>3. /\ ext[c[i]] \in Nat /\ B[c[i]].ref \in Nat
          /\ B[c[i]].ref = ext[c[i]] + Cardinality(PredsIn(B, c[i])) + (IF c[i] = p THEN 1 ELSE 0)
      BY <2>1 DEF CountedAnd, PbufTyped
    <2>4. CASE i = 1
      <3>1. B[c[i]].ref = ext[c[i]] + Cardinality(PredsIn(B, c[i])) + 1
        BY <1>3, <2>3, <2>4
      <3> QED BY <2>2, <2>3, <3>1
    <2>5. CASE i > 1
      <3>1. i - 1 \in 1 .. n - 1 /\ (i - 1) + 1 = i /\ c[i - 1] \in Pbufs
        BY <1>3, <2>5
      <3>2. B[c[i - 1]].next = c[i]
        BY <1>3, <3>1
      <3>3. Cardinality(PredsIn(B, c[i])) >= 1
        BY <2>2, <3>1, <3>2 DEF PredsIn
      <3> QED BY <2>2, <2>3, <3>3
    <2> QED BY <2>4, <2>5
  <1>5. \E m \in 0 .. n : /\ \A i \in 1 .. m : B[c[i]].ref = 1
                          /\ m < n => B[c[m + 1]].ref > 1
    <2> DEFINE S == {i \in 1 .. n : B[c[i]].ref /= 1}
    <2>1. CASE S = {}
      <3>1. n \in 0 .. n /\ ~(n < n)
        BY <1>3
      <3>2. \A i \in 1 .. n : B[c[i]].ref = 1
        BY <2>1
      <3> QED BY <3>1, <3>2
    <2>2. CASE S /= {}
      <3>0. S \subseteq Nat
        BY <1>3
      <3>1. PICK i \in S : \A k \in S : i <= k
        <4> HIDE DEF S
        <4> QED BY <2>2, <3>0, LeastNat
      <3>2. i \in 1 .. n /\ i - 1 \in 0 .. n /\ (i - 1) + 1 = i
        BY <1>3
      <3>3. B[c[i]].ref > 1
        BY <1>4, <3>1, <3>2
      <3>4. ASSUME NEW k \in 1 .. i - 1 PROVE B[c[k]].ref = 1
        <4>1. k \in 1 .. n /\ ~(i <= k)
          BY <1>3, <3>2
        <4> QED BY <3>1, <4>1
      <3> QED BY <3>2, <3>3, <3>4
    <2> QED BY <2>1, <2>2
  <1>6. PICK m \in 0 .. n : /\ \A i \in 1 .. m : B[c[i]].ref = 1
                            /\ m < n => B[c[m + 1]].ref > 1
    BY <1>5
  <1>7. reached = {i \in 1 .. n : i <= m + 1}
    <2>1. ASSUME NEW i \in 1 .. n, i <= m + 1, NEW j \in 1 .. i - 1 PROVE B[c[j]].ref = 1
      <3>1. j \in 1 .. m
        BY <1>3, <2>1
      <3> QED BY <1>6, <3>1
    <2>2. ASSUME NEW i \in 1 .. n, i > m + 1 PROVE m + 1 \in 1 .. i - 1 /\ B[c[m + 1]].ref /= 1
      <3>1. m < n /\ m + 1 \in 1 .. i - 1 /\ m + 1 \in 1 .. n
        BY <1>3, <2>2
      <3> QED BY <1>4, <1>6, <3>1
    <2>3. \A i \in 1 .. n : i <= m + 1 <=> \A j \in 1 .. i - 1 : B[c[j]].ref = 1
      <3> SUFFICES ASSUME NEW i \in 1 .. n PROVE i <= m + 1 <=> \A j \in 1 .. i - 1 : B[c[j]].ref = 1
        OBVIOUS
      <3>1. CASE i <= m + 1
        BY <2>1, <3>1
      <3>2. CASE i > m + 1
        <4>1. m + 1 \in 1 .. i - 1 /\ B[c[m + 1]].ref /= 1
          BY <2>2, <3>2
        <4>2. ~(i <= m + 1)
          BY <1>3, <3>2
        <4> QED BY <4>1, <4>2
      <3> QED BY <1>3, <3>1, <3>2
    <2> QED BY <1>1, <2>3
  <1>8. gone = {c[i] : i \in 1 .. m}
    <2>1. {j \in reached : B[c[j]].ref = 1} = 1 .. m
      <3>1. ASSUME NEW i \in 1 .. m PROVE i \in reached /\ B[c[i]].ref = 1
        <4>1. i \in 1 .. n /\ i <= m + 1
          BY <1>3
        <4> QED BY <1>6, <1>7, <4>1
      <3>2. ASSUME NEW i \in reached, B[c[i]].ref = 1 PROVE i \in 1 .. m
        <4>1. i \in 1 .. n /\ i <= m + 1
          BY <1>7
        <4>2. i /= m + 1
          <5> SUFFICES ASSUME i = m + 1 PROVE FALSE
            OBVIOUS
          <5>1. m < n
            BY <1>3, <4>1
          <5> QED BY <1>6, <3>2, <5>1
        <4> QED BY <1>3, <4>1, <4>2
      <3> HIDE DEF reached
      <3> QED BY <3>1, <3>2
    <2> HIDE DEF reached
    <2> QED BY <2>1
  <1>9. kept = IF m < n THEN {c[m + 1]} ELSE {}
    <2>1. {j \in reached : B[c[j]].ref > 1} = IF m < n THEN {m + 1} ELSE {}
      <3>1. ASSUME NEW i \in reached, B[c[i]].ref > 1 PROVE m < n /\ i = m + 1
        <4>1. i \in 1 .. n /\ i <= m + 1
          BY <1>7
        <4>2. i \notin 1 .. m
          BY <1>6, <3>1
        <4> QED BY <1>3, <4>1, <4>2
      <3>2. ASSUME m < n PROVE m + 1 \in reached /\ B[c[m + 1]].ref > 1
        <4>1. m + 1 \in 1 .. n /\ m + 1 <= m + 1
          BY <1>3, <3>2
        <4> QED BY <1>6, <1>7, <3>2, <4>1
      <3> HIDE DEF reached
      <3> QED BY <3>1, <3>2
    <2> HIDE DEF reached
    <2> QED BY <2>1
  <1>10. FreeChain(B, p) = Freed(B, c, n, m)
    <2> HIDE DEF gone, kept
    <2>1. \A q : q \in gone <=> \E i \in 1 .. m : q = c[i]
      BY <1>8
    <2>2. \A q : q \in kept <=> m < n /\ q = c[m + 1]
      BY <1>9
    <2> QED BY <1>2, <2>1, <2>2 DEF Freed
  <1>11. IsFreed(B, p, c, n, m)
    BY <1>6, <1>10 DEF IsFreed
  <1>12. m \in Nat
    BY <1>3
  <1> QED BY <1>1, <1>11, <1>12 DEF c

\* Only the pbuf before it points to a pbuf that is freed.
LEMMA FreedPreds ==
  ASSUME NEW B, PbufTyped(B), NEW p \in Pbufs, NEW ext \in [Pbufs -> Nat],
         CountedAnd(B, ext, p), NEW n, NEW m, NEW c,
         IsChain(B, p, c, n), IsFreed(B, p, c, n, m), NEW i \in 1 .. m
  PROVE  /\ c[i] \in Pbufs /\ ext[c[i]] = 0
         /\ i = 1 => PredsIn(B, c[i]) = {}
         /\ i > 1 => /\ i - 1 \in 1 .. m /\ c[i - 1] \in Pbufs
                     /\ PredsIn(B, c[i]) = {c[i - 1]} /\ c[i] /= p
  <1>1. /\ n \in Nat /\ n >= 1 /\ m \in 0 .. n
        /\ c \in [1 .. n -> Pbufs]
        /\ c[1] = p
        /\ \A k \in 1 .. n - 1 : B[c[k]].next = c[k + 1]
    BY PbufCount DEF IsChain, IsFreed
  <1>2. i \in 1 .. n /\ c[i] \in Pbufs
    BY <1>1
  <1> DEFINE k == Cardinality(PredsIn(B, c[i]))
  <1>3. k \in Nat /\ IsFiniteSet(PredsIn(B, c[i])) /\ (k = 0 <=> PredsIn(B, c[i]) = {})
    BY PredsFinite
  <1>4. ext[c[i]] \in Nat /\ 1 = ext[c[i]] + k + (IF c[i] = p THEN 1 ELSE 0)
    BY <1>2 DEF CountedAnd, IsFreed
  <1>5. CASE i = 1
    <2>1. c[i] = p
      BY <1>1, <1>5
    <2>2. ext[c[i]] = 0 /\ k = 0
      <3> HIDE DEF k
      <3> QED BY <1>3, <1>4, <2>1
    <2> QED BY <1>2, <1>3, <1>5, <2>2
  <1>6. CASE i > 1
    <2>1. i - 1 \in 1 .. n - 1 /\ (i - 1) + 1 = i /\ i - 1 \in 1 .. m /\ c[i - 1] \in Pbufs
      BY <1>1, <1>6
    <2>2. B[c[i - 1]].next = c[i]
      BY <1>1, <2>1
    <2>3. c[i - 1] \in PredsIn(B, c[i])
      BY <2>1, <2>2 DEF PredsIn
    <2>4. k /= 0
      BY <1>3, <2>3
    <2>5. ext[c[i]] = 0 /\ k = 1 /\ c[i] /= p
      <3> HIDE DEF k
      <3>1. CASE c[i] = p
        BY <1>3, <1>4, <2>4, <3>1
      <3>2. CASE c[i] /= p
        <4>1. 1 = ext[c[i]] + k
          BY <1>3, <1>4, <3>2
        <4> QED BY <1>3, <1>4, <2>4, <3>2, <4>1
      <3> QED BY <3>1, <3>2
    <2>6. PICK x : PredsIn(B, c[i]) = {x}
      BY <1>3, <2>5, FS_Singleton
    <2>7. PredsIn(B, c[i]) = {c[i - 1]}
      BY <2>3, <2>6
    <2> QED BY <1>2, <1>6, <2>1, <2>5, <2>7
  <1> QED BY <1>1, <1>5, <1>6

LEMMA FreedUnforked ==
  ASSUME NEW B, PbufTyped(B), NEW p \in Pbufs, NEW ext \in [Pbufs -> Nat],
         CountedAnd(B, ext, p), NEW n, NEW m, NEW c,
         IsChain(B, p, c, n), IsFreed(B, p, c, n, m), m /= 0
  PROVE  Unforked(B, c, m)
  <1>1. m \in Nat /\ m >= 1 /\ 1 \in 1 .. m
    BY PbufCount DEF IsChain, IsFreed
  <1>2. PredsIn(B, c[1]) = {}
    BY <1>1, FreedPreds
  <1>3. ASSUME NEW i \in 2 .. m, NEW x \in Pbufs, NEW y \in Pbufs,
               B[x].next = c[i], B[y].next = c[i]
        PROVE  x = y
    <2>1. i \in 1 .. m /\ i > 1
      BY <1>1
    <2>2. PredsIn(B, c[i]) = {c[i - 1]}
      BY <2>1, FreedPreds
    <2>3. x \in PredsIn(B, c[i]) /\ y \in PredsIn(B, c[i])
      BY <1>3 DEF PredsIn
    <2> QED BY <2>2, <2>3
  <1> QED BY <1>2, <1>3 DEF Unforked

\* After pbuf_free the counts are right without the pointer given to it, and the
\* lengths are as they were.
LEMMA FreeKeeps ==
  ASSUME NEW B, PbufTyped(B), NEW p \in Pbufs, NEW ext \in [Pbufs -> Nat],
         CountedAnd(B, ext, p)
  PROVE  /\ PbufTyped(FreeChain(B, p))
         /\ CountedBy(FreeChain(B, p), ext)
         /\ \A q \in Pbufs : SumsUp(B, q) => SumsUp(FreeChain(B, p), q)
  <1> DEFINE N == Cardinality(Pbufs)
             c == ChainOf(B, p)
             F == FreeChain(B, p)
  <1>1. PICK n \in 1 .. N, m \in Nat : IsChain(B, p, c, n) /\ IsFreed(B, p, c, n, m)
    BY FreeChainIs
  <1> DEFINE Gone == {q \in Pbufs : \E i \in 1 .. m : q = c[i]}
  <1> HIDE DEF c, F
  <1>2. /\ n \in Nat /\ n >= 1 /\ N \in Nat /\ m \in 0 .. n
        /\ c \in [1 .. n -> Pbufs]
        /\ c[1] = p
        /\ \A i \in 1 .. n - 1 : B[c[i]].next = c[i + 1]
    BY <1>1, PbufCount DEF IsChain, IsFreed
  <1>3. F = Freed(B, c, n, m)
    BY <1>1 DEF IsFreed, F
  <1>4. /\ DOMAIN F = Pbufs
        /\ \A q \in Gone : F[q] = Idle
        /\ \A q \in Pbufs \ Gone : F[q] = IF m < n /\ q = c[m + 1] THEN [B[q] EXCEPT !.ref = @ - 1] ELSE B[q]
    BY <1>3 DEF Freed
  <1>5. m < n => c[m + 1] \in Pbufs \ Gone /\ B[c[m + 1]].ref > 1
    <2> SUFFICES ASSUME m < n PROVE c[m + 1] \in Pbufs \ Gone /\ B[c[m + 1]].ref > 1
      OBVIOUS
    <2>1. m + 1 \in 1 .. n
      BY <1>2
    <2>2. B[c[m + 1]].ref > 1 /\ \A i \in 1 .. m : B[c[i]].ref = 1
      BY <1>1 DEF IsFreed
    <2> QED BY <1>2, <2>1, <2>2
  <1>6. /\ B \in [Pbufs -> [ref : Nat, len : Int, tot_len : Int, room : Int,
                            next : Pbufs \cup {NoPbuf}]]
        /\ \A q \in Pbufs : B[q].ref = 0 => B[q] = Idle
    BY DEF PbufTyped
  \* What stays keeps all but its count.
  <1>7. ASSUME NEW q \in Pbufs \ Gone
        PROVE  /\ F[q].len = B[q].len /\ F[q].tot_len = B[q].tot_len
               /\ F[q].next = B[q].next /\ F[q].room = B[q].room
               /\ F[q].ref = IF m < n /\ q = c[m + 1] THEN B[q].ref - 1 ELSE B[q].ref
    BY <1>4, <1>6, <1>7
  <1>8. PbufTyped(F)
    <2>1. Idle \in [ref : Nat, len : Int, tot_len : Int, room : Int, next : Pbufs \cup {NoPbuf}]
      BY DEF Idle
    <2>2. ASSUME NEW q \in Pbufs
          PROVE  F[q] \in [ref : Nat, len : Int, tot_len : Int, room : Int, next : Pbufs \cup {NoPbuf}]
                 /\ (F[q].ref = 0 => F[q] = Idle)
      <3>1. CASE q \in Gone
        BY <1>4, <2>1, <3>1
      <3>2. CASE q \notin Gone /\ m < n /\ q = c[m + 1]
        <4>1. F[q] = [B[q] EXCEPT !.ref = @ - 1] /\ B[q].ref > 1
          BY <1>4, <1>5, <3>2
        <4>2. B[q] \in [ref : Nat, len : Int, tot_len : Int, room : Int, next : Pbufs \cup {NoPbuf}]
          BY <1>6
        <4>3. B[q].ref - 1 \in Nat /\ B[q].ref - 1 /= 0
          BY <4>1, <4>2
        <4> QED BY <4>1, <4>2, <4>3
      <3>3. CASE q \notin Gone /\ ~(m < n /\ q = c[m + 1])
        BY <1>4, <1>6, <3>3
      <3> QED BY <3>1, <3>2, <3>3
    <2>3. F = [q \in Pbufs |-> F[q]]
      BY <1>3 DEF Freed
    <2> QED BY <2>2, <2>3 DEF PbufTyped
  <1>9. \A q \in Pbufs : PredsIn(F, q) = PredsIn(B, q) \ Gone
    <2> SUFFICES ASSUME NEW q \in Pbufs, NEW x \in Pbufs
                 PROVE  F[x].next = q <=> B[x].next = q /\ x \notin Gone
      BY DEF PredsIn
    <2>1. CASE x \in Gone
      BY <1>4, <2>1, PbufAssumption DEF Idle
    <2>2. CASE x \notin Gone
      BY <1>7, <2>2
    <2> QED BY <2>1, <2>2
  \* A pbuf that is freed points to the next one of the chain.
  <1>10. ASSUME NEW x \in Gone, NEW q \in Pbufs, B[x].next = q
         PROVE  \E j \in 1 .. m : x = c[j] /\ j < n /\ q = c[j + 1]
    <2>1. PICK j \in 1 .. m : x = c[j]
      OBVIOUS
    <2>2. CASE j < n
      <3>1. j \in 1 .. n - 1
        BY <1>2, <2>2
      <3> QED BY <1>2, <1>10, <2>1, <2>2, <3>1
    <2>3. CASE ~(j < n)
      <3>1. m = n /\ j = n /\ m /= 0
        BY <1>2, <2>3
      <3>2. Unforked(B, c, m)
        BY <1>1, <3>1, FreedUnforked
      <3>3. B[c[n]].next = NoPbuf
        BY <1>1, <3>1, <3>2, ChainEnds
      <3> QED BY <1>10, <2>1, <3>1, <3>3, PbufAssumption
    <2> QED BY <2>2, <2>3
  <1>11. ASSUME NEW q \in Pbufs PROVE F[q].ref = ext[q] + Cardinality(PredsIn(F, q))
    <2>0. /\ ext[q] \in Nat
          /\ B[q].ref = ext[q] + Cardinality(PredsIn(B, q)) + (IF q = p THEN 1 ELSE 0)
          /\ IsFiniteSet(PredsIn(B, q)) /\ Cardinality(PredsIn(B, q)) \in Nat
      BY PredsFinite DEF CountedAnd
    <2>1. CASE q \in Gone
      <3>1. PICK i \in 1 .. m : q = c[i]
        BY <2>1
      <3>2. ext[q] = 0 /\ (i = 1 => PredsIn(B, q) = {}) /\ (i > 1 => i - 1 \in 1 .. m /\ c[i - 1] \in Pbufs /\ PredsIn(B, q) = {c[i - 1]})
        <4>1. /\ ext[c[i]] = 0
              /\ i = 1 => PredsIn(B, c[i]) = {}
              /\ i > 1 => i - 1 \in 1 .. m /\ c[i - 1] \in Pbufs /\ PredsIn(B, c[i]) = {c[i - 1]}
          BY <1>1, FreedPreds
        <4> QED BY <3>1, <4>1
      <3>3. PredsIn(B, q) \ Gone = {}
        <4>1. CASE i = 1
          BY <3>2, <4>1
        <4>2. CASE i > 1
          <5>1. c[i - 1] \in Gone
            BY <3>2, <4>2
          <5> QED BY <3>2, <4>2, <5>1
        <4>3. i = 1 \/ i > 1
          BY <1>2
        <4> QED BY <4>1, <4>2, <4>3
      <3>4. Cardinality(PredsIn(F, q)) = 0
        BY <1>9, <3>3, FS_EmptySet
      <3>5. F[q].ref = 0
        BY <1>4, <2>1 DEF Idle
      <3> QED BY <3>2, <3>4, <3>5
    <2>2. CASE m < n /\ q = c[m + 1]
      <3>1. q \notin Gone /\ F[q].ref = B[q].ref - 1
        BY <1>5, <1>7, <2>2
      <3>2. CASE m = 0
        <4>1. q = p
          BY <1>2, <2>2, <3>2
        <4>2. Gone = {}
          BY <3>2
        <4>3. PredsIn(F, q) = PredsIn(B, q)
          BY <1>9, <4>2
        <4>4. B[q].ref = ext[q] + Cardinality(PredsIn(B, q)) + 1
          BY <2>0, <4>1
        <4> QED BY <2>0, <3>1, <4>3, <4>4
      <3>3. CASE m /= 0
        <4>1. m \in 1 .. m /\ m \in 1 .. n /\ 1 \in 1 .. m /\ m \in 1 .. n - 1
          BY <1>2, <2>2, <3>3
        <4>2. p \in Gone /\ c[m] \in Gone
          BY <1>2, <4>1
        <4>3. q /= p
          BY <3>1, <4>2
        <4>4. B[c[m]].next = q
          BY <1>2, <2>2, <4>1
        <4>5. c[m] \in PredsIn(B, q)
          BY <4>2, <4>4 DEF PredsIn
        <4>6. ASSUME NEW x \in PredsIn(B, q), x \in Gone PROVE x = c[m]
          <5>1. PICK j \in 1 .. m : x = c[j] /\ j < n /\ q = c[j + 1]
            BY <1>10, <4>6 DEF PredsIn
          <5>2. j = m
            <6> SUFFICES ASSUME j < m PROVE FALSE
              BY <1>2
            <6>1. j + 1 \in 1 .. m
              BY <1>2
            <6>2. q \in Gone
              BY <5>1, <6>1
            <6> QED BY <3>1, <6>2
          <5> QED BY <5>1, <5>2
        <4>7. PredsIn(F, q) = PredsIn(B, q) \ {c[m]}
          <5> HIDE DEF Gone
          <5> QED BY <1>9, <4>2, <4>6
        <4>8. Cardinality(PredsIn(F, q)) = Cardinality(PredsIn(B, q)) - 1
          BY <2>0, <4>5, <4>7, FS_RemoveElement
        <4>9. B[q].ref = ext[q] + Cardinality(PredsIn(B, q))
          BY <2>0, <4>3
        <4> QED BY <2>0, <3>1, <4>8, <4>9
      <3> QED BY <3>2, <3>3
    <2>3. CASE q \notin Gone /\ ~(m < n /\ q = c[m + 1])
      <3>1. F[q].ref = B[q].ref
        BY <1>7, <2>3
      <3>2. q /= p
        <4>1. CASE m = 0
          BY <1>2, <2>3, <4>1
        <4>2. CASE m /= 0
          <5>1. 1 \in 1 .. m
            BY <1>2, <4>2
          <5> QED BY <1>2, <2>3, <5>1
        <4> QED BY <4>1, <4>2
      <3>3. ASSUME NEW x \in PredsIn(B, q), x \in Gone PROVE FALSE
        <4>1. PICK j \in 1 .. m : x = c[j] /\ j < n /\ q = c[j + 1]
          BY <1>10, <3>3 DEF PredsIn
        <4>2. CASE j < m
          <5>1. j + 1 \in 1 .. m
            BY <1>2, <4>2
          <5> QED BY <2>3, <4>1, <5>1
        <4>3. CASE j = m
          BY <2>3, <4>1, <4>3
        <4> QED BY <1>2, <4>2, <4>3
      <3>4. PredsIn(F, q) = PredsIn(B, q)
        <4> HIDE DEF Gone
        <4> QED BY <1>9, <3>3
      <3> QED BY <2>0, <3>1, <3>2, <3>4
    <2> QED BY <2>1, <2>2, <2>3
  <1>12. ASSUME NEW q \in Pbufs, SumsUp(B, q) PROVE SumsUp(F, q)
    <2>1. CASE q \in Gone
      <3>1. F[q] = Idle
        BY <1>4, <2>1
      <3> QED BY <3>1 DEF SumsUp, Behind, Idle
    <2>2. CASE q \notin Gone
      <3>1. F[q].len = B[q].len /\ F[q].tot_len = B[q].tot_len /\ F[q].next = B[q].next
        BY <1>7, <2>2
      <3>2. CASE B[q].next = NoPbuf
        BY <1>12, <3>1, <3>2 DEF SumsUp, Behind
      <3>3. CASE B[q].next /= NoPbuf
        <4>1. B[q].next \in Pbufs
          BY <1>6, <3>3
        <4>2. B[q].next \notin Gone
          <5> SUFFICES ASSUME NEW i \in 1 .. m, B[q].next = c[i] PROVE FALSE
            OBVIOUS
          <5>1. q \in PredsIn(B, c[i])
            BY DEF PredsIn
          <5>2. (i = 1 => PredsIn(B, c[i]) = {}) /\ (i > 1 => i - 1 \in 1 .. m /\ PredsIn(B, c[i]) = {c[i - 1]})
            BY <1>1, FreedPreds
          <5>3. i > 1 /\ q = c[i - 1] /\ i - 1 \in 1 .. m
            BY <1>2, <5>1, <5>2
          <5> QED BY <2>2, <5>3
        <4>3. F[B[q].next].tot_len = B[B[q].next].tot_len
          BY <1>7, <4>1, <4>2
        <4> QED BY <1>12, <3>1, <3>3, <4>3 DEF SumsUp, Behind
      <3> QED BY <3>2, <3>3
    <2> QED BY <2>1, <2>2
  <1> QED BY <1>8, <1>11, <1>12 DEF CountedBy, F

-----------------------------------------------------------------------------
(* The operations, one by one.                                             *)

LEMMA PbufInitOK == PbufInit => PbufInv
  <1> SUFFICES ASSUME PbufInit PROVE PbufInv
    OBVIOUS
  <1>1. buf = [p \in Pbufs |-> Idle] /\ held = [p \in Pbufs |-> 0]
    BY DEF PbufInit
  <1>2. PbufTyped(buf)
    <2>1. Idle \in [ref : Nat, len : Int, tot_len : Int, room : Int, next : Pbufs \cup {NoPbuf}]
      BY DEF Idle
    <2> QED BY <1>1, <2>1 DEF PbufTyped
  <1>3. ASSUME NEW p \in Pbufs PROVE buf[p].ref = held[p] + Cardinality(PredsIn(buf, p)) /\ SumsUp(buf, p)
    <2>1. PredsIn(buf, p) = {}
      BY <1>1, PbufAssumption DEF PredsIn, Idle
    <2>2. Cardinality(PredsIn(buf, p)) = 0
      BY <2>1, FS_EmptySet
    <2>3. buf[p].ref = held[p] + Cardinality(PredsIn(buf, p))
      BY <1>1, <2>2 DEF Idle
    <2> QED BY <1>1, <2>3 DEF Idle, SumsUp, Behind
  <1> QED BY <1>1, <1>2, <1>3 DEF PbufInv, PbufsOK, CountedBy

\* What the invariant says of one pbuf.
LEMMA PbufFacts ==
  ASSUME NEW B, NEW ext, PbufsOK(B, ext), NEW p \in Pbufs
  PROVE  /\ B[p] \in [ref : Nat, len : Int, tot_len : Int, room : Int,
                      next : Pbufs \cup {NoPbuf}]
         /\ B[p].ref = 0 => B[p] = Idle
         /\ ext[p] \in Nat
         /\ B[p].ref = ext[p] + Cardinality(PredsIn(B, p))
         /\ SumsUp(B, p)
         /\ IsFiniteSet(PredsIn(B, p)) /\ Cardinality(PredsIn(B, p)) \in Nat
         /\ B[p].next /= NoPbuf => B[p].next \in Pbufs /\ B[B[p].next].ref > 0
  <1>1. /\ B[p] \in [ref : Nat, len : Int, tot_len : Int, room : Int,
                     next : Pbufs \cup {NoPbuf}]
        /\ B[p].ref = 0 => B[p] = Idle
        /\ ext[p] \in Nat
        /\ B[p].ref = ext[p] + Cardinality(PredsIn(B, p))
        /\ SumsUp(B, p)
    BY DEF PbufsOK, PbufTyped, CountedBy
  <1>2. IsFiniteSet(PredsIn(B, p)) /\ Cardinality(PredsIn(B, p)) \in Nat
    BY PredsFinite
  <1>3. ASSUME B[p].next /= NoPbuf PROVE B[p].next \in Pbufs /\ B[B[p].next].ref > 0
    <2> DEFINE q == B[p].next
    <2>1. q \in Pbufs
      BY <1>1, <1>3
    <2> HIDE DEF q
    <2>2. p \in PredsIn(B, q)
      BY <2>1 DEF PredsIn, q
    <2>3. Cardinality(PredsIn(B, q)) \in Nat /\ Cardinality(PredsIn(B, q)) /= 0
      BY <2>2, PredsFinite
    <2>4. B[q].ref = ext[q] + Cardinality(PredsIn(B, q)) /\ ext[q] \in Nat
      BY <2>1 DEF PbufsOK, CountedBy
    <2> QED BY <2>1, <2>3, <2>4 DEF q
  <1> QED BY <1>1, <1>2, <1>3

\* pbuf_free, wherever it is called: B is as the call finds it.
LEMMA ReleaseOK ==
  ASSUME NEW B, PbufTyped(B), NEW p \in Pbufs, NEW ext \in [Pbufs -> Nat],
         CountedAnd(B, ext, p), \A q \in Pbufs : SumsUp(B, q)
  PROVE  PbufsOK(FreeChain(B, p), ext)
  BY FreeKeeps DEF PbufsOK

LEMMA PbufFreeOK ==
  ASSUME PbufInv, NEW p \in Pbufs, PbufFree(p) PROVE PbufInv'
  <1> DEFINE ext == [held EXCEPT ![p] = @ - 1]
  <1>1. held[p] > 0 /\ buf' = FreeChain(buf, p) /\ held' = ext
    BY DEF PbufFree
  <1>2. PbufsOK(buf, held)
    BY DEF PbufInv
  <1>3. PbufTyped(buf) /\ held \in [Pbufs -> Nat] /\ \A q \in Pbufs : SumsUp(buf, q)
    BY <1>2 DEF PbufsOK
  <1>4. ext \in [Pbufs -> Nat]
    BY <1>1, <1>3
  <1>5. ASSUME NEW q \in Pbufs
        PROVE  buf[q].ref = ext[q] + Cardinality(PredsIn(buf, q)) + (IF q = p THEN 1 ELSE 0)
    <2> DEFINE k == Cardinality(PredsIn(buf, q))
    <2>1. buf[q].ref = held[q] + k /\ k \in Nat /\ held[q] \in Nat
      BY <1>2, PbufFacts
    <2> HIDE DEF k
    <2>2. CASE q = p
      <3>1. ext[q] = held[q] - 1
        BY <1>3, <2>2
      <3> QED BY <2>1, <2>2, <3>1 DEF k
    <2>3. CASE q /= p
      <3>1. ext[q] = held[q]
        BY <1>3, <2>3
      <3> QED BY <2>1, <2>3, <3>1 DEF k
    <2> QED BY <2>2, <2>3
  <1>6. CountedAnd(buf, ext, p)
    BY <1>5 DEF CountedAnd
  <1> HIDE DEF ext
  <1>7. PbufsOK(FreeChain(buf, p), ext)
    BY <1>3, <1>4, <1>6, ReleaseOK
  <1> QED BY <1>1, <1>7 DEF PbufInv

\* One more pointer to p, counted.
LEMMA RefUp ==
  ASSUME NEW B, NEW ext, PbufsOK(B, ext), NEW p \in Pbufs
  PROVE  PbufsOK([B EXCEPT ![p].ref = @ + 1], [ext EXCEPT ![p] = @ + 1])
  <1> DEFINE C == [B EXCEPT ![p].ref = @ + 1]
             D == [ext EXCEPT ![p] = @ + 1]
  <1>1. C = [B EXCEPT ![p].ref = @ + 1] /\ D = [ext EXCEPT ![p] = @ + 1]
    OBVIOUS
  <1>2. PbufsOK(B, ext)
    OBVIOUS
  <1> HIDE DEF C, D
  <1>3. B \in [Pbufs -> [ref : Nat, len : Int, tot_len : Int, room : Int, next : Pbufs \cup {NoPbuf}]]
        /\ ext \in [Pbufs -> Nat]
    BY <1>2 DEF PbufsOK, PbufTyped
  <1>4. \A q \in Pbufs : /\ C[q].next = B[q].next
                         /\ C[q].len = B[q].len
                         /\ C[q].tot_len = B[q].tot_len
                         /\ C[q].ref = B[q].ref + (IF q = p THEN 1 ELSE 0)
                         /\ D[q] = ext[q] + (IF q = p THEN 1 ELSE 0)
    BY <1>1, <1>3
  <1>5. ASSUME NEW q \in Pbufs
        PROVE  /\ C[q] \in [ref : Nat, len : Int, tot_len : Int, room : Int, next : Pbufs \cup {NoPbuf}]
               /\ C[q].ref = 0 => C[q] = Idle
               /\ C[q].ref = D[q] + Cardinality(PredsIn(C, q))
               /\ SumsUp(C, q)
    <2>1. C[q] \in [ref : Nat, len : Int, tot_len : Int, room : Int, next : Pbufs \cup {NoPbuf}]
      BY <1>1, <1>3
    <2>2. /\ B[q].ref \in Nat /\ (B[q].ref = 0 => B[q] = Idle)
          /\ B[q].ref = ext[q] + Cardinality(PredsIn(B, q))
          /\ SumsUp(B, q) /\ ext[q] \in Nat /\ Cardinality(PredsIn(B, q)) \in Nat
          /\ (B[q].next /= NoPbuf => B[q].next \in Pbufs)
      BY <1>2, PbufFacts
    <2>3. PredsIn(C, q) = PredsIn(B, q)
      BY <1>4 DEF PredsIn
    <2>4. C[q].ref = 0 => C[q] = Idle
      <3> SUFFICES ASSUME C[q].ref = 0 PROVE C[q] = Idle
        OBVIOUS
      <3>1. q /= p /\ B[q].ref = 0
        BY <1>4, <2>2
      <3>2. C[q] = B[q]
        BY <1>1, <1>3, <3>1
      <3> QED BY <2>2, <3>1, <3>2
    <2>5. C[q].ref = D[q] + Cardinality(PredsIn(C, q))
      BY <1>4, <2>2, <2>3
    <2>6. SumsUp(C, q)
      BY <1>4, <2>2 DEF SumsUp, Behind
    <2> QED BY <2>1, <2>4, <2>5, <2>6
  <1>6. D \in [Pbufs -> Nat]
    BY <1>1, <1>3
  <1>7. C = [q \in Pbufs |-> C[q]]
    BY <1>1, <1>3
  <1>8. PbufsOK(C, D)
    BY <1>5, <1>6, <1>7 DEF PbufsOK, PbufTyped, CountedBy
  <1> QED BY <1>8 DEF C, D

LEMMA PbufRefOK ==
  ASSUME PbufInv, NEW p \in Pbufs, PbufRef(p) PROVE PbufInv'
  BY RefUp DEF PbufInv, PbufRef

\* A header is hidden or shown again: d is what the length grows by.
LEMMA HeaderOK ==
  ASSUME PbufInv, NEW p \in Pbufs, IsHead(p), NEW d \in Int, UNCHANGED held,
         buf' = [buf EXCEPT ![p].len = @ + d, ![p].tot_len = @ + d, ![p].room = @ - d]
  PROVE  PbufInv'
  <1>1. PbufsOK(buf, held)
    BY DEF PbufInv
  <1>2. buf \in [Pbufs -> [ref : Nat, len : Int, tot_len : Int, room : Int, next : Pbufs \cup {NoPbuf}]]
        /\ held \in [Pbufs -> Nat]
    BY <1>1 DEF PbufsOK, PbufTyped
  <1>3. /\ buf'[p].len = buf[p].len + d /\ buf'[p].tot_len = buf[p].tot_len + d
        /\ buf'[p].next = buf[p].next /\ buf'[p].ref = buf[p].ref
        /\ buf'[p] \in [ref : Nat, len : Int, tot_len : Int, room : Int, next : Pbufs \cup {NoPbuf}]
    <2> DEFINE r == buf[p]
    <2>1. r \in [ref : Nat, len : Int, tot_len : Int, room : Int, next : Pbufs \cup {NoPbuf}]
      BY <1>2
    <2>2. buf'[p] = [r EXCEPT !.len = @ + d, !.tot_len = @ + d, !.room = @ - d]
      BY <1>2
    <2> HIDE DEF r
    <2>3. r.len + d \in Int /\ r.tot_len + d \in Int /\ r.room - d \in Int
      BY <2>1
    <2>4. /\ buf'[p].len = r.len + d /\ buf'[p].tot_len = r.tot_len + d
          /\ buf'[p].next = r.next /\ buf'[p].ref = r.ref
      BY <2>1, <2>2
    <2>5. buf'[p] \in [ref : Nat, len : Int, tot_len : Int, room : Int, next : Pbufs \cup {NoPbuf}]
      <3>1. buf'[p] = [ref |-> r.ref, len |-> r.len + d, tot_len |-> r.tot_len + d,
                       room |-> r.room - d, next |-> r.next]
        BY <2>1, <2>2
      <3>2. r.ref \in Nat /\ r.next \in Pbufs \cup {NoPbuf}
        BY <2>1
      <3> QED BY ONLY <2>3, <3>1, <3>2
    <2> QED BY <2>4, <2>5 DEF r
  <1>4. \A q \in Pbufs : q /= p => buf'[q] = buf[q]
    BY <1>2
  <1>5. held[p] > 0 /\ \A q \in Pbufs : buf[q].next /= p
    BY DEF IsHead, Preds
  <1>6. ASSUME NEW q \in Pbufs
        PROVE  /\ buf'[q] \in [ref : Nat, len : Int, tot_len : Int, room : Int, next : Pbufs \cup {NoPbuf}]
               /\ buf'[q].ref = 0 => buf'[q] = Idle
               /\ buf'[q].ref = held'[q] + Cardinality(PredsIn(buf', q))
               /\ SumsUp(buf', q)
    <2>1. /\ buf[q] \in [ref : Nat, len : Int, tot_len : Int, room : Int, next : Pbufs \cup {NoPbuf}]
          /\ (buf[q].ref = 0 => buf[q] = Idle)
          /\ buf[q].ref = held[q] + Cardinality(PredsIn(buf, q))
          /\ SumsUp(buf, q) /\ held[q] \in Nat /\ Cardinality(PredsIn(buf, q)) \in Nat
          /\ (buf[q].next /= NoPbuf => buf[q].next \in Pbufs)
      BY <1>1, PbufFacts
    <2>2. PredsIn(buf', q) = PredsIn(buf, q)
      BY <1>3, <1>4 DEF PredsIn
    <2>3. buf'[q].ref = buf[q].ref
      BY <1>3, <1>4
    <2>4. Behind(buf', q) = Behind(buf, q)
      <3>1. buf'[q].next = buf[q].next
        BY <1>3, <1>4
      <3>2. CASE buf[q].next = NoPbuf
        BY <3>1, <3>2 DEF Behind
      <3>3. CASE buf[q].next /= NoPbuf
        <4>1. buf'[buf[q].next] = buf[buf[q].next]
          BY <1>4, <1>5, <2>1, <3>3
        <4>2. Behind(buf, q) = buf[buf[q].next].tot_len
          BY <3>3 DEF Behind
        <4>3. Behind(buf', q) = buf'[buf[q].next].tot_len
          BY <3>1, <3>3 DEF Behind
        <4> QED BY <4>1, <4>2, <4>3
      <3> QED BY <3>2, <3>3
    <2>5. SumsUp(buf', q)
      <3>1. buf[q].tot_len = buf[q].len + Behind(buf, q)
        BY <2>1 DEF SumsUp
      <3>2. Behind(buf, q) \in Int
        BY <1>2, <2>1 DEF Behind
      <3>3. buf'[q].tot_len = buf'[q].len + Behind(buf, q)
        <4>1. CASE q = p
          <5>1. buf[p].len \in Int /\ buf[p].tot_len = buf[p].len + Behind(buf, p) /\ Behind(buf, p) \in Int
            BY <2>1, <3>1, <3>2, <4>1
          <5>2. buf'[p].len = buf[p].len + d /\ buf'[p].tot_len = buf[p].tot_len + d
            BY <1>3
          <5>3. buf'[p].tot_len = buf'[p].len + Behind(buf, p)
            BY ONLY <5>1, <5>2, d \in Int
          <5> QED BY <4>1, <5>3
        <4>2. CASE q /= p
          BY <1>4, <3>1, <4>2
        <4> QED BY <4>1, <4>2
      <3> QED BY <2>4, <3>3 DEF SumsUp
    <2>6. buf'[q].ref = 0 => buf'[q] = Idle
      <3>1. CASE q = p
        <4>1. buf[q].ref /= 0
          BY <1>5, <2>1, <3>1
        <4> QED BY <2>3, <4>1
      <3>2. CASE q /= p
        BY <1>4, <2>1, <3>2
      <3> QED BY <3>1, <3>2
    <2> QED BY <1>3, <1>4, <2>1, <2>2, <2>3, <2>5, <2>6
  <1>7. buf' = [q \in Pbufs |-> buf'[q]]
    BY <1>2
  <1> QED BY <1>2, <1>6, <1>7 DEF PbufInv, PbufsOK, PbufTyped, CountedBy

LEMMA DechainOK ==
  ASSUME PbufInv, NEW p \in Pbufs, PbufDechain(p) PROVE PbufInv'
  <1> DEFINE q == buf[p].next
             cut == [buf EXCEPT ![q].tot_len = buf[p].tot_len - buf[p].len,
                                ![p].next = NoPbuf, ![p].tot_len = buf[p].len]
             Rec == [ref : Nat, len : Int, tot_len : Int, room : Int, next : Pbufs \cup {NoPbuf}]
  <1>1. /\ held[p] > 0 /\ \A x \in Pbufs : buf[x].next /= p
        /\ q /= NoPbuf
        /\ buf' = FreeChain(cut, q) /\ held' = held
    BY DEF PbufDechain, IsHead, Preds
  <1>2. PbufsOK(buf, held)
    BY DEF PbufInv
  <1>3. held \in [Pbufs -> Nat] /\ buf \in [Pbufs -> Rec]
    BY <1>2 DEF PbufsOK, PbufTyped
  <1>4. /\ q \in Pbufs /\ q /= p
        /\ buf[p].ref > 0 /\ buf[q].ref > 0
        /\ buf[p].tot_len - buf[p].len = buf[q].tot_len
    <2>1. q \in Pbufs /\ buf[q].ref > 0 /\ buf[p].ref = held[p] + Cardinality(PredsIn(buf, p))
          /\ Cardinality(PredsIn(buf, p)) \in Nat /\ held[p] \in Nat
      BY <1>1, <1>2, PbufFacts
    <2>2. buf[p].tot_len = buf[p].len + buf[q].tot_len
      BY <1>1, <1>2, PbufFacts DEF SumsUp, Behind
    <2>3. buf[p].len \in Int /\ buf[q].tot_len \in Int /\ buf[p].tot_len \in Int
      BY <1>3, <2>1
    <2>4. buf[p].tot_len - buf[p].len = buf[q].tot_len
      <3> HIDE DEF q
      <3> QED BY <2>2, <2>3
    <2>5. buf[p].ref > 0
      BY <1>1, <2>1
    <2>6. q /= p
      BY <1>1
    <2> QED BY <2>1, <2>4, <2>5, <2>6
  <1>5. /\ \A x \in Pbufs : x /= p => cut[x] = buf[x]
        /\ cut[p].ref = buf[p].ref /\ cut[p].len = buf[p].len /\ cut[p].tot_len = buf[p].len
        /\ cut[p].next = NoPbuf
        /\ cut \in [Pbufs -> Rec]
    <2> HIDE DEF q
    <2>1. ASSUME NEW x \in Pbufs, x /= p PROVE cut[x] = buf[x]
      <3>1. CASE x = q
        <4>1. cut[x] = [buf[x] EXCEPT !.tot_len = buf[p].tot_len - buf[p].len]
          BY <1>3, <1>4, <2>1, <3>1
        <4>2. cut[x] = [buf[x] EXCEPT !.tot_len = buf[x].tot_len]
          BY <1>4, <3>1, <4>1
        <4> QED BY <1>3, <4>2
      <3>2. CASE x /= q
        BY <1>3, <2>1, <3>2
      <3> QED BY <3>1, <3>2
    <2>2. cut[p] = [buf[p] EXCEPT !.next = NoPbuf, !.tot_len = buf[p].len]
      BY <1>3, <1>4
    <2>3. /\ cut[p].ref = buf[p].ref /\ cut[p].len = buf[p].len /\ cut[p].tot_len = buf[p].len
          /\ cut[p].next = NoPbuf /\ cut[p] \in Rec
      BY <1>3, <2>2
    <2>4. cut = [x \in Pbufs |-> cut[x]]
      BY <1>3
    <2>5. \A x \in Pbufs : cut[x] \in Rec
      BY <1>3, <2>1, <2>3
    <2> HIDE DEF cut, Rec
    <2>6. cut \in [Pbufs -> Rec]
      BY <2>4, <2>5
    <2> QED BY <2>1, <2>3, <2>6
  <1> HIDE DEF cut, q
  <1>6. PbufTyped(cut)
    <2>1. ASSUME NEW x \in Pbufs, cut[x].ref = 0 PROVE cut[x] = Idle
      <3>1. x /= p
        BY <1>4, <1>5, <2>1
      <3> QED BY <1>2, <1>5, <2>1, <3>1 DEF PbufsOK, PbufTyped
    <2> QED BY <1>5, <2>1 DEF PbufTyped
  <1>7. ASSUME NEW r \in Pbufs
        PROVE  cut[r].ref = held[r] + Cardinality(PredsIn(cut, r)) + (IF r = q THEN 1 ELSE 0)
    <2>1. /\ buf[r].ref = held[r] + Cardinality(PredsIn(buf, r)) /\ held[r] \in Nat
          /\ IsFiniteSet(PredsIn(buf, r)) /\ Cardinality(PredsIn(buf, r)) \in Nat
      BY <1>2, PbufFacts
    <2>2. cut[r].ref = buf[r].ref
      BY <1>5
    <2>3. CASE r = q
      <3>1. PredsIn(cut, r) = PredsIn(buf, r) \ {p} /\ p \in PredsIn(buf, r)
        BY <1>4, <1>5, <2>3, PbufAssumption DEF PredsIn, q
      <3>2. Cardinality(PredsIn(cut, r)) = Cardinality(PredsIn(buf, r)) - 1
        BY <2>1, <3>1, FS_RemoveElement
      <3> QED BY <2>1, <2>2, <2>3, <3>2
    <2>4. CASE r /= q
      <3>1. PredsIn(cut, r) = PredsIn(buf, r)
        BY <1>4, <1>5, <2>4, PbufAssumption DEF PredsIn, q
      <3> QED BY <2>1, <2>2, <2>4, <3>1
    <2> QED BY <2>3, <2>4
  <1>8. ASSUME NEW r \in Pbufs PROVE SumsUp(cut, r)
    <2>1. CASE r = p
      <3>1. buf[p].len \in Int
        BY <1>3
      <3> QED BY <1>5, <2>1, <3>1 DEF SumsUp, Behind
    <2>2. CASE r /= p
      <3>1. cut[r] = buf[r] /\ buf[r].next /= p /\ SumsUp(buf, r)
            /\ (buf[r].next /= NoPbuf => buf[r].next \in Pbufs)
        BY <1>1, <1>2, <1>5, <2>2, PbufFacts
      <3>2. buf[r].next /= NoPbuf => cut[buf[r].next] = buf[buf[r].next]
        BY <1>5, <3>1
      <3> QED BY <3>1, <3>2 DEF SumsUp, Behind
    <2> QED BY <2>1, <2>2
  <1>9. CountedAnd(cut, held, q)
    BY <1>7 DEF CountedAnd
  <1>10. PbufsOK(FreeChain(cut, q), held)
    BY <1>3, <1>4, <1>6, <1>8, <1>9, ReleaseOK
  <1> QED BY <1>1, <1>10 DEF PbufInv

-----------------------------------------------------------------------------
(* What is changed through the head of a chain that is not shared.         *)

\* c[1] .. c[n] are p and all that follows it, each of them once, and only what
\* is before it in c points to any of them.
IsLine(B, p, c, n) ==
  /\ n \in 1 .. Cardinality(Pbufs)
  /\ c \in [1 .. n -> Pbufs]
  /\ c[1] = p
  /\ \A i \in 1 .. n - 1 : B[c[i]].next = c[i + 1]
  /\ B[c[n]].next = NoPbuf
  /\ \A i, j \in 1 .. n : c[i] = c[j] => i = j
  /\ \A x \in Pbufs, i \in 1 .. n : B[x].next = c[i] => i > 1 /\ x = c[i - 1]

LEMMA HeadLine ==
  ASSUME PbufTyped(buf), NEW p \in Pbufs, Unshared(p)
  PROVE  \E n : /\ IsLine(buf, p, ChainOf(buf, p), n)
                /\ DOMAIN ChainOf(buf, p) = 1 .. n
                /\ LastOf(buf, p) = ChainOf(buf, p)[n]
                /\ Members(buf, p) = {ChainOf(buf, p)[i] : i \in 1 .. n}
  <1> DEFINE N == Cardinality(Pbufs)
             c == ChainOf(buf, p)
  <1>1. PICK n \in 1 .. N : DOMAIN c = 1 .. n /\ IsChain(buf, p, c, n)
    BY ChainIs
  <1>2. Members(buf, p) = {c[i] : i \in 1 .. n}
    BY <1>1 DEF Members
  <1>3. LastOf(buf, p) = c[Cardinality(DOMAIN c)]
    BY DEF LastOf
  <1> HIDE DEF c
  <1>4. /\ n \in Nat /\ n >= 1 /\ N \in Nat /\ n \in 1 .. n /\ 1 \in 1 .. n
        /\ c \in [1 .. n -> Pbufs]
        /\ c[1] = p
        /\ \A i \in 1 .. n - 1 : buf[c[i]].next = c[i + 1]
    BY <1>1, PbufCount DEF IsChain
  <1>5. LastOf(buf, p) = c[n]
    <2>1. Cardinality(1 .. n) = n
      BY <1>4, FS_Interval
    <2> QED BY <1>1, <1>3, <2>1
  <1>6. PredsIn(buf, p) = {} /\ \A q \in Members(buf, p) : Cardinality(PredsIn(buf, q)) <= 1
    BY DEF Unshared, IsHead, Preds, PredsIn
  <1>7. Unforked(buf, c, n)
    <2>1. ASSUME NEW i \in 2 .. n PROVE \A x, y \in Pbufs : buf[x].next = c[i] /\ buf[y].next = c[i] => x = y
      <3>1. i \in 1 .. n
        BY <1>4
      <3>2. Cardinality(PredsIn(buf, c[i])) <= 1
        BY <1>2, <1>6, <3>1
      <3> QED BY <3>2, OnePred
    <2> QED BY <1>4, <1>6, <2>1 DEF Unforked
  <1>8. \A i, j \in 1 .. n : c[i] = c[j] => i = j
    BY <1>1, <1>4, <1>7, NoRepeat
  <1>9. buf[c[n]].next = NoPbuf
    BY <1>1, <1>7, ChainEnds
  <1>10. ASSUME NEW x \in Pbufs, NEW i \in 1 .. n, buf[x].next = c[i] PROVE i > 1 /\ x = c[i - 1]
    <2>1. i /= 1
      BY <1>4, <1>6, <1>10 DEF PredsIn
    <2>2. i > 1 /\ i \in 2 .. n /\ i - 1 \in 1 .. n - 1 /\ (i - 1) + 1 = i /\ i - 1 \in 1 .. n
      BY <1>4, <2>1
    <2>3. c[i - 1] \in Pbufs /\ buf[c[i - 1]].next = c[i]
      BY <1>4, <2>2
    <2>4. x = c[i - 1]
      BY <1>7, <1>10, <2>2, <2>3 DEF Unforked
    <2> QED BY <2>2, <2>4
  <1>11. IsLine(buf, p, c, n)
    BY <1>1, <1>4, <1>8, <1>9, <1>10 DEF IsLine
  <1> QED BY <1>1, <1>2, <1>5, <1>11 DEF c

\* pbuf_cat, or pbuf_chain without its pbuf_ref.
LEMMA AppendedOK ==
  ASSUME PbufsOK(buf, held), NEW h \in Pbufs, NEW t \in Pbufs,
         Unshared(h), held[t] > 0, t \notin Members(buf, h)
  PROVE  PbufsOK(Appended(buf, h, t), [held EXCEPT ![t] = @ - 1])
  <1> DEFINE A == Appended(buf, h, t)
             ext == [held EXCEPT ![t] = @ - 1]
             M == Members(buf, h)
             l == LastOf(buf, h)
             c == ChainOf(buf, h)
             T == buf[t].tot_len
             Rec == [ref : Nat, len : Int, tot_len : Int, room : Int, next : Pbufs \cup {NoPbuf}]
  <1>1. PbufTyped(buf) /\ held \in [Pbufs -> Nat] /\ buf \in [Pbufs -> Rec]
    BY DEF PbufsOK, PbufTyped
  <1>2. PICK n : IsLine(buf, h, c, n) /\ l = c[n] /\ M = {c[i] : i \in 1 .. n}
    BY <1>1, HeadLine
  <1>3. /\ DOMAIN A = Pbufs
        /\ \A q \in Pbufs \ M : A[q] = buf[q]
        /\ \A q \in Pbufs \cap M : A[q] = [buf[q] EXCEPT !.tot_len = @ + T, !.next = IF q = l THEN t ELSE @]
        /\ A = [q \in Pbufs |-> A[q]]
    BY DEF Appended
  <1> HIDE DEF A, c, M, l
  <1>4. /\ n \in Nat /\ n >= 1 /\ n \in 1 .. n /\ 1 \in 1 .. n
        /\ c \in [1 .. n -> Pbufs]
        /\ c[1] = h
        /\ \A i \in 1 .. n - 1 : buf[c[i]].next = c[i + 1]
        /\ buf[l].next = NoPbuf
        /\ \A i, j \in 1 .. n : c[i] = c[j] => i = j
        /\ \A x \in Pbufs, i \in 1 .. n : buf[x].next = c[i] => i > 1 /\ x = c[i - 1]
        /\ l \in M /\ M \subseteq Pbufs /\ t \notin M
    <2>1. l \in M /\ n \in Nat /\ n >= 1 /\ n \in 1 .. n /\ 1 \in 1 .. n
      BY <1>2, PbufCount DEF IsLine
    <2>2. c \in [1 .. n -> Pbufs]
      BY <1>2 DEF IsLine
    <2> QED BY <1>2, <2>1, <2>2 DEF IsLine, M
  <1>5. T \in Int /\ Rec = [ref : Nat, len : Int, tot_len : Int, room : Int, next : Pbufs \cup {NoPbuf}]
    BY <1>1
  <1>6. ASSUME NEW q \in M
        PROVE  /\ q \in Pbufs /\ A[q] \in Rec
               /\ A[q].ref = buf[q].ref /\ A[q].len = buf[q].len
               /\ A[q].tot_len = buf[q].tot_len + T
               /\ A[q].next = IF q = l THEN t ELSE buf[q].next
    <2> DEFINE r == buf[q]
               y == IF q = l THEN t ELSE r.next
    <2>1. q \in Pbufs /\ r \in Rec
      BY <1>1, <1>4
    <2>2. A[q] = [r EXCEPT !.tot_len = @ + T, !.next = y]
      BY <1>3, <2>1
    <2>3. y \in Pbufs \cup {NoPbuf} /\ r.tot_len + T \in Int
      BY <1>5, <2>1
    <2> HIDE DEF r, y, T
    <2>4. A[q] = [ref |-> r.ref, len |-> r.len, tot_len |-> r.tot_len + T, room |-> r.room, next |-> y]
      BY <2>1, <2>2
    <2>5. A[q] \in Rec
      BY <2>1, <2>3, <2>4
    <2> QED BY <2>1, <2>4, <2>5 DEF r, y
  <1>7. A \in [Pbufs -> Rec]
    <2>1. \A q \in Pbufs : A[q] \in Rec
      BY <1>1, <1>3, <1>6
    <2> HIDE DEF Rec
    <2> QED BY <1>3, <2>1
  <1>8. PbufTyped(A)
    <2>1. ASSUME NEW q \in Pbufs, A[q].ref = 0 PROVE A[q] = Idle
      <3>1. CASE q \in M
        <4>1. PICK i \in 1 .. n : q = c[i]
          BY <1>2, <3>1
        <4>2. buf[q].ref = 0 /\ buf[q].ref = held[q] + Cardinality(PredsIn(buf, q)) /\ held[q] \in Nat
              /\ Cardinality(PredsIn(buf, q)) \in Nat
          BY <1>6, <2>1, <3>1, PbufFacts
        <4>3. held[q] = 0 /\ Cardinality(PredsIn(buf, q)) = 0
          BY <4>2
        <4>4. PredsIn(buf, q) = {}
          BY <4>3, PredsFinite
        <4>5. held[h] > 0
          BY DEF Unshared, IsHead
        <4>6. i > 1
          BY <1>4, <4>1, <4>3, <4>5
        <4>7. i - 1 \in 1 .. n - 1 /\ (i - 1) + 1 = i /\ i - 1 \in 1 .. n
          BY <1>4, <4>6
        <4>8. c[i - 1] \in PredsIn(buf, q)
          BY <1>4, <4>1, <4>7 DEF PredsIn
        <4> QED BY <4>4, <4>8
      <3>2. CASE q \notin M
        BY <1>1, <1>3, <2>1, <3>2 DEF PbufTyped
      <3> QED BY <3>1, <3>2
    <2> QED BY <1>7, <2>1 DEF PbufTyped
  <1>9. ASSUME NEW q \in Pbufs PROVE A[q].ref = ext[q] + Cardinality(PredsIn(A, q))
    <2>1. /\ buf[q].ref = held[q] + Cardinality(PredsIn(buf, q)) /\ held[q] \in Nat
          /\ IsFiniteSet(PredsIn(buf, q)) /\ Cardinality(PredsIn(buf, q)) \in Nat
      BY PbufFacts
    <2>2. A[q].ref = buf[q].ref
      BY <1>3, <1>6
    <2>3. \A x \in Pbufs : A[x].next = IF x = l THEN t ELSE buf[x].next
      BY <1>3, <1>4, <1>6
    <2>4. CASE q = t
      <3>1. PredsIn(A, q) = PredsIn(buf, q) \cup {l} /\ l \notin PredsIn(buf, q)
        BY <1>4, <2>3, <2>4, PbufAssumption DEF PredsIn
      <3>2. Cardinality(PredsIn(A, q)) = Cardinality(PredsIn(buf, q)) + 1
        BY <2>1, <3>1, FS_AddElement
      <3>3. ext[q] = held[q] - 1
        BY <1>1, <2>4
      <3> QED BY <2>1, <2>2, <3>2, <3>3
    <2>5. CASE q /= t
      <3>1. PredsIn(A, q) = PredsIn(buf, q)
        BY <1>4, <2>3, <2>5, PbufAssumption DEF PredsIn
      <3>2. ext[q] = held[q]
        BY <1>1, <2>5
      <3> QED BY <2>1, <2>2, <3>1, <3>2
    <2> QED BY <2>4, <2>5
  <1>10. ASSUME NEW q \in Pbufs PROVE SumsUp(A, q)
    <2>1. SumsUp(buf, q) /\ (buf[q].next /= NoPbuf => buf[q].next \in Pbufs)
          /\ buf[q].len \in Int /\ buf[q].tot_len \in Int
      BY PbufFacts
    <2>2. CASE q \notin M
      <3>1. A[q] = buf[q]
        BY <1>3, <2>2
      <3>2. CASE buf[q].next = NoPbuf
        BY <2>1, <3>1, <3>2 DEF SumsUp, Behind
      <3>3. CASE buf[q].next /= NoPbuf
        <4> DEFINE r == buf[q].next
        <4>1. r \notin M
          <5> SUFFICES ASSUME r \in M PROVE FALSE
            OBVIOUS
          <5>1. PICK i \in 1 .. n : r = c[i]
            BY <1>2
          <5>2. i > 1 /\ q = c[i - 1]
            BY <1>4, <5>1
          <5>3. i - 1 \in 1 .. n
            BY <1>4, <5>2
          <5>4. q \in M
            BY <1>2, <5>2, <5>3
          <5> QED BY <2>2, <5>4
        <4>2. A[r].tot_len = buf[r].tot_len
          BY <1>3, <2>1, <3>3, <4>1
        <4> QED BY <2>1, <3>1, <3>3, <4>2 DEF SumsUp, Behind
      <3> QED BY <3>2, <3>3
    <2>3. CASE q = l
      <3>1. buf[q].tot_len = buf[q].len
        BY <1>4, <2>1, <2>3 DEF SumsUp, Behind
      <3>2. A[q].next = t /\ A[q].tot_len = buf[q].tot_len + T /\ A[q].len = buf[q].len
        BY <1>4, <1>6, <2>3
      <3>3. A[t].tot_len = T
        BY <1>3, <1>4
      <3>4. t /= NoPbuf
        BY PbufAssumption
      <3>5. Behind(A, q) = T
        BY <3>2, <3>3, <3>4 DEF Behind
      <3> QED BY <3>1, <3>2, <3>5 DEF SumsUp
    <2>4. CASE q \in M /\ q /= l
      <3>1. PICK i \in 1 .. n : q = c[i]
        BY <1>2, <2>4
      <3>2. i /= n
        BY <1>2, <2>4, <3>1
      <3>3. i \in 1 .. n - 1 /\ i + 1 \in 1 .. n
        BY <1>4, <3>2
      <3>4. buf[q].next = c[i + 1] /\ c[i + 1] \in M /\ c[i + 1] \in Pbufs
        BY <1>2, <1>4, <3>1, <3>3
      <3> DEFINE r == c[i + 1]
      <3> HIDE DEF r
      <3>5. buf[q].next = r /\ r \in M /\ r \in Pbufs /\ r /= NoPbuf
        BY <3>4, PbufAssumption DEF r
      <3>6. buf[q].tot_len = buf[q].len + buf[r].tot_len /\ buf[r].tot_len \in Int
        <4>1. buf[q].tot_len = buf[q].len + buf[r].tot_len
          BY <2>1, <3>5 DEF SumsUp, Behind
        <4>2. buf[r].tot_len \in Int
          BY <1>1, <3>5
        <4> QED BY <4>1, <4>2
      <3>7. A[q].next = r /\ A[q].tot_len = buf[q].tot_len + T /\ A[q].len = buf[q].len
        BY <1>6, <2>4, <3>5
      <3>8. Behind(A, q) = buf[r].tot_len + T
        BY <1>6, <3>5, <3>7 DEF Behind
      <3>9. A[q].tot_len = A[q].len + (buf[r].tot_len + T)
        BY <1>5, <2>1, <3>6, <3>7
      <3> QED BY <3>8, <3>9 DEF SumsUp
    <2> QED BY <2>2, <2>3, <2>4
  <1>11. ext \in [Pbufs -> Nat]
    BY <1>1
  <1>12. PbufsOK(A, ext)
    BY <1>8, <1>9, <1>10, <1>11 DEF PbufsOK, CountedBy
  <1> QED BY <1>12 DEF A

LEMMA PbufCatOK ==
  ASSUME PbufInv, NEW h \in Pbufs, NEW t \in Pbufs, PbufCat(h, t) PROVE PbufInv'
  BY AppendedOK DEF PbufInv, PbufCat

LEMMA PbufChainOK ==
  ASSUME PbufInv, NEW h \in Pbufs, NEW t \in Pbufs, PbufChain(h, t) PROVE PbufInv'
  <1> DEFINE A == Appended(buf, h, t)
             ext == [held EXCEPT ![t] = @ - 1]
  <1>1. /\ Unshared(h) /\ held[t] > 0 /\ t \notin Members(buf, h)
        /\ buf' = [A EXCEPT ![t].ref = @ + 1] /\ held' = held
    BY DEF PbufChain
  <1>2. PbufsOK(A, ext)
    BY <1>1, AppendedOK DEF PbufInv
  <1>3. PbufsOK([A EXCEPT ![t].ref = @ + 1], [ext EXCEPT ![t] = @ + 1])
    <2> HIDE DEF A, ext
    <2> QED BY <1>2, RefUp
  <1>4. [ext EXCEPT ![t] = @ + 1] = held
    <2>1. held \in [Pbufs -> Nat]
      BY DEF PbufInv, PbufsOK
    <2> DEFINE f == [ext EXCEPT ![t] = @ + 1]
    <2>2. f = [x \in Pbufs |-> f[x]] /\ held = [x \in Pbufs |-> held[x]]
      BY <2>1
    <2>3. ext[t] = held[t] - 1 /\ held[t] \in Nat /\ f[t] = ext[t] + 1
      BY <2>1
    <2>4. \A x \in Pbufs : f[x] = held[x]
      <3>1. f[t] = held[t]
        <4> HIDE DEF f, ext
        <4> QED BY <2>3
      <3>2. \A x \in Pbufs : x /= t => f[x] = held[x]
        BY <2>1
      <3> QED BY <3>1, <3>2
    <2> HIDE DEF f
    <2>5. f = held
      BY <2>2, <2>4
    <2> QED BY <2>5 DEF f
  <1> QED BY <1>1, <1>3, <1>4 DEF PbufInv

\* One step of the recursion: a is given, and g[i] is taken off at each i.
TakenOff(f, a, g, m) == [i \in 1 .. m |-> IF i = 1 THEN a ELSE f[i - 1] - g[i - 1]]
Remainders(a, g, m) == CHOOSE f : f = TakenOff(f, a, g, m)

\* The function that pbuf_realloc's walk by length computes exists.
LEMMA RemainderExists ==
  ASSUME NEW a, NEW g
  PROVE  \A m \in Nat : \E f : f = TakenOff(f, a, g, m)
  <1> DEFINE S == {m \in Nat : ~ \E f : f = TakenOff(f, a, g, m)}
  <1> SUFFICES ASSUME S /= {} PROVE FALSE
    OBVIOUS
  <1>0. S \subseteq Nat
    OBVIOUS
  <1>1. PICK m \in S : \A k \in S : m <= k
    <2> HIDE DEF S
    <2> QED BY <1>0, LeastNat
  <1>2. m \in Nat /\ ~ \E f : f = TakenOff(f, a, g, m)
    OBVIOUS
  <1>3. m /= 0
    <2> SUFFICES ASSUME m = 0 PROVE FALSE
      OBVIOUS
    <2> DEFINE e == [i \in 1 .. 0 |-> a]
    <2>1. TakenOff(e, a, g, m) = e
      BY DEF TakenOff
    <2> QED BY <1>2, <2>1
  <1>4. m - 1 \in Nat /\ m - 1 \notin S
    <2>1. m - 1 \in Nat /\ ~(m <= m - 1)
      BY <1>2, <1>3
    <2> HIDE DEF S
    <2> QED BY <1>1, <2>1
  <1>5. PICK f : f = TakenOff(f, a, g, m - 1)
    BY <1>4
  <1> DEFINE h == [i \in 1 .. m |-> IF i = 1 THEN a ELSE f[i - 1] - g[i - 1]]
  <1>6. \A i \in 1 .. m - 1 : f[i] = IF i = 1 THEN a ELSE f[i - 1] - g[i - 1]
    BY <1>5 DEF TakenOff
  <1>7. \A i \in 1 .. m - 1 : h[i] = f[i]
    BY <1>2, <1>6
  <1>8. ASSUME NEW i \in 1 .. m PROVE h[i] = IF i = 1 THEN a ELSE h[i - 1] - g[i - 1]
    <2>1. CASE i = 1
      BY <2>1
    <2>2. CASE i /= 1
      <3>1. i - 1 \in 1 .. m - 1
        BY <1>2, <2>2
      <3>2. h[i - 1] = f[i - 1]
        BY <1>7, <3>1
      <3> QED BY <2>2, <3>2
    <2> QED BY <2>1, <2>2
  <1>9. h = [i \in 1 .. m |-> h[i]]
    OBVIOUS
  <1> HIDE DEF h
  <1>10. h = TakenOff(h, a, g, m)
    BY <1>8, <1>9 DEF TakenOff
  <1> QED BY <1>2, <1>10

\* The bytes that pbuf_realloc has left at each pbuf of the chain.
LEMMA RemainderIs ==
  ASSUME NEW a, NEW g, NEW m \in Nat, NEW rem, rem = Remainders(a, g, m)
  PROVE  \A i \in 1 .. m : rem[i] = IF i = 1 THEN a ELSE rem[i - 1] - g[i - 1]
  <1>1. \E f : f = TakenOff(f, a, g, m)
    BY RemainderExists
  <1>2. rem = TakenOff(rem, a, g, m)
    BY <1>1 DEF Remainders
  <1>3. rem = [i \in 1 .. m |-> IF i = 1 THEN a ELSE rem[i - 1] - g[i - 1]]
    BY <1>2 DEF TakenOff
  <1> QED BY ONLY <1>3

\* S is the chain c when its packet loses d bytes, c[k] the last pbuf that stays.
IsShrunk(S, c, k, d) ==
  /\ S = [q \in Pbufs |-> S[q]]
  /\ \A q \in Pbufs : S[q] =
       IF q = c[k] THEN [buf[q] EXCEPT !.len = buf[q].tot_len - d,
                                       !.tot_len = buf[q].tot_len - d, !.next = NoPbuf]
       ELSE IF \E i \in 1 .. k - 1 : q = c[i] THEN [buf[q] EXCEPT !.tot_len = @ - d]
       ELSE buf[q]

LEMMA ShrunkOK ==
  ASSUME PbufsOK(buf, held), NEW p \in Pbufs, held[p] > 0, NEW c, NEW n, IsLine(buf, p, c, n),
         NEW d \in Int, NEW k \in 1 .. n, NEW S, IsShrunk(S, c, k, d)
  PROVE  /\ buf[c[k]].next = NoPbuf => PbufsOK(S, held)
         /\ buf[c[k]].next /= NoPbuf => /\ buf[c[k]].next \in Pbufs
                                        /\ PbufTyped(S)
                                        /\ held \in [Pbufs -> Nat]
                                        /\ CountedAnd(S, held, buf[c[k]].next)
                                        /\ \A q \in Pbufs : SumsUp(S, q)
  <1> DEFINE Rec == [ref : Nat, len : Int, tot_len : Int, room : Int, next : Pbufs \cup {NoPbuf}]
             next == buf[c[k]].next
  <1>1. PbufTyped(buf) /\ held \in [Pbufs -> Nat] /\ buf \in [Pbufs -> Rec]
    BY DEF PbufsOK, PbufTyped
  <1>2. /\ n \in Nat /\ n >= 1 /\ k \in 1 .. n /\ k \in Nat /\ k >= 1
        /\ c \in [1 .. n -> Pbufs]
        /\ c[1] = p
        /\ \A i \in 1 .. n - 1 : buf[c[i]].next = c[i + 1]
        /\ \A i, j \in 1 .. n : c[i] = c[j] => i = j
        /\ \A x \in Pbufs, i \in 1 .. n : buf[x].next = c[i] => i > 1 /\ x = c[i - 1]
    BY PbufCount DEF IsLine
  <1>3. c[k] \in Pbufs
    BY <1>2
  <1>4. ASSUME NEW i \in 1 .. k
        PROVE  /\ i \in 1 .. n /\ c[i] \in Pbufs /\ buf[c[i]].ref > 0
    <2>1. i \in 1 .. n /\ c[i] \in Pbufs
      BY <1>2
    <2>2. CASE i = 1
      <3>1. held[p] \in Nat /\ Cardinality(PredsIn(buf, p)) \in Nat /\ buf[p].ref = held[p] + Cardinality(PredsIn(buf, p))
        BY PbufFacts
      <3>2. buf[p].ref > 0
        BY <3>1
      <3> QED BY <1>2, <2>1, <2>2, <3>2
    <2>3. CASE i > 1
      <3>1. i - 1 \in 1 .. n - 1 /\ (i - 1) + 1 = i /\ i - 1 \in 1 .. n
        BY <1>2, <2>3
      <3>2. c[i - 1] \in Pbufs /\ buf[c[i - 1]].next = c[i]
        BY <1>2, <3>1
      <3>3. c[i] /= NoPbuf
        BY <2>1, PbufAssumption
      <3>4. buf[c[i]].ref > 0
        BY <3>2, <3>3, PbufFacts
      <3> QED BY <2>1, <3>4
    <2> QED BY <1>2, <2>2, <2>3
  \* What stays as it was.
  <1>5. ASSUME NEW q \in Pbufs, \A i \in 1 .. k : q /= c[i] PROVE S[q] = buf[q]
    <2>1. k \in 1 .. k
      BY <1>2
    <2>2. \A i \in 1 .. k - 1 : i \in 1 .. k
      BY <1>2
    <2> QED BY <1>5, <2>1, <2>2 DEF IsShrunk
  <1>6. ASSUME NEW i \in 1 .. k
        PROVE  /\ S[c[i]] \in Rec /\ S[c[i]].ref = buf[c[i]].ref
               /\ S[c[i]].tot_len = buf[c[i]].tot_len - d
               /\ i = k => S[c[i]].next = NoPbuf /\ S[c[i]].len = buf[c[i]].tot_len - d
               /\ i < k => S[c[i]].next = buf[c[i]].next /\ S[c[i]].len = buf[c[i]].len
    <2> DEFINE r == buf[c[i]]
    <2>1. i \in 1 .. n /\ c[i] \in Pbufs /\ r \in Rec
      BY <1>1, <1>4
    <2>2. r.tot_len - d \in Int
      BY <2>1
    <2>3. CASE i = k
      <3>1. S[c[i]] = [r EXCEPT !.len = r.tot_len - d, !.tot_len = r.tot_len - d, !.next = NoPbuf]
        BY <2>1, <2>3 DEF IsShrunk
      <3> HIDE DEF r
      <3>2. S[c[i]] = [ref |-> r.ref, len |-> r.tot_len - d, tot_len |-> r.tot_len - d,
                       room |-> r.room, next |-> NoPbuf]
        BY <2>1, <3>1
      <3>3. S[c[i]] \in Rec
        BY <2>1, <2>2, <3>2
      <3> QED BY <2>3, <3>2, <3>3 DEF r
    <2>4. CASE i < k
      <3>1. i \in 1 .. k - 1 /\ c[i] /= c[k]
        BY <1>2, <2>1, <2>4
      <3>2. S[c[i]] = [r EXCEPT !.tot_len = @ - d]
        BY <2>1, <3>1 DEF IsShrunk
      <3> HIDE DEF r
      <3>3. S[c[i]] = [ref |-> r.ref, len |-> r.len, tot_len |-> r.tot_len - d,
                       room |-> r.room, next |-> r.next]
        BY <2>1, <3>2
      <3>4. S[c[i]] \in Rec
        BY <2>1, <2>2, <3>3
      <3> QED BY <2>4, <3>3, <3>4 DEF r
    <2>5. i = k \/ i < k
      BY <1>2
    <2> QED BY <2>3, <2>4, <2>5
  <1>7. ASSUME NEW q \in Pbufs
        PROVE  /\ S[q] \in Rec /\ S[q].ref = buf[q].ref
               /\ S[q].next = IF q = c[k] THEN NoPbuf ELSE buf[q].next
               /\ S[q].ref = 0 => S[q] = Idle
    <2>1. CASE \E i \in 1 .. k : q = c[i]
      <3>1. PICK i \in 1 .. k : q = c[i]
        BY <2>1
      <3>2. i = k <=> q = c[k]
        BY <1>2, <1>4, <3>1
      <3>3. i = k \/ i < k
        BY <1>2
      <3>4. S[q].next = IF q = c[k] THEN NoPbuf ELSE buf[q].next
        BY <1>6, <3>1, <3>2, <3>3
      <3>5. S[q].ref /= 0
        BY <1>4, <1>6, <3>1
      <3> QED BY <1>6, <3>1, <3>4, <3>5
    <2>2. CASE \A i \in 1 .. k : q /= c[i]
      <3>1. S[q] = buf[q] /\ q /= c[k]
        BY <1>2, <1>5, <2>2
      <3> QED BY <1>1, <3>1 DEF PbufTyped
    <2> QED BY <2>1, <2>2
  <1>8. PbufTyped(S)
    <2>1. \A q \in Pbufs : S[q] \in Rec
      BY <1>7
    <2> HIDE DEF Rec
    <2>2. S \in [Pbufs -> Rec]
      BY <2>1 DEF IsShrunk
    <2> USE DEF Rec
    <2> QED BY <1>7, <2>2 DEF PbufTyped
  <1>9. ASSUME NEW q \in Pbufs PROVE SumsUp(S, q)
    <2>1. CASE \E i \in 1 .. k : q = c[i]
      <3>1. PICK i \in 1 .. k : q = c[i]
        BY <2>1
      <3>2. CASE i = k
        <4>1. S[q].next = NoPbuf /\ S[q].len = buf[q].tot_len - d /\ S[q].tot_len = buf[q].tot_len - d
          BY <1>6, <3>1, <3>2
        <4>2. buf[q].tot_len \in Int
          BY <1>1
        <4>3. buf[q].tot_len - d \in Int
          BY <4>2
        <4> QED BY <4>1, <4>3 DEF SumsUp, Behind
      <3>3. CASE i < k
        <4>1. i \in 1 .. n - 1 /\ i + 1 \in 1 .. k
          BY <1>2, <3>3
        <4> DEFINE x == c[i + 1]
        <4>2. x \in Pbufs /\ buf[q].next = x /\ S[x].tot_len = buf[x].tot_len - d
          BY <1>2, <1>4, <1>6, <3>1, <4>1
        <4> HIDE DEF x
        <4>3. S[q].next = x /\ S[q].len = buf[q].len /\ S[q].tot_len = buf[q].tot_len - d /\ x /= NoPbuf
          BY <1>6, <3>1, <3>3, <4>2, PbufAssumption
        <4>4. buf[q].tot_len = buf[q].len + buf[x].tot_len
          <5>1. SumsUp(buf, q)
            BY PbufFacts
          <5> QED BY <4>2, <4>3, <5>1 DEF SumsUp, Behind
        <4>5. buf[q].len \in Int /\ buf[x].tot_len \in Int
          BY <1>1, <4>2
        <4>6. S[q].tot_len = S[q].len + S[x].tot_len
          BY <4>2, <4>3, <4>4, <4>5
        <4> QED BY <4>3, <4>6 DEF SumsUp, Behind
      <3> QED BY <1>2, <3>2, <3>3
    <2>2. CASE \A i \in 1 .. k : q /= c[i]
      <3>1. S[q] = buf[q] /\ SumsUp(buf, q) /\ (buf[q].next /= NoPbuf => buf[q].next \in Pbufs)
        BY <1>5, <2>2, PbufFacts
      <3>2. ASSUME NEW i \in 1 .. k PROVE buf[q].next /= c[i]
        <4> SUFFICES ASSUME buf[q].next = c[i] PROVE FALSE
          OBVIOUS
        <4>1. i > 1 /\ q = c[i - 1]
          BY <1>2, <1>4
        <4>2. i - 1 \in 1 .. k
          BY <1>2, <4>1
        <4> QED BY <2>2, <4>1, <4>2
      <3>3. buf[q].next /= NoPbuf => S[buf[q].next] = buf[buf[q].next]
        BY <1>5, <3>1, <3>2
      <3> QED BY <3>1, <3>3 DEF SumsUp, Behind
    <2> QED BY <2>1, <2>2
  <1>10. ASSUME next = NoPbuf PROVE PbufsOK(S, held)
    <2>1. ASSUME NEW q \in Pbufs PROVE S[q].ref = held[q] + Cardinality(PredsIn(S, q))
      <3>1. PredsIn(S, q) = PredsIn(buf, q)
        BY <1>7, <1>10, PbufAssumption DEF PredsIn
      <3> QED BY <1>7, <3>1, PbufFacts
    <2> QED BY <1>1, <1>8, <1>9, <2>1 DEF PbufsOK, CountedBy
  <1>11. ASSUME next /= NoPbuf PROVE next \in Pbufs /\ CountedAnd(S, held, next)
    <2>1. next \in Pbufs
      BY <1>3, <1>11, PbufFacts
    <2>2. ASSUME NEW q \in Pbufs
          PROVE  S[q].ref = held[q] + Cardinality(PredsIn(S, q)) + (IF q = next THEN 1 ELSE 0)
      <3>1. /\ buf[q].ref = held[q] + Cardinality(PredsIn(buf, q)) /\ held[q] \in Nat
            /\ IsFiniteSet(PredsIn(buf, q)) /\ Cardinality(PredsIn(buf, q)) \in Nat
            /\ S[q].ref = buf[q].ref
        BY <1>7, PbufFacts
      <3>2. \A x \in Pbufs : S[x].next = IF x = c[k] THEN NoPbuf ELSE buf[x].next
        BY <1>7
      <3>3. CASE q = next
        <4>1. PredsIn(S, q) = PredsIn(buf, q) \ {c[k]} /\ c[k] \in PredsIn(buf, q)
          BY <1>3, <3>2, <3>3, PbufAssumption DEF PredsIn
        <4>2. Cardinality(PredsIn(S, q)) = Cardinality(PredsIn(buf, q)) - 1
          BY <3>1, <4>1, FS_RemoveElement
        <4> QED BY <3>1, <3>3, <4>2
      <3>4. CASE q /= next
        <4>1. PredsIn(S, q) = PredsIn(buf, q)
          BY <1>3, <3>2, <3>4, PbufAssumption DEF PredsIn
        <4> QED BY <3>1, <3>4, <4>1
      <3> QED BY <3>3, <3>4
    <2> QED BY <2>1, <2>2 DEF CountedAnd
  <1> QED BY <1>1, <1>8, <1>9, <1>10, <1>11

LEMMA ReallocOK ==
  ASSUME PbufInv, NEW p \in Pbufs, NEW newLen \in Int, PbufRealloc(p, newLen) PROVE PbufInv'
  <1> DEFINE N == Cardinality(Pbufs)
             c == ChainOf(buf, p)
             W(f) == [i \in 1 .. N |-> IF i = 1 THEN newLen ELSE f[i - 1] - buf[c[i - 1]].len]
             rem == CHOOSE f : f = W(f)
             shrunk(last) ==
               [q \in Pbufs |->
                 IF q = c[last] THEN [buf[q] EXCEPT !.len = rem[last], !.tot_len = rem[last],
                                                    !.next = NoPbuf]
                 ELSE IF \E i \in 1 .. last - 1 : q = c[i]
                   THEN [buf[q] EXCEPT !.tot_len = @ - (buf[p].tot_len - newLen)]
                 ELSE buf[q]]
             d == buf[p].tot_len - newLen
  <1>1. /\ Unshared(p) /\ held' = held
        /\ \E last \in DOMAIN c :
             buf' = IF buf[c[last]].next = NoPbuf THEN shrunk(last)
                    ELSE FreeChain(shrunk(last), buf[c[last]].next)
    BY DEF PbufRealloc
  <1>2. PbufsOK(buf, held)
    BY DEF PbufInv
  <1>3. PbufTyped(buf)
    BY <1>2 DEF PbufsOK
  <1>4. PICK n : IsLine(buf, p, c, n) /\ DOMAIN c = 1 .. n
    BY <1>1, <1>3, HeadLine
  <1> HIDE DEF c
  <1>5. /\ n \in Nat /\ n >= 1 /\ N \in Nat /\ n <= N
        /\ c \in [1 .. n -> Pbufs]
        /\ c[1] = p
        /\ \A i \in 1 .. n - 1 : buf[c[i]].next = c[i + 1]
    BY <1>4, PbufCount DEF IsLine
  <1>6. held[p] > 0
    BY <1>1 DEF Unshared, IsHead
  <1> DEFINE g == [i \in 1 .. N |-> buf[c[i]].len]
  <1>7. \A i \in 1 .. N : rem[i] = IF i = 1 THEN newLen ELSE rem[i - 1] - g[i - 1]
    <2>1. \A f : W(f) = [i \in 1 .. N |-> IF i = 1 THEN newLen ELSE f[i - 1] - g[i - 1]]
      <3> SUFFICES ASSUME NEW f, NEW i \in 1 .. N
                   PROVE  (IF i = 1 THEN newLen ELSE f[i - 1] - buf[c[i - 1]].len)
                            = (IF i = 1 THEN newLen ELSE f[i - 1] - g[i - 1])
        OBVIOUS
      <3>1. i /= 1 => i - 1 \in 1 .. N
        BY <1>5
      <3> QED BY <3>1
    <2>2. \A f : W(f) = TakenOff(f, newLen, g, N)
      <3> HIDE DEF g, W
      <3> QED BY <2>1 DEF TakenOff
    <2> HIDE DEF g, W
    <2>3. rem = Remainders(newLen, g, N)
      BY <2>2 DEF Remainders
    <2>4. N \in Nat
      BY <1>5
    <2> HIDE DEF rem, N
    <2> QED BY ONLY <2>3, <2>4, RemainderIs
  <1> HIDE DEF W, rem
  <1>8. d \in Int
    BY <1>2, PbufFacts
  <1>9. \A i \in 1 .. n : rem[i] = buf[c[i]].tot_len - d
    <2> DEFINE S == {i \in 1 .. n : rem[i] /= buf[c[i]].tot_len - d}
    <2> SUFFICES ASSUME S /= {} PROVE FALSE
      OBVIOUS
    <2>0. S \subseteq Nat
      BY <1>5
    <2>1. PICK i \in S : \A j \in S : i <= j
      <3> HIDE DEF S
      <3> QED BY <2>0, LeastNat
    <2>2. i \in 1 .. n /\ i \in 1 .. N /\ rem[i] /= buf[c[i]].tot_len - d
      BY <1>5
    <2>3. i /= 1
      <3> SUFFICES ASSUME i = 1 PROVE FALSE
        OBVIOUS
      <3>1. rem[1] = newLen
        BY <1>7, <2>2
      <3>2. buf[p].tot_len \in Int
        BY <1>2, PbufFacts
      <3>3. buf[p].tot_len - d = newLen
        BY <3>2
      <3> QED BY <1>5, <2>2, <3>1, <3>3
    <2>4. i - 1 \in 1 .. n - 1 /\ (i - 1) + 1 = i /\ i - 1 \in 1 .. n /\ i - 1 \in 1 .. N /\ i - 1 \notin S
      BY <1>5, <2>1, <2>2, <2>3
    <2> DEFINE x == c[i - 1]
               y == c[i]
    <2>5. rem[i - 1] = buf[x].tot_len - d
      BY <2>4
    <2>6. rem[i] = rem[i - 1] - buf[x].len
      <3>1. g[i - 1] = buf[x].len
        BY <2>4
      <3> QED BY <1>7, <2>2, <2>3, <3>1
    <2>7. x \in Pbufs /\ y \in Pbufs /\ buf[x].next = y
      BY <1>5, <2>2, <2>4
    <2>8. rem[i] /= buf[y].tot_len - d
      BY <2>2
    <2> HIDE DEF x, y, d
    <2>9. buf[x].tot_len = buf[x].len + buf[y].tot_len
      <3>1. SumsUp(buf, x) /\ y /= NoPbuf
        BY <1>2, <2>7, PbufFacts, PbufAssumption
      <3> QED BY <2>7, <3>1 DEF SumsUp, Behind
    <2>10. buf[x].len \in Int /\ buf[y].tot_len \in Int
      BY <1>2, <2>7, PbufFacts
    <2> QED BY ONLY <1>8, <2>5, <2>6, <2>8, <2>9, <2>10
  <1>10. PICK k \in 1 .. n : buf' = IF buf[c[k]].next = NoPbuf THEN shrunk(k)
                                    ELSE FreeChain(shrunk(k), buf[c[k]].next)
    BY <1>1, <1>4
  <1> DEFINE S == shrunk(k)
  <1>11. S = [q \in Pbufs |-> S[q]]
    OBVIOUS
  <1>12. \A q \in Pbufs : S[q] =
           IF q = c[k] THEN [buf[q] EXCEPT !.len = buf[q].tot_len - d,
                                           !.tot_len = buf[q].tot_len - d, !.next = NoPbuf]
           ELSE IF \E i \in 1 .. k - 1 : q = c[i] THEN [buf[q] EXCEPT !.tot_len = @ - d]
           ELSE buf[q]
    <2> SUFFICES ASSUME NEW q \in Pbufs PROVE S[q] =
           IF q = c[k] THEN [buf[q] EXCEPT !.len = buf[q].tot_len - d,
                                           !.tot_len = buf[q].tot_len - d, !.next = NoPbuf]
           ELSE IF \E i \in 1 .. k - 1 : q = c[i] THEN [buf[q] EXCEPT !.tot_len = @ - d]
           ELSE buf[q]
      OBVIOUS
    <2>1. rem[k] = buf[c[k]].tot_len - d
      BY <1>9
    <2>2. CASE q = c[k]
      <3>1. S[q] = [buf[q] EXCEPT !.len = rem[k], !.tot_len = rem[k], !.next = NoPbuf]
        BY <2>2
      <3> QED BY <2>1, <2>2, <3>1
    <2>3. CASE q /= c[k]
      BY <2>3
    <2> QED BY <2>2, <2>3
  <1>15. IsShrunk(S, c, k, d)
    <2> HIDE DEF S, d
    <2> QED BY <1>11, <1>12 DEF IsShrunk
  <1> HIDE DEF S, d, N
  <1>13. CASE buf[c[k]].next = NoPbuf
    <2>1. PbufsOK(S, held)
      BY <1>2, <1>4, <1>6, <1>8, <1>13, <1>15, ShrunkOK
    <2>2. buf' = S
      BY <1>10, <1>13 DEF S
    <2> QED BY <1>1, <2>1, <2>2 DEF PbufInv
  <1>14. CASE buf[c[k]].next /= NoPbuf
    <2> DEFINE x == buf[c[k]].next
    <2>1. x \in Pbufs /\ PbufTyped(S) /\ held \in [Pbufs -> Nat] /\ CountedAnd(S, held, x)
          /\ \A q \in Pbufs : SumsUp(S, q)
      BY <1>2, <1>4, <1>6, <1>8, <1>14, <1>15, ShrunkOK
    <2>2. buf' = FreeChain(S, x)
      BY <1>10, <1>14 DEF S
    <2> HIDE DEF x
    <2>3. PbufsOK(FreeChain(S, x), held)
      BY <2>1, ReleaseOK
    <2> QED BY <1>1, <2>2, <2>3 DEF PbufInv
  <1> QED BY <1>13, <1>14

-----------------------------------------------------------------------------
(* pbuf_alloc: n pbufs that nobody uses are linked, one for each piece.    *)

\* C is buf with q[1] .. q[n] made a chain of new pbufs.
IsLinked(C, q, n) ==
  /\ n \in Nat \ {0}
  /\ q \in [1 .. n -> Pbufs]
  /\ \A i, j \in 1 .. n : q[i] = q[j] => i = j
  /\ \A i \in 1 .. n : buf[q[i]].ref = 0
  /\ C \in [Pbufs -> [ref : Nat, len : Int, tot_len : Int, room : Int, next : Pbufs \cup {NoPbuf}]]
  /\ \A i \in 1 .. n : C[q[i]].ref = 1 /\ C[q[i]].next = IF i = n THEN NoPbuf ELSE q[i + 1]
  /\ \A x \in Pbufs : (\A i \in 1 .. n : x /= q[i]) => C[x] = buf[x]

LEMMA LinkedOK ==
  ASSUME PbufsOK(buf, held), NEW C, NEW q, NEW n, IsLinked(C, q, n)
  PROVE  /\ q[1] \in Pbufs /\ PbufTyped(C) /\ CountedAnd(C, held, q[1])
         /\ held[q[1]] = 0
         /\ \A x \in Pbufs : (\A i \in 1 .. n : x /= q[i]) => SumsUp(C, x)
  <1>1. /\ n \in Nat /\ n >= 1 /\ 1 \in 1 .. n
        /\ q \in [1 .. n -> Pbufs]
        /\ \A i, j \in 1 .. n : q[i] = q[j] => i = j
        /\ \A i \in 1 .. n : q[i] \in Pbufs /\ buf[q[i]].ref = 0
        /\ \A i \in 1 .. n : C[q[i]].ref = 1
        /\ C[q[n]].next = NoPbuf
        /\ \A i \in 1 .. n - 1 : C[q[i]].next = q[i + 1]
        /\ \A x \in Pbufs : (\A i \in 1 .. n : x /= q[i]) => C[x] = buf[x]
    <2>1. n \in Nat /\ n >= 1 /\ q \in [1 .. n -> Pbufs]
      BY DEF IsLinked
    <2>2. n \in 1 .. n /\ \A i \in 1 .. n - 1 : i \in 1 .. n /\ i /= n
      BY <2>1
    <2> QED BY <2>1, <2>2 DEF IsLinked
  <1>2. PbufTyped(buf) /\ PbufTyped(C)
    <2>1. PbufTyped(buf)
      BY DEF PbufsOK
    <2>2. ASSUME NEW x \in Pbufs, C[x].ref = 0 PROVE C[x] = Idle
      <3>1. \A i \in 1 .. n : x /= q[i]
        BY <1>1, <2>2
      <3>2. C[x] = buf[x]
        BY <1>1, <3>1
      <3> QED BY <2>1, <2>2, <3>2 DEF PbufTyped
    <2>3. PbufTyped(C)
      BY <2>2 DEF PbufTyped, IsLinked
    <2> QED BY <2>1, <2>3
  \* Nobody points to a pbuf that is not in use.
  <1>3. ASSUME NEW i \in 1 .. n
        PROVE  held[q[i]] = 0 /\ PredsIn(buf, q[i]) = {} /\ buf[q[i]].next = NoPbuf
    <2>1. /\ held[q[i]] \in Nat /\ Cardinality(PredsIn(buf, q[i])) \in Nat
          /\ 0 = held[q[i]] + Cardinality(PredsIn(buf, q[i]))
          /\ buf[q[i]] = Idle
      BY <1>1, PbufFacts
    <2>2. held[q[i]] = 0 /\ Cardinality(PredsIn(buf, q[i])) = 0
      BY <2>1
    <2> QED BY <2>1, <2>2, PredsFinite DEF Idle
  <1>4. ASSUME NEW x \in Pbufs
        PROVE  C[x].ref = held[x] + Cardinality(PredsIn(C, x)) + (IF x = q[1] THEN 1 ELSE 0)
    <2>1. CASE \A i \in 1 .. n : x /= q[i]
      <3>1. C[x] = buf[x] /\ x /= q[1]
        BY <1>1, <2>1
      <3>2. PredsIn(C, x) = PredsIn(buf, x)
        <4>1. ASSUME NEW y \in Pbufs PROVE C[y].next = x <=> buf[y].next = x
          <5>1. CASE \A i \in 1 .. n : y /= q[i]
            BY <1>1, <5>1
          <5>2. CASE \E i \in 1 .. n : y = q[i]
            <6>1. PICK i \in 1 .. n : y = q[i]
              BY <5>2
            <6>2. buf[y].next /= x
              BY <1>3, <6>1, PbufAssumption
            <6>3. CASE i = n
              BY <1>1, <6>1, <6>2, <6>3, PbufAssumption
            <6>4. CASE i /= n
              <7>1. i \in 1 .. n - 1 /\ i + 1 \in 1 .. n
                BY <1>1, <6>4
              <7>2. C[y].next = q[i + 1]
                BY <1>1, <6>1, <7>1
              <7> QED BY <2>1, <6>2, <7>1, <7>2
            <6> QED BY <6>3, <6>4
          <5> QED BY <5>1, <5>2
        <4> QED BY <4>1 DEF PredsIn
      <3>3. buf[x].ref = held[x] + Cardinality(PredsIn(buf, x)) /\ held[x] \in Nat
            /\ Cardinality(PredsIn(buf, x)) \in Nat
        BY PbufFacts
      <3> QED BY <3>1, <3>2, <3>3
    <2>2. CASE \E i \in 1 .. n : x = q[i]
      <3>1. PICK i \in 1 .. n : x = q[i]
        BY <2>2
      <3>2. held[x] = 0 /\ C[x].ref = 1 /\ \A y \in Pbufs : buf[y].next /= x
        BY <1>1, <1>3, <3>1 DEF PredsIn
      \* Only the one before it in the chain points to it.
      <3>3. ASSUME NEW y \in Pbufs, C[y].next = x PROVE i > 1 /\ y = q[i - 1]
        <4>1. ~(\A j \in 1 .. n : y /= q[j])
          BY <1>1, <3>2, <3>3
        <4>2. PICK j \in 1 .. n : y = q[j]
          BY <4>1
        <4>3. j /= n
          BY <1>1, <3>1, <3>3, <4>2, PbufAssumption
        <4>4. j \in 1 .. n - 1 /\ j + 1 \in 1 .. n /\ (j + 1) - 1 = j /\ j + 1 > 1
          BY <1>1, <4>3
        <4>5. q[j + 1] = q[i]
          BY <1>1, <3>1, <3>3, <4>2, <4>4
        <4>6. j + 1 = i
          BY <1>1, <4>4, <4>5
        <4> QED BY <4>2, <4>4, <4>6
      <3>4. CASE i = 1
        <4>1. PredsIn(C, x) = {}
          BY <3>3, <3>4 DEF PredsIn
        <4>2. Cardinality(PredsIn(C, x)) = 0
          BY <4>1, FS_EmptySet
        <4>3. x = q[1]
          BY <3>1, <3>4
        <4> QED BY <3>2, <4>2, <4>3
      <3>5. CASE i > 1
        <4>1. i - 1 \in 1 .. n - 1 /\ i - 1 \in 1 .. n /\ (i - 1) + 1 = i
          BY <1>1, <3>5
        <4>2. q[i - 1] \in Pbufs /\ C[q[i - 1]].next = x
          BY <1>1, <3>1, <4>1
        <4>3. PredsIn(C, x) = {q[i - 1]}
          BY <3>3, <4>2 DEF PredsIn
        <4>4. Cardinality(PredsIn(C, x)) = 1
          BY <4>3, FS_Singleton
        <4>5. x /= q[1]
          BY <1>1, <3>1, <3>5
        <4> QED BY <3>2, <4>4, <4>5
      <3>6. i = 1 \/ i > 1
        BY <1>1
      <3> QED BY <3>4, <3>5, <3>6
    <2> QED BY <2>1, <2>2
  <1>5. ASSUME NEW x \in Pbufs, \A i \in 1 .. n : x /= q[i] PROVE SumsUp(C, x)
    <2>1. C[x] = buf[x] /\ SumsUp(buf, x) /\ (buf[x].next /= NoPbuf => buf[x].next \in Pbufs)
      BY <1>1, <1>5, PbufFacts
    <2>2. \A i \in 1 .. n : buf[x].next /= q[i]
      BY <1>3 DEF PredsIn
    <2>3. buf[x].next /= NoPbuf => C[buf[x].next] = buf[buf[x].next]
      BY <1>1, <2>1, <2>2
    <2> QED BY <2>1, <2>3 DEF SumsUp, Behind
  <1> QED BY <1>1, <1>2, <1>3, <1>4, <1>5 DEF CountedAnd

\* If the pool runs out, all that was linked is freed again.
LEMMA LinkedFreed ==
  ASSUME PbufsOK(buf, held), NEW C, NEW q, NEW n, IsLinked(C, q, n), n <= Cardinality(Pbufs)
  PROVE  PbufsOK(FreeChain(C, q[1]), held)
  <1> DEFINE N == Cardinality(Pbufs)
             F == FreeChain(C, q[1])
             c == ChainOf(C, q[1])
  <1>1. /\ n \in Nat /\ n >= 1 /\ N \in Nat /\ n <= N
        /\ q \in [1 .. n -> Pbufs]
        /\ \A i \in 1 .. n : q[i] \in Pbufs
        /\ \A i \in 1 .. n : C[q[i]].ref = 1
        /\ \A i \in 1 .. n - 1 : C[q[i]].next = q[i + 1]
    <2>1. n \in Nat /\ n >= 1 /\ q \in [1 .. n -> Pbufs] /\ N \in Nat
      BY PbufCount, PbufAssumption, FS_CardinalityType DEF IsLinked
    <2>2. n \in 1 .. n /\ \A i \in 1 .. n - 1 : i \in 1 .. n /\ i /= n
      BY <2>1
    <2> QED BY <2>1, <2>2 DEF IsLinked
  <1>2. /\ q[1] \in Pbufs /\ PbufTyped(C) /\ held \in [Pbufs -> Nat] /\ CountedAnd(C, held, q[1])
        /\ \A x \in Pbufs : (\A i \in 1 .. n : x /= q[i]) => SumsUp(C, x)
    BY LinkedOK DEF PbufsOK
  <1>3. PbufTyped(F) /\ CountedBy(F, held) /\ \A x \in Pbufs : SumsUp(C, x) => SumsUp(F, x)
    BY <1>2, FreeKeeps
  <1>4. PICK n2 \in 1 .. N, m \in Nat : IsChain(C, q[1], c, n2) /\ IsFreed(C, q[1], c, n2, m)
    BY <1>2, FreeChainIs
  <1> HIDE DEF c, F
  <1>5. /\ n2 \in Nat /\ n2 >= 1 /\ m \in 0 .. n2 /\ n2 \in 1 .. n2
        /\ c \in [1 .. n2 -> Pbufs] /\ c[1] = q[1]
        /\ \A i \in 1 .. n2 - 1 : C[c[i]].next = c[i + 1]
        /\ n2 < N => C[c[n2]].next = NoPbuf
        /\ m < n2 => C[c[m + 1]].ref > 1
        /\ F = Freed(C, c, n2, m)
    <2>1. n2 \in Nat /\ n2 >= 1 /\ n2 \in 1 .. n2
      BY <1>1, <1>4
    <2>2. m \in 0 .. n2 /\ (m < n2 => C[c[m + 1]].ref > 1) /\ F = Freed(C, c, n2, m)
      BY <1>4 DEF IsFreed, F
    <2>3. /\ c \in [1 .. n2 -> Pbufs] /\ c[1] = q[1]
          /\ \A i \in 1 .. n2 - 1 : C[c[i]].next = c[i + 1]
          /\ n2 < N => C[c[n2]].next = NoPbuf
      BY <1>4 DEF IsChain
    <2> QED BY <2>1, <2>2, <2>3
  <1>6. \A i \in 1 .. n : i <= n2 => c[i] = q[i]
    <2> DEFINE S == {i \in 1 .. n : i <= n2 /\ c[i] /= q[i]}
    <2> SUFFICES ASSUME S /= {} PROVE FALSE
      OBVIOUS
    <2>0. S \subseteq Nat
      BY <1>1
    <2>1. PICK i \in S : \A j \in S : i <= j
      <3> HIDE DEF S
      <3> QED BY <2>0, LeastNat
    <2>2. i \in 1 .. n /\ i <= n2 /\ c[i] /= q[i]
      OBVIOUS
    <2>3. i /= 1
      BY <1>5, <2>2
    <2>4. /\ i - 1 \in 1 .. n /\ i - 1 <= n2 /\ i - 1 \in 1 .. n - 1 /\ i - 1 \in 1 .. n2 - 1
          /\ (i - 1) + 1 = i /\ ~(i <= i - 1)
      BY <1>1, <1>5, <2>2, <2>3
    <2>5. i - 1 \notin S
      BY <2>1, <2>4
    <2>6. c[i - 1] = q[i - 1]
      BY <2>4, <2>5
    <2>7. C[q[i - 1]].next = q[i] /\ C[c[i - 1]].next = c[i]
      BY <1>1, <1>5, <2>4
    <2> QED BY <2>2, <2>6, <2>7
  <1>7. n <= n2
    <2> SUFFICES ASSUME n2 < n PROVE FALSE
      BY <1>1, <1>5
    <2>1. n2 < N /\ n2 \in 1 .. n - 1 /\ n2 \in 1 .. n /\ n2 <= n2 /\ n2 + 1 \in 1 .. n
      BY <1>1, <1>5
    <2>2. C[q[n2]].next = q[n2 + 1] /\ q[n2 + 1] \in Pbufs
      BY <1>1, <2>1
    <2>3. c[n2] = q[n2]
      BY <1>6, <2>1
    <2> QED BY <1>5, <2>1, <2>2, <2>3, PbufAssumption
  <1>8. n <= m
    <2> SUFFICES ASSUME m < n PROVE FALSE
      BY <1>1, <1>5
    <2>1. m < n2 /\ m + 1 \in 1 .. n /\ m + 1 <= n2
      BY <1>1, <1>5, <1>7
    <2>2. C[q[m + 1]].ref = 1 /\ c[m + 1] = q[m + 1]
      BY <1>1, <1>6, <2>1
    <2> QED BY <1>5, <2>1, <2>2
  <1>9. ASSUME NEW i \in 1 .. n PROVE SumsUp(F, q[i])
    <2>1. i \in 1 .. m /\ i <= n2 /\ q[i] \in Pbufs
      BY <1>1, <1>5, <1>7, <1>8
    <2>2. q[i] = c[i]
      BY <1>6, <2>1
    <2>3. F[q[i]] = Idle
      BY <1>5, <2>1, <2>2 DEF Freed
    <2> QED BY <2>3 DEF SumsUp, Behind, Idle
  <1>10. \A x \in Pbufs : SumsUp(F, x)
    BY <1>2, <1>3, <1>9
  <1>11. PbufsOK(F, held)
    BY <1>2, <1>3, <1>10 DEF PbufsOK
  <1> QED BY <1>11 DEF F

\* n pieces of BufSize are enough for a length, and n - 1 are not.
LEMMA Pieces ==
  ASSUME NEW l \in Nat, NEW s \in Nat \ {0}, NEW k, k = (l + s - 1) \div s
  PROVE  k \in Nat /\ l <= k * s /\ k * s <= l + s - 1
  <1> DEFINE x == l + s - 1
  <1>1. x \in Nat
    OBVIOUS
  <1> HIDE DEF x
  <1>2. k = x \div s
    BY DEF x
  <1>3. k \in Nat /\ x = s * k + (x % s) /\ x % s \in 0 .. s - 1
    BY <1>1, <1>2
  <1> DEFINE y == s * k
             z == x % s
  <1>4. y = k * s /\ y \in Nat
    BY <1>3
  <1>5. x = y + z /\ z \in 0 .. s - 1
    BY <1>3
  <1> HIDE DEF y, z
  <1>6. l <= y /\ y <= l + s - 1
    BY ONLY <1>1, <1>4, <1>5, l \in Nat, s \in Nat \ {0} DEF x
  <1> QED BY <1>3, <1>4, <1>6

\* What is left after the first pbuf and j more.
Left(l, s, j) == l - j * s

LEMMA LeftFacts ==
  ASSUME NEW l \in Nat, NEW s \in Nat \ {0}, NEW k \in Nat, l <= k * s, k * s <= l + s - 1,
         NEW j \in Nat
  PROVE  /\ Left(l, s, j) \in Int
         /\ Left(l, s, j + 1) = Left(l, s, j) - s
         /\ j + 1 < k => Left(l, s, j) >= s
         /\ j + 1 = k => Left(l, s, j) <= s
  <1> DEFINE y == j * s
  <1>1. y \in Nat /\ (j + 1) * s = y + s
    OBVIOUS
  <1>2. Left(l, s, j) = l - y
    BY DEF Left
  <1>3. Left(l, s, j + 1) = l - (y + s)
    BY <1>1 DEF Left
  <1>4. ASSUME j + 1 = k PROVE k * s = y + s
    BY <1>1, <1>4
  <1>5. ASSUME j + 1 < k PROVE y + s + s <= k * s
    <2> DEFINE e == k - (j + 2)
    <2>1. e \in Nat /\ k = e + (j + 2)
      BY <1>5
    <2> HIDE DEF e
    <2>2. k * s = e * s + (j + 2) * s
      BY <2>1
    <2>3. e * s \in Nat /\ (j + 2) * s = y + s + s
      BY <2>1
    <2> DEFINE z == e * s
    <2>4. z \in Nat /\ k * s = z + (y + s + s)
      BY <2>2, <2>3
    <2> HIDE DEF y, z
    <2>5. z + (y + s + s) >= y + s + s
      BY <1>1, <2>4
    <2> QED BY <2>4, <2>5
  <1> DEFINE w == k * s
  <1>6. w \in Nat /\ l <= w /\ w <= l + s - 1
    OBVIOUS
  <1>7. (j + 1 = k => w = y + s) /\ (j + 1 < k => y + s + s <= w)
    BY <1>4, <1>5
  <1> HIDE DEF y, w
  <1>8. l - y \in Int /\ l - (y + s) = (l - y) - s
    BY <1>1
  <1>9. j + 1 < k => l - y >= s
    BY <1>1, <1>6, <1>7
  <1>10. j + 1 = k => l - y <= s
    BY <1>1, <1>6, <1>7
  <1> QED BY <1>2, <1>3, <1>8, <1>9, <1>10

LEMMA SomeOf ==
  ASSUME NEW F, IsFiniteSet(F), NEW n \in Nat, n <= Cardinality(F)
  PROVE  \E s \in [1 .. n -> F] : \A i, j \in 1 .. n : i /= j => s[i] /= s[j]
  <1> DEFINE K == Cardinality(F)
  <1>1. K \in Nat
    BY FS_CardinalityType
  <1>2. PICK b : b \in Bijection(1 .. K, F)
    BY FS_CardinalityType DEF ExistsBijection
  <1>3. b \in [1 .. K -> F] /\ \A i, j \in 1 .. K : b[i] = b[j] => i = j
    BY <1>2 DEF Bijection, Injection, IsInjective
  <1> DEFINE s == [i \in 1 .. n |-> b[i]]
  <1>4. \A i \in 1 .. n : i \in 1 .. K
    BY <1>1
  <1>5. s \in [1 .. n -> F]
    BY <1>3, <1>4
  <1>6. \A i, j \in 1 .. n : i /= j => s[i] /= s[j]
    BY <1>3, <1>4
  <1> QED BY <1>5, <1>6

LEMMA AllocOK ==
  ASSUME PbufInv, NEW length \in Nat, NEW offset \in Offsets, PbufAlloc(length, offset)
  PROVE  PbufInv'
  <1> DEFINE Rec == [ref : Nat, len : Int, tot_len : Int, room : Int, next : Pbufs \cup {NoPbuf}]
             first == IF length < BufSize - offset THEN length ELSE BufSize - offset
             needed == 1 + (length - first + BufSize - 1) \div BufSize
             free == {p \in Pbufs : buf[p].ref = 0}
             n == IF needed < Cardinality(free) THEN needed ELSE Cardinality(free)
             q == CHOOSE s \in [1 .. n -> free] : \A i, j \in 1 .. n : i /= j => s[i] /= s[j]
             rem(i) == IF i = 1 THEN length ELSE length - first - (i - 2) * BufSize
             new(i) == [ref |-> 1, tot_len |-> rem(i), room |-> IF i = 1 THEN offset ELSE 0,
                        len |-> IF i = 1 THEN first ELSE IF rem(i) < BufSize THEN rem(i) ELSE BufSize,
                        next |-> IF i = n THEN NoPbuf ELSE q[i + 1]]
             chained == [p \in Pbufs |->
                          IF \E i \in 1 .. n : q[i] = p THEN new(CHOOSE i \in 1 .. n : q[i] = p)
                          ELSE buf[p]]
             L == length - first
             K == (L + BufSize - 1) \div BufSize
  <1>1. /\ n > 0
        /\ IF n < needed
             THEN buf' = FreeChain(chained, q[1]) /\ UNCHANGED held
             ELSE buf' = chained /\ held' = [held EXCEPT ![q[1]] = 1]
    BY DEF PbufAlloc
  <1>2. PbufsOK(buf, held)
    BY DEF PbufInv
  <1>3. buf \in [Pbufs -> Rec] /\ held \in [Pbufs -> Nat]
    BY <1>2 DEF PbufsOK, PbufTyped
  <1>4. /\ BufSize \in Nat /\ BufSize >= 1 /\ offset \in Nat
        /\ first \in Nat /\ L \in Nat
        /\ L = 0 => length = first
    <2>1. BufSize \in Nat \ {0} /\ offset \in 0 .. BufSize - 1
      BY PbufAssumption
    <2> QED BY <2>1
  <1>5. K \in Nat /\ L <= K * BufSize /\ K * BufSize <= L + BufSize - 1 /\ needed = 1 + K
    <2> HIDE DEF first
    <2>1. BufSize \in Nat \ {0}
      BY PbufAssumption
    <2>2. needed = 1 + K
      OBVIOUS
    <2> HIDE DEF L, K, needed
    <2>3. K = (L + BufSize - 1) \div BufSize
      BY DEF K
    <2> QED BY <1>4, <2>1, <2>2, <2>3, Pieces
  <1> HIDE DEF first, needed, K
  <1>6. IsFiniteSet(free) /\ Cardinality(free) \in Nat /\ Cardinality(free) <= Cardinality(Pbufs)
    <2>1. free \in SUBSET Pbufs
      OBVIOUS
    <2> HIDE DEF free
    <2> QED BY <2>1, PbufAssumption, FS_Subset, FS_CardinalityType
  <1>7. /\ n \in Nat /\ n >= 1 /\ n <= Cardinality(free) /\ n <= needed
        /\ n <= Cardinality(Pbufs) /\ (n < needed \/ n = needed)
    <2>1. needed \in Nat
      BY <1>5
    <2>2. Cardinality(Pbufs) \in Nat
      BY PbufCount
    <2> DEFINE m == Cardinality(free)
    <2> HIDE DEF m
    <2>3. m \in Nat /\ m <= Cardinality(Pbufs)
      BY <1>6 DEF m
    <2> USE DEF m
    <2>4. n > 0
      BY <1>1
    <2> QED BY <2>1, <2>2, <2>3, <2>4
  <1>8. q \in [1 .. n -> free] /\ \A i, j \in 1 .. n : i /= j => q[i] /= q[j]
    <2> HIDE DEF n, free
    <2>1. \E s \in [1 .. n -> free] : \A i, j \in 1 .. n : i /= j => s[i] /= s[j]
      BY <1>6, <1>7, SomeOf
    <2> QED BY <2>1
  <1> HIDE DEF q, n
  <1>9. /\ q \in [1 .. n -> Pbufs]
        /\ \A i, j \in 1 .. n : q[i] = q[j] => i = j
        /\ \A i \in 1 .. n : q[i] \in Pbufs /\ buf[q[i]].ref = 0
    BY <1>8
  <1> HIDE DEF free
  <1>10. ASSUME NEW i \in 1 .. n PROVE rem(i) \in Int /\ (i > 1 => rem(i) = Left(L, BufSize, i - 2) /\ i - 2 \in Nat)
    <2>1. CASE i = 1
      BY <2>1
    <2>2. CASE i > 1
      <3>1. i - 2 \in Nat
        BY <1>7, <2>2
      <3>2. rem(i) = L - (i - 2) * BufSize
        BY <2>2
      <3>3. (i - 2) * BufSize \in Nat
        BY <1>4, <3>1
      <3>4. L - (i - 2) * BufSize \in Int
        <4> DEFINE y == (i - 2) * BufSize
        <4>1. y \in Nat
          BY <3>3
        <4> HIDE DEF y, L
        <4>2. L - y \in Int
          BY <1>4, <4>1
        <4> QED BY <4>2 DEF y
      <3> QED BY <3>1, <3>2, <3>4 DEF Left
    <2> QED BY <1>7, <2>1, <2>2
  <1> HIDE DEF L, rem
  <1>11. ASSUME NEW i \in 1 .. n PROVE new(i) \in Rec
    <2>1. i = n \/ i + 1 \in 1 .. n
      BY <1>7
    <2>2. (IF i = n THEN NoPbuf ELSE q[i + 1]) \in Pbufs \cup {NoPbuf}
      BY <1>9, <2>1
    <2>3. (IF i = 1 THEN offset ELSE 0) \in Int
      BY <1>4
    <2>4. (IF i = 1 THEN first ELSE IF rem(i) < BufSize THEN rem(i) ELSE BufSize) \in Int
      BY <1>4, <1>10
    <2>5. rem(i) \in Int
      BY <1>10
    <2> QED BY ONLY <2>2, <2>3, <2>4, <2>5 DEF Rec, new
  <1>12. \A i \in 1 .. n : chained[q[i]] = new(i)
    <2> HIDE DEF new
    <2> SUFFICES ASSUME NEW i \in 1 .. n PROVE chained[q[i]] = new(i)
      OBVIOUS
    <2>1. (CHOOSE j \in 1 .. n : q[j] = q[i]) = i
      <3> DEFINE j == CHOOSE j \in 1 .. n : q[j] = q[i]
      <3>1. j \in 1 .. n /\ q[j] = q[i]
        OBVIOUS
      <3> HIDE DEF j
      <3>2. j = i
        BY <1>9, <3>1
      <3> QED BY <3>2 DEF j
    <2> QED BY <1>9, <2>1
  <1>13. \A x \in Pbufs : (\A i \in 1 .. n : x /= q[i]) => chained[x] = buf[x]
    <2> HIDE DEF new
    <2> QED OBVIOUS
  <1>14. chained = [x \in Pbufs |-> chained[x]]
    <2> HIDE DEF new
    <2> QED OBVIOUS
  <1> HIDE DEF chained
  <1>15. \A i \in 1 .. n : /\ chained[q[i]].ref = 1
                           /\ chained[q[i]].next = IF i = n THEN NoPbuf ELSE q[i + 1]
                           /\ chained[q[i]].tot_len = rem(i)
                           /\ chained[q[i]].len = IF i = 1 THEN first ELSE IF rem(i) < BufSize THEN rem(i) ELSE BufSize
    <2> SUFFICES ASSUME NEW i \in 1 .. n
                 PROVE  /\ chained[q[i]].ref = 1
                        /\ chained[q[i]].next = IF i = n THEN NoPbuf ELSE q[i + 1]
                        /\ chained[q[i]].tot_len = rem(i)
                        /\ chained[q[i]].len = IF i = 1 THEN first ELSE IF rem(i) < BufSize THEN rem(i) ELSE BufSize
      OBVIOUS
    <2>1. chained[q[i]] = new(i)
      BY <1>12
    <2> QED BY <2>1
  <1>16. IsLinked(chained, q, n)
    <2> HIDE DEF new, Rec
    <2>1. ASSUME NEW x \in Pbufs PROVE chained[x] \in Rec
      <3>1. CASE \A i \in 1 .. n : x /= q[i]
        BY <1>3, <1>13, <3>1
      <3>2. CASE \E i \in 1 .. n : x = q[i]
        BY <1>11, <1>12, <3>2
      <3> QED BY <3>1, <3>2
    <2>2. chained \in [Pbufs -> Rec]
      BY <1>14, <2>1
    <2>3. n \in Nat \ {0}
      BY <1>7
    <2>4. \A i \in 1 .. n : chained[q[i]].ref = 1 /\ chained[q[i]].next = IF i = n THEN NoPbuf ELSE q[i + 1]
      BY <1>15
    <2> QED BY <1>9, <1>13, <2>2, <2>3, <2>4 DEF IsLinked, Rec
  <1> HIDE DEF new
  <1>17. CASE n < needed
    <2>1. buf' = FreeChain(chained, q[1]) /\ held' = held
      BY <1>1, <1>17
    <2>2. PbufsOK(FreeChain(chained, q[1]), held)
      BY <1>2, <1>7, <1>16, LinkedFreed
    <2> QED BY <2>1, <2>2 DEF PbufInv
  <1>18. CASE n = needed
    <2>1. buf' = chained /\ held' = [held EXCEPT ![q[1]] = 1]
      BY <1>1, <1>5, <1>18
    <2>2. /\ q[1] \in Pbufs /\ PbufTyped(chained) /\ CountedAnd(chained, held, q[1])
          /\ held[q[1]] = 0
          /\ \A x \in Pbufs : (\A i \in 1 .. n : x /= q[i]) => SumsUp(chained, x)
      BY <1>2, <1>16, LinkedOK
    <2>3. CountedBy(chained, held')
      <3>1. ASSUME NEW x \in Pbufs PROVE chained[x].ref = held'[x] + Cardinality(PredsIn(chained, x))
        <4> DEFINE k == Cardinality(PredsIn(chained, x))
        <4>1. k \in Nat /\ chained[x].ref = held[x] + k + (IF x = q[1] THEN 1 ELSE 0) /\ held[x] \in Nat
          BY <1>3, <2>2, PredsFinite DEF CountedAnd
        <4>2. held'[x] = IF x = q[1] THEN 1 ELSE held[x]
          BY <1>3, <2>1
        <4> HIDE DEF k
        <4>3. CASE x = q[1]
          <5>1. held'[x] = 1 /\ held[x] = 0
            BY <2>2, <4>2, <4>3
          <5>2. chained[x].ref = 0 + k + 1
            BY <4>1, <4>3, <5>1
          <5> QED BY <4>1, <5>1, <5>2 DEF k
        <4>4. CASE x /= q[1]
          BY <4>1, <4>2, <4>4 DEF k
        <4> QED BY <4>3, <4>4
      <3> QED BY <3>1 DEF CountedBy
    <2>4. ASSUME NEW i \in 1 .. n PROVE SumsUp(chained, q[i])
      <3>1. n = 1 + K
        BY <1>5, <1>18
      <3>2. /\ chained[q[i]].tot_len = rem(i)
            /\ chained[q[i]].len = IF i = 1 THEN first ELSE IF rem(i) < BufSize THEN rem(i) ELSE BufSize
            /\ chained[q[i]].next = IF i = n THEN NoPbuf ELSE q[i + 1]
        BY <1>15
      <3>3. CASE i = n
        <4>1. chained[q[i]].tot_len = chained[q[i]].len
          <5>1. CASE i = 1
            <6>1. K = 0
              BY <1>5, <3>1, <3>3, <5>1
            <6>2. L <= 0 * BufSize
              BY <1>5, <6>1
            <6>3. L = 0
              BY <1>4, <6>2
            <6> QED BY <1>4, <3>2, <5>1, <6>3 DEF rem
          <5>2. CASE i > 1
            <6>1. rem(i) = Left(L, BufSize, i - 2) /\ i - 2 \in Nat /\ rem(i) \in Int
              BY <1>10, <5>2
            <6>2. (i - 2) + 1 = K
              BY <1>5, <1>7, <3>1, <3>3, <5>2
            <6>3. Left(L, BufSize, i - 2) <= BufSize
              BY <1>4, <1>5, <6>1, <6>2, LeftFacts
            <6>4. chained[q[i]].len = IF rem(i) < BufSize THEN rem(i) ELSE BufSize
              BY <3>2, <5>2
            <6> QED BY <1>4, <3>2, <6>1, <6>3, <6>4
          <5> QED BY <1>7, <5>1, <5>2
        <4>2. chained[q[i]].next = NoPbuf
          BY <3>2, <3>3
        <4>3. chained[q[i]].tot_len \in Int
          BY <1>10, <3>2
        <4> QED BY <4>1, <4>2, <4>3 DEF SumsUp, Behind
      <3>4. CASE i /= n
        <4>1. i + 1 \in 1 .. n /\ i + 1 > 1 /\ (i + 1) - 2 = i - 1
          BY <1>7, <3>4
        <4> DEFINE y == q[i + 1]
        <4>2. y \in Pbufs /\ y /= NoPbuf /\ chained[y].tot_len = rem(i + 1)
          BY <1>9, <1>15, <4>1, PbufAssumption
        <4>3. rem(i + 1) = Left(L, BufSize, i - 1) /\ i - 1 \in Nat
          BY <1>10, <4>1
        <4>4. chained[q[i]].next = y
          BY <3>2, <3>4
        <4>5. rem(i) = chained[q[i]].len + rem(i + 1)
          <5>1. CASE i = 1
            <6>1. rem(i + 1) = Left(L, BufSize, 0)
              BY <4>3, <5>1
            <6>2. 0 * BufSize = 0
              BY <1>4
            <6>3. Left(L, BufSize, 0) = L
              BY <1>4, <6>2 DEF Left
            <6>4. rem(i) = length /\ chained[q[i]].len = first
              BY <3>2, <5>1 DEF rem
            <6> QED BY <1>4, <6>1, <6>3, <6>4 DEF L
          <5>2. CASE i > 1
            <6>1. rem(i) = Left(L, BufSize, i - 2) /\ i - 2 \in Nat /\ rem(i) \in Int
              BY <1>10, <5>2
            <6>2. (i - 2) + 1 < K /\ (i - 2) + 1 = i - 1
              BY <1>5, <1>7, <3>1, <3>4, <5>2
            <6>3. Left(L, BufSize, i - 2) >= BufSize /\ Left(L, BufSize, i - 1) = Left(L, BufSize, i - 2) - BufSize
              <7>1. BufSize \in Nat \ {0} /\ L \in Nat /\ K \in Nat
                BY <1>4, <1>5
              <7>2. Left(L, BufSize, (i - 2) + 1) = Left(L, BufSize, i - 2) - BufSize /\ Left(L, BufSize, i - 2) >= BufSize
                BY <1>5, <6>1, <6>2, <7>1, LeftFacts
              <7> QED BY <6>2, <7>2
            <6>4. chained[q[i]].len = BufSize
              <7>1. ~(rem(i) < BufSize)
                BY <1>4, <6>1, <6>3
              <7>2. i /= 1
                BY <5>2
              <7> QED BY <3>2, <7>1, <7>2
            <6>5. rem(i + 1) = rem(i) - BufSize
              BY <4>3, <6>1, <6>3
            <6> DEFINE u == rem(i)
                       v == rem(i + 1)
            <6>6. u \in Int /\ v = u - BufSize
              BY <6>1, <6>5
            <6> HIDE DEF u, v
            <6>7. u = BufSize + v
              BY <1>4, <6>6
            <6> QED BY <6>4, <6>7 DEF u, v
          <5> QED BY <1>7, <5>1, <5>2
        <4> HIDE DEF y
        <4> QED BY <3>2, <4>2, <4>4, <4>5 DEF SumsUp, Behind
      <3> QED BY <3>3, <3>4
    <2>5. \A x \in Pbufs : SumsUp(chained, x)
      BY <2>2, <2>4
    <2>6. held' \in [Pbufs -> Nat]
      BY <1>3, <2>1
    <2>7. PbufsOK(chained, held')
      BY <2>2, <2>3, <2>5, <2>6 DEF PbufsOK
    <2> QED BY <2>1, <2>7 DEF PbufInv
  <1> QED BY <1>7, <1>17, <1>18

-----------------------------------------------------------------------------
(* The theorems.                                                           *)

LEMMA PbufStep == PbufInv /\ [PbufNext]_pbufVars => PbufInv'
  <1> SUFFICES ASSUME PbufInv, [PbufNext]_pbufVars PROVE PbufInv'
    OBVIOUS
  <1>0. CASE UNCHANGED pbufVars
    <2>1. buf' = buf /\ held' = held
      BY <1>0 DEF pbufVars
    <2> QED BY <2>1 DEF PbufInv
  <1>1. ASSUME NEW length \in 0 .. MaxPacket, NEW offset \in Offsets, PbufAlloc(length, offset)
        PROVE  PbufInv'
    <2>1. length \in Nat
      BY PbufAssumption
    <2> QED BY <1>1, <2>1, AllocOK
  <1>2. ASSUME NEW p \in Pbufs, NEW newLen \in 0 .. MaxPacket, PbufRealloc(p, newLen)
        PROVE  PbufInv'
    <2>1. newLen \in Int
      BY PbufAssumption
    <2> QED BY <1>2, <2>1, ReallocOK
  <1>3. ASSUME NEW p \in Pbufs, HideHeader(p, 1) PROVE PbufInv'
    <2> DEFINE d == -1
    <2>1. IsHead(p) /\ UNCHANGED held /\ d \in Int
          /\ buf' = [buf EXCEPT ![p].len = @ - 1, ![p].tot_len = @ - 1, ![p].room = @ + 1]
      BY <1>3 DEF HideHeader
    <2>2. buf[p].len \in Int /\ buf[p].tot_len \in Int /\ buf[p].room \in Int
      BY PbufFacts DEF PbufInv
    <2>3. buf[p].len - 1 = buf[p].len + d /\ buf[p].tot_len - 1 = buf[p].tot_len + d
          /\ buf[p].room + 1 = buf[p].room - d
      BY <2>2
    <2> HIDE DEF d
    <2>4. buf \in [Pbufs -> [ref : Nat, len : Int, tot_len : Int, room : Int, next : Pbufs \cup {NoPbuf}]]
      BY DEF PbufInv, PbufsOK, PbufTyped
    <2>5. buf' = [buf EXCEPT ![p].len = @ + d, ![p].tot_len = @ + d, ![p].room = @ - d]
      BY <2>1, <2>3, <2>4
    <2> QED BY <2>1, <2>5, HeaderOK
  <1>4. ASSUME NEW p \in Pbufs, RevealHeader(p, 1) PROVE PbufInv'
    <2>1. IsHead(p) /\ UNCHANGED held
          /\ buf' = [buf EXCEPT ![p].len = @ + 1, ![p].tot_len = @ + 1, ![p].room = @ - 1]
      BY <1>4 DEF RevealHeader
    <2> DEFINE d == 1
    <2>2. d \in Int /\ buf' = [buf EXCEPT ![p].len = @ + d, ![p].tot_len = @ + d, ![p].room = @ - d]
      BY <2>1
    <2> HIDE DEF d
    <2> QED BY <2>1, <2>2, HeaderOK
  <1>5. ASSUME NEW p \in Pbufs, PbufRef(p) \/ PbufFree(p) \/ PbufDechain(p) PROVE PbufInv'
    BY <1>5, PbufRefOK, PbufFreeOK, DechainOK
  <1>6. ASSUME NEW h \in Pbufs, NEW t \in Pbufs, PbufCat(h, t) \/ PbufChain(h, t) PROVE PbufInv'
    BY <1>6, PbufCatOK, PbufChainOK
  <1> QED BY <1>0, <1>1, <1>2, <1>3, <1>4, <1>5, <1>6 DEF PbufNext

\* Whatever is allocated, joined, cut, shortened and freed, in any order: the
\* invariant that pbuf_free's walk needs and keeps.
THEOREM PbufInvariant == PbufSpec => []PbufInv
  <1>1. PbufInit => PbufInv
    BY PbufInitOK
  <1>2. PbufInv /\ [PbufNext]_pbufVars => PbufInv'
    BY PbufStep
  <1> QED BY <1>1, <1>2, PTL DEF PbufSpec

\* The count of each pbuf is the number of the pointers to it.
THEOREM PbufRefsCounted == PbufSpec => []RefsCounted
  <1>1. PbufInv => RefsCounted
    BY DEF PbufInv, PbufsOK, CountedBy, RefsCounted, Preds, PredsIn
  <1> QED BY <1>1, PbufInvariant, PTL

\* tot_len is what is left of the packet from each pbuf on.
THEOREM PbufLengthsAddUp == PbufSpec => []LengthsAddUp
  <1>1. PbufInv => LengthsAddUp
    BY DEF PbufInv, PbufsOK, SumsUp, Behind, LengthsAddUp
  <1> QED BY <1>1, PbufInvariant, PTL
=============================================================================
