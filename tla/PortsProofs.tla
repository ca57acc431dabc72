----------------------------- MODULE PortsProofs -----------------------------
(***************************************************************************)
(* Proofs about TcpPorts for any number of pcbs, any range of ports and    *)
(* any other ends, of an application that does nothing of Misuse.          *)
(*                                                                         *)
(* The first half is about linked lists: IsListOf says that the heads and  *)
(* next pointers of L make up a list of the pcbs of S, without a cycle and *)
(* none twice; a walk along it meets S, TCP_REG adds a pcb that is on no   *)
(* list, TCP_RMV removes one, and neither touches another list.  With that *)
(* the four lists are four disjoint sets F (Holds), and the second half is *)
(* about sets: Good says what the states, ports and ends of the pcbs have  *)
(* to do with their lists.  A pcb moves by leaving its list (TakenOff) and *)
(* joining another (PutOn).                                                *)
(***************************************************************************)
EXTENDS TcpPorts, Integers, FiniteSetTheorems, WellFoundedInduction, TLAPS

Names == {"listen", "bound", "active", "timewait"}

\* Heads and next pointers.
Linked(L) == L \in [head : [Names -> All \cup {Null}], next : [All -> All \cup {Null}]]

\* c[1] .. c[n] are the pcbs of a list, in order.
IsPath(L, name, c, n) ==
  /\ n \in Nat
  /\ c \in [1 .. n -> All]
  /\ \A i, j \in 1 .. n : c[i] = c[j] => i = j
  /\ L.head[name] = IF n = 0 THEN Null ELSE c[1]
  /\ \A i \in 1 .. n : L.next[c[i]] = IF i = n THEN Null ELSE c[i + 1]

IsListOf(L, name, S) ==
  \E n, c : IsPath(L, name, c, n) /\ S = {c[i] : i \in 1 .. n}

-----------------------------------------------------------------------------
(* Walks along a list.                                                     *)

LEMMA LeastNatural == ASSUME NEW S, S \subseteq Nat, S /= {}
                      PROVE  \E m \in S : \A k \in S : m <= k
  <1> DEFINE R == OpToRel(<, Nat)
  <1>1. IsWellFoundedOn(R, Nat)
    BY NatLessThanWellFounded
  <1>2. PICK m \in S : \A k \in S : ~(<<k, m>> \in R)
    BY <1>1, WFMin
  <1>3. \A k \in S : ~(k < m)
    BY <1>2 DEF OpToRel
  <1> QED BY ONLY <1>3, m \in S, S \subseteq Nat

LEMMA AllFinite == IsFiniteSet(All) /\ Cardinality(All) \in Nat /\ Null \notin All
  <1>1. IsFiniteSet(All)
    BY PortAssumption, FS_Union DEF All
  <1> QED BY <1>1, PortAssumption, FS_CardinalityType DEF All

\* A walk along a list meets its pcbs.
LEMMA WalkIs ==
  ASSUME NEW L, NEW name, NEW S, IsListOf(L, name, S)
  PROVE  Walk(L, name) = S
  <1> DEFINE N == Cardinality(All)
             W(f) == [k \in 0 .. N |->
                       IF k = 0 THEN {L.head[name]} \ {Null}
                       ELSE f[k - 1] \cup ({L.next[p] : p \in f[k - 1]} \ {Null})]
             h == CHOOSE f : f = W(f)
  <1>0. N \in Nat
    BY AllFinite
  <1>1. PICK n, c : IsPath(L, name, c, n) /\ S = {c[i] : i \in 1 .. n}
    BY DEF IsListOf
  <1>2. /\ n \in Nat /\ c \in [1 .. n -> All]
        /\ \A i, j \in 1 .. n : c[i] = c[j] => i = j
        /\ L.head[name] = IF n = 0 THEN Null ELSE c[1]
        /\ \A i \in 1 .. n : L.next[c[i]] = IF i = n THEN Null ELSE c[i + 1]
    BY <1>1 DEF IsPath
  <1>3. n <= N
    <2>1. c \in Injection(1 .. n, All)
      BY <1>2 DEF Injection, IsInjective
    <2>2. Cardinality(1 .. n) = n
      BY <1>2, FS_Interval
    <2> QED BY <2>1, <2>2, AllFinite, FS_Injection
  <1> DEFINE g == [k \in 0 .. N |-> {c[i] : i \in {j \in 1 .. n : j <= k + 1}}]
  <1>4. ASSUME NEW k \in 0 .. N PROVE g[k] = W(g)[k]
    <2>1. CASE k = 0
      <3>1. CASE n = 0
        <4>1. g[k] = {}
          BY <1>0, <2>1, <3>1
        <4> QED BY <1>0, <1>2, <2>1, <3>1, <4>1
      <3>2. CASE n /= 0
        <4>1. {j \in 1 .. n : j <= 0 + 1} = {1} /\ 1 \in 1 .. n
          BY <1>2, <3>2
        <4>2. g[k] = {c[1]}
          BY <1>0, <2>1, <4>1
        <4>3. c[1] /= Null
          BY <1>2, <4>1, AllFinite
        <4> QED BY <1>0, <1>2, <2>1, <3>2, <4>2, <4>3
      <3> QED BY <3>1, <3>2
    <2>2. CASE k /= 0
      <3>1. k - 1 \in 0 .. N /\ g[k - 1] = {c[i] : i \in {j \in 1 .. n : j <= k}}
            /\ g[k] = {c[i] : i \in {j \in 1 .. n : j <= k + 1}}
        <4>1. k - 1 \in 0 .. N /\ (k - 1) + 1 = k
          BY <1>0, <2>2
        <4> QED BY <4>1
      <3>2. W(g)[k] = g[k - 1] \cup ({L.next[p] : p \in g[k - 1]} \ {Null})
        <4> HIDE DEF g
        <4> QED BY <2>2
      <3> HIDE DEF g
      <3>3. ASSUME NEW i \in 1 .. n, i <= k + 1 PROVE c[i] \in W(g)[k]
        <4>1. CASE i <= k
          BY <3>1, <3>2, <4>1
        <4>2. CASE ~(i <= k)
          <5>1. i - 1 \in 1 .. n /\ i - 1 <= k /\ i - 1 /= n /\ (i - 1) + 1 = i
            BY <1>0, <1>2, <2>2, <3>3, <4>2
          <5>2. c[i - 1] \in g[k - 1] /\ L.next[c[i - 1]] = c[i]
            BY <1>2, <3>1, <5>1
          <5>3. c[i] /= Null
            BY <1>2, AllFinite
          <5> QED BY <3>2, <5>2, <5>3
        <4> QED BY <4>1, <4>2
      <3>4. ASSUME NEW x \in W(g)[k] PROVE x \in g[k]
        <4>1. CASE x \in g[k - 1]
          <5>1. \A i \in 1 .. n : i <= k => i <= k + 1
            BY <1>0, <1>2
          <5> QED BY <3>1, <4>1, <5>1
        <4>2. CASE x \notin g[k - 1]
          <5>1. PICK p \in g[k - 1] : x = L.next[p] /\ x /= Null
            BY <3>2, <3>4, <4>2
          <5>2. PICK i \in 1 .. n : i <= k /\ p = c[i]
            BY <3>1
          <5>3. i /= n /\ x = c[i + 1]
            BY <1>2, <5>1, <5>2
          <5>4. i + 1 \in 1 .. n /\ i + 1 <= k + 1
            BY <1>0, <1>2, <5>2, <5>3
          <5> QED BY <3>1, <5>3, <5>4
        <4> QED BY <4>1, <4>2
      <3> QED BY <3>1, <3>3, <3>4
    <2> QED BY <2>1, <2>2
  <1>5. g = W(g)
    <2>1. DOMAIN g = 0 .. N /\ DOMAIN W(g) = 0 .. N /\ g = [k \in 0 .. N |-> g[k]]
      OBVIOUS
    <2>2. W(g) = [k \in 0 .. N |-> W(g)[k]]
      OBVIOUS
    <2> HIDE DEF g, W
    <2> QED BY <1>4, <2>1, <2>2
  <1>6. h = W(h)
    <2> HIDE DEF W, g
    <2> QED BY <1>5
  <1>7. Walk(L, name) = h[N]
    BY DEF Walk
  <1> HIDE DEF h
  <1>8. \A k \in 0 .. N : h[k] = g[k]
    <2> DEFINE T == {k \in 0 .. N : h[k] /= g[k]}
    <2> SUFFICES ASSUME T /= {} PROVE FALSE
      OBVIOUS
    <2>0. T \subseteq Nat
      BY <1>0
    <2>1. PICK k \in T : \A j \in T : k <= j
      <3> HIDE DEF T
      <3> QED BY <2>0, LeastNatural
    <2>2. k \in 0 .. N /\ h[k] /= g[k]
      OBVIOUS
    <2>3. h[k] = W(h)[k]
      BY <1>6
    <2>4. g[k] = W(g)[k]
      BY <1>4, <2>2
    <2> HIDE DEF g, T
    <2>5. CASE k = 0
      BY <2>2, <2>3, <2>4, <2>5
    <2>6. CASE k /= 0
      <3>1. k - 1 \in 0 .. N /\ ~(k <= k - 1)
        BY <1>0, <2>2, <2>6
      <3>2. h[k - 1] = g[k - 1]
        BY <2>1, <3>1 DEF T
      <3> QED BY <2>2, <2>3, <2>4, <2>6, <3>2
    <2> QED BY <2>5, <2>6
  <1>9. g[N] = S
    <2>1. \A i \in 1 .. n : i <= N + 1
      BY <1>0, <1>2, <1>3
    <2>2. N \in 0 .. N
      BY <1>0
    <2>3. g[N] = {c[i] : i \in {j \in 1 .. n : j <= N + 1}}
      BY <2>2
    <2> QED BY <1>1, <2>1, <2>3
  <1> HIDE DEF g
  <1>10. N \in 0 .. N
    BY <1>0
  <1> QED BY <1>7, <1>8, <1>9, <1>10

-----------------------------------------------------------------------------
(* TCP_REG and TCP_RMV.                                                    *)

\* The pcbs of a list are linked pcbs.
LEMMA ListInAll ==
  ASSUME NEW L, NEW name, NEW S, IsListOf(L, name, S)
  PROVE  S \subseteq All /\ (L.head[name] = Null <=> S = {})
         /\ (L.head[name] /= Null => L.head[name] \in S)
  <1>1. PICK n, c : IsPath(L, name, c, n) /\ S = {c[i] : i \in 1 .. n}
    BY DEF IsListOf
  <1>2. n \in Nat /\ c \in [1 .. n -> All]
        /\ L.head[name] = IF n = 0 THEN Null ELSE c[1]
    BY <1>1 DEF IsPath
  <1>3. S \subseteq All
    BY <1>1, <1>2
  <1>4. CASE n = 0
    BY <1>1, <1>2, <1>4
  <1>5. CASE n /= 0
    <2>1. 1 \in 1 .. n
      BY <1>2, <1>5
    <2>2. c[1] \in S /\ c[1] /= Null /\ L.head[name] = c[1]
      BY <1>1, <1>2, <1>5, <2>1, AllFinite
    <2> QED BY <1>3, <2>2
  <1> QED BY <1>3, <1>4, <1>5

\* A list depends on its head and on the next pointers of its pcbs.
LEMMA SameList ==
  ASSUME NEW L, NEW K, NEW name, NEW S, IsListOf(L, name, S),
         K.head[name] = L.head[name], \A q \in S : K.next[q] = L.next[q]
  PROVE  IsListOf(K, name, S)
  <1>1. PICK n, c : IsPath(L, name, c, n) /\ S = {c[i] : i \in 1 .. n}
    BY DEF IsListOf
  <1>2. \A i \in 1 .. n : K.next[c[i]] = L.next[c[i]]
    BY <1>1
  <1>3. IsPath(K, name, c, n)
    BY <1>1, <1>2 DEF IsPath
  <1> QED BY <1>1, <1>3 DEF IsListOf

\* TCP_REG puts a pcb that is on no list in front.
LEMMA RegIs ==
  ASSUME NEW L, Linked(L), NEW name \in Names, NEW S, IsListOf(L, name, S),
         NEW p \in All, p \notin S
  PROVE  IsListOf(Reg(L, name, p), name, S \cup {p})
  <1>1. PICK n, c : IsPath(L, name, c, n) /\ S = {c[i] : i \in 1 .. n}
    BY DEF IsListOf
  <1>2. /\ n \in Nat /\ c \in [1 .. n -> All]
        /\ \A i, j \in 1 .. n : c[i] = c[j] => i = j
        /\ L.head[name] = IF n = 0 THEN Null ELSE c[1]
        /\ \A i \in 1 .. n : L.next[c[i]] = IF i = n THEN Null ELSE c[i + 1]
    BY <1>1 DEF IsPath
  <1> DEFINE K == Reg(L, name, p)
             d == [i \in 1 .. n + 1 |-> IF i = 1 THEN p ELSE c[i - 1]]
  <1>3. K.head[name] = p /\ \A q \in All : K.next[q] = IF q = p THEN L.head[name] ELSE L.next[q]
    BY DEF Reg, Linked
  <1>4. \A i \in 1 .. n : c[i] \in S /\ c[i] /= p
    BY <1>1
  <1>5. n + 1 \in Nat /\ n + 1 /= 0
    BY <1>2
  <1>6. \A i \in 1 .. n + 1 : i /= 1 => i - 1 \in 1 .. n
    BY <1>2
  <1>7. d \in [1 .. n + 1 -> All]
    BY <1>2, <1>6
  <1>8. d[1] = p /\ \A i \in 1 .. n + 1 : i /= 1 => d[i] = c[i - 1]
    BY <1>2
  <1> HIDE DEF K, d
  <1>9. ASSUME NEW i \in 1 .. n + 1, NEW j \in 1 .. n + 1, d[i] = d[j] PROVE i = j
    <2>1. CASE i = 1 /\ j = 1
      BY <2>1
    <2>2. CASE i /= 1 /\ j /= 1
      <3>1. i - 1 = j - 1
        BY <1>2, <1>6, <1>8, <1>9, <2>2
      <3> QED BY <1>2, <3>1
    <2>3. CASE i = 1 /\ j /= 1
      BY <1>4, <1>6, <1>8, <1>9, <2>3
    <2>4. CASE i /= 1 /\ j = 1
      BY <1>4, <1>6, <1>8, <1>9, <2>4
    <2> QED BY <2>1, <2>2, <2>3, <2>4
  <1>10. ASSUME NEW i \in 1 .. n + 1
         PROVE  K.next[d[i]] = IF i = n + 1 THEN Null ELSE d[i + 1]
    <2>1. CASE i = 1
      <3>1. K.next[d[i]] = L.head[name]
        BY <1>3, <1>8, <2>1
      <3>2. CASE n = 0
        BY <1>2, <2>1, <3>1, <3>2
      <3>3. CASE n /= 0
        <4>1. i + 1 \in 1 .. n + 1 /\ i + 1 /= 1 /\ (i + 1) - 1 = 1 /\ i /= n + 1
          BY <1>2, <2>1, <3>3
        <4>2. d[i + 1] = c[1]
          BY <1>8, <4>1
        <4> QED BY <1>2, <3>1, <3>3, <4>1, <4>2
      <3> QED BY <3>2, <3>3
    <2>2. CASE i /= 1
      <3>1. i - 1 \in 1 .. n /\ d[i] = c[i - 1] /\ c[i - 1] /= p /\ c[i - 1] \in All
        BY <1>2, <1>4, <1>6, <1>8, <2>2
      <3>2. K.next[d[i]] = IF i - 1 = n THEN Null ELSE c[(i - 1) + 1]
        BY <1>2, <1>3, <3>1
      <3>3. (i - 1 = n <=> i = n + 1) /\ (i - 1) + 1 = i /\ (i + 1) - 1 = i
        BY <1>2
      <3>4. CASE i = n + 1
        BY <3>2, <3>3, <3>4
      <3>5. CASE i /= n + 1
        <4>1. i + 1 \in 1 .. n + 1 /\ i + 1 /= 1
          BY <1>2, <3>5
        <4>2. d[i + 1] = c[i]
          BY <1>8, <3>3, <4>1
        <4> QED BY <3>2, <3>3, <3>5, <4>2
      <3> QED BY <3>4, <3>5
    <2> QED BY <2>1, <2>2
  <1>11. IsPath(K, name, d, n + 1)
    BY <1>3, <1>5, <1>7, <1>8, <1>9, <1>10 DEF IsPath
  <1>12. S \cup {p} = {d[i] : i \in 1 .. n + 1}
    <2>1. ASSUME NEW i \in 1 .. n + 1 PROVE d[i] \in S \cup {p}
      BY <1>4, <1>6, <1>8
    <2>2. ASSUME NEW i \in 1 .. n PROVE c[i] \in {d[j] : j \in 1 .. n + 1}
      <3>1. i + 1 \in 1 .. n + 1 /\ i + 1 /= 1 /\ (i + 1) - 1 = i
        BY <1>2
      <3>2. d[i + 1] = c[i]
        BY <1>8, <3>1
      <3> QED BY <3>1, <3>2
    <2>3. 1 \in 1 .. n + 1
      BY <1>2
    <2> QED BY <1>1, <1>8, <2>1, <2>2, <2>3
  <1> QED BY <1>11, <1>12 DEF IsListOf, K

LEMMA RegOther ==
  ASSUME NEW L, Linked(L), NEW name \in Names, NEW other \in Names, other /= name,
         NEW S, IsListOf(L, other, S), NEW p \in All, p \notin S
  PROVE  IsListOf(Reg(L, name, p), other, S)
  <1>1. S \subseteq All
    BY ListInAll
  <1>2. Reg(L, name, p).head[other] = L.head[other]
        /\ \A q \in S : Reg(L, name, p).next[q] = L.next[q]
    BY <1>1 DEF Reg, Linked
  <1> QED BY <1>2, SameList

LEMMA RegLinked ==
  ASSUME NEW L, Linked(L), NEW name \in Names, NEW p \in All
  PROVE  Linked(Reg(L, name, p))
  BY DEF Reg, Linked

\* TCP_RMV changes the list it is given only, and the next pointer of the pcb.
LEMMA RmvOther ==
  ASSUME NEW L, Linked(L), NEW name \in Names, NEW R, IsListOf(L, name, R),
         NEW other \in Names, other /= name, NEW S, IsListOf(L, other, S),
         R \cap S = {}, NEW p \in All, p \notin S
  PROVE  IsListOf(Rmv(L, name, p), other, S)
  <1>1. Walk(L, name) = R /\ S \subseteq All
    BY WalkIs, ListInAll
  <1>2. Rmv(L, name, p).head[other] = L.head[other]
    BY DEF Rmv, Linked
  <1>3. ASSUME NEW q \in S PROVE Rmv(L, name, p).next[q] = L.next[q]
    <2>1. q \in All /\ q /= p /\ q \notin {x \in Walk(L, name) : L.next[x] = p}
      BY <1>1
    <2> QED BY <2>1 DEF Rmv, Linked
  <1> QED BY <1>2, <1>3, SameList

LEMMA RmvLinked ==
  ASSUME NEW L, Linked(L), NEW name \in Names, NEW p \in All
  PROVE  Linked(Rmv(L, name, p))
  BY DEF Rmv, Linked

\* A pcb that is on no list loses its next pointer only.
LEMMA RmvAbsent ==
  ASSUME NEW L, Linked(L), NEW name \in Names, NEW S, IsListOf(L, name, S),
         NEW p \in All, p \notin S
  PROVE  IsListOf(Rmv(L, name, p), name, S)
  <1>1. Walk(L, name) = S /\ S \subseteq All /\ L.head[name] /= p
    BY WalkIs, ListInAll, AllFinite
  <1>2. \A q \in S : L.next[q] /= p
    <2>1. PICK n, c : IsPath(L, name, c, n) /\ S = {c[i] : i \in 1 .. n}
      BY DEF IsListOf
    <2>2. ASSUME NEW i \in 1 .. n PROVE L.next[c[i]] /= p
      <3>1. n \in Nat /\ L.next[c[i]] = IF i = n THEN Null ELSE c[i + 1]
        BY <2>1 DEF IsPath
      <3>2. CASE i = n
        BY <3>1, <3>2, AllFinite
      <3>3. CASE i /= n
        <4>1. i + 1 \in 1 .. n
          BY <3>1, <3>3
        <4> QED BY <2>1, <3>1, <3>3, <4>1
      <3> QED BY <3>2, <3>3
    <2> QED BY <2>1, <2>2
  <1>3. Rmv(L, name, p).head[name] = L.head[name]
    BY <1>1 DEF Rmv, Linked
  <1>4. ASSUME NEW q \in S PROVE Rmv(L, name, p).next[q] = L.next[q]
    BY <1>1, <1>2 DEF Rmv, Linked
  <1> QED BY <1>3, <1>4, SameList

\* TCP_RMV takes a pcb out of its list.
LEMMA RmvIs ==
  ASSUME NEW L, Linked(L), NEW name \in Names, NEW S, IsListOf(L, name, S),
         NEW p \in S
  PROVE  IsListOf(Rmv(L, name, p), name, S \ {p})
  <1>1. PICK n, c : IsPath(L, name, c, n) /\ S = {c[i] : i \in 1 .. n}
    BY DEF IsListOf
  <1>2. /\ n \in Nat /\ c \in [1 .. n -> All]
        /\ \A i, j \in 1 .. n : c[i] = c[j] => i = j
        /\ L.head[name] = IF n = 0 THEN Null ELSE c[1]
        /\ \A i \in 1 .. n : L.next[c[i]] = IF i = n THEN Null ELSE c[i + 1]
    BY <1>1 DEF IsPath
  <1>3. PICK k \in 1 .. n : p = c[k]
    BY <1>1
  <1>4. Walk(L, name) = S /\ S \subseteq All
    BY WalkIs, ListInAll
  <1> DEFINE K == Rmv(L, name, p)
             m == n - 1
             d == [i \in 1 .. m |-> IF i < k THEN c[i] ELSE c[i + 1]]
  <1>5. m \in Nat /\ n = m + 1 /\ k \in Nat /\ 1 <= k /\ k <= n
    BY <1>2, <1>3
  <1> HIDE DEF m
  <1>6. \A i \in 1 .. m : i \in 1 .. n /\ i + 1 \in 1 .. n /\ i \in Nat
    BY <1>5
  <1>7. d \in [1 .. m -> All]
    BY <1>2, <1>6
  <1>8. \A i \in 1 .. m : d[i] = IF i < k THEN c[i] ELSE c[i + 1]
    OBVIOUS
  <1>9. \A i \in 1 .. n : L.next[c[i]] = p <=> i + 1 = k
    <2> TAKE i \in 1 .. n
    <2>1. i \in Nat
      BY <1>5
    <2>2. CASE i = n
      BY <1>2, <1>4, <1>5, <2>2, AllFinite
    <2>3. CASE i /= n
      <3>1. i + 1 \in 1 .. n
        BY <1>5, <2>3
      <3> QED BY <1>2, <1>3, <2>3, <3>1
    <2> QED BY <2>2, <2>3
  \* What the links are after TCP_RMV.
  <1>10. K.head[name] = IF m = 0 THEN Null ELSE IF k = 1 THEN c[2] ELSE c[1]
    <2>1. n /= 0 /\ L.head[name] = c[1] /\ 1 \in 1 .. n
      BY <1>2, <1>5
    <2>2. CASE k = 1
      <3>1. K.head[name] = L.next[c[1]]
        BY <1>3, <2>1, <2>2 DEF Rmv, Linked
      <3> QED BY <1>2, <1>5, <2>1, <2>2, <3>1
    <2>3. CASE k /= 1
      <3>1. L.head[name] /= p
        BY <1>2, <1>3, <2>1, <2>3
      <3>2. K.head[name] = c[1]
        BY <2>1, <3>1 DEF Rmv, Linked
      <3> QED BY <1>5, <2>3, <3>2
    <2> QED BY <2>2, <2>3
  <1>11. ASSUME NEW i \in 1 .. n, i /= k
         PROVE  K.next[c[i]] = IF i + 1 = k THEN L.next[p] ELSE L.next[c[i]]
    <2>1. c[i] \in All /\ c[i] \in S /\ c[i] /= p
      BY <1>1, <1>2, <1>3, <1>11
    <2>2. CASE L.head[name] = p
      <3>1. k = 1 /\ i + 1 /= k
        <4>1. 1 \in 1 .. n /\ i \in Nat /\ 1 <= i
          BY <1>5
        <4>2. c[1] = p
          BY <1>2, <1>5, <2>2
        <4> QED BY <1>2, <1>3, <4>1, <4>2
      <3>2. K.next[c[i]] = L.next[c[i]]
        BY <2>1, <2>2 DEF Rmv, Linked
      <3> QED BY <3>1, <3>2
    <2>3. CASE L.head[name] /= p
      <3>1. K.next[c[i]] = IF c[i] \in {x \in Walk(L, name) : L.next[x] = p}
                             THEN L.next[p] ELSE L.next[c[i]]
        BY <2>1, <2>3 DEF Rmv, Linked
      <3>2. c[i] \in {x \in Walk(L, name) : L.next[x] = p} <=> i + 1 = k
        BY <1>4, <1>9, <2>1
      <3> QED BY <3>1, <3>2
    <2> QED BY <2>2, <2>3
  <1> HIDE DEF d, K
  <1>12. ASSUME NEW i \in 1 .. m, NEW j \in 1 .. m, d[i] = d[j] PROVE i = j
    <2>1. i \in Nat /\ j \in Nat
      BY <1>6
    <2>2. CASE i < k /\ j < k
      BY <1>2, <1>6, <1>8, <1>12, <2>2
    <2>3. CASE ~(i < k) /\ ~(j < k)
      <3>1. i + 1 = j + 1
        BY <1>2, <1>6, <1>8, <1>12, <2>3
      <3> QED BY <2>1, <3>1
    <2>4. CASE i < k /\ ~(j < k)
      <3>1. i = j + 1
        BY <1>2, <1>6, <1>8, <1>12, <2>4
      <3> QED BY <1>5, <2>1, <2>4, <3>1
    <2>5. CASE ~(i < k) /\ j < k
      <3>1. i + 1 = j
        BY <1>2, <1>6, <1>8, <1>12, <2>5
      <3> QED BY <1>5, <2>1, <2>5, <3>1
    <2> QED BY <2>2, <2>3, <2>4, <2>5
  <1>13. K.head[name] = IF m = 0 THEN Null ELSE d[1]
    <2>1. CASE m = 0
      BY <1>10, <2>1
    <2>2. CASE m /= 0
      <3>1. 1 \in 1 .. m /\ (1 < k <=> k /= 1) /\ 1 + 1 = 2
        BY <1>5, <2>2
      <3> QED BY <1>8, <1>10, <2>2, <3>1
    <2> QED BY <2>1, <2>2
  <1>14. ASSUME NEW i \in 1 .. m
         PROVE  K.next[d[i]] = IF i = m THEN Null ELSE d[i + 1]
    <2>1. i \in Nat /\ i \in 1 .. n /\ i + 1 \in 1 .. n /\ i <= m
          /\ (i /= m => i + 1 \in 1 .. m)
      BY <1>5, <1>6
    <2>2. CASE i < k
      <3>1. i /= k /\ d[i] = c[i] /\ i /= n
        BY <1>5, <1>8, <2>1, <2>2
      <3>2. K.next[d[i]] = IF i + 1 = k THEN L.next[p] ELSE L.next[c[i]]
        BY <1>11, <2>1, <3>1
      <3>3. CASE i + 1 = k
        <4>1. K.next[d[i]] = IF i + 1 = n THEN Null ELSE c[(i + 1) + 1]
          BY <1>2, <1>3, <2>1, <3>2, <3>3
        <4>2. i + 1 = n <=> i = m
          BY <1>5, <2>1
        <4>3. i /= m => d[i + 1] = c[(i + 1) + 1]
          <5>1. ~(i + 1 < k)
            BY <1>5, <3>3
          <5> QED BY <1>8, <2>1, <5>1
        <4> QED BY <4>1, <4>2, <4>3
      <3>4. CASE i + 1 /= k
        <4>1. K.next[d[i]] = c[i + 1]
          BY <1>2, <2>1, <3>1, <3>2, <3>4
        <4>2. i + 1 < k /\ i /= m
          BY <1>5, <2>1, <2>2, <3>4
        <4>3. d[i + 1] = c[i + 1]
          BY <1>8, <2>1, <4>2
        <4> QED BY <4>1, <4>2, <4>3
      <3> QED BY <3>3, <3>4
    <2>3. CASE ~(i < k)
      <3>1. d[i] = c[i + 1] /\ i + 1 /= k /\ (i + 1) + 1 /= k
        BY <1>5, <1>8, <2>1, <2>3
      <3>2. K.next[d[i]] = L.next[c[i + 1]]
        BY <1>11, <2>1, <3>1
      <3>3. K.next[d[i]] = IF i + 1 = n THEN Null ELSE c[(i + 1) + 1]
        BY <1>2, <2>1, <3>2
      <3>4. i + 1 = n <=> i = m
        BY <1>5, <2>1
      <3>5. i /= m => d[i + 1] = c[(i + 1) + 1]
        <4>1. ~(i + 1 < k)
          BY <1>5, <2>1, <2>3
        <4> QED BY <1>8, <2>1, <4>1
      <3> QED BY <3>3, <3>4, <3>5
    <2> QED BY <2>2, <2>3
  <1>15. IsPath(K, name, d, m)
    BY <1>5, <1>7, <1>12, <1>13, <1>14 DEF IsPath
  <1>16. S \ {p} = {d[i] : i \in 1 .. m}
    <2>1. ASSUME NEW i \in 1 .. m PROVE d[i] \in S \ {p}
      <3>1. i \in Nat
        BY <1>6
      <3>2. CASE i < k
        <4>1. i /= k
          BY <1>5, <3>1, <3>2
        <4> QED BY <1>1, <1>2, <1>3, <1>6, <1>8, <3>2, <4>1
      <3>3. CASE ~(i < k)
        <4>1. i + 1 /= k
          BY <1>5, <3>1, <3>3
        <4> QED BY <1>1, <1>2, <1>3, <1>6, <1>8, <3>3, <4>1
      <3> QED BY <3>2, <3>3
    <2>2. ASSUME NEW i \in 1 .. n, i /= k PROVE c[i] \in {d[j] : j \in 1 .. m}
      <3>1. i \in Nat
        BY <1>5
      <3>2. CASE i < k
        <4>1. i \in 1 .. m
          BY <1>5, <3>1, <3>2
        <4> QED BY <1>8, <3>2, <4>1
      <3>3. CASE ~(i < k)
        <4>1. i - 1 \in 1 .. m /\ ~(i - 1 < k) /\ (i - 1) + 1 = i
          BY <1>5, <2>2, <3>1, <3>3
        <4>2. d[i - 1] = c[i]
          BY <1>8, <4>1
        <4> QED BY <4>1, <4>2
      <3> QED BY <3>2, <3>3
    <2>3. ASSUME NEW q \in S \ {p} PROVE q \in {d[j] : j \in 1 .. m}
      <3>1. PICK i \in 1 .. n : q = c[i]
        BY <1>1
      <3>2. i /= k
        BY <1>3, <3>1
      <3> QED BY <2>2, <3>1, <3>2
    <2>4. ASSUME NEW q \in {d[j] : j \in 1 .. m} PROVE q \in S \ {p}
      BY <2>1
    <2> QED BY <2>3, <2>4
  <1> QED BY <1>15, <1>16 DEF IsListOf, K

-----------------------------------------------------------------------------
(* The four lists together: F gives the pcbs of each.                      *)

Holds(L, F) ==
  /\ Linked(L)
  /\ F \in [Names -> SUBSET All]
  /\ \A name \in Names : IsListOf(L, name, F[name])
  /\ \A a, b \in Names : a /= b => F[a] \cap F[b] = {}

OnNone(F, p) == \A name \in Names : p \notin F[name]

With(F, name, p) == [F EXCEPT ![name] = @ \cup {p}]
Without(F, name, p) == [F EXCEPT ![name] = @ \ {p}]

LEMMA HoldsListed ==
  ASSUME NEW L, NEW F, Holds(L, F)
  PROVE  \A name \in Names : Walk(L, name) = F[name] /\ F[name] \subseteq All
  BY WalkIs DEF Holds

LEMMA HoldsReg ==
  ASSUME NEW L, NEW F, Holds(L, F), NEW name \in Names, NEW p \in All, OnNone(F, p)
  PROVE  Holds(Reg(L, name, p), With(F, name, p))
  <1> DEFINE G == With(F, name, p)
  <1>1. \A x \in Names : G[x] = IF x = name THEN F[x] \cup {p} ELSE F[x]
    BY DEF With, Holds
  <1>2. G \in [Names -> SUBSET All]
    BY DEF With, Holds
  <1> HIDE DEF G
  <1>3. ASSUME NEW x \in Names PROVE IsListOf(Reg(L, name, p), x, G[x])
    <2>1. CASE x = name
      <3>1. G[x] = F[name] \cup {p} /\ Linked(L) /\ IsListOf(L, name, F[name]) /\ p \notin F[name]
        BY <1>1, <2>1 DEF Holds, OnNone
      <3>2. IsListOf(Reg(L, name, p), name, F[name] \cup {p})
        BY <3>1, RegIs
      <3> QED BY <2>1, <3>1, <3>2
    <2>2. CASE x /= name
      BY <1>1, <2>2, RegOther DEF Holds, OnNone
    <2> QED BY <2>1, <2>2
  <1>4. ASSUME NEW a \in Names, NEW b \in Names, a /= b PROVE G[a] \cap G[b] = {}
    BY <1>1, <1>4 DEF Holds, OnNone
  <1>5. Linked(Reg(L, name, p))
    BY RegLinked DEF Holds
  <1>6. Holds(Reg(L, name, p), G)
    BY <1>2, <1>3, <1>4, <1>5 DEF Holds
  <1> QED BY <1>6 DEF G

\* The pcb may be on the list that TCP_RMV is given, or on none.
LEMMA HoldsRmv ==
  ASSUME NEW L, NEW F, Holds(L, F), NEW name \in Names, NEW p \in All,
         \A x \in Names : x /= name => p \notin F[x]
  PROVE  Holds(Rmv(L, name, p), Without(F, name, p))
  <1> DEFINE G == Without(F, name, p)
  <1>1. \A x \in Names : G[x] = IF x = name THEN F[x] \ {p} ELSE F[x]
    BY DEF Without, Holds
  <1>2. G \in [Names -> SUBSET All]
    BY DEF Without, Holds
  <1> HIDE DEF G
  <1>3. ASSUME NEW x \in Names PROVE IsListOf(Rmv(L, name, p), x, G[x])
    <2>1. CASE x = name
      <3>1. CASE p \in F[name]
        <4>1. G[x] = F[name] \ {p} /\ Linked(L) /\ IsListOf(L, name, F[name])
          BY <1>1, <2>1 DEF Holds
        <4>2. IsListOf(Rmv(L, name, p), name, F[name] \ {p})
          BY <3>1, <4>1, RmvIs
        <4> QED BY <2>1, <4>1, <4>2
      <3>2. CASE p \notin F[name]
        <4>1. G[x] = F[name]
          BY <1>1, <2>1, <3>2
        <4> QED BY <2>1, <3>2, <4>1, RmvAbsent DEF Holds
      <3> QED BY <3>1, <3>2
    <2>2. CASE x /= name
      <3>1. F[name] \cap F[x] = {} /\ p \notin F[x] /\ G[x] = F[x]
        BY <1>1, <2>2 DEF Holds
      <3> QED BY <2>2, <3>1, RmvOther DEF Holds
    <2> QED BY <2>1, <2>2
  <1>4. ASSUME NEW a \in Names, NEW b \in Names, a /= b PROVE G[a] \cap G[b] = {}
    BY <1>1, <1>4 DEF Holds
  <1>5. Linked(Rmv(L, name, p))
    BY RmvLinked DEF Holds
  <1>6. Holds(Rmv(L, name, p), G)
    BY <1>2, <1>3, <1>4, <1>5 DEF Holds
  <1> QED BY <1>6 DEF G

\* A pcb that is allocated is on no list: its next pointer can be cleared.
LEMMA HoldsCleared ==
  ASSUME NEW L, NEW F, Holds(L, F), NEW p \in All, OnNone(F, p)
  PROVE  Holds([L EXCEPT !.next[p] = Null], F)
  <1> DEFINE K == [L EXCEPT !.next[p] = Null]
  <1>1. Linked(K) /\ K.head = L.head /\ \A q \in All : q /= p => K.next[q] = L.next[q]
    BY DEF Holds, Linked
  <1> HIDE DEF K
  <1>2. ASSUME NEW x \in Names PROVE IsListOf(K, x, F[x])
    <2>1. IsListOf(L, x, F[x]) /\ p \notin F[x] /\ F[x] \subseteq All
      BY DEF Holds, OnNone
    <2> QED BY <1>1, <2>1, SameList
  <1>3. Holds(K, F)
    BY <1>1, <1>2 DEF Holds
  <1> QED BY <1>3 DEF K

\* Moving a pcb to the front of its list keeps the list's pcbs.
LEMMA HoldsToFront ==
  ASSUME NEW L, NEW F, Holds(L, F), NEW name \in Names, NEW p \in F[name]
  PROVE  Holds(ToFront(L, name, p), F)
  <1>1. CASE L.head[name] = p
    BY <1>1 DEF ToFront
  <1>2. CASE L.head[name] /= p
    <2>1. p \in All /\ \A x \in Names : x /= name => p \notin F[x]
      BY DEF Holds
    <2>2. Holds(Rmv(L, name, p), Without(F, name, p))
      BY <2>1, HoldsRmv
    <2>3. OnNone(Without(F, name, p), p)
      BY <2>1 DEF OnNone, Without, Holds
    <2>4. Holds(Reg(Rmv(L, name, p), name, p), With(Without(F, name, p), name, p))
      BY <2>1, <2>2, <2>3, HoldsReg
    <2>5. With(Without(F, name, p), name, p) = F
      <3>1. \A x \in Names : With(Without(F, name, p), name, p)[x] = F[x]
        BY DEF With, Without, Holds
      <3>2. F \in [Names -> SUBSET All]
            /\ With(Without(F, name, p), name, p) \in [Names -> SUBSET All]
        BY <2>1 DEF With, Without, Holds
      <3> HIDE DEF With, Without
      <3> QED BY <3>1, <3>2
    <2> QED BY <1>2, <2>4, <2>5 DEF ToFront
  <1> QED BY <1>1, <1>2

-----------------------------------------------------------------------------
(* tcp_new_port.                                                           *)

LEMMA Remainders ==
  ASSUME NEW c \in Nat, c /= 0
  PROVE  /\ \A x \in Nat : x % c \in 0 .. c - 1
         /\ \A x \in 0 .. c - 1 : x % c = x /\ (x + c) % c = x
  <1>1. ASSUME NEW x \in Nat PROVE x % c \in 0 .. c - 1
    OBVIOUS
  <1>2. ASSUME NEW x \in 0 .. c - 1 PROVE x % c = x /\ (x + c) % c = x
    OBVIOUS
  <1> QED BY <1>1, <1>2

LEMMA RangeSize ==
  /\ Tries \in Nat /\ Tries /= 0 /\ Tries = RangeEnd - RangeStart + 1
  /\ Cardinality(PortRange) = Tries
  /\ RangeStart \in Nat /\ RangeStart /= 0 /\ RangeEnd \in Nat /\ RangeStart <= RangeEnd
  <1>1. RangeStart \in Nat /\ RangeStart /= 0 /\ RangeEnd \in Nat /\ RangeStart <= RangeEnd
    BY PortAssumption
  <1>2. Cardinality(PortRange) = RangeEnd - RangeStart + 1
    BY <1>1, FS_Interval DEF PortRange
  <1> QED BY <1>1, <1>2 DEF Tries

\* The numbers of the search stay in the range and cover it.
LEMMA SearchCovers ==
  ASSUME tcp_port \in PortRange
  PROVE  /\ \A n \in Nat : Nth(n) \in PortRange
         /\ \A port \in PortRange : \E n \in 1 .. Tries : Nth(n) = port
  <1> DEFINE C == Tries
             t == tcp_port - RangeStart
  <1>1. C \in Nat /\ C /= 0 /\ C = RangeEnd - RangeStart + 1 /\ Cardinality(PortRange) = C
        /\ RangeStart \in Nat /\ RangeEnd \in Nat
    BY RangeSize
  <1>2. t \in 0 .. C - 1 /\ tcp_port \in Nat /\ tcp_port = RangeStart + t
    BY <1>1 DEF PortRange
  <1>3. \A n \in Nat : Nth(n) = RangeStart + ((t + n) % C)
    BY <1>1 DEF Nth
  <1> HIDE DEF C, t
  <1>4. ASSUME NEW n \in Nat PROVE Nth(n) \in PortRange
    <2>1. t + n \in Nat
      BY <1>1, <1>2
    <2>2. (t + n) % C \in 0 .. C - 1
      BY <1>1, <2>1, Remainders
    <2> QED BY <1>1, <1>3, <2>2 DEF PortRange
  <1>5. ASSUME NEW port \in PortRange PROVE \E n \in 1 .. C : Nth(n) = port
    <2>1. port - RangeStart \in 0 .. C - 1 /\ port \in Nat
      BY <1>1 DEF PortRange
    <2>2. PICK x \in 0 .. C - 1 : port = RangeStart + x
      BY <1>1, <2>1
    <2>3. CASE t < x
      <3>1. x - t \in 1 .. C /\ x - t \in Nat /\ t + (x - t) = x
        BY <1>1, <1>2, <2>2, <2>3
      <3>2. x % C = x
        BY <1>1, Remainders
      <3>3. Nth(x - t) = RangeStart + x
        BY <1>3, <3>1, <3>2
      <3> QED BY <2>2, <3>1, <3>3
    <2>4. CASE ~(t < x)
      <3>1. x + C - t \in 1 .. C /\ x + C - t \in Nat /\ t + (x + C - t) = x + C
        BY <1>1, <1>2, <2>2, <2>4
      <3>2. (x + C) % C = x
        BY <1>1, Remainders
      <3>3. Nth(x + C - t) = RangeStart + x
        BY <1>3, <3>1, <3>2
      <3> QED BY <2>2, <3>1, <3>3
    <2> QED BY <2>3, <2>4
  <1> QED BY <1>4, <1>5 DEF C

\* tcp_new_port gives a port that nobody has, and none only if all are taken.
LEMMA NewPortIs ==
  ASSUME tcp_port \in PortRange
  PROVE  /\ NewPort.last \in PortRange /\ NewPort.port \in Nat
         /\ NewPort.port /= 0 => ~PortTaken(NewPort.port)
         /\ FindsFreePort
  <1> DEFINE free == {n \in 1 .. Tries : ~PortTaken(Nth(n))}
  <1>0. Tries \in Nat
    BY RangeSize
  <1>1. CASE free = {}
    <2>1. NewPort = [port |-> 0, last |-> Nth(Tries)]
      BY <1>1 DEF NewPort
    <2>2. \A port \in PortRange : PortTaken(port)
      BY <1>1, SearchCovers
    <2> QED BY <1>0, <2>1, <2>2, SearchCovers DEF FindsFreePort
  <1>2. CASE free /= {}
    <2> DEFINE n == CHOOSE k \in free : \A m \in free : k <= m
    <2>1. NewPort = [port |-> Nth(n), last |-> Nth(n)]
      BY <1>2 DEF NewPort
    <2>2. free \subseteq Nat
      BY <1>0
    <2>3. n \in free
      <3> HIDE DEF free
      <3>1. \E k \in free : \A m \in free : k <= m
        BY <1>2, <2>2, LeastNatural
      <3> QED BY <3>1
    <2> HIDE DEF n
    <2>4. n \in Nat /\ ~PortTaken(Nth(n))
      BY <2>2, <2>3
    <2>5. Nth(n) \in PortRange
      BY <2>4, SearchCovers
    <2>6. Nth(n) \in Nat /\ Nth(n) /= 0
      BY <2>5, RangeSize DEF PortRange
    <2> QED BY <2>1, <2>4, <2>5, <2>6 DEF FindsFreePort
  <1> QED BY <1>1, <1>2

-----------------------------------------------------------------------------
(* The invariant: F gives the pcbs of each list, c the pcbs.               *)

PcbRecord == [state : {"free", "closed", "listen", "active", "timewait"},
              ip : {IpAny, Here}, port : Nat, remote : Remotes \cup {NoRemote}]

\* A pcb is on the list of its state; a closed one may be on that of the bound.
ListsOfStates(c, F) ==
  /\ \A p \in All : /\ p \in F["listen"] <=> c[p].state = "listen"
                    /\ p \in F["active"] <=> c[p].state = "active"
                    /\ p \in F["timewait"] <=> c[p].state = "timewait"
                    /\ p \in F["bound"] => c[p].state = "closed" /\ c[p].port /= 0
  /\ \A p \in Pcbs : c[p].state /= "listen"
  /\ \A l \in Listeners : c[l].state \in {"free", "listen"}

\* No other pcb waits for connections at the port of a bound or listening one,
\* and none that is connected has the port of a bound one.
PortsApart(c, F) ==
  /\ \A p, q \in F["bound"] \cup F["listen"] : p /= q => c[p].port /= c[q].port
  /\ \A p \in F["bound"], q \in F["active"] \cup F["timewait"] : c[p].port /= c[q].port

\* Connections have our address, and different ends.
EndsApart(c, F) ==
  /\ \A p \in F["active"] \cup F["timewait"] : c[p].ip = Here
  /\ \A p, q \in F["active"] \cup F["timewait"] :
       p /= q /\ c[p].remote = c[q].remote => c[p].port /= c[q].port

Good(c, F) ==
  /\ c \in [All -> PcbRecord]
  /\ F \in [Names -> SUBSET All]
  /\ ListsOfStates(c, F)
  /\ PortsApart(c, F)
  /\ EndsApart(c, F)

PortsIInv ==
  /\ tcp_port \in PortRange
  /\ \E F : Holds(lists, F) /\ Good(pcb, F)

LEMMA OffLists ==
  ASSUME NEW c, NEW F, Good(c, F), NEW p \in All, 
         c[p].state = "free" \/ (c[p].state = "closed" /\ p \notin F["bound"])
  PROVE  OnNone(F, p)
  BY DEF Good, ListsOfStates, OnNone, Names

\* A pcb that leaves its list becomes free, or closed.
LEMMA TakenOff ==
  ASSUME NEW c, NEW F, Good(c, F), NEW name \in Names, NEW p \in All,
         \A x \in Names : x /= name => p \notin F[x],
         NEW r \in PcbRecord, r.state = "free" \/ (r.state = "closed" /\ p \in Pcbs)
  PROVE  Good([c EXCEPT ![p] = r], Without(F, name, p))
         /\ OnNone(Without(F, name, p), p)
  <1> DEFINE d == [c EXCEPT ![p] = r]
             G == Without(F, name, p)
  <1>1. \A q \in All : d[q] = IF q = p THEN r ELSE c[q]
    BY DEF Good
  <1>2. \A x \in Names : G[x] = F[x] \ {p}
    BY DEF Good, Without
  <1>3. d \in [All -> PcbRecord] /\ G \in [Names -> SUBSET All]
    BY DEF Good, Without
  <1>4. OnNone(G, p)
    BY <1>2 DEF OnNone
  <1> HIDE DEF d, G
  <1>5. G["listen"] = F["listen"] \ {p} /\ G["bound"] = F["bound"] \ {p}
        /\ G["active"] = F["active"] \ {p} /\ G["timewait"] = F["timewait"] \ {p}
        /\ F["listen"] \subseteq All /\ F["bound"] \subseteq All
        /\ F["active"] \subseteq All /\ F["timewait"] \subseteq All
    BY <1>2 DEF Names, Good
  <1>6. ListsOfStates(d, G)
    <2>1. ListsOfStates(c, F) /\ Pcbs \subseteq All /\ Listeners \subseteq All
          /\ Pcbs \cap Listeners = {}
      BY PortAssumption DEF Good, All
    <2>2. r.state /= "listen" /\ r.state /= "active" /\ r.state /= "timewait"
          /\ (p \in Listeners => r.state = "free")
      BY <2>1
    <2>3. ASSUME NEW q \in All
          PROVE  /\ q \in G["listen"] <=> d[q].state = "listen"
                 /\ q \in G["active"] <=> d[q].state = "active"
                 /\ q \in G["timewait"] <=> d[q].state = "timewait"
                 /\ q \in G["bound"] => d[q].state = "closed" /\ d[q].port /= 0
      <3>1. CASE q = p
        BY <1>1, <1>5, <2>2, <3>1
      <3>2. CASE q /= p
        BY <1>1, <1>5, <2>1, <3>2 DEF ListsOfStates
      <3> QED BY <3>1, <3>2
    <2>4. ASSUME NEW q \in Pcbs PROVE d[q].state /= "listen"
      BY <1>1, <2>1, <2>2 DEF ListsOfStates
    <2>5. ASSUME NEW q \in Listeners PROVE d[q].state \in {"free", "listen"}
      BY <1>1, <2>1, <2>2 DEF ListsOfStates
    <2> QED BY <2>3, <2>4, <2>5 DEF ListsOfStates
  <1>7. PortsApart(d, G)
    BY <1>1, <1>5 DEF Good, PortsApart
  <1>8. EndsApart(d, G)
    BY <1>1, <1>5 DEF Good, EndsApart
  <1>9. Good(d, G)
    BY <1>3, <1>6, <1>7, <1>8 DEF Good
  <1> QED BY <1>4, <1>9 DEF d, G

LEMMA StaysOff ==
  ASSUME NEW c, NEW F, Good(c, F), NEW p \in All, OnNone(F, p),
         NEW r \in PcbRecord, r.state = "free" \/ (r.state = "closed" /\ p \in Pcbs)
  PROVE  Good([c EXCEPT ![p] = r], F)
  <1>1. "listen" \in Names
    BY DEF Names
  <1>2. Without(F, "listen", p) = F
    <2>1. \A x \in Names : Without(F, "listen", p)[x] = F[x]
      BY <1>1 DEF Without, Good, OnNone
    <2>2. F \in [Names -> SUBSET All] /\ Without(F, "listen", p) \in [Names -> SUBSET All]
      BY DEF Without, Good
    <2> HIDE DEF Without
    <2> QED BY <2>1, <2>2
  <1> QED BY <1>1, <1>2, TakenOff DEF OnNone

\* What a pcb must be to join a list: of the kind and the state of the list...
Fits(name, p, r) ==
  /\ name = "bound" => p \in Pcbs /\ r.state = "closed" /\ r.port /= 0
  /\ name = "listen" => p \in Listeners /\ r.state = "listen"
  /\ name = "active" => p \in Pcbs /\ r.state = "active" /\ r.ip = Here
  /\ name = "timewait" => p \in Pcbs /\ r.state = "timewait" /\ r.ip = Here

\* ... and with a port, or ends, that the others do not have.
Differs(c, F, name, r) ==
  /\ name \in {"bound", "listen"} =>
       \A q \in F["bound"] \cup F["listen"] : c[q].port /= r.port
  /\ name = "bound" => \A q \in F["active"] \cup F["timewait"] : c[q].port /= r.port
  /\ name \in {"active", "timewait"} =>
       /\ \A q \in F["bound"] : c[q].port /= r.port
       /\ \A q \in F["active"] \cup F["timewait"] :
            c[q].remote = r.remote => c[q].port /= r.port

\* A pcb that was on no list joins one.
LEMMA PutOn ==
  ASSUME NEW c, NEW F, Good(c, F), NEW name \in Names, NEW p \in All, OnNone(F, p),
         NEW r \in PcbRecord, Fits(name, p, r), Differs(c, F, name, r)
  PROVE  Good([c EXCEPT ![p] = r], With(F, name, p))
  <1> DEFINE d == [c EXCEPT ![p] = r]
             G == With(F, name, p)
  <1>1. \A q \in All : d[q] = IF q = p THEN r ELSE c[q]
    BY DEF Good
  <1>2. \A x \in Names : G[x] = IF x = name THEN F[x] \cup {p} ELSE F[x]
    BY DEF Good, With
  <1>3. d \in [All -> PcbRecord] /\ G \in [Names -> SUBSET All]
    BY DEF Good, With
  <1> HIDE DEF d, G
  <1>4. /\ G["listen"] = IF name = "listen" THEN F["listen"] \cup {p} ELSE F["listen"]
        /\ G["bound"] = IF name = "bound" THEN F["bound"] \cup {p} ELSE F["bound"]
        /\ G["active"] = IF name = "active" THEN F["active"] \cup {p} ELSE F["active"]
        /\ G["timewait"] = IF name = "timewait" THEN F["timewait"] \cup {p} ELSE F["timewait"]
        /\ F["listen"] \subseteq All /\ F["bound"] \subseteq All
        /\ F["active"] \subseteq All /\ F["timewait"] \subseteq All
        /\ p \notin F["listen"] /\ p \notin F["bound"]
        /\ p \notin F["active"] /\ p \notin F["timewait"]
    BY <1>2 DEF Names, Good, OnNone
  <1>5. name = "bound" \/ name = "listen" \/ name = "active" \/ name = "timewait"
    BY DEF Names
  <1>6. ListsOfStates(d, G)
    <2>1. ListsOfStates(c, F) /\ Pcbs \subseteq All /\ Listeners \subseteq All
          /\ Pcbs \cap Listeners = {}
      BY PortAssumption DEF Good, All
    <2>2. ASSUME NEW q \in All
          PROVE  /\ q \in G["listen"] <=> d[q].state = "listen"
                 /\ q \in G["active"] <=> d[q].state = "active"
                 /\ q \in G["timewait"] <=> d[q].state = "timewait"
                 /\ q \in G["bound"] => d[q].state = "closed" /\ d[q].port /= 0
      <3>1. CASE q = p
        BY <1>1, <1>4, <1>5, <3>1 DEF Fits
      <3>2. CASE q /= p
        BY <1>1, <1>4, <2>1, <3>2 DEF ListsOfStates
      <3> QED BY <3>1, <3>2
    <2>3. ASSUME NEW q \in Pcbs PROVE d[q].state /= "listen"
      BY <1>1, <1>5, <2>1 DEF ListsOfStates, Fits
    <2>4. ASSUME NEW q \in Listeners PROVE d[q].state \in {"free", "listen"}
      BY <1>1, <1>5, <2>1 DEF ListsOfStates, Fits
    <2> QED BY <2>2, <2>3, <2>4 DEF ListsOfStates
  <1>7. PortsApart(d, G)
    <2>1. ASSUME NEW q1 \in G["bound"] \cup G["listen"], NEW q2 \in G["bound"] \cup G["listen"],
                 q1 /= q2
          PROVE  d[q1].port /= d[q2].port
      <3>1. q1 \in All /\ q2 \in All
        BY <1>4
      <3>2. CASE q1 = p
        BY <1>1, <1>4, <1>5, <2>1, <3>1, <3>2 DEF Differs
      <3>3. CASE q2 = p
        BY <1>1, <1>4, <1>5, <2>1, <3>1, <3>3 DEF Differs
      <3>4. CASE q1 /= p /\ q2 /= p
        BY <1>1, <1>4, <2>1, <3>1, <3>4 DEF Good, PortsApart
      <3> QED BY <3>2, <3>3, <3>4
    <2>2. ASSUME NEW q1 \in G["bound"], NEW q2 \in G["active"] \cup G["timewait"]
          PROVE  d[q1].port /= d[q2].port
      <3>1. q1 \in All /\ q2 \in All
        BY <1>4
      <3>2. CASE q1 = p
        BY <1>1, <1>4, <1>5, <2>2, <3>1, <3>2 DEF Differs
      <3>3. CASE q2 = p
        BY <1>1, <1>4, <1>5, <2>2, <3>1, <3>3 DEF Differs
      <3>4. CASE q1 /= p /\ q2 /= p
        BY <1>1, <1>4, <2>2, <3>1, <3>4 DEF Good, PortsApart
      <3> QED BY <3>2, <3>3, <3>4
    <2> QED BY <2>1, <2>2 DEF PortsApart
  <1>8. EndsApart(d, G)
    <2>1. ASSUME NEW q \in G["active"] \cup G["timewait"] PROVE d[q].ip = Here
      <3>1. q \in All
        BY <1>4
      <3>2. CASE q = p
        BY <1>1, <1>4, <1>5, <2>1, <3>2 DEF Fits
      <3>3. CASE q /= p
        BY <1>1, <1>4, <2>1, <3>1, <3>3 DEF Good, EndsApart
      <3> QED BY <3>2, <3>3
    <2>2. ASSUME NEW q1 \in G["active"] \cup G["timewait"],
                 NEW q2 \in G["active"] \cup G["timewait"],
                 q1 /= q2, d[q1].remote = d[q2].remote
          PROVE  d[q1].port /= d[q2].port
      <3>1. q1 \in All /\ q2 \in All
        BY <1>4
      <3>2. CASE q1 = p
        <4>1. q2 \in F["active"] \cup F["timewait"] /\ d[q1] = r /\ d[q2] = c[q2]
              /\ name \in {"active", "timewait"}
          BY <1>1, <1>4, <1>5, <2>2, <3>1, <3>2
        <4> QED BY <2>2, <4>1 DEF Differs
      <3>3. CASE q2 = p
        <4>1. q1 \in F["active"] \cup F["timewait"] /\ d[q2] = r /\ d[q1] = c[q1]
              /\ name \in {"active", "timewait"}
          BY <1>1, <1>4, <1>5, <2>2, <3>1, <3>3
        <4> QED BY <2>2, <4>1 DEF Differs
      <3>4. CASE q1 /= p /\ q2 /= p
        BY <1>1, <1>4, <2>2, <3>1, <3>4 DEF Good, EndsApart
      <3> QED BY <3>2, <3>3, <3>4
    <2> QED BY <2>1, <2>2 DEF EndsApart
  <1>9. Good(d, G)
    BY <1>3, <1>6, <1>7, <1>8 DEF Good
  <1> QED BY <1>9 DEF d, G

\* The sets of F are what a walk along the lists meets.
LEMMA ListedIs ==
  ASSUME NEW F, Holds(lists, F), Good(pcb, F)
  PROVE  /\ \A name \in Names : Listed(name) = F[name]
         /\ AllListed = F["bound"] \cup F["listen"] \cup F["active"] \cup F["timewait"]
         /\ AllListed \subseteq All
  <1>1. \A name \in Names : Listed(name) = F[name] /\ F[name] \subseteq All
    BY HoldsListed DEF Listed
  <1>2. DOMAIN lists.head = Names
    BY DEF Holds, Linked
  <1>3. AllListed = UNION {F[name] : name \in Names}
    BY <1>1, <1>2 DEF AllListed
  <1>4. UNION {F[name] : name \in Names}
          = F["bound"] \cup F["listen"] \cup F["active"] \cup F["timewait"]
    BY DEF Names
  <1>5. F["bound"] \subseteq All /\ F["listen"] \subseteq All
        /\ F["active"] \subseteq All /\ F["timewait"] \subseteq All
    BY <1>1 DEF Names
  <1> QED BY <1>1, <1>3, <1>4, <1>5

\* A pcb that tcp_alloc returns is on no list any more, and was not in use or a
\* connection; the lists of the others are as they were.
Allocated(a, F, G) ==
  /\ a.p \in Pcbs
  /\ Holds(Zeroed(a), G)
  /\ Good(PcbFreed(a.p), G)
  /\ OnNone(G, a.p)
  /\ G["bound"] = F["bound"] /\ G["listen"] = F["listen"]
  /\ G["active"] = F["active"] \ {a.p} /\ G["timewait"] = F["timewait"] \ {a.p}

LEMMA UnusedIs == Unused \in PcbRecord /\ Unused.state = "free" /\ Unused.port = 0
  BY DEF Unused, PcbRecord

LEMMA KillIs ==
  ASSUME NEW F, Holds(lists, F), Good(pcb, F), NEW name \in {"active", "timewait"},
         NEW v \in F[name]
  PROVE  Allocated([p |-> v, lists |-> Rmv(lists, name, v)], F, Without(F, name, v))
  <1> DEFINE a == [p |-> v, lists |-> Rmv(lists, name, v)]
             G == Without(F, name, v)
  <1>1. name \in Names /\ v \in All /\ \A x \in Names : x /= name => v \notin F[x]
    BY DEF Names, Holds
  <1>2. v \in Pcbs
    BY <1>1 DEF Good, ListsOfStates, All
  <1>3. Holds(a.lists, G)
    BY <1>1, HoldsRmv
  <1>4. Good(PcbFreed(v), G) /\ OnNone(G, v)
    BY <1>1, UnusedIs, TakenOff DEF PcbFreed
  <1>5. Holds(Zeroed(a), G)
    <2> HIDE DEF G
    <2> QED BY <1>1, <1>3, <1>4, HoldsCleared DEF Zeroed
  <1>6. G["bound"] = F["bound"] /\ G["listen"] = F["listen"]
        /\ G["active"] = F["active"] \ {v} /\ G["timewait"] = F["timewait"] \ {v}
    <2>1. \A x \in Names : G[x] = F[x] \ {v}
      BY <1>1 DEF Without, Good
    <2>2. v \notin F["bound"] /\ v \notin F["listen"]
      BY <1>1 DEF Names
    <2> HIDE DEF G
    <2> QED BY <2>1, <2>2 DEF Names
  <1>7. a.p = v
    OBVIOUS
  <1> HIDE DEF a, G
  <1>8. Allocated(a, F, G)
    BY <1>2, <1>4, <1>5, <1>6, <1>7 DEF Allocated
  <1> QED BY <1>8 DEF a, G

LEMMA AllocationIs ==
  ASSUME NEW F, Holds(lists, F), Good(pcb, F), NEW a \in PcbAllocations
  PROVE  \E G : Allocated(a, F, G)
  <1>1. Listed("timewait") = F["timewait"] /\ Listed("active") = F["active"]
    BY ListedIs DEF Names
  <1>2. CASE InState("free") \cap Pcbs /= {}
    <2>1. PICK v \in InState("free") \cap Pcbs : a = [p |-> v, lists |-> lists]
      BY <1>2 DEF PcbAllocations
    <2>2. v \in All /\ v \in Pcbs /\ pcb[v].state = "free"
      BY DEF InState
    <2>3. OnNone(F, v)
      BY <2>2, OffLists
    <2>4. Holds(Zeroed(a), F)
      BY <2>1, <2>2, <2>3, HoldsCleared DEF Zeroed
    <2>5. Good(PcbFreed(v), F)
      BY <2>2, <2>3, UnusedIs, StaysOff DEF PcbFreed
    <2>6. F["active"] = F["active"] \ {v} /\ F["timewait"] = F["timewait"] \ {v}
      BY <2>3 DEF OnNone, Names
    <2>7. Allocated(a, F, F)
      BY <2>1, <2>2, <2>3, <2>4, <2>5, <2>6 DEF Allocated
    <2> QED BY <2>7
  <1>3. CASE InState("free") \cap Pcbs = {}
    <2>1. \E name \in {"active", "timewait"}, v \in All :
            v \in F[name] /\ a = [p |-> v, lists |-> Rmv(lists, name, v)]
      <3>1. F["active"] \subseteq All /\ F["timewait"] \subseteq All
        BY DEF Good, Names
      <3>2. CASE F["timewait"] = {}
        BY <1>1, <1>3, <3>1, <3>2 DEF PcbAllocations
      <3>3. CASE F["timewait"] /= {}
        BY <1>1, <1>3, <3>1, <3>3 DEF PcbAllocations
      <3> QED BY <3>2, <3>3
    <2> QED BY <2>1, KillIs
  <1> QED BY <1>2, <1>3

-----------------------------------------------------------------------------
(* The actions.                                                            *)

\* tcp_init: no list has a pcb.
LEMMA PortsInitIInv == PortsInit => PortsIInv
  <1> SUFFICES ASSUME PortsInit PROVE PortsIInv
    OBVIOUS
  <1> DEFINE F == [name \in Names |-> {}]
  <1>1. tcp_port \in PortRange
    BY RangeSize DEF PortsInit, PortRange
  <1>2. Linked(lists) /\ \A name \in Names : lists.head[name] = Null
    BY DEF PortsInit, Linked, Names
  <1>3. ASSUME NEW name \in Names PROVE IsListOf(lists, name, {})
    <2> DEFINE c == [i \in 1 .. 0 |-> Null]
    <2>1. IsPath(lists, name, c, 0)
      <3>1. 1 .. 0 = {}
        OBVIOUS
      <3>2. c \in [1 .. 0 -> All]
        BY <3>1
      <3> HIDE DEF c
      <3> QED BY <1>2, <3>1, <3>2 DEF IsPath
    <2>2. {} = {c[i] : i \in 1 .. 0}
      <3>1. 1 .. 0 = {}
        OBVIOUS
      <3> QED BY <3>1
    <2> HIDE DEF c
    <2> QED BY <2>1, <2>2 DEF IsListOf
  <1>4. Holds(lists, F)
    BY <1>2, <1>3 DEF Holds
  <1>5. Good(pcb, F)
    <2>1. F["listen"] = {} /\ F["bound"] = {} /\ F["active"] = {} /\ F["timewait"] = {}
      BY DEF Names
    <2>2. F \in [Names -> SUBSET All]
      OBVIOUS
    <2> HIDE DEF F
    <2>3. \A p \in All : pcb[p] = Unused
      BY DEF PortsInit
    <2>4. pcb \in [All -> PcbRecord]
      BY UnusedIs DEF PortsInit
    <2>5. ListsOfStates(pcb, F)
      BY <2>1, <2>3, UnusedIs DEF ListsOfStates, All
    <2> QED BY <2>1, <2>2, <2>4, <2>5 DEF Good, PortsApart, EndsApart
  <1> QED BY <1>1, <1>4, <1>5 DEF PortsIInv

\* The new links and pcbs are as good as the old ones.
Step(F) == Holds(lists, F) /\ Good(pcb, F) /\ tcp_port \in PortRange

LEMMA StepIInv == ASSUME NEW G, Step(G)' PROVE PortsIInv'
  BY DEF Step, PortsIInv

LEMMA TcpNewIInv ==
  ASSUME NEW F, Step(F), TcpNew
  PROVE  PortsIInv'
  <1>1. PICK a \in PcbAllocations :
          /\ pcb' = [pcb EXCEPT ![a.p] = [Unused EXCEPT !.state = "closed"]]
          /\ lists' = Zeroed(a)
          /\ tcp_port' = tcp_port
    BY DEF TcpNew
  <1>2. PICK G : Allocated(a, F, G)
    BY AllocationIs DEF Step
  <1> DEFINE r == [Unused EXCEPT !.state = "closed"]
  <1>3. r \in PcbRecord /\ r.state = "closed"
    BY DEF Unused, PcbRecord
  <1> HIDE DEF r
  <1>4. a.p \in All /\ a.p \in Pcbs
    BY <1>2 DEF Allocated, All
  <1>5. Good([PcbFreed(a.p) EXCEPT ![a.p] = r], G)
    BY <1>2, <1>3, <1>4, StaysOff DEF Allocated
  <1>6. [PcbFreed(a.p) EXCEPT ![a.p] = r] = [pcb EXCEPT ![a.p] = r]
    BY <1>4 DEF PcbFreed, Step, Good
  <1>7. Step(G)'
    BY <1>1, <1>2, <1>5, <1>6 DEF Step, Allocated, r
  <1> QED BY <1>7, StepIInv

\* Everybody's local port differs from one that tcp_new_port or tcp_bind accept.
LEMMA NotTaken ==
  ASSUME NEW F, Step(F), NEW port, ~PortTaken(port)
  PROVE  \A q \in F["bound"] \cup F["listen"] \cup F["active"] \cup F["timewait"] :
           pcb[q].port /= port
  BY ListedIs DEF Step, PortTaken

LEMMA InUseIs ==
  ASSUME NEW F, Step(F), NEW ip \in {IpAny, Here}, NEW port
  PROVE  InUse(ip, port) <=> PortTaken(port)
  <1>1. \A p \in AllListed : pcb[p].ip \in {IpAny, Here}
    BY ListedIs DEF Step, Good, PcbRecord
  <1>2. \A p \in AllListed : Overlap(pcb[p].ip, ip)
    BY <1>1 DEF Overlap
  <1> QED BY <1>2 DEF InUse, PortTaken

LEMMA Rebuilt ==
  ASSUME NEW s \in PcbRecord, NEW i, NEW n
  PROVE  [s EXCEPT !.port = n, !.ip = i]
           = [state |-> s.state, ip |-> i, port |-> n, remote |-> s.remote]
  <1> DEFINE a == s.state
             b == s.ip
             c == s.port
             d == s.remote
             R == [state |-> a, ip |-> b, port |-> c, remote |-> d]
  <1>1. s = R
    BY DEF PcbRecord
  <1> HIDE DEF a, b, c, d
  <1>2. [R EXCEPT !.port = n] = [state |-> a, ip |-> b, port |-> n, remote |-> d]
    OBVIOUS
  <1>3. [R EXCEPT !.port = n, !.ip = i] = [[R EXCEPT !.port = n] EXCEPT !.ip = i]
    <2> HIDE DEF R
    <2> QED OBVIOUS
  <1>4. [[state |-> a, ip |-> b, port |-> n, remote |-> d] EXCEPT !.ip = i]
          = [state |-> a, ip |-> i, port |-> n, remote |-> d]
    OBVIOUS
  <1> HIDE DEF R
  <1>5. [s EXCEPT !.port = n, !.ip = i] = [state |-> a, ip |-> i, port |-> n, remote |-> d]
    BY <1>1, <1>2, <1>3, <1>4
  <1> QED BY <1>5 DEF a, d

LEMMA TcpBindIInv ==
  ASSUME NEW F, Step(F), Misuse = {}, NEW p \in Pcbs, NEW ip \in {IpAny, Here},
         NEW port \in {0} \cup AppPorts, TcpBind(p, ip, port)
  PROVE  PortsIInv'
  <1> DEFINE chosen == IF port = 0 THEN NewPort ELSE [port |-> port, last |-> tcp_port]
  <1>1. /\ pcb[p].state = "closed" /\ pcb[p].port = 0
        /\ tcp_port' = chosen.last
        /\ IF chosen.port = 0 \/ InUse(ip, chosen.port)
             THEN UNCHANGED <<pcb, lists>>
             ELSE /\ pcb' = [pcb EXCEPT ![p].port = chosen.port,
                                        ![p].ip = IF ip = IpAny THEN @ ELSE ip]
                  /\ lists' = Reg(lists, "bound", p)
    BY DEF TcpBind
  <1>2. chosen.last \in PortRange /\ chosen.port \in Nat
    <2>1. port \in Nat
      BY PortAssumption
    <2> QED BY <2>1, NewPortIs DEF Step
  <1> HIDE DEF chosen
  <1>3. CASE chosen.port = 0 \/ InUse(ip, chosen.port)
    <2>1. Step(F)'
      BY <1>1, <1>2, <1>3 DEF Step
    <2> QED BY <2>1, StepIInv
  <1>4. CASE ~(chosen.port = 0 \/ InUse(ip, chosen.port))
    <2> DEFINE r == [state |-> "closed", ip |-> IF ip = IpAny THEN pcb[p].ip ELSE ip,
                     port |-> chosen.port, remote |-> pcb[p].remote]
    <2>1. p \in All /\ pcb[p] \in PcbRecord /\ pcb \in [All -> PcbRecord]
      BY DEF All, Step, Good
    <2>2. r \in PcbRecord /\ r.state = "closed" /\ r.port = chosen.port
      BY <1>2, <2>1 DEF PcbRecord
    <2>3. pcb' = [pcb EXCEPT ![p] = r]
      <3>1. [pcb[p] EXCEPT !.port = chosen.port,
                           !.ip = IF ip = IpAny THEN pcb[p].ip ELSE ip] = r
        <4> DEFINE i == IF ip = IpAny THEN pcb[p].ip ELSE ip
        <4>1. [pcb[p] EXCEPT !.port = chosen.port, !.ip = i]
               = [state |-> pcb[p].state, ip |-> i, port |-> chosen.port,
                  remote |-> pcb[p].remote]
          <5> HIDE DEF i
          <5> QED BY <2>1, Rebuilt
        <4> QED BY <1>1, <4>1
      <3>2. pcb' = [pcb EXCEPT ![p] = [pcb[p] EXCEPT !.port = chosen.port,
                           !.ip = IF ip = IpAny THEN pcb[p].ip ELSE ip]]
        BY <1>1, <1>4, <2>1 DEF PcbRecord
      <3> QED BY <3>1, <3>2
    <2> HIDE DEF r
    <2>4. p \notin F["bound"] /\ OnNone(F, p)
      <3>1. p \notin F["bound"]
        BY <1>1, <2>1 DEF Step, Good, ListsOfStates
      <3> QED BY <1>1, <2>1, <3>1, OffLists DEF Step
    <2>5. \A q \in F["bound"] \cup F["listen"] \cup F["active"] \cup F["timewait"] :
            pcb[q].port /= chosen.port
      BY <1>4, InUseIs, NotTaken
    <2>6. Fits("bound", p, r) /\ Differs(pcb, F, "bound", r)
      BY <1>4, <2>2, <2>5 DEF Fits, Differs
    <2>7. "bound" \in Names
      BY DEF Names
    <2>8. Good(pcb', With(F, "bound", p))
      BY <2>1, <2>2, <2>3, <2>4, <2>6, <2>7, PutOn DEF Step
    <2>9. Holds(lists', With(F, "bound", p))
      BY <1>1, <1>4, <2>1, <2>4, <2>7, HoldsReg DEF Step
    <2>10. Step(With(F, "bound", p))'
      BY <1>1, <1>2, <2>8, <2>9 DEF Step, With
    <2> QED BY <2>10, StepIInv
  <1> QED BY <1>3, <1>4

\* With Misuse empty a pcb whose tcp_connect failed is only freed.
LEMMA FreshIs ==
  ASSUME NEW F, Step(F), Misuse = {}, NEW p \in All, Fresh(p)
  PROVE  pcb[p].state = "closed" /\ (pcb[p].port /= 0 => p \in F["bound"])
  <1>1. Listed("bound") = F["bound"]
    BY ListedIs DEF Step, Names
  <1> QED BY <1>1 DEF Fresh, Failed

\* Taken from the bound pcbs and freed.
LEMMA Unbound ==
  ASSUME NEW F, Step(F), NEW p \in F["bound"]
  PROVE  /\ p \in Pcbs /\ p \in All
         /\ Holds(Rmv(lists, "bound", p), Without(F, "bound", p))
         /\ Good(PcbFreed(p), Without(F, "bound", p))
         /\ OnNone(Without(F, "bound", p), p)
         /\ Without(F, "bound", p)["bound"] = F["bound"] \ {p}
         /\ \A x \in {"listen", "active", "timewait"} : Without(F, "bound", p)[x] = F[x]
  <1>1. "bound" \in Names
    BY DEF Names
  <1>2. p \in All /\ \A x \in Names : x /= "bound" => p \notin F[x]
    BY <1>1 DEF Step, Holds
  <1>3. p \in Pcbs
    BY <1>2 DEF Step, Good, ListsOfStates, All
  <1>4. Holds(Rmv(lists, "bound", p), Without(F, "bound", p))
    BY <1>1, <1>2, HoldsRmv DEF Step
  <1>5. Good(PcbFreed(p), Without(F, "bound", p)) /\ OnNone(Without(F, "bound", p), p)
    BY <1>1, <1>2, UnusedIs, TakenOff DEF PcbFreed, Step
  <1>6. Without(F, "bound", p)["bound"] = F["bound"] \ {p}
        /\ \A x \in {"listen", "active", "timewait"} : Without(F, "bound", p)[x] = F[x]
    BY DEF Without, Step, Good, Names
  <1> QED BY <1>2, <1>3, <1>4, <1>5, <1>6

LEMMA TcpListenIInv ==
  ASSUME NEW F, Step(F), Misuse = {}, NEW p \in Pcbs, TcpListen(p)
  PROVE  PortsIInv'
  <1>1. PICK l \in InState("free") \cap Listeners :
          /\ pcb' = [pcb EXCEPT ![p] = Unused, ![l] = [pcb[p] EXCEPT !.state = "listen"]]
          /\ lists' = Reg(Rmv(lists, "bound", p), "listen", l)
    BY DEF TcpListen
  <1>2. Fresh(p) /\ pcb[p].port /= 0 /\ tcp_port' = tcp_port
    BY DEF TcpListen
  <1>3. p \in All /\ l \in All /\ l \in Listeners /\ l /= p /\ pcb[l].state = "free"
    BY PortAssumption DEF All, InState
  <1>4. p \in F["bound"] /\ pcb[p].state = "closed"
    BY <1>2, <1>3, FreshIs
  <1> DEFINE G == Without(F, "bound", p)
             c == PcbFreed(p)
             r == [pcb[p] EXCEPT !.state = "listen"]
             L == Rmv(lists, "bound", p)
  <1>5. /\ Holds(L, G) /\ Good(c, G) /\ OnNone(G, p) /\ G["bound"] = F["bound"] \ {p}
        /\ G["listen"] = F["listen"] /\ G["active"] = F["active"]
        /\ G["timewait"] = F["timewait"]
    BY <1>4, Unbound
  <1>6. r \in PcbRecord /\ r.state = "listen" /\ r.port = pcb[p].port
    <2>1. pcb[p] \in PcbRecord
      BY <1>3 DEF Step, Good
    <2> QED BY <2>1 DEF PcbRecord
  <1>7. pcb' = [c EXCEPT ![l] = r]
    BY <1>1, <1>3 DEF PcbFreed, Step, Good
  <1>8. \A q \in All : c[q] = IF q = p THEN Unused ELSE pcb[q]
    BY <1>3 DEF PcbFreed, Step, Good
  <1>9. c[l].state = "free"
    BY <1>3, <1>8
  <1> HIDE DEF G, c, r, L
  <1>10. OnNone(G, l)
    BY <1>3, <1>5, <1>9, OffLists
  <1>11. Fits("listen", l, r)
    BY <1>3, <1>6 DEF Fits
  <1>12. Differs(c, G, "listen", r)
    <2>1. ASSUME NEW q \in G["bound"] \cup G["listen"] PROVE c[q].port /= r.port
      <3>1. q \in F["bound"] \cup F["listen"] /\ q /= p /\ q \in All
        <4>1. "bound" \in Names /\ "listen" \in Names
          BY DEF Names
        <4>2. p \notin G["listen"] /\ p \notin G["bound"]
          BY <1>5, <4>1 DEF OnNone
        <4>3. F["bound"] \subseteq All /\ F["listen"] \subseteq All
          BY <4>1 DEF Step, Good
        <4> QED BY <1>5, <4>2, <4>3
      <3>2. pcb[q].port /= pcb[p].port
        BY <1>4, <3>1 DEF Step, Good, PortsApart
      <3> QED BY <1>6, <1>8, <3>1, <3>2
    <2> QED BY <2>1 DEF Differs
  <1>13. "listen" \in Names
    BY DEF Names
  <1>14. Good(pcb', With(G, "listen", l))
    BY <1>3, <1>5, <1>6, <1>7, <1>10, <1>11, <1>12, <1>13, PutOn
  <1>15. Holds(lists', With(G, "listen", l))
    BY <1>1, <1>3, <1>5, <1>10, <1>13, HoldsReg DEF L
  <1>16. Step(With(G, "listen", l))'
    BY <1>2, <1>14, <1>15 DEF Step, With, G, Without
  <1> QED BY <1>16, StepIInv

LEMMA TcpCloseIInv ==
  ASSUME NEW F, Step(F), Misuse = {}, NEW p \in All, TcpClose(p)
  PROVE  PortsIInv'
  <1>1. pcb' = PcbFreed(p) /\ tcp_port' = tcp_port
    BY DEF TcpClose
  <1>2. CASE pcb[p].state = "closed" /\ p \notin F["bound"]
    <2>1. OnNone(F, p)
      BY <1>2, OffLists DEF Step
    <2>2. Good(pcb', F)
      BY <1>1, <2>1, UnusedIs, StaysOff DEF Step, PcbFreed
    <2>3. lists' = lists \/ lists' = Rmv(lists, "bound", p)
      BY <1>2 DEF TcpClose
    <2>4. Holds(lists', F)
      <3>1. CASE lists' = lists
        BY <3>1 DEF Step
      <3>2. CASE lists' = Rmv(lists, "bound", p)
        <4>1. "bound" \in Names
          BY DEF Names
        <4>2. Holds(lists', Without(F, "bound", p))
          BY <2>1, <3>2, <4>1, HoldsRmv DEF Step, OnNone
        <4>3. \A x \in Names : Without(F, "bound", p)[x] = F[x]
          BY <2>1, <4>1 DEF Without, Step, Good, OnNone
        <4>4. Without(F, "bound", p) \in [Names -> SUBSET All] /\ F \in [Names -> SUBSET All]
          BY <4>2 DEF Holds, Step
        <4>5. Without(F, "bound", p) = F
          <5> HIDE DEF Without
          <5> QED BY <4>3, <4>4
        <4> QED BY <4>2, <4>5
      <3> QED BY <2>3, <3>1, <3>2
    <2>5. Step(F)'
      BY <1>1, <2>2, <2>4 DEF Step
    <2> QED BY <2>5, StepIInv
  <1>3. CASE pcb[p].state = "closed" /\ p \in F["bound"]
    <2>1. pcb[p].port /= 0
      BY <1>3 DEF Step, Good, ListsOfStates
    <2>2. lists' = Rmv(lists, "bound", p)
      BY <1>3, <2>1 DEF TcpClose
    <2>3. Step(Without(F, "bound", p))'
      BY <1>1, <1>3, <2>2, Unbound DEF Step, Without
    <2> QED BY <2>3, StepIInv
  <1>4. CASE pcb[p].state = "listen"
    <2>1. lists' = Rmv(lists, "listen", p)
      BY <1>4 DEF TcpClose
    <2>2. "listen" \in Names
      BY DEF Names
    <2>3. p \in F["listen"] /\ \A x \in Names : x /= "listen" => p \notin F[x]
      <3>1. p \in F["listen"]
        BY <1>4 DEF Step, Good, ListsOfStates
      <3> QED BY <2>2, <3>1 DEF Step, Holds
    <2>4. Holds(lists', Without(F, "listen", p))
      BY <2>1, <2>2, <2>3, HoldsRmv DEF Step
    <2>5. Good(pcb', Without(F, "listen", p))
      BY <1>1, <2>2, <2>3, UnusedIs, TakenOff DEF PcbFreed, Step
    <2>6. Step(Without(F, "listen", p))'
      BY <1>1, <2>4, <2>5 DEF Step, Without
    <2> QED BY <2>6, StepIInv
  <1> QED BY <1>2, <1>3, <1>4 DEF TcpClose

\* A connection leaves its list and is freed.
LEMMA Dropped ==
  ASSUME NEW F, Step(F), NEW name \in {"active", "timewait"}, NEW p \in All,
         pcb[p].state = name
  PROVE  /\ name \in Names /\ p \in F[name] /\ p \in Pcbs
         /\ Holds(Rmv(lists, name, p), Without(F, name, p))
         /\ Good(PcbFreed(p), Without(F, name, p))
         /\ OnNone(Without(F, name, p), p)
  <1>1. name \in Names
    BY DEF Names
  <1>2. p \in F[name]
    BY DEF Step, Good, ListsOfStates
  <1>3. \A x \in Names : x /= name => p \notin F[x]
    BY <1>1, <1>2 DEF Step, Holds
  <1>4. p \in Pcbs
    BY DEF Step, Good, ListsOfStates, All
  <1>5. Holds(Rmv(lists, name, p), Without(F, name, p))
    BY <1>1, <1>3, HoldsRmv DEF Step
  <1>6. Good(PcbFreed(p), Without(F, name, p)) /\ OnNone(Without(F, name, p), p)
    BY <1>1, <1>3, UnusedIs, TakenOff DEF PcbFreed, Step
  <1> QED BY <1>1, <1>2, <1>4, <1>5, <1>6

LEMMA TcpAbortIInv ==
  ASSUME NEW F, Step(F), Misuse = {}, NEW p \in Pcbs, TcpAbort(p)
  PROVE  PortsIInv'
  <1>1. pcb' = PcbFreed(p) /\ tcp_port' = tcp_port /\ lists' = Rmv(lists, "active", p)
    BY DEF TcpAbort
  <1>2. p \in All
    BY DEF All
  <1>3. CASE pcb[p].state = "active"
    <2>1. Step(Without(F, "active", p))'
      BY <1>1, <1>2, <1>3, Dropped DEF Step, Without
    <2> QED BY <2>1, StepIInv
  <1>4. CASE pcb[p].state /= "active"
    <2>1. "active" \in Names /\ "bound" \in Names
      BY DEF Names
    <2>2. pcb[p].state = "closed" /\ p \notin F["bound"]
      <3>1. Listed("bound") = F["bound"]
        BY <2>1, ListedIs DEF Step
      <3> QED BY <1>4, <3>1 DEF TcpAbort
    <2>3. OnNone(F, p)
      BY <1>2, <2>2, OffLists DEF Step
    <2>4. Holds(lists', Without(F, "active", p))
      BY <1>1, <1>2, <2>1, <2>3, HoldsRmv DEF Step, OnNone
    <2>5. Good(pcb', Without(F, "active", p))
      BY <1>1, <1>2, <2>1, <2>3, UnusedIs, TakenOff DEF PcbFreed, Step, OnNone
    <2>6. Step(Without(F, "active", p))'
      BY <1>1, <2>4, <2>5 DEF Step, Without
    <2> QED BY <2>6, StepIInv
  <1> QED BY <1>3, <1>4

\* The assignments of tcp_connect, as one record.
Assigned(c, p, i, r, n) == [c EXCEPT ![p].ip = i, ![p].remote = r, ![p].port = n]
Opened(c, p, i, r, n) ==
  [c EXCEPT ![p] = [state |-> c[p].state, ip |-> i, port |-> n, remote |-> r]]

LEMMA Named ==
  ASSUME NEW c, c \in [All -> PcbRecord], NEW p \in All, NEW i, NEW r, NEW n
  PROVE  Assigned(c, p, i, r, n) = Opened(c, p, i, r, n)
  <1> DEFINE s == c[p]
             a == s.state
             R == [state |-> a, ip |-> s.ip, port |-> s.port, remote |-> s.remote]
             S == [state |-> a, ip |-> i, port |-> s.port, remote |-> s.remote]
             T == [state |-> a, ip |-> i, port |-> s.port, remote |-> r]
             U == [state |-> a, ip |-> i, port |-> n, remote |-> r]
  <1>1. s = R
    <2>1. s \in PcbRecord
      OBVIOUS
    <2> HIDE DEF s
    <2> QED BY <2>1 DEF PcbRecord
  <1>2. [c EXCEPT ![p].ip = i, ![p].remote = r, ![p].port = n]
          = [[[c EXCEPT ![p].ip = i] EXCEPT ![p].remote = r] EXCEPT ![p].port = n]
    OBVIOUS
  <1>3. [c EXCEPT ![p].ip = i] = [c EXCEPT ![p] = S]
    <2>1. [s EXCEPT !.ip = i] = S
      <3> DEFINE b == s.ip
                 m == s.port
                 d == s.remote
      <3>1. [[state |-> a, ip |-> b, port |-> m, remote |-> d] EXCEPT !.ip = i]
              = [state |-> a, ip |-> i, port |-> m, remote |-> d]
        <4> HIDE DEF a, b, m, d
        <4> QED OBVIOUS
      <3>2. s = [state |-> a, ip |-> b, port |-> m, remote |-> d]
        BY <1>1
      <3> HIDE DEF s
      <3> QED BY <3>1, <3>2
    <2>2. [c EXCEPT ![p].ip = i] = [c EXCEPT ![p] = [s EXCEPT !.ip = i]]
      OBVIOUS
    <2> HIDE DEF S
    <2> QED BY <2>1, <2>2
  <1>4. [[c EXCEPT ![p] = S] EXCEPT ![p].remote = r] = [c EXCEPT ![p] = T]
    <2>1. [S EXCEPT !.remote = r] = T
      <3> DEFINE m == s.port
                 d == s.remote
      <3>1. [[state |-> a, ip |-> i, port |-> m, remote |-> d] EXCEPT !.remote = r]
              = [state |-> a, ip |-> i, port |-> m, remote |-> r]
        <4> HIDE DEF a, m, d
        <4> QED OBVIOUS
      <3> QED BY <3>1
    <2> HIDE DEF S, T
    <2> QED BY <2>1
  <1>5. [[c EXCEPT ![p] = T] EXCEPT ![p].port = n] = [c EXCEPT ![p] = U]
    <2>1. [T EXCEPT !.port = n] = U
      <3> DEFINE m == s.port
      <3>1. [[state |-> a, ip |-> i, port |-> m, remote |-> r] EXCEPT !.port = n]
              = [state |-> a, ip |-> i, port |-> n, remote |-> r]
        <4> HIDE DEF a, m
        <4> QED OBVIOUS
      <3> QED BY <3>1
    <2> HIDE DEF T, U
    <2> QED BY <2>1
  <1>6. U = [state |-> c[p].state, ip |-> i, port |-> n, remote |-> r]
    OBVIOUS
  <1>7. Opened(c, p, i, r, n) = [c EXCEPT ![p] = U]
    BY <1>6 DEF Opened
  <1> HIDE DEF S, T, U
  <1> QED BY <1>2, <1>3, <1>4, <1>5, <1>7 DEF Assigned

LEMMA TcpConnectIInv ==
  ASSUME NEW F, Step(F), Misuse = {}, NEW p \in Pcbs, NEW r \in Remotes, TcpConnect(p, r)
  PROVE  PortsIInv'
  <1> DEFINE chosen == IF pcb[p].port = 0 THEN NewPort
                         ELSE [port |-> pcb[p].port, last |-> tcp_port]
             i == IF pcb[p].ip = IpAny THEN Here ELSE pcb[p].ip
             named == [pcb EXCEPT ![p].ip = IF @ = IpAny THEN Here ELSE @,
                                  ![p].remote = r, ![p].port = chosen.port]
             open(s) == [state |-> s, ip |-> i, port |-> chosen.port, remote |-> r]
  <1>1. /\ Fresh(p) /\ tcp_port' = chosen.last
        /\ \/ /\ chosen.port /= 0
              /\ pcb' = [named EXCEPT ![p].state = "active"]
              /\ lists' = Reg(IF pcb[p].port /= 0 THEN Rmv(lists, "bound", p) ELSE lists,
                              "active", p)
           \/ pcb' = named /\ lists' = lists
    BY DEF TcpConnect
  <1>2. p \in All /\ pcb[p] \in PcbRecord /\ pcb \in [All -> PcbRecord]
    BY DEF All, Step, Good
  <1>3. pcb[p].state = "closed" /\ (pcb[p].port /= 0 => p \in F["bound"])
    BY <1>1, <1>2, FreshIs
  <1>4. chosen.last \in PortRange /\ chosen.port \in Nat
    <2>1. pcb[p].port \in Nat /\ tcp_port \in PortRange
      BY <1>2 DEF PcbRecord, Step
    <2> QED BY <2>1, NewPortIs
  <1>5. i = Here
    BY <1>2 DEF PcbRecord
  <1>6. p \in F["bound"] <=> pcb[p].port /= 0
    BY <1>2, <1>3 DEF Step, Good, ListsOfStates
  <1>7. pcb[p].port /= 0 => chosen.port = pcb[p].port
    OBVIOUS
  <1>8. pcb[p].port = 0 => chosen.port = 0 \/ ~PortTaken(chosen.port)
    BY NewPortIs DEF Step
  <1>9. named = [pcb EXCEPT ![p] = open("closed")]
    <2> HIDE DEF chosen
    <2>1. named = Assigned(pcb, p, i, r, chosen.port)
      BY <1>2 DEF Assigned
    <2> HIDE DEF i
    <2>2. Assigned(pcb, p, i, r, chosen.port) = Opened(pcb, p, i, r, chosen.port)
      BY <1>2, Named
    <2> QED BY <1>3, <2>1, <2>2 DEF Opened
  <1> HIDE DEF chosen
  <1>10. open("closed") \in PcbRecord /\ open("active") \in PcbRecord
    BY <1>4, <1>5 DEF PcbRecord
  <1>11. [named EXCEPT ![p].state = "active"] = [pcb EXCEPT ![p] = open("active")]
    <2>1. [open("closed") EXCEPT !.state = "active"] = open("active")
      <3> HIDE DEF i
      <3> QED OBVIOUS
    <2> HIDE DEF open, named
    <2> QED BY <1>2, <1>9, <2>1
  <1>12. open("closed").state = "closed" /\ open("closed").port = chosen.port
         /\ open("active").state = "active" /\ open("active").port = chosen.port
         /\ open("active").ip = Here /\ open("active").remote = r
    BY <1>5
  <1> HIDE DEF named, open, i
  <1>13. "bound" \in Names /\ "active" \in Names
    BY DEF Names
  \* The pcb without its place on the list of the bound ones, if it had one.
  <1> DEFINE G == IF pcb[p].port /= 0 THEN Without(F, "bound", p) ELSE F
             c == IF pcb[p].port /= 0 THEN PcbFreed(p) ELSE pcb
             L == IF pcb[p].port /= 0 THEN Rmv(lists, "bound", p) ELSE lists
  <1>14. /\ Holds(L, G) /\ Good(c, G) /\ OnNone(G, p) /\ G["bound"] = F["bound"] \ {p}
         /\ G["listen"] = F["listen"] /\ G["active"] = F["active"]
         /\ G["timewait"] = F["timewait"]
    <2>1. CASE pcb[p].port /= 0
      <3>1. p \in F["bound"]
        BY <1>6, <2>1
      <3> QED BY <2>1, <3>1, Unbound
    <2>2. CASE pcb[p].port = 0
      <3>1. p \notin F["bound"] /\ OnNone(F, p)
        BY <1>2, <1>3, <1>6, <2>2, OffLists DEF Step
      <3> QED BY <2>2, <3>1 DEF Step
    <2> QED BY <2>1, <2>2
  <1>15. \A q \in All : q /= p => c[q] = pcb[q]
    BY <1>2 DEF PcbFreed
  <1>16. \A s : [c EXCEPT ![p] = s] = [pcb EXCEPT ![p] = s]
    BY <1>2 DEF PcbFreed
  <1> HIDE DEF G, c
  <1>17. F["bound"] \subseteq All /\ F["listen"] \subseteq All
         /\ F["active"] \subseteq All /\ F["timewait"] \subseteq All
    BY DEF Step, Good, Names
  <1>18. p \notin G["bound"] /\ p \notin G["listen"] /\ p \notin G["active"]
         /\ p \notin G["timewait"]
    BY <1>14 DEF OnNone, Names
  \* Nobody but p, and the connections of a listener, has the port.
  <1>19. ASSUME chosen.port /= 0,
                NEW q \in G["bound"] \cup G["active"] \cup G["timewait"] \cup G["listen"]
         PROVE  c[q].port /= chosen.port
    <2>1. q /= p /\ q \in All /\ c[q] = pcb[q]
      BY <1>14, <1>15, <1>17, <1>18
    <2>2. CASE pcb[p].port = 0
      <3>1. ~PortTaken(chosen.port)
        BY <1>8, <1>19, <2>2
      <3>2. q \in F["bound"] \cup F["listen"] \cup F["active"] \cup F["timewait"]
        BY <1>14
      <3> QED BY <2>1, <3>1, <3>2, NotTaken
    <2>3. CASE pcb[p].port /= 0
      <3>1. p \in F["bound"] /\ chosen.port = pcb[p].port
        BY <1>6, <1>7, <2>3
      <3>2. CASE q \in F["bound"] \cup F["listen"]
        BY <2>1, <3>1, <3>2 DEF Step, Good, PortsApart
      <3>3. CASE q \in F["active"] \cup F["timewait"]
        BY <2>1, <3>1, <3>3 DEF Step, Good, PortsApart
      <3> QED BY <1>14, <3>2, <3>3
    <2> QED BY <2>2, <2>3
  <1>20. CASE /\ chosen.port /= 0
              /\ pcb' = [named EXCEPT ![p].state = "active"]
              /\ lists' = Reg(L, "active", p)
    <2>1. Fits("active", p, open("active"))
      BY <1>12 DEF Fits
    <2>2. Differs(c, G, "active", open("active"))
      BY <1>12, <1>19, <1>20 DEF Differs
    <2>3. Good([c EXCEPT ![p] = open("active")], With(G, "active", p))
      BY <1>2, <1>10, <1>13, <1>14, <2>1, <2>2, PutOn
    <2>4. pcb' = [c EXCEPT ![p] = open("active")]
      BY <1>11, <1>16, <1>20
    <2>5. Holds(lists', With(G, "active", p))
      <3> HIDE DEF L
      <3> QED BY <1>2, <1>13, <1>14, <1>20, HoldsReg
    <2>6. tcp_port' \in PortRange
      BY <1>1, <1>4
    <2>7. PICK H : H = With(G, "active", p)
      OBVIOUS
    <2>8. Holds(lists', H) /\ Good(pcb', H) /\ tcp_port' \in PortRange
      BY <2>3, <2>4, <2>5, <2>6, <2>7
    <2>9. Step(H)'
      BY <2>8 DEF Step
    <2> QED BY <2>9, StepIInv
  <1>21. CASE pcb' = named /\ lists' = lists
    <2>1. tcp_port' \in PortRange
      BY <1>1, <1>4
    <2>2. CASE pcb[p].port = 0
      <3>1. G = F /\ c = pcb
        BY <2>2 DEF G, c
      <3>2. Good([pcb EXCEPT ![p] = open("closed")], F)
        BY <1>2, <1>10, <1>12, <1>14, <3>1, StaysOff
      <3>3. Step(F)'
        BY <1>9, <1>21, <2>1, <3>2 DEF Step
      <3> QED BY <3>3, StepIInv
    <2>3. CASE pcb[p].port /= 0
      <3>1. chosen.port /= 0 /\ p \in F["bound"]
        BY <1>6, <1>7, <2>3
      <3>2. Fits("bound", p, open("closed"))
        BY <1>12, <3>1 DEF Fits
      <3>3. Differs(c, G, "bound", open("closed"))
        BY <1>12, <1>19, <3>1 DEF Differs
      <3>4. Good([c EXCEPT ![p] = open("closed")], With(G, "bound", p))
        BY <1>2, <1>10, <1>13, <1>14, <3>2, <3>3, PutOn
      <3>5. With(G, "bound", p) = F
        <4>1. F \in [Names -> SUBSET All] /\ G \in [Names -> SUBSET All]
          BY <1>14 DEF Step, Good
        <4>2. G = Without(F, "bound", p)
          BY <2>3 DEF G
        <4>3. \A x \in Names : With(G, "bound", p)[x] = F[x]
          BY <1>13, <3>1, <4>1, <4>2 DEF With, Without
        <4>4. With(G, "bound", p) \in [Names -> SUBSET All]
          BY <1>2, <1>13, <4>1 DEF With
        <4> HIDE DEF With
        <4> QED BY <4>1, <4>3, <4>4
      <3>6. Good(pcb', F)
        BY <1>9, <1>16, <1>21, <3>4, <3>5
      <3>7. Step(F)'
        BY <1>21, <2>1, <3>6 DEF Step
      <3> QED BY <3>7, StepIInv
    <2> QED BY <2>2, <2>3
  <1> QED BY <1>1, <1>20, <1>21

LEMMA SegmentForConnectionIInv ==
  ASSUME NEW F, Step(F), NEW r \in Remotes, NEW port, SegmentForConnection(r, port)
  PROVE  PortsIInv'
  <1>1. "active" \in Names
    BY DEF Names
  <1>2. Connected(r, port) \subseteq F["active"]
    BY <1>1, ListedIs DEF Connected, Step
  <1>3. PICK p \in F["active"] : lists' = ToFront(lists, "active", p)
    BY <1>2 DEF SegmentForConnection
  <1>4. Holds(lists', F)
    BY <1>1, <1>3, HoldsToFront DEF Step
  <1>5. Step(F)'
    BY <1>4 DEF Step, SegmentForConnection
  <1> QED BY <1>5, StepIInv

LEMMA SegmentForListenerIInv ==
  ASSUME NEW F, Step(F), NEW r \in Remotes, NEW port \in PortRange \cup AppPorts,
         SegmentForListener(r, port)
  PROVE  PortsIInv'
  <1>1. "active" \in Names /\ "listen" \in Names /\ "timewait" \in Names /\ "bound" \in Names
    BY DEF Names
  <1>2. \A x \in Names : Listed(x) = F[x] /\ F[x] \subseteq All
    BY ListedIs DEF Step, Good
  <1>3. PICK l \in Listening(port) :
          LET found == ToFront(lists, "listen", l)
          IN  \/ lists' = found /\ pcb' = pcb
              \/ \E a \in PcbAllocations :
                   LET L == ToFront(Zeroed(a), "listen", l)
                   IN  \/ /\ pcb' = [pcb EXCEPT ![a.p] =
                                [state |-> "active", ip |-> Here, port |-> port, remote |-> r]]
                          /\ lists' = Reg(L, "active", a.p)
                       \/ pcb' = PcbFreed(a.p) /\ lists' = L
    BY DEF SegmentForListener
  <1>4. tcp_port' = tcp_port /\ Connected(r, port) = {} /\ Waiting(r, port) = {}
    BY DEF SegmentForListener
  <1>5. l \in F["listen"] /\ pcb[l].port = port /\ l \in All
    BY <1>1, <1>2 DEF Listening
  <1>6. CASE lists' = ToFront(lists, "listen", l) /\ pcb' = pcb
    <2>1. Holds(lists', F)
      BY <1>1, <1>5, <1>6, HoldsToFront DEF Step
    <2>2. Step(F)'
      BY <1>4, <1>6, <2>1 DEF Step
    <2> QED BY <2>2, StepIInv
  <1>7. CASE \E a \in PcbAllocations :
               \/ /\ pcb' = [pcb EXCEPT ![a.p] =
                        [state |-> "active", ip |-> Here, port |-> port, remote |-> r]]
                  /\ lists' = Reg(ToFront(Zeroed(a), "listen", l), "active", a.p)
               \/ pcb' = PcbFreed(a.p) /\ lists' = ToFront(Zeroed(a), "listen", l)
    <2>1. PICK a \in PcbAllocations :
               \/ /\ pcb' = [pcb EXCEPT ![a.p] =
                        [state |-> "active", ip |-> Here, port |-> port, remote |-> r]]
                  /\ lists' = Reg(ToFront(Zeroed(a), "listen", l), "active", a.p)
               \/ pcb' = PcbFreed(a.p) /\ lists' = ToFront(Zeroed(a), "listen", l)
      BY <1>7
    <2>2. PICK G : Allocated(a, F, G)
      BY AllocationIs DEF Step
    <2>3. /\ a.p \in Pcbs /\ a.p \in All /\ Holds(Zeroed(a), G) /\ Good(PcbFreed(a.p), G)
          /\ OnNone(G, a.p) /\ G["bound"] = F["bound"] /\ G["listen"] = F["listen"]
          /\ G["active"] = F["active"] \ {a.p} /\ G["timewait"] = F["timewait"] \ {a.p}
      BY <2>2 DEF Allocated, All
    <2>4. Holds(ToFront(Zeroed(a), "listen", l), G)
      BY <1>1, <1>5, <2>3, HoldsToFront
    <2>5. CASE pcb' = PcbFreed(a.p) /\ lists' = ToFront(Zeroed(a), "listen", l)
      <3>1. Holds(lists', G) /\ Good(pcb', G) /\ tcp_port' \in PortRange
        BY <1>4, <2>3, <2>4, <2>5 DEF Step
      <3>2. Step(G)'
        BY <3>1 DEF Step
      <3> QED BY <3>2, StepIInv
    <2>6. CASE /\ pcb' = [pcb EXCEPT ![a.p] =
                        [state |-> "active", ip |-> Here, port |-> port, remote |-> r]]
               /\ lists' = Reg(ToFront(Zeroed(a), "listen", l), "active", a.p)
      <3> DEFINE s == [state |-> "active", ip |-> Here, port |-> port, remote |-> r]
                 c == PcbFreed(a.p)
      <3>1. port \in Nat
        BY PortAssumption, RangeSize DEF PortRange
      <3>2. s \in PcbRecord
        BY <3>1 DEF PcbRecord
      <3>3. s.state = "active" /\ s.ip = Here /\ s.port = port /\ s.remote = r
        OBVIOUS
      <3>4. pcb' = [pcb EXCEPT ![a.p] = s]
        BY <2>6
      <3> HIDE DEF s
      <3>5. \A q \in All : q /= a.p => c[q] = pcb[q]
        BY <2>3 DEF PcbFreed, Step, Good
      <3>6. pcb' = [c EXCEPT ![a.p] = s]
        BY <2>3, <3>4 DEF PcbFreed, Step, Good
      <3> HIDE DEF c
      <3>7. Fits("active", a.p, s)
        BY <2>3, <3>3 DEF Fits
      <3>8. ASSUME NEW q \in G["bound"] PROVE c[q].port /= port
        <4>1. q \in F["bound"] /\ q \in All /\ q \notin F["listen"]
          BY <1>1, <1>2, <2>3 DEF Step, Holds
        <4>2. q /= a.p
          BY <1>1, <2>3 DEF OnNone
        <4>3. pcb[q].port /= pcb[l].port
          BY <1>5, <4>1 DEF Step, Good, PortsApart
        <4> QED BY <1>5, <3>5, <4>1, <4>2, <4>3
      <3>9. ASSUME NEW q \in G["active"] \cup G["timewait"], c[q].remote = r
            PROVE  c[q].port /= port
        <4>1. q \in F["active"] \cup F["timewait"] /\ q /= a.p /\ q \in All
          BY <1>1, <1>2, <2>3
        <4>2. pcb[q].ip = Here
          BY <4>1 DEF Step, Good, EndsApart
        <4>3. ~Mine(q, r, port)
          BY <1>1, <1>2, <1>4, <4>1 DEF Connected, Waiting
        <4> QED BY <3>5, <3>9, <4>1, <4>2, <4>3 DEF Mine
      <3>10. Differs(c, G, "active", s)
        BY <3>3, <3>8, <3>9 DEF Differs
      <3>11. Good(pcb', With(G, "active", a.p))
        BY <1>1, <2>3, <3>2, <3>6, <3>7, <3>10, PutOn DEF c
      <3>12. Holds(lists', With(G, "active", a.p))
        BY <1>1, <2>3, <2>4, <2>6, HoldsReg
      <3>13. PICK H : H = With(G, "active", a.p)
        OBVIOUS
      <3>14. Holds(lists', H) /\ Good(pcb', H) /\ tcp_port' \in PortRange
        BY <1>4, <3>11, <3>12, <3>13 DEF Step
      <3>15. Step(H)'
        BY <3>14 DEF Step
      <3> QED BY <3>15, StepIInv
    <2> QED BY <2>1, <2>5, <2>6
  <1> QED BY <1>3, <1>6, <1>7

LEMMA ConnectionEndsIInv ==
  ASSUME NEW F, Step(F), NEW p \in Pcbs, ConnectionEnds(p)
  PROVE  PortsIInv'
  <1> DEFINE G == Without(F, "active", p)
             L == Rmv(lists, "active", p)
             c == PcbFreed(p)
  <1>1. p \in All /\ pcb[p].state = "active" /\ tcp_port' \in PortRange
    BY DEF ConnectionEnds, All, Step
  <1>2. p \in F["active"] /\ Holds(L, G) /\ Good(c, G) /\ OnNone(G, p)
    BY <1>1, Dropped
  <1>3. \/ pcb' = [pcb EXCEPT ![p].state = "timewait"] /\ lists' = Reg(L, "timewait", p)
        \/ pcb' = c /\ lists' = L
    BY DEF ConnectionEnds
  <1>4. CASE pcb' = c /\ lists' = L
    <2>1. Step(G)'
      BY <1>1, <1>2, <1>4 DEF Step, Without
    <2> QED BY <2>1, StepIInv
  <1>5. CASE pcb' = [pcb EXCEPT ![p].state = "timewait"] /\ lists' = Reg(L, "timewait", p)
    <2> DEFINE r == [pcb[p] EXCEPT !.state = "timewait"]
    <2>1. pcb[p] \in PcbRecord /\ pcb \in [All -> PcbRecord]
      BY <1>1 DEF Step, Good
    <2>2. r \in PcbRecord /\ r.state = "timewait" /\ r.ip = pcb[p].ip
          /\ r.port = pcb[p].port /\ r.remote = pcb[p].remote
      BY <2>1 DEF PcbRecord
    <2>3. pcb' = [c EXCEPT ![p] = r]
      BY <1>1, <1>5, <2>1 DEF PcbFreed
    <2>4. \A q \in All : q /= p => c[q] = pcb[q]
      BY <1>1, <2>1 DEF PcbFreed
    <2>5. \A x \in Names : G[x] = F[x] \ {p} \/ (x /= "active" /\ G[x] = F[x])
      BY DEF Without, Step, Good
    <2>6. "active" \in Names /\ "timewait" \in Names /\ "bound" \in Names
      BY DEF Names
    <2> HIDE DEF r, c, G, L
    <2>7. \A q \in G["bound"] \cup G["active"] \cup G["timewait"] :
            q \in All /\ q /= p /\ c[q] = pcb[q]
      <3>1. \A x \in Names : \A q \in G[x] : q \in All /\ q /= p
        BY <1>2 DEF OnNone, Good
      <3> QED BY <2>4, <2>6, <3>1
    <2>8. Fits("timewait", p, r)
      BY <1>2, <2>2 DEF Fits, Step, Good, EndsApart
    <2>9. ASSUME NEW q \in G["bound"] PROVE c[q].port /= r.port
      <3>1. q \in F["bound"]
        BY <2>5, <2>6
      <3> QED BY <1>2, <2>2, <2>7, <3>1 DEF Step, Good, PortsApart
    <2>10. ASSUME NEW q \in G["active"] \cup G["timewait"], c[q].remote = r.remote
           PROVE  c[q].port /= r.port
      <3>1. q \in F["active"] \cup F["timewait"] /\ q /= p /\ c[q] = pcb[q]
        BY <2>5, <2>6, <2>7
      <3> QED BY <1>2, <2>2, <2>10, <3>1 DEF Step, Good, EndsApart
    <2>11. Differs(c, G, "timewait", r)
      BY <2>9, <2>10 DEF Differs
    <2>12. Good(pcb', With(G, "timewait", p))
      BY <1>1, <1>2, <2>2, <2>3, <2>6, <2>8, <2>11, PutOn
    <2>13. Holds(lists', With(G, "timewait", p))
      BY <1>1, <1>2, <1>5, <2>6, HoldsReg
    <2>14. PICK H : H = With(G, "timewait", p)
      OBVIOUS
    <2>15. Holds(lists', H) /\ Good(pcb', H) /\ tcp_port' \in PortRange
      BY <1>1, <2>12, <2>13, <2>14
    <2>16. Step(H)'
      BY <2>15 DEF Step
    <2> QED BY <2>16, StepIInv
  <1> QED BY <1>3, <1>4, <1>5

LEMMA TimeWaitEndsIInv ==
  ASSUME NEW F, Step(F), NEW p \in Pcbs, TimeWaitEnds(p)
  PROVE  PortsIInv'
  <1>1. p \in All /\ pcb[p].state = "timewait" /\ tcp_port' \in PortRange
        /\ lists' = Rmv(lists, "timewait", p) /\ pcb' = PcbFreed(p)
    BY DEF TimeWaitEnds, All, Step
  <1>2. Step(Without(F, "timewait", p))'
    BY <1>1, Dropped DEF Step, Without
  <1> QED BY <1>2, StepIInv

LEMMA PortsNextIInv == Misuse = {} /\ PortsIInv /\ [PortsNext]_portVars => PortsIInv'
  <1> SUFFICES ASSUME Misuse = {}, PortsIInv, [PortsNext]_portVars PROVE PortsIInv'
    OBVIOUS
  <1>1. PICK F : Step(F)
    BY DEF PortsIInv, Step
  <1>2. CASE TcpNew
    BY <1>1, <1>2, TcpNewIInv
  <1>3. CASE \E p \in Pcbs, ip \in {IpAny, Here}, port \in {0} \cup AppPorts :
               TcpBind(p, ip, port)
    BY <1>1, <1>3, TcpBindIInv
  <1>4. CASE \E p \in Pcbs : TcpListen(p)
    BY <1>1, <1>4, TcpListenIInv
  <1>5. CASE \E p \in Pcbs, r \in Remotes : TcpConnect(p, r)
    BY <1>1, <1>5, TcpConnectIInv
  <1>6. CASE \E p \in All : TcpClose(p)
    BY <1>1, <1>6, TcpCloseIInv
  <1>7. CASE \E p \in Pcbs : TcpAbort(p)
    BY <1>1, <1>7, TcpAbortIInv
  <1>8. CASE \E r \in Remotes, port \in PortRange \cup AppPorts :
               SegmentForConnection(r, port)
    BY <1>1, <1>8, SegmentForConnectionIInv
  <1>9. CASE \E r \in Remotes, port \in PortRange \cup AppPorts : SegmentForListener(r, port)
    BY <1>1, <1>9, SegmentForListenerIInv
  <1>10. CASE \E p \in Pcbs : ConnectionEnds(p)
    BY <1>1, <1>10, ConnectionEndsIInv
  <1>11. CASE \E p \in Pcbs : TimeWaitEnds(p)
    BY <1>1, <1>11, TimeWaitEndsIInv
  <1>12. CASE UNCHANGED portVars
    <2>1. Step(F)'
      BY <1>1, <1>12 DEF Step, portVars
    <2> QED BY <2>1, StepIInv
  <1> QED BY <1>2, <1>3, <1>4, <1>5, <1>6, <1>7, <1>8, <1>9, <1>10, <1>11, <1>12
          DEF PortsNext

LEMMA PortsIInvImplies == PortsIInv => Axioms /\ PortsOK
  <1> SUFFICES ASSUME PortsIInv PROVE Axioms /\ PortsOK
    OBVIOUS
  <1>1. PICK F : Step(F)
    BY DEF PortsIInv, Step
  <1>2. /\ Listed("listen") = F["listen"] /\ Listed("bound") = F["bound"]
        /\ Listed("active") = F["active"] /\ Listed("timewait") = F["timewait"]
        /\ F["listen"] \subseteq All /\ F["bound"] \subseteq All
        /\ F["active"] \subseteq All /\ F["timewait"] \subseteq All
    BY <1>1, ListedIs DEF Step, Names, Good
  <1>3. Axioms
    <2>1. ListsOfStates(pcb, F)
      BY <1>1 DEF Step, Good
    <2>2. F["listen"] = InState("listen") /\ F["active"] = InState("active")
          /\ F["timewait"] = InState("timewait")
      BY <1>2, <2>1 DEF ListsOfStates, InState
    <2>3. F["bound"] \subseteq InState("closed") /\ \A p \in F["bound"] : pcb[p].port /= 0
      BY <1>2, <2>1 DEF ListsOfStates, InState
    <2> QED BY <1>2, <2>2, <2>3 DEF Axioms
  <1>4. NoSharedPort
    BY <1>1, <1>2 DEF NoSharedPort, Step, Good, PortsApart
  <1>5. UniqueConnections
    BY <1>1, <1>2 DEF UniqueConnections, Step, Good, EndsApart
  <1>6. FindsFreePort
    BY <1>1, NewPortIs DEF Step
  <1> QED BY <1>3, <1>4, <1>5, <1>6 DEF PortsOK

-----------------------------------------------------------------------------
(* The theorems.                                                           *)

\* The invariant holds of every behaviour.
THEOREM PortsInvariant == ASSUME Misuse = {} PROVE PortsSpec => []PortsIInv
  BY PortsInitIInv, PortsNextIInv, PTL DEF PortsSpec

\* Every pcb is on the list of its state and on no other, however TCP_REG,
\* TCP_RMV and the moves of tcp_input to the front changed the pointers, and no
\* list leads to a pcb that was freed.
THEOREM PcbsOnTheirLists == ASSUME Misuse = {} PROVE PortsSpec => []Axioms
  BY PortsInvariant, PortsIInvImplies, PTL

\* No two pcbs wait at one port, no two connections have the same ends, and
\* tcp_new_port finds a port if there is one.
THEOREM PortsAreApart == ASSUME Misuse = {} PROVE PortsSpec => []PortsOK
  BY PortsInvariant, PortsIInvImplies, PTL
=============================================================================
