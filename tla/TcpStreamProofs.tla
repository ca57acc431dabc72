--------------------------- MODULE TcpStreamProofs ---------------------------
(***************************************************************************)
(* Proofs about TcpStream for every window, segment size, buffer and       *)
(* length of the stream, and any number of faults of the network.          *)
(***************************************************************************)
EXTENDS TcpStream, SequenceTheorems, FiniteSetTheorems, WellFoundedInduction, TLAPS

\* The sequence numbers of the connection do not wrap, and the writer closes
\* when the window has room for the FIN.
NoWrap == FinFits /\ Iss + Total + 2 * TcpWnd + 1 < M

-----------------------------------------------------------------------------
(* The inductive invariant.  w bytes and e FINs (0 or 1) are written.     *)

Segment == [seq : Nat, data : Seq(Nat), fin : BOOLEAN]
Ack == [ackno : Nat, wnd : 0 .. TcpWnd]

\* What follows the segment's bytes, and its FIN.
DataStop(s) == s.seq + Len(s.data)
Stop(s) == s.seq + TcpLen(s)

\* What follows the stream.
EndOf(w, e) == Iss + w + e

\* A piece of the stream: some of the bytes that were written, at their place.
Piece(s, w, e) ==
  /\ s \in Segment
  /\ Iss <= s.seq /\ DataStop(s) <= Iss + w
  /\ \A i \in 1 .. Len(s.data) : s.data[i] = s.seq - Iss + i
  /\ s.fin => e = 1 /\ DataStop(s) = Iss + w
  /\ s.fin \/ Len(s.data) >= 1

\* The pieces of q follow one another from a to b.
Chain(q, a, b, w, e) ==
  /\ q \in Seq(Segment)
  /\ \A k \in 1 .. Len(q) :
       /\ Piece(q[k], w, e)
       /\ q[k].seq = IF k = 1 THEN a ELSE Stop(q[k - 1])
  /\ b = IF q = <<>> THEN a ELSE Stop(q[Len(q)])

\* The queue of pieces beyond n and up to b that ooseq is.
Ordered(q, n, b, w, e) ==
  /\ q \in Seq(Segment)
  /\ \A k \in 1 .. Len(q) :
       /\ Piece(q[k], w, e)
       /\ n < q[k].seq /\ Stop(q[k]) <= b
       /\ k < Len(q) => ~q[k].fin /\ DataStop(q[k]) <= q[k + 1].seq

\* The sender has sent what lies before this, or probed with it.
ReachOf(la, nxt) == IF nxt > la THEN nxt ELSE la + 1
Reach == ReachOf(lastack, snd_nxt)

\* The FINs queued and received.
Fins == IF finQueued THEN 1 ELSE 0
Ends == IF gotFin THEN 1 ELSE 0

\* The queues out and una of a sender that has sent up to nxt, has la
\* acknowledged, and may send up to la + wnd: together a chain up to the end of
\* what was written.
Sending(out, una, w, e, la, wnd, nxt) ==
  /\ w \in 0 .. Total /\ e \in 0 .. 1 /\ la \in Nat /\ wnd \in 0 .. TcpWnd /\ nxt \in Nat
  /\ Iss <= la /\ la <= nxt /\ nxt <= EndOf(w, e) /\ nxt <= la + wnd
  /\ e = 1 => EndOf(w, e) <= la + wnd
  /\ \E a, m \in Iss .. EndOf(w, e) :
       a <= la /\ Chain(una, a, m, w, e) /\ Chain(out, m, EndOf(w, e), w, e)
  /\ \A k \in 1 .. Len(una) :
       la < Stop(una[k]) /\ Stop(una[k]) <= nxt /\ Len(una[k].data) <= MssLocal
  /\ \A k \in 1 .. Len(out) : la < Stop(out[k]) /\ Len(out[k].data) <= MssLocal

SenderOK ==
  /\ finQueued \in BOOLEAN /\ inFR \in BOOLEAN /\ rtime \in BOOLEAN /\ persist \in BOOLEAN
  /\ snd_wl2 \in Nat
  /\ Sending(unsent, unacked, written, Fins, lastack, snd_wnd, snd_nxt)
  /\ unacked /= <<>> => rtime
  /\ finQueued => lastack = EndOf(written, Fins) \/ lastack < snd_nxt

\* What was announced and may have been sent.
Limit == IF ann_edge <= Reach THEN ann_edge ELSE Reach

\* The first n bytes of the stream.
Stretch(n) == [i \in 1 .. n |-> i]

ReceiverOK ==
  /\ rcv_nxt \in Nat /\ ann_edge \in Nat
  /\ rcv_wnd \in 0 .. TcpWnd /\ ann_wnd \in 0 .. TcpWnd /\ unread \in 0 .. TcpWnd
  /\ ackDelay \in BOOLEAN /\ gotFin \in BOOLEAN
  /\ got = Stretch(Len(got)) /\ Len(got) \in 0 .. written
  /\ rcv_nxt = EndOf(Len(got), Ends)
  /\ gotFin => finQueued /\ Len(got) = written /\ ooseq = <<>>
  /\ rcv_wnd + unread = TcpWnd
  /\ unread <= Len(got)
  /\ ann_wnd <= rcv_wnd
  /\ ann_edge <= rcv_nxt + ann_wnd
  /\ Ordered(ooseq, rcv_nxt, Limit, written, Fins)

\* The segments in flight: the receiver announced room for them, or they probe
\* for it.
InFlight(w, e, edge, nxt, reach) ==
  {s \in Segment :
     /\ Piece(s, w, e)
     /\ Stop(s) <= edge \/ (TcpLen(s) = 1 /\ s.seq <= nxt)
     /\ Stop(s) <= reach}

\* The ACKs in flight, to a sender that may send up to wl2 + wnd: it has seen
\* what is older, and does not know yet what is newer.
Answers(wl2, wnd, edge, nxt) ==
  {a \in Ack :
     /\ Iss <= a.ackno /\ a.ackno <= nxt
     /\ a.ackno + a.wnd <= edge
     /\ wl2 < a.ackno => wl2 + wnd <= a.ackno + a.wnd}

\* Of the edges that the ACKs of S announce the later ones lie further on.
Rising(S) ==
  \A a, b \in S : a.ackno < b.ackno => a.ackno + a.wnd <= b.ackno + b.wnd

Items(q) == {q[k] : k \in 1 .. Len(q)}

\* The receiver has not more than was sent, or probed with, and the sender not
\* more than the receiver gave it.
NetworkOK ==
  /\ faults \in 0 .. MaxFaults
  /\ net \in Seq(InFlight(written, Fins, ann_edge, rcv_nxt, Reach))
  /\ acks \in Seq(Answers(snd_wl2, snd_wnd, ann_edge, rcv_nxt))
  /\ Rising(Items(acks))
  /\ rcv_nxt <= Reach
  /\ lastack <= snd_wl2 /\ snd_wl2 <= rcv_nxt
  /\ snd_wl2 + snd_wnd <= ann_edge

IInv ==
  /\ SenderOK
  /\ ReceiverOK
  /\ NetworkOK

-----------------------------------------------------------------------------
(* Numbers.                                                                 *)

LEMMA ConstantFacts ==
  /\ M \in Nat /\ WndMod \in Nat /\ Mss \in Nat /\ TcpWnd \in Nat /\ SndBuf \in Nat
  /\ NetSize \in Nat /\ Iss \in Nat /\ Total \in Nat /\ MaxFaults \in Nat
  /\ M > 0 /\ WndMod > 0 /\ Mss > 0 /\ NetSize > 0 /\ SndBuf > 0
  /\ Iss < M /\ TcpWnd < WndMod /\ TcpWnd >= 2
  /\ 2 * (Total + TcpWnd + 1) < M
  BY StreamAssumption

LEMMA LeastExists ==
  ASSUME NEW S \in SUBSET Nat, S /= {}
  PROVE  \E i \in S : \A j \in S : i <= j
  <1>1. PICK x \in S : \A y \in S : ~(<<y, x>> \in OpToRel(<, Nat))
    BY NatLessThanWellFounded, WFMin
  <1>2. \A y \in S : ~(y < x)
    BY <1>1 DEF OpToRel
  <1> QED BY <1>2

LEMMA GreatestExists ==
  ASSUME NEW b \in Nat, NEW S \in SUBSET (0 .. b), S /= {}
  PROVE  \E i \in S : \A j \in S : j <= i
  <1> DEFINE T == {b - i : i \in S}
  <1>0. \A i \in S : i \in Nat /\ i <= b /\ b - i \in Nat
    OBVIOUS
  <1>1. T \in SUBSET Nat /\ T /= {}
    BY <1>0
  <1>2. PICK x \in T : \A y \in T : x <= y
    BY <1>1, LeastExists
  <1>3. PICK i \in S : x = b - i
    BY <1>2
  <1>4. \A j \in S : b - i <= b - j
    BY <1>2, <1>3
  <1>5. \A j \in S : j <= i
    BY <1>0, <1>4
  <1> QED BY <1>5

LEMMA CountAll ==
  ASSUME NEW n \in Nat
  PROVE  Cardinality(1 .. n) = n
  <1>1. 1 \in Int /\ n \in Int
    OBVIOUS
  <1>2. Cardinality(1 .. n) = IF 1 > n THEN 0 ELSE n - 1 + 1
    BY ONLY <1>1, FS_Interval
  <1>3. CASE n = 0
    BY <1>2, <1>3
  <1>4. CASE n >= 1
    BY <1>2, <1>4
  <1> QED BY <1>3, <1>4

LEMMA CountRun ==
  ASSUME NEW n \in Nat, NEW S \in SUBSET (1 .. n), \A k \in S : \A j \in 1 .. k : j \in S
  PROVE  /\ Cardinality(S) \in 0 .. n
         /\ \A j \in 1 .. Cardinality(S) : j \in S
         /\ \A k \in S : k <= Cardinality(S)
  <1>1. CASE S = {}
    <2>1. Cardinality(S) = 0
      BY <1>1, FS_EmptySet
    <2> QED BY <1>1, <2>1
  <1>2. CASE S /= {}
    <2>1. PICK m \in S : \A j \in S : j <= m
      <3>1. S \in SUBSET (0 .. n)
        OBVIOUS
      <3> QED BY <1>2, <3>1, GreatestExists
    <2>2. m \in 1 .. n
      OBVIOUS
    <2>3. S = 1 .. m
      <3>1. \A j \in S : j \in 1 .. m
        BY <2>1, <2>2
      <3>2. \A j \in 1 .. m : j \in S
        BY <2>1
      <3> QED BY <3>1, <3>2
    <2>4. Cardinality(1 .. m) = m
      <3>1. m \in Nat
        BY <2>2
      <3> QED BY <3>1, CountAll
    <2> QED BY <2>1, <2>2, <2>3, <2>4
  <1> QED BY <1>1, <1>2

LEMMA MinOf ==
  ASSUME NEW a \in Int, NEW b \in Int
  PROVE  Min({a, b}) = IF a <= b THEN a ELSE b
  <1> DEFINE m == IF a <= b THEN a ELSE b
  <1>1. m \in {a, b} /\ \A y \in {a, b} : m =< y
    OBVIOUS
  <1>2. \A x \in {a, b} : (\A y \in {a, b} : x =< y) => x = m
    OBVIOUS
  <1>3. Min({a, b}) \in {a, b} /\ \A y \in {a, b} : Min({a, b}) =< y
    BY <1>1 DEF Min
  <1> QED BY <1>2, <1>3

LEMMA ModOf ==
  ASSUME NEW a \in Int, NEW m \in Nat, m > 0, -m <= a, a < m
  PROVE  a % m = IF a < 0 THEN a + m ELSE a
  OBVIOUS

LEMMA HalfOf ==
  ASSUME NEW m \in Nat
  PROVE  m \div 2 \in Nat /\ 2 * (m \div 2) <= m /\ m < 2 * (m \div 2) + 2
  OBVIOUS

LEMMA MssLocalOf == MssLocal \in Nat /\ 0 < MssLocal /\ MssLocal <= Mss /\ MssLocal <= TcpWnd
  <1>1. TcpWnd \div 2 \in Nat /\ TcpWnd \div 2 > 0 /\ TcpWnd \div 2 <= TcpWnd
    BY ConstantFacts, HalfOf
  <1> QED BY <1>1, ConstantFacts, MinOf DEF MssLocal

\* How far apart the sequence numbers that meet can be.
LEMMA Compare ==
  ASSUME NoWrap,
         NEW a \in 0 .. M - 1, NEW b \in 0 .. M - 1,
         a - b <= Total + TcpWnd, b - a <= Total + TcpWnd
  PROVE  /\ LT(a, b) <=> a < b
         /\ LEQ(a, b) <=> a <= b
         /\ GEQ(a, b) <=> a >= b
         /\ GT(a, b) <=> a > b
         /\ b <= a => Minus(a, b) = a - b
  <1> DEFINE h == M \div 2
  <1>1. h \in Nat /\ 2 * h <= M /\ M < 2 * h + 2
    BY ConstantFacts, HalfOf
  <1>2. (a - b) % M = IF a < b THEN a - b + M ELSE a - b
    BY ConstantFacts, ModOf
  <1>3. 2 * (Total + TcpWnd + 1) < M /\ Total \in Nat /\ TcpWnd \in Nat /\ M \in Nat
    BY ConstantFacts
  <1>4. ((a - b) % M >= h) <=> a < b
    <2>1. CASE a < b
      <3>1. 2 * (a - b + M) >= M
        BY <1>3, <2>1
      <3> QED BY <1>1, <1>2, <1>3, <2>1, <3>1
    <2>2. CASE ~(a < b)
      <3>1. 2 * (a - b) < M - 1
        BY <1>3, <2>2
      <3> QED BY <1>1, <1>2, <1>3, <2>2, <3>1
    <2> QED BY <2>1, <2>2
  <1>5. LT(a, b) <=> a < b
    BY <1>4 DEF LT
  <1> QED BY <1>2, <1>3, <1>5 DEF LEQ, GEQ, GT, Minus

LEMMA PlusOf ==
  ASSUME NEW a \in Nat, NEW n \in Int, 0 <= a + n, a + n < M
  PROVE  Plus(a, n) = a + n
  BY ConstantFacts, ModOf DEF Plus

-----------------------------------------------------------------------------
(* Pieces of the stream.                                                    *)

\* The sequence numbers of the connection.
Span == Iss .. Iss + Total + TcpWnd

LEMMA SpanCompare ==
  ASSUME NoWrap, NEW a \in Span, NEW b \in Span
  PROVE  /\ LT(a, b) <=> a < b
         /\ LEQ(a, b) <=> a <= b
         /\ GEQ(a, b) <=> a >= b
         /\ GT(a, b) <=> a > b
         /\ b <= a => Minus(a, b) = a - b
  <1>1. /\ a \in 0 .. M - 1 /\ b \in 0 .. M - 1
        /\ a - b <= Total + TcpWnd /\ b - a <= Total + TcpWnd
    BY ConstantFacts DEF Span, NoWrap
  <1> QED BY <1>1, Compare

LEMMA SubSeqOf ==
  ASSUME NEW S, NEW q \in Seq(S), NEW k \in 0 .. Len(q)
  PROVE  /\ SubSeq(q, 1, k) \in Seq(S) /\ Len(SubSeq(q, 1, k)) = k
         /\ \A i \in 1 .. k : SubSeq(q, 1, k)[i] = q[i]
         /\ From(q, k + 1) \in Seq(S) /\ Len(From(q, k + 1)) = Len(q) - k
         /\ \A i \in 1 .. Len(q) - k : From(q, k + 1)[i] = q[k + i]
  <1>1. Len(q) \in Nat /\ \A i \in 1 .. Len(q) : q[i] \in S
    OBVIOUS
  <1>2. \A i \in 1 .. k : q[i] \in S
    BY <1>1
  <1>3. /\ SubSeq(q, 1, k) \in Seq(S) /\ Len(SubSeq(q, 1, k)) = IF 1 <= k THEN k - 1 + 1 ELSE 0
        /\ \A i \in 1 .. k - 1 + 1 : SubSeq(q, 1, k)[i] = q[1 + i - 1]
    BY <1>1, <1>2, SubSeqProperties
  <1>4. \A i \in k + 1 .. Len(q) : q[i] \in S
    BY <1>1
  <1>5. /\ SubSeq(q, k + 1, Len(q)) \in Seq(S)
        /\ Len(SubSeq(q, k + 1, Len(q))) = IF k + 1 <= Len(q) THEN Len(q) - (k + 1) + 1 ELSE 0
        /\ \A i \in 1 .. Len(q) - (k + 1) + 1 : SubSeq(q, k + 1, Len(q))[i] = q[(k + 1) + i - 1]
    BY <1>1, <1>4, SubSeqProperties
  <1>6. \A i \in 1 .. k : SubSeq(q, 1, k)[i] = q[i]
    BY <1>3
  <1>7. \A i \in 1 .. Len(q) - k : From(q, k + 1)[i] = q[k + i]
    BY <1>1, <1>5 DEF From
  <1>8. Len(From(q, k + 1)) = Len(q) - k
    BY <1>1, <1>5 DEF From
  <1> QED BY <1>3, <1>5, <1>6, <1>7, <1>8 DEF From

LEMMA SegmentFacts ==
  ASSUME NEW s \in Segment
  PROVE  /\ s.seq \in Nat /\ Len(s.data) \in Nat /\ s.fin \in BOOLEAN
         /\ DataStop(s) \in Nat /\ Stop(s) \in Nat /\ TcpLen(s) \in Nat
         /\ DataStop(s) = s.seq + Len(s.data)
         /\ s.fin => Stop(s) = DataStop(s) + 1 /\ TcpLen(s) = Len(s.data) + 1
         /\ ~s.fin => Stop(s) = DataStop(s) /\ TcpLen(s) = Len(s.data)
         /\ Stop(s) = s.seq + TcpLen(s)
  <1>1. s.seq \in Nat /\ s.data \in Seq(Nat) /\ s.fin \in BOOLEAN
    BY DEF Segment, Seg
  <1>2. Len(s.data) \in Nat
    BY <1>1
  <1>3. TcpLen(s) = Len(s.data) + IF s.fin THEN 1 ELSE 0
    BY DEF TcpLen
  <1>4. DataStop(s) = s.seq + Len(s.data) /\ Stop(s) = s.seq + TcpLen(s)
    BY DEF DataStop, Stop
  <1>5. CASE s.fin
    <2>1. TcpLen(s) = Len(s.data) + 1
      BY <1>3, <1>5
    <2> QED BY <1>1, <1>2, <1>4, <1>5, <2>1
  <1>6. CASE ~s.fin
    <2>1. TcpLen(s) = Len(s.data)
      BY <1>2, <1>3, <1>6
    <2> QED BY <1>1, <1>2, <1>4, <1>6, <2>1
  <1> QED BY <1>1, <1>5, <1>6

LEMMA SegmentData ==
  ASSUME NEW s \in Segment
  PROVE  s.data \in Seq(Nat) /\ DOMAIN s.data = 1 .. Len(s.data)
  BY DEF Segment

LEMMA PieceFacts ==
  ASSUME NoWrap, NEW w \in 0 .. Total, NEW e \in 0 .. 1, NEW s, Piece(s, w, e)
  PROVE  /\ s \in Segment
         /\ s.seq \in Nat /\ Len(s.data) \in Nat /\ s.fin \in BOOLEAN
         /\ DataStop(s) \in Nat /\ Stop(s) \in Nat /\ TcpLen(s) \in Nat
         /\ DataStop(s) = s.seq + Len(s.data)
         /\ s.fin => Stop(s) = DataStop(s) + 1 /\ TcpLen(s) = Len(s.data) + 1
         /\ ~s.fin => Stop(s) = DataStop(s) /\ TcpLen(s) = Len(s.data)
         /\ Stop(s) = s.seq + TcpLen(s)
         /\ Iss <= s.seq /\ s.seq < Stop(s) /\ TcpLen(s) >= 1
         /\ DataStop(s) <= Iss + w /\ Stop(s) <= EndOf(w, e) /\ Stop(s) <= Iss + Total + 1
         /\ DataEnd(s) = DataStop(s) /\ End(s) = Stop(s)
         /\ s.seq \in Span /\ DataStop(s) \in Span /\ Stop(s) \in Span
  <1>1. /\ s \in Segment /\ Iss <= s.seq /\ DataStop(s) <= Iss + w
        /\ s.fin => e = 1 /\ DataStop(s) = Iss + w
        /\ s.fin \/ Len(s.data) >= 1
    BY DEF Piece
  <1>2. /\ s.seq \in Nat /\ Len(s.data) \in Nat /\ s.fin \in BOOLEAN
        /\ DataStop(s) \in Nat /\ Stop(s) \in Nat /\ TcpLen(s) \in Nat
        /\ DataStop(s) = s.seq + Len(s.data)
        /\ s.fin => Stop(s) = DataStop(s) + 1 /\ TcpLen(s) = Len(s.data) + 1
        /\ ~s.fin => Stop(s) = DataStop(s) /\ TcpLen(s) = Len(s.data)
        /\ Stop(s) = s.seq + TcpLen(s)
    BY <1>1, SegmentFacts
  <1>a. EndOf(w, e) = Iss + w + e /\ Iss \in Nat /\ Total \in Nat
    BY ConstantFacts DEF EndOf
  <1>3. /\ s.seq < Stop(s) /\ TcpLen(s) >= 1
        /\ Stop(s) <= EndOf(w, e) /\ Stop(s) <= Iss + Total + 1
    <2>1. CASE s.fin
      BY <1>a, <1>1, <1>2, <2>1, SMTT(30)
    <2>2. CASE ~s.fin
      BY <1>a, <1>1, <1>2, <2>2, SMTT(30)
    <2> QED BY <2>1, <2>2
  <1>b. DataStop(s) < M /\ Stop(s) < M
    BY <1>1, <1>2, <1>3, ConstantFacts, SMTT(30) DEF NoWrap
  <1>4. DataEnd(s) = DataStop(s)
    <2>1. Plus(s.seq, Len(s.data)) = s.seq + Len(s.data)
      BY <1>2, <1>b, PlusOf
    <2> QED BY <1>2, <2>1 DEF DataEnd
  <1>5. End(s) = Stop(s)
    <2>1. Plus(s.seq, TcpLen(s)) = s.seq + TcpLen(s)
      BY <1>2, <1>b, PlusOf
    <2> QED BY <1>2, <2>1 DEF End
  <1>6. s.seq \in Span /\ DataStop(s) \in Span /\ Stop(s) \in Span
    <2>1. TcpWnd \in Nat /\ TcpWnd >= 2 /\ w \in Nat /\ w <= Total
      BY <1>a, ConstantFacts
    <2>2. /\ Iss <= DataStop(s) /\ DataStop(s) <= Iss + Total + TcpWnd
          /\ s.seq <= Iss + Total + TcpWnd
      BY ONLY <1>1, <1>2, <1>a, <2>1, SMTT(30)
    <2>3. Iss <= Stop(s) /\ Stop(s) <= Iss + Total + TcpWnd
      BY ONLY <1>1, <1>2, <1>3, <1>a, <2>1, SMTT(30)
    <2> QED BY ONLY <1>1, <1>2, <1>a, <2>1, <2>2, <2>3 DEF Span
  <1> QED BY <1>1, <1>2, <1>3, <1>4, <1>5, <1>6

\* Pieces of what was written are pieces of what is written now.
LEMMA PieceStays ==
  ASSUME NEW w \in Nat, NEW w2 \in Nat, NEW e \in 0 .. 1, NEW e2 \in 0 .. 1,
         w <= w2, e = 1 => e2 = 1 /\ w2 = w, NEW s, Piece(s, w, e)
  PROVE  Piece(s, w2, e2)
  <1>1. s \in Segment /\ DataStop(s) \in Nat
    BY SegmentFacts DEF Piece
  <1>2. DataStop(s) <= Iss + w2
    BY <1>1, ConstantFacts DEF Piece
  <1>3. s.fin => e2 = 1 /\ DataStop(s) = Iss + w2
    BY DEF Piece
  <1> QED BY <1>2, <1>3 DEF Piece

LEMMA CutTailPiece ==
  ASSUME NoWrap, NEW w \in 0 .. Total, NEW e \in 0 .. 1, NEW s, Piece(s, w, e),
         ~s.fin, NEW p \in Nat, s.seq < p, p <= DataStop(s)
  PROVE  /\ Piece(CutTail(s, p), w, e)
         /\ CutTail(s, p).seq = s.seq /\ ~CutTail(s, p).fin
         /\ DataStop(CutTail(s, p)) = p /\ Stop(CutTail(s, p)) = p
  <1> DEFINE n == p - s.seq
             t == CutTail(s, p)
             d == SubSeq(s.data, 1, n)
  <1>0. /\ s \in Segment /\ s.seq \in Nat /\ s.data \in Seq(Nat) /\ Len(s.data) \in Nat
        /\ DataStop(s) = s.seq + Len(s.data) /\ s.seq \in Span /\ DataStop(s) \in Span
        /\ DataStop(s) <= Iss + w /\ Iss <= s.seq
    BY PieceFacts, SegmentData
  <1>1. p \in Span /\ Iss \in Nat
    BY <1>0, ConstantFacts DEF Span
  <1>2. Minus(p, s.seq) = n
    BY <1>0, <1>1, SpanCompare
  <1>3. n \in 0 .. Len(s.data) /\ n >= 1
    BY <1>0
  <1>4. /\ d \in Seq(Nat) /\ Len(d) = n
        /\ \A i \in 1 .. n : d[i] = s.data[i]
    BY <1>0, <1>3, SubSeqOf, ZenonT(30)
  <1>5. t = [s EXCEPT !.data = d]
    BY <1>2 DEF CutTail
  <1>6. t \in Segment /\ t.seq = s.seq /\ t.data = d /\ ~t.fin
    BY <1>0, <1>4, <1>5 DEF Segment
  <1> HIDE DEF t, d
  <1>7. DataStop(t) = p /\ Stop(t) = p
    <2>1. DataStop(t) = t.seq + Len(t.data) /\ (~t.fin => Stop(t) = DataStop(t))
      BY <1>6, SegmentFacts
    <2> QED BY <1>0, <1>4, <1>6, <2>1
  <1>8. \A i \in 1 .. Len(t.data) : t.data[i] = t.seq - Iss + i
    <2> SUFFICES ASSUME NEW i \in 1 .. Len(t.data) PROVE t.data[i] = t.seq - Iss + i
      OBVIOUS
    <2>1. i \in 1 .. n /\ i \in 1 .. Len(s.data)
      BY <1>0, <1>3, <1>4, <1>6
    <2>2. s.data[i] = s.seq - Iss + i
      BY <2>1 DEF Piece
    <2> QED BY <1>4, <1>6, <2>1, <2>2
  <1>9. Piece(t, w, e)
    <2>1. Iss <= t.seq /\ DataStop(t) <= Iss + w
      BY <1>0, <1>1, <1>6, <1>7
    <2>2. Len(t.data) >= 1
      BY <1>3, <1>4, <1>6
    <2> QED BY <1>6, <1>8, <2>1, <2>2 DEF Piece
  <1> QED BY <1>6, <1>7, <1>9 DEF t

LEMMA CutFrontPiece ==
  ASSUME NoWrap, NEW w \in 0 .. Total, NEW e \in 0 .. 1, NEW s, Piece(s, w, e),
         NEW p \in Nat, s.seq <= p, p < Stop(s)
  PROVE  /\ Piece(CutFront(s, p), w, e)
         /\ CutFront(s, p).seq = p /\ (CutFront(s, p).fin <=> s.fin)
         /\ Stop(CutFront(s, p)) = Stop(s)
  <1> DEFINE n == p - s.seq
             t == CutFront(s, p)
             d == From(s.data, n + 1)
  <1>0. /\ s \in Segment /\ s.seq \in Nat /\ s.data \in Seq(Nat) /\ Len(s.data) \in Nat
        /\ DataStop(s) = s.seq + Len(s.data) /\ s.seq \in Span /\ Stop(s) \in Span
        /\ s.fin => Stop(s) = DataStop(s) + 1
        /\ ~s.fin => Stop(s) = DataStop(s)
        /\ Iss <= s.seq /\ s.fin \in BOOLEAN
    BY PieceFacts, SegmentData
  <1>1. p \in Span /\ Iss \in Nat
    BY <1>0, ConstantFacts DEF Span
  <1>2. Minus(p, s.seq) = n
    BY <1>0, <1>1, SpanCompare
  <1>3. n \in 0 .. Len(s.data) /\ n \in Nat /\ (n < Len(s.data) \/ s.fin)
    BY <1>0
  <1>4. /\ d \in Seq(Nat) /\ Len(d) = Len(s.data) - n
        /\ \A i \in 1 .. Len(s.data) - n : d[i] = s.data[n + i]
    BY <1>0, <1>3, SubSeqOf, ZenonT(30)
  <1>5. t = [seq |-> p, data |-> d, fin |-> s.fin]
    BY <1>2 DEF CutFront, From, Seg
  <1>6. t \in Segment /\ t.seq = p /\ t.data = d /\ (t.fin <=> s.fin)
    BY <1>0, <1>4, <1>5 DEF Segment
  <1> HIDE DEF t, d
  <1>7. DataStop(t) = DataStop(s) /\ Stop(t) = Stop(s)
    <2>1. /\ DataStop(t) = t.seq + Len(t.data)
          /\ t.fin => Stop(t) = DataStop(t) + 1
          /\ ~t.fin => Stop(t) = DataStop(t)
      BY <1>6, SegmentFacts
    <2>2. Len(t.data) = Len(s.data) - n /\ t.seq = p
      BY <1>4, <1>6
    <2>3. DataStop(t) = DataStop(s)
      BY <1>0, <2>1, <2>2
    <2> QED BY <1>0, <1>6, <2>1, <2>3
  <1>8. \A i \in 1 .. Len(t.data) : t.data[i] = t.seq - Iss + i
    <2> SUFFICES ASSUME NEW i \in 1 .. Len(t.data) PROVE t.data[i] = t.seq - Iss + i
      OBVIOUS
    <2>0. i \in 1 .. Len(s.data) - n
      BY <1>0, <1>3, <1>4, <1>6
    <2>a. n + i \in 1 .. Len(s.data)
      <3> HIDE DEF n
      <3>1. Len(s.data) \in Nat /\ n \in Nat
        BY <1>0, <1>3
      <3> QED BY <2>0, <3>1
    <2>1. n + i \in 1 .. Len(s.data) /\ t.data[i] = s.data[n + i]
      BY <1>4, <1>6, <2>0, <2>a
    <2>2. s.data[n + i] = s.seq - Iss + (n + i)
      BY <2>1 DEF Piece
    <2> QED BY <1>0, <1>1, <1>6, <2>1, <2>2
  <1>9. Piece(t, w, e)
    <2>1. Iss <= t.seq /\ DataStop(t) <= Iss + w
      BY <1>0, <1>1, <1>6, <1>7 DEF Piece
    <2>2. t.fin \/ Len(t.data) >= 1
      BY <1>0, <1>3, <1>4, <1>6
    <2>3. t.fin => e = 1 /\ DataStop(t) = Iss + w
      BY <1>6, <1>7 DEF Piece
    <2> QED BY <1>6, <1>8, <2>1, <2>2, <2>3 DEF Piece
  <1> QED BY <1>6, <1>7, <1>9 DEF t

LEMMA SetFinPiece ==
  ASSUME NoWrap, NEW w \in 0 .. Total, NEW s, Piece(s, w, 1), DataStop(s) = Iss + w
  PROVE  /\ Piece([s EXCEPT !.fin = TRUE], w, 1)
         /\ [s EXCEPT !.fin = TRUE].seq = s.seq /\ [s EXCEPT !.fin = TRUE].fin
         /\ [s EXCEPT !.fin = TRUE].data = s.data
         /\ DataStop([s EXCEPT !.fin = TRUE]) = DataStop(s)
         /\ Stop([s EXCEPT !.fin = TRUE]) = DataStop(s) + 1
  <1> DEFINE t == [s EXCEPT !.fin = TRUE]
  <1>0. s \in Segment
    BY DEF Piece
  <1>1. t \in Segment /\ t.seq = s.seq /\ t.data = s.data /\ t.fin
    BY <1>0 DEF Segment
  <1> HIDE DEF t
  <1>2. DataStop(t) = DataStop(s) /\ Stop(t) = DataStop(s) + 1
    BY <1>0, <1>1, SegmentFacts
  <1>3. Piece(t, w, 1)
    BY <1>1, <1>2 DEF Piece
  <1> QED BY <1>1, <1>2, <1>3 DEF t

LEMMA ClearFinPiece ==
  ASSUME NEW s \in Segment, ~s.fin
  PROVE  [s EXCEPT !.fin = FALSE] = s
  BY DEF Segment

\* tcp_zero_window_probe: the first byte of a piece.
LEMMA FirstBytePiece ==
  ASSUME NoWrap, NEW w \in 0 .. Total, NEW e \in 0 .. 1, NEW s, Piece(s, w, e),
         s.data /= <<>>
  PROVE  \E t \in {Seg(s.seq, <<s.data[1]>>, FALSE)} :
           /\ Piece(t, w, e)
           /\ t.seq = s.seq /\ TcpLen(t) = 1 /\ Stop(t) = s.seq + 1
  <1> DEFINE t == Seg(s.seq, <<s.data[1]>>, FALSE)
  <1>0. /\ s \in Segment /\ s.seq \in Nat /\ s.data \in Seq(Nat) /\ Len(s.data) \in Nat
        /\ DataStop(s) = s.seq + Len(s.data) /\ Iss <= s.seq /\ DataStop(s) <= Iss + w
    BY PieceFacts, SegmentData
  <1>1. Len(s.data) >= 1
    BY <1>0
  <1>2. t \in Segment /\ t.seq = s.seq /\ t.data = <<s.data[1]>> /\ ~t.fin
    BY <1>0, <1>1 DEF Segment, Seg
  <1> HIDE DEF t
  <1>3. Len(t.data) = 1 /\ t.data[1] = s.data[1]
    <2>1. Len(<<s.data[1]>>) = 1 /\ <<s.data[1]>>[1] = s.data[1]
      OBVIOUS
    <2> QED BY <1>2, <2>1
  <1>4. TcpLen(t) = 1 /\ Stop(t) = s.seq + 1 /\ DataStop(t) = s.seq + 1
    <2>1. DataStop(t) = t.seq + Len(t.data) /\ Stop(t) = DataStop(t) /\ TcpLen(t) = Len(t.data)
      BY <1>2, SegmentFacts
    <2>2. t.seq = s.seq
      BY <1>2
    <2> QED BY <1>3, <2>1, <2>2
  <1>5. s.data[1] = s.seq - Iss + 1
    <2>1. 1 \in 1 .. Len(s.data)
      BY <1>0, <1>1
    <2> QED BY <2>1 DEF Piece
  <1>6. \A i \in 1 .. Len(t.data) : t.data[i] = t.seq - Iss + i
    <2>1. t.seq = s.seq
      BY <1>2
    <2>2. \A i \in 1 .. Len(t.data) : i = 1
      BY <1>3
    <2> QED BY <1>3, <1>5, <2>1, <2>2
  <1>7. Piece(t, w, e)
    <2>0. t.seq = s.seq
      BY <1>2
    <2>1. Iss <= t.seq /\ DataStop(t) <= Iss + w /\ Len(t.data) >= 1
      BY <1>0, <1>1, <1>3, <1>4, <2>0, ConstantFacts
    <2> QED BY <1>2, <1>6, <2>1 DEF Piece
  <1> SUFFICES Piece(t, w, e) /\ t.seq = s.seq /\ TcpLen(t) = 1 /\ Stop(t) = s.seq + 1
    BY DEF t
  <1> QED BY <1>2, <1>4, <1>7

-----------------------------------------------------------------------------
(* Chains.                                                                  *)

LEMMA ChainFacts ==
  ASSUME NoWrap, NEW w \in 0 .. Total, NEW e \in 0 .. 1, NEW q, NEW a \in Nat, NEW b,
         Chain(q, a, b, w, e)
  PROVE  /\ q \in Seq(Segment) /\ Len(q) \in Nat /\ b \in Nat /\ a <= b
         /\ \A k \in 1 .. Len(q) : Piece(q[k], w, e)
         /\ \A j, k \in 1 .. Len(q) : j < k => Stop(q[j]) <= q[k].seq
         /\ \A k \in 1 .. Len(q) : a <= q[k].seq /\ Stop(q[k]) <= b
         /\ q = <<>> => a = b
         /\ q /= <<>> => a < b /\ q[1].seq = a /\ Stop(q[Len(q)]) = b
  <1>1. /\ q \in Seq(Segment) /\ Len(q) \in Nat
        /\ \A k \in 1 .. Len(q) : Piece(q[k], w, e)
        /\ \A k \in 1 .. Len(q) : q[k].seq = IF k = 1 THEN a ELSE Stop(q[k - 1])
        /\ b = IF q = <<>> THEN a ELSE Stop(q[Len(q)])
    BY DEF Chain
  <1>2. \A k \in 1 .. Len(q) : q[k].seq \in Nat /\ Stop(q[k]) \in Nat /\ q[k].seq < Stop(q[k])
    BY <1>1, PieceFacts
  <1>3. \A k \in 1 .. Len(q) : k > 1 => k - 1 \in 1 .. Len(q) /\ q[k].seq = Stop(q[k - 1])
    BY <1>1
  <1>4. \A j, k \in 1 .. Len(q) : j < k => Stop(q[j]) <= q[k].seq
    <2> DEFINE S == {k \in 1 .. Len(q) : \E j \in 1 .. Len(q) : j < k /\ ~(Stop(q[j]) <= q[k].seq)}
    <2> SUFFICES ASSUME S /= {} PROVE FALSE
      OBVIOUS
    <2>1. S \in SUBSET Nat
      OBVIOUS
    <2>2. PICK k \in S : \A i \in S : k <= i
      BY <2>1, LeastExists
    <2>3. PICK j \in 1 .. Len(q) : j < k /\ ~(Stop(q[j]) <= q[k].seq)
      BY <2>2
    <2>4. k \in 1 .. Len(q) /\ k > 1 /\ k - 1 \in 1 .. Len(q) /\ q[k].seq = Stop(q[k - 1])
      BY <1>3, <2>2, <2>3
    <2>5. j /= k - 1
      BY <1>2, <2>3, <2>4
    <2>6. j < k - 1
      BY <1>1, <2>3, <2>4, <2>5
    <2>7. k - 1 \notin S
      BY <2>2, <2>4
    <2>8. Stop(q[j]) <= q[k - 1].seq
      BY <2>4, <2>6, <2>7
    <2>9. /\ Stop(q[j]) \in Nat /\ q[k - 1].seq \in Nat /\ Stop(q[k - 1]) \in Nat
          /\ q[k - 1].seq < Stop(q[k - 1])
      BY <1>2, <2>3, <2>4
    <2>10. ~(Stop(q[j]) <= Stop(q[k - 1]))
      BY <2>3, <2>4
    <2> QED BY <2>8, <2>9, <2>10
  <1>5. CASE q = <<>>
    <2>1. Len(q) = 0
      BY <1>5
    <2> QED BY <1>1, <1>4, <1>5, <2>1
  <1>6. CASE q /= <<>>
    <2>1. Len(q) >= 1 /\ 1 \in 1 .. Len(q) /\ Len(q) \in 1 .. Len(q)
      BY <1>1, <1>6
    <2>2. q[1].seq = a /\ Stop(q[Len(q)]) = b /\ b \in Nat
      BY <1>1, <1>2, <1>6, <2>1
    <2>3. \A k \in 1 .. Len(q) : a <= q[k].seq
      <3> SUFFICES ASSUME NEW k \in 1 .. Len(q) PROVE a <= q[k].seq
        OBVIOUS
      <3>1. CASE k = 1
        BY <2>2, <3>1
      <3>2. CASE k > 1
        <4>1. Stop(q[1]) <= q[k].seq
          BY <1>4, <2>1, <3>2
        <4> QED BY <1>2, <2>1, <2>2, <4>1
      <3> QED BY <3>1, <3>2
    <2>4. \A k \in 1 .. Len(q) : Stop(q[k]) <= b
      <3> SUFFICES ASSUME NEW k \in 1 .. Len(q) PROVE Stop(q[k]) <= b
        OBVIOUS
      <3>1. CASE k = Len(q)
        BY <2>2, <3>1
      <3>2. CASE k < Len(q)
        <4>1. Stop(q[k]) <= q[Len(q)].seq
          BY <1>4, <2>1, <3>2
        <4> QED BY <1>2, <2>1, <2>2, <4>1
      <3> QED BY <1>1, <3>1, <3>2
    <2>5. a < b
      BY <1>2, <2>1, <2>2, <2>4
    <2> QED BY <1>1, <1>4, <1>6, <2>2, <2>3, <2>4, <2>5
  <1> QED BY <1>5, <1>6

LEMMA ChainEmpty ==
  ASSUME NEW w, NEW e, NEW a
  PROVE  Chain(<<>>, a, a, w, e)
  <1>1. <<>> \in Seq(Segment) /\ Len(<<>>) = 0
    OBVIOUS
  <1> QED BY <1>1 DEF Chain

LEMMA ChainOne ==
  ASSUME NEW w, NEW e, NEW s, Piece(s, w, e)
  PROVE  Chain(<<s>>, s.seq, Stop(s), w, e)
  <1>1. s \in Segment
    BY DEF Piece
  <1>2. <<s>> \in Seq(Segment) /\ Len(<<s>>) = 1 /\ <<s>>[1] = s /\ <<s>> /= <<>>
    BY <1>1
  <1>3. \A k \in 1 .. Len(<<s>>) : k = 1
    BY <1>2
  <1> QED BY <1>2, <1>3 DEF Chain

LEMMA ChainStays ==
  ASSUME NEW w \in Nat, NEW w2 \in Nat, NEW e \in 0 .. 1, NEW e2 \in 0 .. 1,
         w <= w2, e = 1 => e2 = 1 /\ w2 = w, NEW q, NEW a, NEW b, Chain(q, a, b, w, e)
  PROVE  Chain(q, a, b, w2, e2)
  <1>1. \A k \in 1 .. Len(q) : Piece(q[k], w2, e2)
    BY PieceStays DEF Chain
  <1> QED BY <1>1 DEF Chain

\* Where the first k pieces of a chain from a end.
Cut(q, a, k) == IF k = 0 THEN a ELSE Stop(q[k])

LEMMA ChainSplit ==
  ASSUME NoWrap, NEW w \in 0 .. Total, NEW e \in 0 .. 1, NEW q, NEW a \in Nat, NEW b,
         Chain(q, a, b, w, e), NEW k \in 0 .. Len(q)
  PROVE  /\ Chain(SubSeq(q, 1, k), a, Cut(q, a, k), w, e)
         /\ Chain(From(q, k + 1), Cut(q, a, k), b, w, e)
         /\ Cut(q, a, k) \in Nat /\ a <= Cut(q, a, k) /\ Cut(q, a, k) <= b
  <1> DEFINE p == SubSeq(q, 1, k)
             r == From(q, k + 1)
  <1>1. /\ q \in Seq(Segment) /\ Len(q) \in Nat
        /\ \A i \in 1 .. Len(q) : Piece(q[i], w, e)
        /\ \A i \in 1 .. Len(q) : q[i].seq = IF i = 1 THEN a ELSE Stop(q[i - 1])
        /\ b = IF q = <<>> THEN a ELSE Stop(q[Len(q)])
    BY DEF Chain
  <1>2. /\ p \in Seq(Segment) /\ Len(p) = k /\ \A i \in 1 .. k : p[i] = q[i]
        /\ r \in Seq(Segment) /\ Len(r) = Len(q) - k
        /\ \A i \in 1 .. Len(q) - k : r[i] = q[k + i]
    BY <1>1, SubSeqOf
  <1> HIDE DEF p, r
  <1>3. Chain(p, a, Cut(q, a, k), w, e)
    <2>1. \A i \in 1 .. Len(p) : Piece(p[i], w, e) /\ p[i].seq = IF i = 1 THEN a ELSE Stop(p[i - 1])
      <3> SUFFICES ASSUME NEW i \in 1 .. k
                   PROVE  Piece(p[i], w, e) /\ p[i].seq = IF i = 1 THEN a ELSE Stop(p[i - 1])
        BY <1>2
      <3>1. i \in 1 .. Len(q) /\ p[i] = q[i]
        BY <1>1, <1>2
      <3>2. CASE i = 1
        BY <1>1, <3>1, <3>2
      <3>3. CASE i /= 1
        <4>1. p[i - 1] = q[i - 1]
          BY <1>2, <3>3
        <4> QED BY <1>1, <3>1, <3>3, <4>1
      <3> QED BY <3>2, <3>3
    <2>2. CASE k = 0
      <3>1. p = <<>>
        BY <1>2, <2>2
      <3> QED BY <2>2, <3>1, ChainEmpty DEF Cut
    <2>3. CASE k /= 0
      <3>1. p /= <<>> /\ p[Len(p)] = q[k]
        BY <1>2, <2>3
      <3> QED BY <1>2, <2>1, <2>3, <3>1 DEF Chain, Cut
    <2> QED BY <2>2, <2>3
  <1>4. Chain(r, Cut(q, a, k), b, w, e)
    <2>1. \A i \in 1 .. Len(r) : /\ Piece(r[i], w, e)
                                 /\ r[i].seq = IF i = 1 THEN Cut(q, a, k) ELSE Stop(r[i - 1])
      <3> SUFFICES ASSUME NEW i \in 1 .. Len(q) - k
                   PROVE  /\ Piece(r[i], w, e)
                          /\ r[i].seq = IF i = 1 THEN Cut(q, a, k) ELSE Stop(r[i - 1])
        BY <1>2
      <3>1. k + i \in 1 .. Len(q) /\ r[i] = q[k + i]
        BY <1>1, <1>2
      <3>2. CASE i = 1
        BY <1>1, <3>1, <3>2 DEF Cut
      <3>3. CASE i /= 1
        <4>1. i - 1 \in 1 .. Len(q) - k /\ k + (i - 1) = (k + i) - 1 /\ k + i /= 1
          BY <1>1, <3>3
        <4>2. r[i - 1] = q[(k + i) - 1]
          BY <1>2, <4>1
        <4> QED BY <1>1, <3>1, <3>3, <4>1, <4>2
      <3> QED BY <3>2, <3>3
    <2>2. CASE k = Len(q)
      <3>1. r = <<>>
        BY <1>1, <1>2, <2>2
      <3>2. b = Cut(q, a, k)
        BY <1>1, <2>2 DEF Cut
      <3> QED BY <3>1, <3>2, ChainEmpty
    <2>3. CASE k /= Len(q)
      <3>1. Len(q) - k \in 1 .. Len(q) - k /\ k + (Len(q) - k) = Len(q) /\ q /= <<>>
        BY <1>1, <2>3
      <3>2. r /= <<>> /\ r[Len(r)] = q[Len(q)]
        BY <1>2, <3>1
      <3> QED BY <1>1, <1>2, <2>1, <3>1, <3>2 DEF Chain
    <2> QED BY <2>2, <2>3
  <1>5. Cut(q, a, k) \in Nat /\ a <= Cut(q, a, k)
    BY <1>3, ChainFacts
  <1>6. Cut(q, a, k) <= b
    BY <1>4, <1>5, ChainFacts
  <1> QED BY <1>3, <1>4, <1>5, <1>6 DEF p, r

LEMMA ChainJoin ==
  ASSUME NoWrap, NEW w \in 0 .. Total, NEW e \in 0 .. 1, NEW p, NEW q,
         NEW a \in Nat, NEW m \in Nat, NEW b, Chain(p, a, m, w, e), Chain(q, m, b, w, e)
  PROVE  Chain(p \o q, a, b, w, e)
  <1> DEFINE r == p \o q
  <1>1. /\ p \in Seq(Segment) /\ q \in Seq(Segment) /\ Len(p) \in Nat /\ Len(q) \in Nat
        /\ \A i \in 1 .. Len(p) : Piece(p[i], w, e) /\ p[i].seq = IF i = 1 THEN a ELSE Stop(p[i - 1])
        /\ \A i \in 1 .. Len(q) : Piece(q[i], w, e) /\ q[i].seq = IF i = 1 THEN m ELSE Stop(q[i - 1])
        /\ m = IF p = <<>> THEN a ELSE Stop(p[Len(p)])
        /\ b = IF q = <<>> THEN m ELSE Stop(q[Len(q)])
    BY DEF Chain
  <1>2. CASE p = <<>>
    <2>1. p \o q = q
      BY <1>1, <1>2, ConcatEmptySeq
    <2> QED BY <1>1, <1>2, <2>1
  <1>3. CASE q = <<>>
    <2>1. p \o q = p
      BY <1>1, <1>3, ConcatEmptySeq
    <2> QED BY <1>1, <1>3, <2>1
  <1>4. CASE p /= <<>> /\ q /= <<>>
    <2>1. /\ r \in Seq(Segment) /\ Len(r) = Len(p) + Len(q)
          /\ \A i \in 1 .. Len(p) + Len(q) : r[i] = IF i <= Len(p) THEN p[i] ELSE q[i - Len(p)]
      BY <1>1, ConcatProperties
    <2> HIDE DEF r
    <2>2. Len(p) > 0 /\ Len(q) > 0
      BY <1>1, <1>4
    <2>3. r /= <<>> /\ r[Len(r)] = q[Len(q)]
      <3>1. Len(r) \in 1 .. Len(p) + Len(q) /\ ~(Len(r) <= Len(p)) /\ Len(r) - Len(p) = Len(q)
        BY <1>1, <2>1, <2>2
      <3>2. r[Len(r)] = q[Len(r) - Len(p)]
        BY <2>1, <3>1
      <3>3. r /= <<>>
        BY <1>1, <2>1, <2>2
      <3> QED BY <3>1, <3>2, <3>3
    <2>4. ASSUME NEW i \in 1 .. Len(p) + Len(q)
          PROVE  Piece(r[i], w, e) /\ r[i].seq = IF i = 1 THEN a ELSE Stop(r[i - 1])
      <3>1. CASE i <= Len(p)
        <4>1. i \in 1 .. Len(p) /\ r[i] = p[i]
          BY <1>1, <2>1, <3>1
        <4>2. i /= 1 => r[i - 1] = p[i - 1]
          BY <1>1, <2>1, <3>1, SMTT(30)
        <4> QED BY <1>1, <4>1, <4>2
      <3>2. CASE i = Len(p) + 1
        <4>a. i - Len(p) = 1 /\ ~(i <= Len(p)) /\ 1 \in 1 .. Len(q) /\ i /= 1
          BY <1>1, <2>2, <3>2
        <4>1. r[i] = q[1] /\ 1 \in 1 .. Len(q) /\ i /= 1
          BY <2>1, <4>a
        <4>2. r[i - 1] = p[Len(p)]
          BY <1>1, <2>1, <2>2, <3>2
        <4> QED BY <1>1, <1>4, <4>1, <4>2
      <3>3. CASE i > Len(p) + 1
        <4>1. /\ i - Len(p) \in 1 .. Len(q) /\ i - Len(p) /= 1 /\ r[i] = q[i - Len(p)]
              /\ i /= 1 /\ (i - Len(p)) - 1 = (i - 1) - Len(p)
          BY <1>1, <2>1, <3>3, SMTT(30)
        <4>2. i - 1 \in 1 .. Len(p) + Len(q) /\ ~(i - 1 <= Len(p))
          BY <1>1, <3>3
        <4>3. r[i - 1] = q[(i - 1) - Len(p)]
          BY <2>1, <4>2
        <4> QED BY <1>1, <4>1, <4>3
      <3> QED BY <1>1, <3>1, <3>2, <3>3
    <2>5. Chain(r, a, b, w, e)
      BY <1>1, <1>4, <2>1, <2>3, <2>4 DEF Chain
    <2> QED BY <2>5 DEF r
  <1> QED BY <1>2, <1>3, <1>4

-----------------------------------------------------------------------------
(* Insertion in a queue.                                                    *)

LEMMA InsertLast ==
  ASSUME NoWrap, NEW q \in Seq(Segment), NEW s \in Segment, s.seq \in Span,
         \A k \in 1 .. Len(q) : q[k].seq \in Span /\ q[k].seq < s.seq
  PROVE  Insert(q, s) = q \o <<s>>
  <1> DEFINE S == {k \in 1 .. Len(q) : \A j \in 1 .. k : LT(q[j].seq, s.seq)}
             c == Cardinality(S)
  <1>0. Len(q) \in Nat
    OBVIOUS
  <1>1. \A j \in 1 .. Len(q) : LT(q[j].seq, s.seq)
    BY SpanCompare
  <1>2. S = 1 .. Len(q)
    BY <1>0, <1>1
  <1>3. Cardinality(1 .. Len(q)) = Len(q)
    BY <1>0, CountAll
  <1>4. c = Len(q)
    BY <1>2, <1>3
  <1>5. Insert(q, s) = SubSeq(q, 1, Len(q)) \o <<s>> \o SubSeq(q, Len(q) + 1, Len(q))
    <2>1. Prefix(q, LAMBDA t : LT(t.seq, s.seq)) = c
      BY DEF Prefix
    <2>2. Insert(q, s) = SubSeq(q, 1, (c + 1) - 1) \o <<s>> \o SubSeq(q, c + 1, Len(q))
      BY <2>1 DEF Insert, InsertAt
    <2> HIDE DEF c
    <2>3. (c + 1) - 1 = Len(q)
      BY <1>0, <1>4
    <2> QED BY <1>4, <2>2, <2>3
  <1>6. SubSeq(q, 1, Len(q)) = q
    BY SubSeqFull
  <1>7. SubSeq(q, Len(q) + 1, Len(q)) = <<>>
    BY <1>0, SubSeqEmpty
  <1>8. <<s>> \in Seq(Segment)
    OBVIOUS
  <1>9. q \o <<s>> \in Seq(Segment)
    BY <1>8, ConcatProperties
  <1> QED BY <1>5, <1>6, <1>7, <1>9, ConcatEmptySeq

LEMMA InsertFirst ==
  ASSUME NoWrap, NEW q \in Seq(Segment), NEW s \in Segment, s.seq \in Span,
         \A k \in 1 .. Len(q) : q[k].seq \in Span /\ s.seq < q[k].seq
  PROVE  Insert(q, s) = Cons(s, q)
  <1> DEFINE S == {k \in 1 .. Len(q) : \A j \in 1 .. k : LT(q[j].seq, s.seq)}
             c == Cardinality(S)
  <1>0. Len(q) \in Nat
    OBVIOUS
  <1>1. \A j \in 1 .. Len(q) : ~LT(q[j].seq, s.seq)
    <2> SUFFICES ASSUME NEW j \in 1 .. Len(q) PROVE ~LT(q[j].seq, s.seq)
      OBVIOUS
    <2>1. q[j].seq \in Span /\ s.seq < q[j].seq
      OBVIOUS
    <2>2. ~(q[j].seq < s.seq)
      BY <2>1, ConstantFacts, SMTT(30) DEF Span
    <2> QED BY <2>1, <2>2, SpanCompare
  <1>2. S = {}
    <2> SUFFICES ASSUME NEW k \in S PROVE FALSE
      OBVIOUS
    <2>1. 1 \in 1 .. k /\ 1 \in 1 .. Len(q)
      BY <1>0
    <2> QED BY <1>1, <2>1
  <1>4. c = 0
    BY <1>2, FS_EmptySet
  <1>5. Insert(q, s) = SubSeq(q, 1, 0) \o <<s>> \o SubSeq(q, 1, Len(q))
    <2>1. Prefix(q, LAMBDA t : LT(t.seq, s.seq)) = c
      BY DEF Prefix
    <2>2. Insert(q, s) = SubSeq(q, 1, (c + 1) - 1) \o <<s>> \o SubSeq(q, c + 1, Len(q))
      BY <2>1 DEF Insert, InsertAt
    <2> HIDE DEF c
    <2>3. (c + 1) - 1 = 0 /\ c + 1 = 1
      BY <1>4
    <2> QED BY <2>2, <2>3
  <1>6. SubSeq(q, 1, Len(q)) = q
    BY SubSeqFull
  <1>7. SubSeq(q, 1, 0) = <<>>
    BY SubSeqEmpty
  <1>8. <<s>> \in Seq(Segment)
    OBVIOUS
  <1>9. Insert(q, s) = <<s>> \o q
    BY <1>5, <1>6, <1>7, <1>8, ConcatEmptySeq
  <1> QED BY <1>9 DEF Cons

LEMMA ConsOf ==
  ASSUME NEW S, NEW s \in S, NEW q \in Seq(S)
  PROVE  /\ Cons(s, q) \in Seq(S) /\ Len(Cons(s, q)) = 1 + Len(q) /\ Len(Cons(s, q)) = Len(q) + 1
         /\ Cons(s, q)[1] = s /\ \A i \in 1 .. Len(q) : Cons(s, q)[i + 1] = q[i]
  <1> DEFINE t == <<s>> \o q
  <1>0. <<s>> \in Seq(S) /\ Len(<<s>>) = 1 /\ <<s>>[1] = s /\ Len(q) \in Nat
    OBVIOUS
  <1>1. /\ t \in Seq(S) /\ Len(t) = Len(<<s>>) + Len(q)
        /\ \A i \in 1 .. Len(<<s>>) + Len(q) :
              t[i] = IF i <= Len(<<s>>) THEN <<s>>[i] ELSE q[i - Len(<<s>>)]
    BY <1>0, ConcatProperties
  <1> HIDE DEF t
  <1>2. \A i \in 1 .. 1 + Len(q) : t[i] = IF i <= 1 THEN s ELSE q[i - 1]
    BY <1>0, <1>1
  <1>3. ASSUME NEW i \in 1 .. Len(q) PROVE t[i + 1] = q[i]
    <2>1. i + 1 \in 1 .. 1 + Len(q) /\ ~(i + 1 <= 1) /\ (i + 1) - 1 = i
      BY <1>0
    <2>2. t[i + 1] = q[(i + 1) - 1]
      BY <1>2, <2>1
    <2> QED BY <2>1, <2>2
  <1>4. t[1] = s /\ Len(t) = Len(q) + 1 /\ Len(t) = 1 + Len(q)
    BY <1>0, <1>1, <1>2
  <1> QED BY <1>1, <1>3, <1>4 DEF t, Cons

\* What tcp_output's loop computes is what any function with its steps has.
LEMMA InsertAllIs ==
  ASSUME NEW queue, NEW sent, Len(sent) \in Nat, NEW g,
         g = [k \in 0 .. Len(sent) |-> g[k]], g[0] = queue,
         \A k \in 1 .. Len(sent) : g[k] = Insert(g[k - 1], sent[k])
  PROVE  InsertAll(queue, sent) = g[Len(sent)]
  <1> DEFINE n == Len(sent)
             W(f) == [k \in 0 .. n |-> IF k = 0 THEN queue ELSE Insert(f[k - 1], sent[k])]
             h == CHOOSE f : f = W(f)
  <1>1. g = W(g)
    <2>1. \A k \in 0 .. n : g[k] = IF k = 0 THEN queue ELSE Insert(g[k - 1], sent[k])
      OBVIOUS
    <2> QED BY <2>1
  <1>2. h = W(h)
    <2> HIDE DEF W
    <2> QED BY <1>1
  <1>3. InsertAll(queue, sent) = h[n]
    BY DEF InsertAll
  <1>4. h[0] = queue /\ \A k \in 1 .. n : h[k] = Insert(h[k - 1], sent[k])
    <2> HIDE DEF h
    <2>1. \A k \in 0 .. n : h[k] = IF k = 0 THEN queue ELSE Insert(h[k - 1], sent[k])
      BY <1>2
    <2> QED BY <2>1
  <1> HIDE DEF h
  <1>5. \A k \in 0 .. n : h[k] = g[k]
    <2> DEFINE S == {k \in 0 .. n : h[k] /= g[k]}
    <2> SUFFICES ASSUME S /= {} PROVE FALSE
      OBVIOUS
    <2>1. S \in SUBSET Nat
      OBVIOUS
    <2>2. PICK k \in S : \A i \in S : k <= i
      BY <2>1, LeastExists
    <2>3. k \in 1 .. n /\ k - 1 \in 0 .. n /\ k - 1 \notin S
      BY <1>4, <2>2
    <2>4. h[k - 1] = g[k - 1]
      BY <2>3
    <2> QED BY <1>4, <2>2, <2>3, <2>4
  <1>6. n \in 0 .. n
    OBVIOUS
  <1> QED BY <1>3, <1>5, <1>6

\* tcp_output's loop puts the k-th segment of q to the end of those before it.
InsertsNext(p, q, k) == p \o SubSeq(q, 1, k) = Insert(p \o SubSeq(q, 1, k - 1), q[k])

LEMMA InsertNext ==
  ASSUME NoWrap, NEW w \in 0 .. Total, NEW e \in 0 .. 1, NEW p, NEW q,
         NEW a \in Nat, NEW m \in Nat, NEW b, Chain(p, a, m, w, e), Chain(q, m, b, w, e),
         NEW k \in 1 .. Len(q)
  PROVE  InsertsNext(p, q, k)
  <1> DEFINE n == Len(q)
  <1>z. /\ p \in Seq(Segment) /\ \A i \in 1 .. Len(p) : Stop(p[i]) <= m /\ Piece(p[i], w, e)
        /\ q \in Seq(Segment) /\ n \in Nat
        /\ \A i \in 1 .. n : m <= q[i].seq /\ Piece(q[i], w, e)
        /\ \A i, j \in 1 .. n : i < j => Stop(q[i]) <= q[j].seq
    BY ChainFacts
  <1> DEFINE r == SubSeq(q, 1, k - 1)
             t == p \o r
  <1>0. k - 1 \in 0 .. n /\ q[k] \in Segment /\ k - 1 \in 0 .. Len(q)
    BY <1>z DEF Piece
  <1>1. /\ r \in Seq(Segment) /\ Len(r) = k - 1 /\ \A i \in 1 .. k - 1 : r[i] = q[i]
    BY <1>z, <1>0, SubSeqOf
  <1> HIDE DEF r
  <1>2. /\ t \in Seq(Segment) /\ Len(t) = Len(p) + Len(r)
        /\ \A i \in 1 .. Len(p) + Len(r) : t[i] = IF i <= Len(p) THEN p[i] ELSE r[i - Len(p)]
    BY <1>z, <1>1, ConcatProperties
  <1> HIDE DEF t
  <1>3. q[k].seq \in Span
    BY <1>z, PieceFacts
  <1>4. \A i \in 1 .. Len(t) : t[i].seq \in Span /\ t[i].seq < q[k].seq
    <2> SUFFICES ASSUME NEW i \in 1 .. Len(p) + Len(r)
                 PROVE  t[i].seq \in Span /\ t[i].seq < q[k].seq
      BY <1>2
    <2>0. Len(p) \in Nat
      BY <1>z
    <2>1. CASE i <= Len(p)
      <3>1. i \in 1 .. Len(p) /\ t[i] = p[i]
        BY <1>2, <2>0, <2>1
      <3>2. /\ p[i].seq \in Span /\ p[i].seq \in Nat /\ Stop(p[i]) \in Nat /\ q[k].seq \in Nat
            /\ p[i].seq < Stop(p[i])
        BY <1>z, <3>1, PieceFacts
      <3>3. Stop(p[i]) <= m /\ m <= q[k].seq
        BY <1>z, <3>1
      <3>4. p[i].seq < q[k].seq
        BY <3>2, <3>3
      <3> QED BY <3>1, <3>2, <3>4
    <2>2. CASE ~(i <= Len(p))
      <3>1. i - Len(p) \in 1 .. k - 1 /\ i - Len(p) \in 1 .. n /\ i - Len(p) < k
        BY <1>z, <1>1, <2>0, <2>2
      <3>2. t[i] = q[i - Len(p)]
        BY <1>1, <1>2, <2>2, <3>1
      <3> DEFINE j == i - Len(p)
      <3> HIDE DEF j
      <3>3. j \in 1 .. n /\ j < k /\ t[i] = q[j]
        BY <3>1, <3>2 DEF j
      <3>4. /\ q[j].seq \in Span /\ q[j].seq \in Nat /\ Stop(q[j]) \in Nat /\ q[k].seq \in Nat
            /\ q[j].seq < Stop(q[j])
        BY <1>z, <3>3, PieceFacts
      <3>5. Stop(q[j]) <= q[k].seq
        BY <1>z, <3>3
      <3>6. q[j].seq < q[k].seq
        BY <3>4, <3>5
      <3> QED BY <3>3, <3>4, <3>6
    <2> QED BY <2>1, <2>2
  <1>5. Insert(t, q[k]) = t \o <<q[k]>>
    BY <1>0, <1>2, <1>3, <1>4, InsertLast
  <1>7. SubSeq(q, 1, k) = r \o <<q[k]>>
    <2>1. 1 \in 1 .. Len(q) /\ k \in 1 .. Len(q)
      BY <1>z
    <2> QED BY <1>z, <2>1, SubSeqRecursiveSecond DEF r
  <1>8. t \o <<q[k]>> = p \o (r \o <<q[k]>>)
    <2>1. <<q[k]>> \in Seq(Segment)
      BY <1>0
    <2>2. p \in Seq(Segment) /\ r \in Seq(Segment)
      BY <1>z, <1>1
    <2>3. (p \o r) \o <<q[k]>> = p \o (r \o <<q[k]>>)
      BY <2>1, <2>2, ConcatAssociative, SMTT(30)
    <2> QED BY <2>3 DEF t
  <1>9. p \o SubSeq(q, 1, k - 1) = t
    BY DEF t, r
  <1> QED BY <1>5, <1>7, <1>8, <1>9 DEF InsertsNext

\* Segments that follow on those of the queue go to its end.
LEMMA InsertAllChain ==
  ASSUME NoWrap, NEW w \in 0 .. Total, NEW e \in 0 .. 1, NEW p, NEW q,
         NEW a \in Nat, NEW m \in Nat, NEW b, Chain(p, a, m, w, e), Chain(q, m, b, w, e)
  PROVE  InsertAll(p, q) = p \o q
  <1> DEFINE n == Len(q)
             g == [k \in 0 .. n |-> p \o SubSeq(q, 1, k)]
  <1>1. p \in Seq(Segment) /\ q \in Seq(Segment) /\ n \in Nat
    BY ChainFacts
  <1>2. g[0] = p
    <2>1. SubSeq(q, 1, 0) = <<>>
      BY SubSeqEmpty
    <2> QED BY <1>1, <2>1, ConcatEmptySeq
  <1>3. ASSUME NEW k \in 1 .. n
        PROVE  g[k] = Insert(g[k - 1], q[k])
    <2>1. k - 1 \in 0 .. n /\ k \in 0 .. n
      BY <1>1
    <2>2. g[k] = p \o SubSeq(q, 1, k) /\ g[k - 1] = p \o SubSeq(q, 1, k - 1)
      BY <2>1
    <2>3. InsertsNext(p, q, k)
      BY InsertNext
    <2> HIDE DEF g
    <2> QED BY <2>2, <2>3 DEF InsertsNext
  <1>4. g[n] = p \o q
    <2>1. SubSeq(q, 1, n) = q
      BY <1>1, SubSeqFull
    <2> QED BY <1>1, <2>1
  <1>5. g = [k \in 0 .. n |-> g[k]]
    OBVIOUS
  <1> HIDE DEF g
  <1> QED BY <1>1, <1>2, <1>3, <1>4, <1>5, InsertAllIs

\* t is s in front of p.
Heads(t, s, p) == s \in Segment /\ p \in Seq(Segment) /\ t = Cons(s, p)

\* A segment that goes before those of the queue, and more that go behind.
LEMMA InsertAllFront ==
  ASSUME NoWrap, NEW w \in 0 .. Total, NEW e \in 0 .. 1, NEW s, NEW p, NEW q,
         NEW a \in Nat, NEW m \in Nat, NEW b, NEW t, Chain(t, a, m, w, e), Heads(t, s, p),
         Chain(q, m, b, w, e)
  PROVE  InsertAll(p, Cons(s, q)) = t \o q
  <1>z. \A k \in 1 .. Len(q) : InsertsNext(t, q, k)
    BY InsertNext
  <1>y. p \in Seq(Segment) /\ s \in Segment /\ t = Cons(s, p)
    BY DEF Heads
  <1> DEFINE n == Len(q)
             u == Cons(s, q)
             f == [k \in 0 .. n |-> t \o SubSeq(q, 1, k)]
             g == [k \in 0 .. n + 1 |-> IF k = 0 THEN p ELSE f[k - 1]]
  <1>1. q \in Seq(Segment) /\ n \in Nat /\ t \in Seq(Segment)
    BY ChainFacts
  <1>2. /\ Len(t) = 1 + Len(p) /\ t[1] = s /\ \A i \in 1 .. Len(p) : t[i + 1] = p[i]
    <2>1. /\ Len(Cons(s, p)) = 1 + Len(p) /\ Cons(s, p)[1] = s
          /\ \A i \in 1 .. Len(p) : Cons(s, p)[i + 1] = p[i]
      <3>1. p \in Seq(Segment) /\ s \in Segment
        BY <1>y
      <3> QED BY <3>1, ConsOf
    <2> QED BY <1>y, <2>1
  <1>3. /\ Len(u) = n + 1 /\ u[1] = s /\ \A i \in 1 .. n : u[i + 1] = q[i]
    BY <1>1, <1>y, ConsOf
  <1> HIDE DEF u
  <1>a. Chain(t, a, m, w, e)
    OBVIOUS
  <1>4. Insert(p, s) = t
    <2>1. /\ \A k \in 1 .. Len(t) : Piece(t[k], w, e)
          /\ \A j, k \in 1 .. Len(t) : j < k => Stop(t[j]) <= t[k].seq
      BY <1>a, ChainFacts
    <2>0. Len(p) \in Nat /\ 1 \in 1 .. Len(t)
      BY <1>2
    <2>2. s.seq \in Span /\ s.seq \in Nat /\ Stop(s) \in Nat /\ s.seq < Stop(s)
      BY <1>2, <2>0, <2>1, PieceFacts
    <2>3. ASSUME NEW k \in 1 .. Len(p)
          PROVE  p[k].seq \in Span /\ s.seq < p[k].seq
      <3>1. k + 1 \in 1 .. Len(t) /\ 1 < k + 1 /\ p[k] = t[k + 1]
        BY <1>2, <2>0
      <3>2. Stop(s) <= p[k].seq
        BY <1>2, <2>0, <2>1, <3>1
      <3>3. p[k].seq \in Span /\ p[k].seq \in Nat
        BY <2>1, <3>1, PieceFacts
      <3> QED BY <2>2, <3>2, <3>3
    <2>4. Insert(p, s) = Cons(s, p)
      BY <1>y, <2>2, <2>3, InsertFirst
    <2> QED BY <1>y, <2>4
  <1>6. f[0] = t
    <2>1. SubSeq(q, 1, 0) = <<>>
      BY SubSeqEmpty
    <2> QED BY <1>1, <2>1, ConcatEmptySeq
  <1>7. ASSUME NEW k \in 1 .. n PROVE f[k] = Insert(f[k - 1], q[k])
    <2>1. k - 1 \in 0 .. n /\ k \in 0 .. n
      BY <1>1
    <2>2. f[k] = t \o SubSeq(q, 1, k) /\ f[k - 1] = t \o SubSeq(q, 1, k - 1)
      BY <2>1
    <2>4. InsertsNext(t, q, k)
      BY <1>z
    <2> HIDE DEF f
    <2> QED BY <2>2, <2>4 DEF InsertsNext
  <1>8. f[n] = t \o q
    <2>1. SubSeq(q, 1, n) = q
      BY <1>1, SubSeqFull
    <2>2. f[n] = t \o SubSeq(q, 1, n)
      BY <1>1
    <2> HIDE DEF f
    <2> QED BY <2>1, <2>2
  <1> HIDE DEF f
  <1>9. g[0] = p /\ \A k \in 1 .. n + 1 : g[k] = f[k - 1]
    BY <1>1
  <1>10. ASSUME NEW k \in 1 .. n + 1 PROVE g[k] = Insert(g[k - 1], u[k])
    <2>1. CASE k = 1
      <3>1. k - 1 = 0 /\ g[k] = f[0] /\ u[k] = s /\ g[k - 1] = p
        BY <1>3, <1>9, <2>1
      <3> QED BY <1>4, <1>6, <3>1
    <2>2. CASE k /= 1
      <3> DEFINE i == k - 1
      <3>1. i \in 1 .. n /\ i \in 1 .. n + 1 /\ i + 1 = k
        BY <1>1, <2>2
      <3>2. g[k] = f[i] /\ g[i] = f[i - 1]
        BY <1>9, <3>1
      <3>3. u[k] = q[i]
        BY <1>3, <3>1
      <3> QED BY <1>7, <3>1, <3>2, <3>3
    <2> QED BY <2>1, <2>2
  <1>11. g = [k \in 0 .. n + 1 |-> g[k]]
    OBVIOUS
  <1>12. g[n + 1] = f[n]
    BY <1>1, <1>9
  <1> HIDE DEF g
  <1>13. InsertAll(p, u) = g[Len(u)]
    <2>1. Len(u) = n + 1 /\ Len(u) \in Nat
      BY <1>1, <1>3
    <2>2. g = [k \in 0 .. Len(u) |-> g[k]] /\ \A k \in 1 .. Len(u) : g[k] = Insert(g[k - 1], u[k])
      BY <1>10, <1>11, <2>1
    <2> QED BY <1>9, <2>1, <2>2, InsertAllIs
  <1> QED BY <1>3, <1>8, <1>12, <1>13 DEF u

-----------------------------------------------------------------------------
(* tcp_output.                                                              *)

LEMMA SendingFacts ==
  ASSUME NoWrap, NEW out, NEW una, NEW w, NEW e, NEW la, NEW wnd, NEW nxt,
         Sending(out, una, w, e, la, wnd, nxt)
  PROVE  /\ w \in 0 .. Total /\ e \in 0 .. 1 /\ la \in Nat /\ wnd \in 0 .. TcpWnd /\ nxt \in Nat
         /\ Iss <= la /\ la <= nxt /\ nxt <= EndOf(w, e) /\ nxt <= la + wnd
         /\ EndOf(w, e) = Iss + w + e /\ EndOf(w, e) \in Nat /\ EndOf(w, e) <= Iss + Total + 1
         /\ la \in Span /\ nxt \in Span /\ EndOf(w, e) \in Span
         /\ out \in Seq(Segment) /\ una \in Seq(Segment)
         /\ \A k \in 1 .. Len(una) : Piece(una[k], w, e)
         /\ \A k \in 1 .. Len(out) : Piece(out[k], w, e)
  <1>1. /\ w \in 0 .. Total /\ e \in 0 .. 1 /\ la \in Nat /\ wnd \in 0 .. TcpWnd /\ nxt \in Nat
        /\ Iss <= la /\ la <= nxt /\ nxt <= EndOf(w, e) /\ nxt <= la + wnd
    BY DEF Sending
  <1>2. EndOf(w, e) = Iss + w + e /\ EndOf(w, e) \in Nat /\ EndOf(w, e) <= Iss + Total + 1
    BY <1>1, ConstantFacts DEF EndOf
  <1>3. la \in Span /\ nxt \in Span /\ EndOf(w, e) \in Span
    BY <1>1, <1>2, ConstantFacts DEF Span
  <1>4. PICK a \in Iss .. EndOf(w, e), m \in Iss .. EndOf(w, e) :
          Chain(una, a, m, w, e) /\ Chain(out, m, EndOf(w, e), w, e)
    BY DEF Sending
  <1>5. /\ out \in Seq(Segment) /\ una \in Seq(Segment)
        /\ \A k \in 1 .. Len(una) : Piece(una[k], w, e)
        /\ \A k \in 1 .. Len(out) : Piece(out[k], w, e)
    BY <1>4 DEF Chain
  <1> QED BY <1>1, <1>2, <1>3, <1>5

\* A piece of the queues and what of it is above the last ACK.
LEMMA AboveAck ==
  ASSUME NoWrap, NEW w \in 0 .. Total, NEW e \in 0 .. 1, NEW s, Piece(s, w, e),
         NEW la \in Span, la < Stop(s)
  PROVE  /\ la <= DataStop(s)
         /\ Minus(DataEnd(s), la) = DataStop(s) - la
  <1>1. /\ s.fin => Stop(s) = DataStop(s) + 1
        /\ ~s.fin => Stop(s) = DataStop(s)
        /\ DataStop(s) \in Nat /\ DataStop(s) \in Span /\ DataEnd(s) = DataStop(s)
        /\ s.fin \in BOOLEAN
    BY PieceFacts
  <1>2. la \in Nat
    BY ConstantFacts DEF Span
  <1>3. la <= DataStop(s)
    BY <1>1, <1>2
  <1> QED BY <1>1, <1>3, SpanCompare

\* The first c segments of out fit a window of size wnd above la; what has been
\* sent when they are.
Fit(out, la, wnd, c) == \A j \in 1 .. c : Minus(DataEnd(out[j]), la) <= wnd
SentUpTo(out, nxt, c) == IF c > 0 /\ LT(nxt, End(out[c])) THEN End(out[c]) ELSE nxt

\* tcp_output sends the first c segments of out.
Sends(out, una, cwnd, c) ==
  /\ c \in 0 .. Len(out)
  /\ unsent' = From(out, c + 1)
  /\ unacked' = InsertAll(una, SubSeq(out, 1, c))
  /\ snd_nxt' = SentUpTo(out, snd_nxt, c)
  /\ net' = Transmit(net, SubSeq(out, 1, c))
  /\ Fit(out, lastack', Min({snd_wnd', cwnd}), c)
  /\ c > 0 => rtime'
  /\ Len(out) >= 1 /\ Minus(DataEnd(out[1]), lastack') <= Min({snd_wnd', cwnd})
     /\ (inFR' \/ finQueued') => c >= 1

LEMMA OutputSends ==
  ASSUME NEW out, NEW una, NEW timer, NEW cwnd, Len(out) \in Nat, Output(out, una, timer, cwnd)
  PROVE  /\ rtime' \in BOOLEAN
         /\ timer => rtime'
         /\ \E c \in 0 .. Len(out) : Sends(out, una, cwnd, c)
  <1> DEFINE Fits(j) == Minus(DataEnd(out[j]), lastack') <= Min({snd_wnd', cwnd})
             Nagle(j) == \/ una = <<>> /\ j = 1
                         \/ inFR'
                         \/ j < Len(out)
                         \/ Len(out[j].data) >= Mss
                         \/ SndBufLeft' = 0
             P(j) == Fits(j) /\ (Nagle(j) \/ finQueued')
             S == {k \in 1 .. Len(out) : \A j \in 1 .. k : P(j)}
             c == Cardinality(S)
  <1>1. /\ unsent' = From(out, c + 1)
        /\ unacked' = InsertAll(una, SubSeq(out, 1, c))
        /\ snd_nxt' = IF c > 0 /\ LT(snd_nxt, End(out[c])) THEN End(out[c]) ELSE snd_nxt
        /\ rtime' = (timer \/ c > 0)
        /\ net' = Transmit(net, SubSeq(out, 1, c))
    BY Zenon DEF Output
  <1>2. /\ \A j : P(j) => Minus(DataEnd(out[j]), lastack') <= Min({snd_wnd', cwnd})
        /\ Minus(DataEnd(out[1]), lastack') <= Min({snd_wnd', cwnd})
           /\ (inFR' \/ finQueued') => P(1)
    OBVIOUS
  <1> HIDE DEF P
  <1>3. S \in SUBSET (1 .. Len(out)) /\ \A k \in S : \A j \in 1 .. k : j \in S
    OBVIOUS
  <1>4. c \in 0 .. Len(out) /\ (\A j \in 1 .. c : j \in S) /\ \A k \in S : k <= c
    <2> HIDE DEF S
    <2> QED BY <1>3, CountRun
  <1>5. c \in 0 .. Len(out) /\ \A j \in 1 .. c : P(j)
    <2> HIDE DEF c
    <2> QED BY <1>4
  <1>6. Len(out) >= 1 /\ P(1) => c >= 1
    <2> SUFFICES ASSUME Len(out) >= 1, P(1) PROVE c >= 1
      OBVIOUS
    <2>1. 1 \in S
      OBVIOUS
    <2> HIDE DEF c, S
    <2> QED BY <1>4, <2>1
  <1> HIDE DEF c, S
  <1>7. (timer => rtime') /\ (c > 0 => rtime') /\ rtime' \in BOOLEAN
    BY <1>1, Zenon
  <1>8. Sends(out, una, cwnd, c)
    BY <1>1, <1>2, <1>5, <1>6, <1>7 DEF Sends, Fit, SentUpTo
  <1> QED BY <1>5, <1>7, <1>8

\* Segments that are sent move from one queue to the other.
LEMMA SendingMoves ==
  ASSUME NoWrap, NEW out, NEW una, NEW w, NEW e, NEW la, NEW wnd, NEW nxt,
         Sending(out, una, w, e, la, wnd, nxt),
         NEW c \in 0 .. Len(out), NEW nxt2 \in Nat, nxt <= nxt2, nxt2 <= EndOf(w, e),
         nxt2 <= la + wnd, \A j \in 1 .. c : Stop(out[j]) <= nxt2
  PROVE  Sending(From(out, c + 1), una \o SubSeq(out, 1, c), w, e, la, wnd, nxt2)
  <1> DEFINE E == EndOf(w, e)
             p == SubSeq(out, 1, c)
             r == From(out, c + 1)
             u == una \o p
  <1>1. /\ w \in 0 .. Total /\ e \in 0 .. 1 /\ la \in Nat /\ wnd \in 0 .. TcpWnd /\ nxt \in Nat
        /\ Iss <= la /\ la <= nxt /\ E \in Nat
        /\ out \in Seq(Segment) /\ una \in Seq(Segment)
    BY SendingFacts
  <1>2. /\ \A k \in 1 .. Len(una) :
             la < Stop(una[k]) /\ Stop(una[k]) <= nxt /\ Len(una[k].data) <= MssLocal
        /\ \A k \in 1 .. Len(out) : la < Stop(out[k]) /\ Len(out[k].data) <= MssLocal
        /\ \A k \in 1 .. Len(una) : Stop(una[k]) \in Nat
    <2>1. \A k \in 1 .. Len(una) : Piece(una[k], w, e)
      BY SendingFacts
    <2>2. \A k \in 1 .. Len(una) : Stop(una[k]) \in Nat
      BY <1>1, <2>1, PieceFacts
    <2> QED BY <2>2 DEF Sending
  <1>3. PICK a \in Iss .. E, m \in Iss .. E :
          a <= la /\ Chain(una, a, m, w, e) /\ Chain(out, m, E, w, e)
    BY DEF Sending
  <1> DEFINE m2 == Cut(out, m, c)
  <1>0. Iss \in Nat /\ a \in Nat /\ m \in Nat /\ Iss <= m
    BY <1>1, <1>3, ConstantFacts
  <1>4. /\ Chain(p, m, m2, w, e) /\ Chain(r, m2, E, w, e)
        /\ m2 \in Nat /\ m <= m2 /\ m2 <= E
    BY <1>0, <1>1, <1>3, ChainSplit
  <1>5. /\ p \in Seq(Segment) /\ Len(p) = c /\ \A i \in 1 .. c : p[i] = out[i]
        /\ r \in Seq(Segment) /\ Len(r) = Len(out) - c
        /\ \A i \in 1 .. Len(out) - c : r[i] = out[c + i]
    BY <1>1, SubSeqOf
  <1> HIDE DEF p, r, m2
  <1>6. Chain(u, a, m2, w, e)
    BY <1>0, <1>1, <1>3, <1>4, ChainJoin
  <1>7. /\ Len(u) = Len(una) + c /\ Len(una) \in Nat /\ Len(out) \in Nat
        /\ \A i \in 1 .. Len(una) + c : u[i] = IF i <= Len(una) THEN una[i] ELSE p[i - Len(una)]
    <2>1. una \in Seq(Segment) /\ p \in Seq(Segment)
      BY <1>1, <1>5
    <2>2. /\ Len(u) = Len(una) + Len(p)
          /\ \A i \in 1 .. Len(una) + Len(p) : u[i] = IF i <= Len(una) THEN una[i] ELSE p[i - Len(una)]
      BY <2>1, ConcatProperties
    <2>3. Len(p) = c
      BY <1>5
    <2> HIDE DEF u
    <2> QED BY <1>1, <2>2, <2>3
  <1> HIDE DEF u
  <1>8. ASSUME NEW k \in 1 .. Len(u)
        PROVE  la < Stop(u[k]) /\ Stop(u[k]) <= nxt2 /\ Len(u[k].data) <= MssLocal
    <2>1. CASE k <= Len(una)
      <3>1. k \in 1 .. Len(una) /\ u[k] = una[k]
        BY <1>7, <2>1
      <3>2. /\ la < Stop(una[k]) /\ Stop(una[k]) <= nxt /\ Len(una[k].data) <= MssLocal
            /\ Stop(una[k]) \in Nat
        BY <1>2, <3>1
      <3>3. Stop(una[k]) <= nxt2
        BY <1>1, <3>2
      <3> QED BY <3>1, <3>2, <3>3
    <2>2. CASE ~(k <= Len(una))
      <3> DEFINE i == k - Len(una)
      <3>1. i \in 1 .. c /\ i \in 1 .. Len(out) /\ u[k] = p[i]
        BY <1>7, <2>2
      <3> HIDE DEF i
      <3>2. u[k] = out[i]
        BY <1>5, <3>1
      <3> QED BY <1>2, <3>1, <3>2
    <2> QED BY <2>1, <2>2
  <1>9. ASSUME NEW k \in 1 .. Len(r)
        PROVE  la < Stop(r[k]) /\ Len(r[k].data) <= MssLocal
    <2>1. c + k \in 1 .. Len(out) /\ r[k] = out[c + k]
      BY <1>5, <1>7
    <2> QED BY <1>2, <2>1
  <1>10. la <= nxt2
    BY <1>1
  <1>11. m2 \in Iss .. E
    BY <1>0, <1>1, <1>4
  <1>12. \E x, y \in Iss .. E : x <= la /\ Chain(u, x, y, w, e) /\ Chain(r, y, E, w, e)
    BY <1>3, <1>4, <1>6, <1>11
  <1>13. e = 1 => E <= la + wnd
    BY DEF Sending
  <1> QED BY <1>1, <1>8, <1>9, <1>10, <1>12, <1>13 DEF Sending, u, p, r

\* The segments sent, of a sender as it is after the step.
SentNow(sent, w, e, la, wnd, nxt) ==
  /\ sent \in Seq(Segment)
  /\ net' = Transmit(net, sent)
  /\ \A k \in 1 .. Len(sent) :
       Piece(sent[k], w, e) /\ Stop(sent[k]) <= nxt /\ Stop(sent[k]) <= la + wnd

LEMMA SendingSent ==
  ASSUME NoWrap, NEW out, NEW una, NEW w, NEW e, NEW la, NEW wnd, NEW nxt,
         Sending(out, una, w, e, la, wnd, nxt),
         NEW c \in 0 .. Len(out), NEW cwnd \in Nat, NEW nxt2,
         Fit(out, la, Min({wnd, cwnd}), c), nxt2 = SentUpTo(out, nxt, c)
  PROVE  /\ nxt2 \in Nat /\ nxt <= nxt2 /\ nxt2 <= EndOf(w, e) /\ nxt2 <= la + wnd
         /\ \A j \in 1 .. c : /\ Piece(out[j], w, e)
                              /\ Stop(out[j]) <= nxt2 /\ Stop(out[j]) <= la + wnd
         /\ c >= 1 => la < nxt2
         /\ Sending(From(out, c + 1), una \o SubSeq(out, 1, c), w, e, la, wnd, nxt2)
  <1>1. /\ w \in 0 .. Total /\ e \in 0 .. 1 /\ la \in Nat /\ wnd \in 0 .. TcpWnd /\ nxt \in Nat
        /\ Iss <= la /\ la <= nxt /\ nxt <= EndOf(w, e) /\ nxt <= la + wnd
        /\ EndOf(w, e) = Iss + w + e /\ EndOf(w, e) \in Nat
        /\ la \in Span /\ nxt \in Span
        /\ out \in Seq(Segment)
        /\ \A k \in 1 .. Len(out) : Piece(out[k], w, e)
    BY SendingFacts
  <1>a. nxt2 = IF c > 0 /\ LT(nxt, End(out[c])) THEN End(out[c]) ELSE nxt
    BY DEF SentUpTo
  <1>2. e = 1 => EndOf(w, e) <= la + wnd
    BY DEF Sending
  <1>3. Min({wnd, cwnd}) <= wnd
    BY <1>1, MinOf, ConstantFacts
  <1>4. ASSUME NEW j \in 1 .. c
        PROVE  /\ Piece(out[j], w, e) /\ Stop(out[j]) <= la + wnd /\ Stop(out[j]) <= EndOf(w, e)
               /\ Stop(out[j]) \in Nat /\ Stop(out[j]) \in Span /\ End(out[j]) = Stop(out[j])
               /\ la < Stop(out[j]) /\ j \in 1 .. Len(out)
    <2>1. j \in 1 .. Len(out) /\ Piece(out[j], w, e)
      BY <1>1
    <2>2. la < Stop(out[j])
      BY <2>1 DEF Sending
    <2>3. /\ Stop(out[j]) \in Nat /\ Stop(out[j]) \in Span /\ End(out[j]) = Stop(out[j])
          /\ Stop(out[j]) <= EndOf(w, e) /\ DataStop(out[j]) \in Nat
          /\ ~out[j].fin => Stop(out[j]) = DataStop(out[j])
      BY <1>1, <2>1, PieceFacts
    <2>4. Minus(DataEnd(out[j]), la) = DataStop(out[j]) - la
      BY <1>1, <2>1, <2>2, AboveAck
    <2>5. CASE out[j].fin
      <3>1. e = 1
        BY <2>1, <2>5 DEF Piece
      <3>2. EndOf(w, e) <= la + wnd
        BY <1>2, <3>1
      <3>3. Stop(out[j]) <= la + wnd
        BY <1>1, <2>3, <3>2
      <3> QED BY <2>1, <2>2, <2>3, <3>3
    <2>6. CASE ~out[j].fin
      <3>0. Minus(DataEnd(out[j]), la) <= Min({wnd, cwnd})
        BY DEF Fit
      <3>1. Min({wnd, cwnd}) \in Int
        BY <1>1, MinOf, ConstantFacts
      <3>2. DataStop(out[j]) - la <= wnd
        BY <1>1, <1>3, <2>3, <2>4, <3>0, <3>1, ConstantFacts
      <3>3. Stop(out[j]) <= la + wnd
        BY <1>1, <2>3, <2>6, <3>2, ConstantFacts
      <3> QED BY <2>1, <2>2, <2>3, <3>3
    <2> QED BY <2>5, <2>6
  <1>5. CASE c = 0
    <2>1. nxt2 = nxt
      BY <1>a, <1>5
    <2>2. \A j \in 1 .. c : FALSE
      BY <1>5
    <2>4. /\ nxt2 \in Nat /\ nxt <= nxt2 /\ nxt2 <= EndOf(w, e) /\ nxt2 <= la + wnd
          /\ \A j \in 1 .. c : Stop(out[j]) <= nxt2
      BY <1>1, <2>1, <2>2
    <2>3. Sending(From(out, c + 1), una \o SubSeq(out, 1, c), w, e, la, wnd, nxt2)
      BY <2>4, SendingMoves
    <2> QED BY <1>5, <2>2, <2>3, <2>4
  <1>6. CASE c > 0
    <2>1. c \in 1 .. c
      BY <1>6
    <2>2. /\ Stop(out[c]) <= la + wnd /\ Stop(out[c]) <= EndOf(w, e) /\ Stop(out[c]) \in Nat
          /\ Stop(out[c]) \in Span /\ End(out[c]) = Stop(out[c]) /\ la < Stop(out[c])
      BY <1>4, <2>1
    <2>3. LT(nxt, End(out[c])) <=> nxt < Stop(out[c])
      BY <1>1, <2>2, SpanCompare
    <2>4. nxt2 = IF nxt < Stop(out[c]) THEN Stop(out[c]) ELSE nxt
      BY <1>a, <1>6, <2>2, <2>3
    <2>5. /\ nxt2 \in Nat /\ nxt <= nxt2 /\ nxt2 <= EndOf(w, e) /\ nxt2 <= la + wnd
          /\ Stop(out[c]) <= nxt2 /\ la < nxt2
      BY <1>1, <2>2, <2>4
    <2>6. ASSUME NEW j \in 1 .. c PROVE Stop(out[j]) <= nxt2
      <3>1. CASE j = c
        BY <2>5, <3>1
      <3>2. CASE j < c
        <4>1. PICK a \in Iss .. EndOf(w, e), m \in Iss .. EndOf(w, e) :
                Chain(out, m, EndOf(w, e), w, e)
          BY DEF Sending
        <4>2. m \in Nat
          BY <1>1, <4>1, ConstantFacts
        <4>3. j \in 1 .. Len(out) /\ c \in 1 .. Len(out)
          BY <1>4, <2>1
        <4>4. Stop(out[j]) <= out[c].seq
          BY <1>1, <3>2, <4>1, <4>2, <4>3, ChainFacts
        <4>5. out[c].seq \in Nat /\ out[c].seq < Stop(out[c])
          BY <1>1, <4>3, PieceFacts
        <4>6. Stop(out[j]) \in Nat
          BY <1>4
        <4> QED BY <2>2, <2>5, <4>4, <4>5, <4>6
      <3> QED BY <3>1, <3>2
    <2>7. Sending(From(out, c + 1), una \o SubSeq(out, 1, c), w, e, la, wnd, nxt2)
      BY <2>5, <2>6, SendingMoves
    <2> QED BY <1>4, <2>5, <2>6, <2>7
  <1> QED BY <1>5, <1>6

\* tcp_output keeps the queues of the sender.
LEMMA SendsKeeps ==
  ASSUME NoWrap, NEW out, NEW una, NEW cwnd \in Nat, NEW c, Sends(out, una, cwnd, c),
         Sending(out, una, written', Fins', lastack', snd_wnd', snd_nxt)
  PROVE  /\ Sending(unsent', unacked', written', Fins', lastack', snd_wnd', snd_nxt')
         /\ snd_nxt <= snd_nxt'
         /\ una = <<>> /\ unacked' /= <<>> => rtime'
         /\ \E sent : SentNow(sent, written', Fins', lastack', snd_wnd', snd_nxt')
         /\ c >= 1 => lastack' < snd_nxt'
  <1> DEFINE w == written'
             e == Fins'
             la == lastack'
             wnd == snd_wnd'
             nxt == snd_nxt'
             sent == SubSeq(out, 1, c)
  <1>1. /\ c \in 0 .. Len(out)
        /\ unsent' = From(out, c + 1) /\ unacked' = InsertAll(una, sent)
        /\ nxt = SentUpTo(out, snd_nxt, c)
        /\ net' = Transmit(net, sent)
        /\ Fit(out, la, Min({wnd, cwnd}), c)
        /\ c > 0 => rtime'
    BY DEF Sends
  <1>0. Sending(out, una, w, e, la, wnd, snd_nxt)
    OBVIOUS
  <1> HIDE DEF w, e, la, wnd, nxt
  <1>2. /\ nxt \in Nat /\ snd_nxt <= nxt /\ nxt <= EndOf(w, e) /\ nxt <= la + wnd
        /\ \A j \in 1 .. c : /\ Piece(out[j], w, e)
                             /\ Stop(out[j]) <= nxt /\ Stop(out[j]) <= la + wnd
        /\ c >= 1 => la < nxt
        /\ Sending(From(out, c + 1), una \o sent, w, e, la, wnd, nxt)
    <2>1. c \in 0 .. Len(out) /\ nxt = SentUpTo(out, snd_nxt, c) /\ Fit(out, la, Min({wnd, cwnd}), c)
      BY <1>1
    <2> HIDE DEF sent
    <2>2. /\ nxt \in Nat /\ snd_nxt <= nxt /\ nxt <= EndOf(w, e) /\ nxt <= la + wnd
          /\ \A j \in 1 .. c : /\ Piece(out[j], w, e)
                               /\ Stop(out[j]) <= nxt /\ Stop(out[j]) <= la + wnd
          /\ c >= 1 => la < nxt
          /\ Sending(From(out, c + 1), una \o SubSeq(out, 1, c), w, e, la, wnd, nxt)
      BY <1>0, <2>1, SendingSent
    <2> QED BY <2>2 DEF sent
  <1>3. /\ w \in 0 .. Total /\ e \in 0 .. 1 /\ EndOf(w, e) \in Nat
        /\ out \in Seq(Segment) /\ una \in Seq(Segment)
    BY <1>0, SendingFacts
  <1>4. PICK a \in Iss .. EndOf(w, e), m \in Iss .. EndOf(w, e) :
          Chain(una, a, m, w, e) /\ Chain(out, m, EndOf(w, e), w, e)
    BY <1>0 DEF Sending
  <1>5. a \in Nat /\ m \in Nat
    BY <1>3, <1>4, ConstantFacts
  <1>6. Chain(sent, m, Cut(out, m, c), w, e)
    BY <1>1, <1>3, <1>4, <1>5, ChainSplit
  <1>7. InsertAll(una, sent) = una \o sent
    BY <1>3, <1>4, <1>5, <1>6, InsertAllChain
  <1>8. /\ sent \in Seq(Segment) /\ Len(sent) = c /\ \A i \in 1 .. c : sent[i] = out[i]
    BY <1>1, <1>3, SubSeqOf
  <1> HIDE DEF sent
  <1>9. SentNow(sent, w, e, la, wnd, nxt)
    <2>1. \A k \in 1 .. Len(sent) : Piece(sent[k], w, e) /\ Stop(sent[k]) <= nxt /\ Stop(sent[k]) <= la + wnd
      BY <1>2, <1>8
    <2> QED BY <1>1, <1>8, <2>1 DEF SentNow
  <1>10. una = <<>> /\ unacked' /= <<>> => rtime'
    <2> SUFFICES ASSUME una = <<>>, c = 0 PROVE unacked' = <<>>
      BY <1>1
    <2>1. sent = <<>>
      BY <1>8
    <2> QED BY <1>1, <1>7, <2>1
  <1>11. Sending(unsent', unacked', w, e, la, wnd, nxt)
    BY <1>1, <1>2, <1>7
  <1> QED BY <1>2, <1>9, <1>10, <1>11 DEF w, e, la, wnd, nxt

LEMMA ConsCut ==
  ASSUME NEW S, NEW s \in S, NEW q \in Seq(S), NEW d \in 0 .. Len(q)
  PROVE  /\ From(Cons(s, q), d + 2) = From(q, d + 1)
         /\ SubSeq(Cons(s, q), 1, d + 1) = Cons(s, SubSeq(q, 1, d))
  <1> DEFINE all == Cons(s, q)
             p == SubSeq(q, 1, d)
             u == Cons(s, p)
             v == SubSeq(all, 1, d + 1)
             x == From(all, (d + 1) + 1)
             y == From(q, d + 1)
  <1>0. Len(q) \in Nat /\ d \in Nat
    OBVIOUS
  <1>1. /\ all \in Seq(S) /\ Len(all) = Len(q) + 1 /\ all[1] = s
        /\ \A i \in 1 .. Len(q) : all[i + 1] = q[i]
    BY ConsOf
  <1> HIDE DEF all
  <1>2. /\ p \in Seq(S) /\ Len(p) = d /\ \A i \in 1 .. d : p[i] = q[i]
        /\ y \in Seq(S) /\ Len(y) = Len(q) - d
        /\ \A i \in 1 .. Len(q) - d : y[i] = q[d + i]
    BY SubSeqOf
  <1>3. /\ v \in Seq(S) /\ Len(v) = d + 1 /\ \A i \in 1 .. d + 1 : v[i] = all[i]
        /\ x \in Seq(S) /\ Len(x) = Len(all) - (d + 1)
        /\ \A i \in 1 .. Len(all) - (d + 1) : x[i] = all[(d + 1) + i]
    <2>1. d + 1 \in 0 .. Len(all)
      BY <1>0, <1>1
    <2> QED BY <1>1, <2>1, SubSeqOf
  <1> HIDE DEF p, v, x, y
  <1>4. /\ u \in Seq(S) /\ Len(u) = d + 1 /\ u[1] = s /\ \A i \in 1 .. d : u[i + 1] = p[i]
    <2>1. p \in Seq(S)
      BY <1>2
    <2>2. /\ u \in Seq(S) /\ Len(u) = Len(p) + 1 /\ u[1] = s
          /\ \A i \in 1 .. Len(p) : u[i + 1] = p[i]
      BY <2>1, ConsOf
    <2> HIDE DEF u
    <2> QED BY <1>2, <2>2
  <1> HIDE DEF u
  <1>5. v = u
    <2>1. ASSUME NEW i \in 1 .. d + 1 PROVE v[i] = u[i]
      <3>1. CASE i = 1
        BY <1>0, <1>1, <1>3, <1>4, <3>1
      <3>2. CASE i > 1
        <4> DEFINE j == i - 1
        <4>1. j \in 1 .. d /\ i = j + 1 /\ j \in 1 .. Len(q)
          BY <1>0, <3>2
        <4> HIDE DEF j
        <4>2. v[i] = q[j]
          BY <1>1, <1>3, <4>1
        <4>3. u[i] = q[j]
          BY <1>2, <1>4, <4>1
        <4> QED BY <4>2, <4>3
      <3> QED BY <1>0, <3>1, <3>2
    <2>2. v \in Seq(S) /\ u \in Seq(S) /\ Len(v) = Len(u) /\ \A i \in 1 .. Len(v) : v[i] = u[i]
      BY <1>3, <1>4, <2>1
    <2> QED BY <2>2, SeqEqual
  <1>6. x = y
    <2>1. Len(x) = Len(q) - d /\ Len(all) - (d + 1) = Len(q) - d
      BY <1>0, <1>1, <1>3
    <2>2. ASSUME NEW i \in 1 .. Len(q) - d PROVE x[i] = y[i]
      <3>1. d + i \in 1 .. Len(q) /\ (d + 1) + i = (d + i) + 1 /\ i \in 1 .. Len(all) - (d + 1)
        BY <1>0, <2>1
      <3>2. x[i] = all[(d + i) + 1]
        BY <1>3, <3>1
      <3>3. y[i] = q[d + i]
        BY <1>2
      <3> QED BY <1>1, <3>1, <3>2, <3>3
    <2>3. x \in Seq(S) /\ y \in Seq(S) /\ Len(x) = Len(y) /\ \A i \in 1 .. Len(x) : x[i] = y[i]
      BY <1>2, <1>3, <2>1, <2>2
    <2> QED BY <2>3, SeqEqual
  <1>7. (d + 1) + 1 = d + 2
    BY <1>0
  <1> QED BY <1>5, <1>6, <1>7 DEF u, v, x, y, all, p

\* tcp_rexmit and tcp_output: the segment that is sent again goes back to its
\* place.
LEMMA SendsAgain ==
  ASSUME NoWrap, NEW out, NEW una, NEW s \in Segment, una \in Seq(Segment),
         NEW cwnd \in Nat, MssLocal <= cwnd, NEW c, Sends(Cons(s, out), una, cwnd, c), inFR',
         Sending(out, Cons(s, una), written', Fins', lastack', snd_wnd', snd_nxt)
  PROVE  /\ Sending(unsent', unacked', written', Fins', lastack', snd_wnd', snd_nxt')
         /\ snd_nxt <= snd_nxt' /\ rtime' /\ lastack' < snd_nxt'
         /\ \E sent : SentNow(sent, written', Fins', lastack', snd_wnd', snd_nxt')
  <1> DEFINE w == written'
             e == Fins'
             la == lastack'
             wnd == snd_wnd'
             nxt == snd_nxt'
             all == Cons(s, out)
             ones == Cons(s, una)
             d == c - 1
             p == SubSeq(out, 1, d)
             sent == SubSeq(all, 1, c)
  <1>1. /\ c \in 0 .. Len(all)
        /\ unsent' = From(all, c + 1) /\ unacked' = InsertAll(una, sent)
        /\ nxt = SentUpTo(all, snd_nxt, c)
        /\ net' = Transmit(net, sent)
        /\ Fit(all, la, Min({wnd, cwnd}), c)
        /\ c > 0 => rtime'
        /\ Len(all) >= 1 /\ Minus(DataEnd(all[1]), la) <= Min({wnd, cwnd}) => c >= 1
    BY DEF Sends
  <1>0. Sending(out, ones, w, e, la, wnd, snd_nxt)
    OBVIOUS
  <1> HIDE DEF w, e, la, wnd, nxt
  <1>2. /\ w \in 0 .. Total /\ e \in 0 .. 1 /\ EndOf(w, e) \in Nat /\ la \in Nat /\ la \in Span
        /\ wnd \in 0 .. TcpWnd /\ snd_nxt \in Nat /\ snd_nxt <= la + wnd /\ snd_nxt \in Span
        /\ out \in Seq(Segment) /\ Len(out) \in Nat
    <2>1. out \in Seq(Segment)
      BY <1>0, SendingFacts
    <2>2. Len(out) \in Nat
      BY <2>1
    <2> QED BY <1>0, <2>1, <2>2, SendingFacts
  <1>3. /\ all \in Seq(Segment) /\ Len(all) = Len(out) + 1 /\ all[1] = s
        /\ \A i \in 1 .. Len(out) : all[i + 1] = out[i]
    BY <1>2, ConsOf
  <1>4. /\ ones \in Seq(Segment) /\ Len(ones) = Len(una) + 1 /\ ones[1] = s /\ Len(una) \in Nat
    <2>1. Len(una) \in Nat
      OBVIOUS
    <2> QED BY <2>1, ConsOf
  <1>5. PICK a \in Iss .. EndOf(w, e), m \in Iss .. EndOf(w, e) :
          a <= la /\ Chain(ones, a, m, w, e) /\ Chain(out, m, EndOf(w, e), w, e)
    BY <1>0 DEF Sending
  <1>6. a \in Nat /\ m \in Nat
    BY <1>2, <1>5, ConstantFacts
  <1>z. 1 \in 1 .. Len(ones)
    BY <1>4
  <1> HIDE DEF all, ones, sent, p
  <1>7. /\ la < Stop(s) /\ Stop(s) <= snd_nxt /\ Len(s.data) <= MssLocal
        /\ Piece(s, w, e) /\ s.seq = a
    <2>1. la < Stop(s) /\ Stop(s) <= snd_nxt /\ Len(s.data) <= MssLocal
      BY <1>0, <1>4, <1>z DEF Sending
    <2>2. Piece(s, w, e) /\ s.seq = a
      BY <1>4, <1>5, <1>z DEF Chain
    <2> QED BY <2>1, <2>2
  <1>8. /\ Stop(s) \in Nat /\ Stop(s) \in Span /\ End(s) = Stop(s) /\ Len(s.data) \in Nat
        /\ DataStop(s) \in Nat /\ DataStop(s) = s.seq + Len(s.data) /\ DataStop(s) <= Stop(s)
    <2>1. /\ Stop(s) \in Nat /\ Stop(s) \in Span /\ End(s) = Stop(s) /\ Len(s.data) \in Nat
          /\ DataStop(s) \in Nat /\ DataStop(s) = s.seq + Len(s.data)
          /\ s.fin => Stop(s) = DataStop(s) + 1
          /\ ~s.fin => Stop(s) = DataStop(s)
      BY <1>2, <1>7, PieceFacts
    <2>2. DataStop(s) <= Stop(s)
      BY <2>1
    <2> QED BY <2>1, <2>2
  <1>9. c >= 1 /\ rtime'
    <2>1. Minus(DataEnd(s), la) = DataStop(s) - la
      BY <1>2, <1>7, AboveAck
    <2>2. DataStop(s) - la <= cwnd
      BY <1>2, <1>5, <1>6, <1>7, <1>8, MssLocalOf, SMTT(30)
    <2>3. DataStop(s) - la <= wnd
      BY <1>2, <1>7, <1>8, ConstantFacts
    <2>4. Min({wnd, cwnd}) = IF wnd <= cwnd THEN wnd ELSE cwnd
      BY <1>2, MinOf, ConstantFacts
    <2>5. Minus(DataEnd(all[1]), la) <= Min({wnd, cwnd})
      BY <1>3, <2>1, <2>2, <2>3, <2>4
    <2>6. Len(all) >= 1
      BY <1>2, <1>3
    <2>7. c >= 1 /\ c \in Nat
      BY <1>1, <2>5, <2>6
    <2> QED BY <1>1, <2>7
  <1>10. d \in 0 .. Len(out) /\ c = d + 1 /\ c \in 1 .. Len(all)
    BY <1>1, <1>2, <1>3, <1>9
  <1> HIDE DEF d
  <1>11. nxt = SentUpTo(out, snd_nxt, d)
    <2>1. nxt = IF c > 0 /\ LT(snd_nxt, End(all[c])) THEN End(all[c]) ELSE snd_nxt
      BY <1>1 DEF SentUpTo
    <2>2. CASE d = 0
      <3>1. all[c] = s
        BY <1>3, <1>10, <2>2
      <3>2. ~LT(snd_nxt, End(s))
        <4>1. ~(snd_nxt < Stop(s))
          BY <1>2, <1>7, <1>8
        <4> QED BY <1>2, <1>8, <4>1, SpanCompare
      <3> QED BY <2>1, <2>2, <3>1, <3>2 DEF SentUpTo
    <2>3. CASE d > 0
      <3>1. d \in 1 .. Len(out) /\ c > 0
        BY <1>2, <1>10, <2>3
      <3>2. all[c] = out[d]
        BY <1>3, <1>10, <3>1
      <3> QED BY <2>1, <2>3, <3>1, <3>2 DEF SentUpTo
    <2> QED BY <1>10, <2>2, <2>3
  <1>12. Fit(out, la, Min({wnd, cwnd}), d)
    <2> SUFFICES ASSUME NEW j \in 1 .. d PROVE Minus(DataEnd(out[j]), la) <= Min({wnd, cwnd})
      BY DEF Fit
    <2>1. j + 1 \in 1 .. c /\ j \in 1 .. Len(out)
      BY <1>2, <1>10
    <2> QED BY <1>1, <1>3, <2>1 DEF Fit
  <1>13. /\ nxt \in Nat /\ snd_nxt <= nxt
         /\ \A j \in 1 .. d : /\ Piece(out[j], w, e)
                              /\ Stop(out[j]) <= nxt /\ Stop(out[j]) <= la + wnd
         /\ Sending(From(out, d + 1), ones \o p, w, e, la, wnd, nxt)
    <2>1. /\ nxt \in Nat /\ snd_nxt <= nxt
          /\ \A j \in 1 .. d : /\ Piece(out[j], w, e)
                               /\ Stop(out[j]) <= nxt /\ Stop(out[j]) <= la + wnd
          /\ Sending(From(out, d + 1), ones \o SubSeq(out, 1, d), w, e, la, wnd, nxt)
      BY <1>0, <1>10, <1>11, <1>12, SendingSent
    <2> QED BY <2>1 DEF p
  <1>a. From(all, d + 2) = From(out, d + 1) /\ SubSeq(all, 1, d + 1) = Cons(s, p)
    BY <1>2, <1>10, ConsCut DEF all, p
  <1>14. /\ p \in Seq(Segment) /\ Len(p) = d /\ \A i \in 1 .. d : p[i] = out[i]
    BY <1>2, <1>10, SubSeqOf DEF p
  <1>15. /\ sent \in Seq(Segment) /\ Len(sent) = c /\ \A i \in 1 .. c : sent[i] = all[i]
    BY <1>1, <1>3, SubSeqOf DEF sent
  <1>16. unsent' = From(out, d + 1)
    <2>1. c + 1 = d + 2
      BY <1>2, <1>10
    <2> QED BY <1>1, <1>a, <2>1
  <1>17. sent = Cons(s, p)
    BY <1>10, <1>a DEF sent
  <1>18. unacked' = ones \o p
    <2>1. Chain(p, m, Cut(out, m, d), w, e)
      BY <1>2, <1>5, <1>6, <1>10, ChainSplit DEF p
    <2>2. Chain(ones, a, m, w, e)
      BY <1>5
    <2>5. Heads(ones, s, una)
      BY <1>14 DEF ones, Heads
    <2>3. w \in 0 .. Total /\ e \in 0 .. 1
      BY <1>2
    <2>4. InsertAll(una, Cons(s, p)) = ones \o p
      BY <1>6, <2>1, <2>2, <2>3, <2>5, InsertAllFront
    <2> QED BY <1>1, <1>17, <2>4
  <1>19. Sending(unsent', unacked', w, e, la, wnd, nxt)
    BY <1>13, <1>16, <1>18
  <1>20. Stop(s) <= nxt /\ Stop(s) <= la + wnd /\ la < nxt
    BY <1>2, <1>7, <1>8, <1>13, ConstantFacts
  <1>21. SentNow(sent, w, e, la, wnd, nxt)
    <2>1. ASSUME NEW k \in 1 .. c
          PROVE  Piece(sent[k], w, e) /\ Stop(sent[k]) <= nxt /\ Stop(sent[k]) <= la + wnd
      <3>1. CASE k = 1
        BY <1>3, <1>7, <1>15, <1>20, <3>1
      <3>2. CASE k > 1
        <4> DEFINE j == k - 1
        <4>1. j \in 1 .. d /\ k = j + 1 /\ j \in 1 .. Len(out)
          BY <1>2, <1>10, <3>2
        <4> HIDE DEF j
        <4>2. sent[k] = out[j]
          BY <1>3, <1>15, <4>1
        <4> QED BY <1>13, <4>1, <4>2
      <3> QED BY <1>10, <3>1, <3>2
    <2> QED BY <1>1, <1>15, <2>1 DEF SentNow
  <1> QED BY <1>9, <1>13, <1>19, <1>20, <1>21 DEF w, e, la, wnd, nxt

\* A closed sender whose first segment is not sent yet sends it.
LEMMA SendsFin ==
  ASSUME NoWrap, NEW out, NEW una, NEW cwnd \in Nat, MssLocal <= cwnd, NEW c,
         Sends(out, una, cwnd, c), finQueued', Fins' = 1,
         Sending(out, una, written', Fins', lastack', snd_wnd', snd_nxt)
  PROVE  \/ lastack' = EndOf(written', Fins')
         \/ lastack' < snd_nxt
         \/ c >= 1
  <1> DEFINE w == written'
             e == Fins'
             la == lastack'
             wnd == snd_wnd'
  <1>1. /\ c \in 0 .. Len(out)
        /\ Len(out) >= 1 /\ Minus(DataEnd(out[1]), la) <= Min({wnd, cwnd}) => c >= 1
    BY DEF Sends
  <1>0. Sending(out, una, w, e, la, wnd, snd_nxt) /\ e = 1
    OBVIOUS
  <1> HIDE DEF w, e, la, wnd
  <1> SUFFICES ASSUME la /= EndOf(w, e), ~(la < snd_nxt) PROVE c >= 1
    BY DEF w, e, la, wnd
  <1>2. /\ w \in 0 .. Total /\ e \in 0 .. 1 /\ EndOf(w, e) \in Nat /\ la \in Nat /\ la \in Span
        /\ EndOf(w, e) = Iss + w + e /\ la <= snd_nxt /\ snd_nxt <= EndOf(w, e)
        /\ wnd \in 0 .. TcpWnd /\ snd_nxt \in Nat
        /\ out \in Seq(Segment) /\ una \in Seq(Segment)
    BY <1>0, SendingFacts
  <1>3. /\ \A k \in 1 .. Len(una) : la < Stop(una[k]) /\ Stop(una[k]) <= snd_nxt
        /\ \A k \in 1 .. Len(out) : la < Stop(out[k]) /\ Len(out[k].data) <= MssLocal
        /\ EndOf(w, e) <= la + wnd
    BY <1>0 DEF Sending
  <1>4. PICK a \in Iss .. EndOf(w, e), m \in Iss .. EndOf(w, e) :
          a <= la /\ Chain(una, a, m, w, e) /\ Chain(out, m, EndOf(w, e), w, e)
    BY <1>0 DEF Sending
  <1>5. a \in Nat /\ m \in Nat
    BY <1>2, <1>4, ConstantFacts
  <1>6. la < EndOf(w, e) /\ la = snd_nxt
    BY <1>2
  <1>7. una = <<>>
    <2> SUFFICES ASSUME una /= <<>> PROVE FALSE
      OBVIOUS
    <2>1. 1 \in 1 .. Len(una)
      BY <1>2
    <2>2. Stop(una[1]) \in Nat
      <3>1. Piece(una[1], w, e)
        BY <1>4, <2>1 DEF Chain
      <3> QED BY <1>2, <3>1, PieceFacts
    <2> QED BY <1>2, <1>3, <1>6, <2>1, <2>2
  <1>8. a = m
    BY <1>4, <1>7 DEF Chain
  <1>9. out /= <<>> /\ Len(out) >= 1 /\ 1 \in 1 .. Len(out)
    <2>1. out /= <<>>
      <3> SUFFICES ASSUME out = <<>> PROVE FALSE
        OBVIOUS
      <3>1. m = EndOf(w, e)
        BY <1>4 DEF Chain
      <3> QED BY <1>2, <1>4, <1>5, <1>6, <1>8, <3>1
    <2> QED BY <1>2, <2>1
  <1>10. Piece(out[1], w, e) /\ out[1].seq = m
    BY <1>4, <1>9 DEF Chain
  <1>11. /\ DataStop(out[1]) = m + Len(out[1].data) /\ Len(out[1].data) \in Nat
         /\ DataStop(out[1]) <= Iss + w
    BY <1>2, <1>10, PieceFacts
  <1>12. Minus(DataEnd(out[1]), la) = DataStop(out[1]) - la
    BY <1>2, <1>3, <1>9, <1>10, AboveAck
  <1>13. DataStop(out[1]) - la <= cwnd
    BY <1>2, <1>3, <1>4, <1>5, <1>8, <1>9, <1>11, MssLocalOf
  <1>14. DataStop(out[1]) - la <= wnd
    BY <1>0, <1>2, <1>3, <1>5, <1>11, ConstantFacts, SMTT(30)
  <1>15. Min({wnd, cwnd}) = IF wnd <= cwnd THEN wnd ELSE cwnd
    BY <1>2, MinOf, ConstantFacts
  <1>16. Minus(DataEnd(out[1]), la) <= Min({wnd, cwnd})
    BY <1>12, <1>13, <1>14, <1>15
  <1> QED BY <1>1, <1>9, <1>16

-----------------------------------------------------------------------------
(* The network.                                                             *)

LEMMA SeqOver ==
  ASSUME NEW S, NEW T, NEW q \in Seq(S), \A k \in 1 .. Len(q) : q[k] \in T
  PROVE  q \in Seq(T)
  <1>1. Len(q) \in Nat /\ q = [k \in 1 .. Len(q) |-> q[k]]
    BY IsASeq, SeqDef
  <1>2. \A k \in 1 .. Len(q) : q[k] \in T
    OBVIOUS
  <1> DEFINE n == Len(q)
  <1> HIDE DEF n
  <1>3. n \in Nat /\ q \in [1 .. n -> T]
    BY <1>1, <1>2 DEF n
  <1> QED BY <1>3, SeqDef

\* What is in flight after a transmission was in flight or has been sent.
LEMMA TransmitOver ==
  ASSUME NEW S, NEW q \in Seq(S), NEW s \in Seq(S)
  PROVE  Transmit(q, s) \in Seq(S)
  <1> DEFINE r == q \o s
             n == Min({NetSize, Len(q) + Len(s)})
  <1>1. r \in Seq(S) /\ Len(r) = Len(q) + Len(s)
    BY ConcatProperties
  <1>2. Len(q) \in Nat /\ Len(s) \in Nat /\ NetSize \in Nat
    BY ConstantFacts
  <1>3. n = IF NetSize <= Len(q) + Len(s) THEN NetSize ELSE Len(q) + Len(s)
    BY <1>2, MinOf
  <1>4. Transmit(q, s) = SubSeq(r, 1, n)
    BY DEF Transmit
  <1> HIDE DEF r, n
  <1>5. n \in 0 .. Len(r)
    BY <1>1, <1>2, <1>3
  <1> QED BY <1>1, <1>4, <1>5, SubSeqOf

LEMMA TailOver ==
  ASSUME NEW S, NEW q \in Seq(S), q /= <<>>
  PROVE  Head(q) \in S /\ Tail(q) \in Seq(S)
  OBVIOUS

\* A fault loses, repeats or swaps what is in flight.
LEMMA FaultyOver ==
  ASSUME NEW S, NEW q \in Seq(S), NEW r, Faulty(q, r)
  PROVE  r \in Seq(S)
  <1>0. Len(q) \in Nat /\ DOMAIN q = 1 .. Len(q)
    OBVIOUS
  <1>1. ASSUME NEW k \in DOMAIN q
        PROVE  /\ SubSeq(q, 1, k - 1) \in Seq(S)
               /\ SubSeq(q, k + 1, Len(q)) \in Seq(S)
               /\ SubSeq(q, k, Len(q)) \in Seq(S)
               /\ q[k] \in S
    <2>1. k \in 0 .. Len(q) /\ k - 1 \in 0 .. Len(q) /\ (k - 1) + 1 = k
      BY <1>0
    <2>2. SubSeq(q, 1, k - 1) \in Seq(S)
      BY <2>1, SubSeqOf
    <2>3. SubSeq(q, k + 1, Len(q)) \in Seq(S)
      BY <2>1, SubSeqOf DEF From
    <2>4. SubSeq(q, (k - 1) + 1, Len(q)) \in Seq(S)
      BY <2>1, SubSeqOf DEF From
    <2> QED BY <1>0, <2>1, <2>2, <2>3, <2>4
  <1>2. CASE \E k \in DOMAIN q : r = RemoveAt(q, k)
    <2>1. PICK k \in DOMAIN q : r = RemoveAt(q, k)
      BY <1>2
    <2>2. r = SubSeq(q, 1, k - 1) \o SubSeq(q, k + 1, Len(q))
      BY <2>1 DEF RemoveAt
    <2> QED BY <1>1, <2>2, ConcatProperties
  <1>3. CASE \E k \in DOMAIN q : Len(q) < NetSize /\ r = InsertAt(q, k, q[k])
    <2>1. PICK k \in DOMAIN q : r = InsertAt(q, k, q[k])
      BY <1>3
    <2>2. r = (SubSeq(q, 1, k - 1) \o <<q[k]>>) \o SubSeq(q, k, Len(q))
      BY <2>1 DEF InsertAt
    <2>3. <<q[k]>> \in Seq(S)
      BY <1>1
    <2>4. SubSeq(q, 1, k - 1) \o <<q[k]>> \in Seq(S)
      BY <1>1, <2>3, ConcatProperties
    <2> QED BY <1>1, <2>2, <2>4, ConcatProperties
  <1>4. CASE \E k \in 1 .. Len(q) - 1 : r = [q EXCEPT ![k] = q[k + 1], ![k + 1] = q[k]]
    <2>1. PICK k \in 1 .. Len(q) - 1 : r = [q EXCEPT ![k] = q[k + 1], ![k + 1] = q[k]]
      BY <1>4
    <2>2. k \in 1 .. Len(q) /\ k + 1 \in 1 .. Len(q)
      BY <1>0
    <2>3. q[k] \in S /\ q[k + 1] \in S
      BY <2>2
    <2> DEFINE p == [q EXCEPT ![k] = q[k + 1]]
    <2>4. p \in Seq(S) /\ Len(p) = Len(q)
      BY <2>2, <2>3, ExceptSeq
    <2>5. r = [p EXCEPT ![k + 1] = q[k]]
      BY <2>1
    <2> HIDE DEF p
    <2> QED BY <2>2, <2>3, <2>4, <2>5, ExceptSeq
  <1> QED BY <1>2, <1>3, <1>4 DEF Faulty

-----------------------------------------------------------------------------
(* What a step of the sender, of the receiver and of the network leaves to   *)
(* show.                                                                     *)

LEMMA OrderedStays ==
  ASSUME NEW w \in Nat, NEW w2 \in Nat, NEW e \in 0 .. 1, NEW e2 \in 0 .. 1,
         w <= w2, e = 1 => e2 = 1 /\ w2 = w, NEW b \in Nat, NEW b2 \in Nat, b <= b2,
         NEW q, NEW n, Ordered(q, n, b, w, e)
  PROVE  Ordered(q, n, b2, w2, e2)
  <1>1. \A k \in 1 .. Len(q) : Piece(q[k], w2, e2)
    BY PieceStays DEF Ordered
  <1>2. \A k \in 1 .. Len(q) : Stop(q[k]) <= b2
    <2> SUFFICES ASSUME NEW k \in 1 .. Len(q) PROVE Stop(q[k]) <= b2
      OBVIOUS
    <2>1. Piece(q[k], w, e) /\ Stop(q[k]) <= b
      BY DEF Ordered
    <2>2. Stop(q[k]) \in Nat
      BY <2>1, SegmentFacts DEF Piece
    <2> QED BY <2>1, <2>2
  <1> QED BY <1>1, <1>2 DEF Ordered

\* The numbers of a state in which the invariant holds.
LEMMA NumbersOf ==
  ASSUME NoWrap, IInv
  PROVE  /\ written \in 0 .. Total /\ written \in Nat /\ Fins \in 0 .. 1 /\ Ends \in 0 .. 1
         /\ lastack \in Nat /\ snd_nxt \in Nat /\ snd_wl2 \in Nat /\ snd_wnd \in 0 .. TcpWnd
         /\ rcv_nxt \in Nat /\ ann_edge \in Nat /\ rcv_wnd \in 0 .. TcpWnd
         /\ ann_wnd \in 0 .. TcpWnd /\ unread \in 0 .. TcpWnd
         /\ Reach \in Nat /\ Limit \in Nat /\ Limit <= ann_edge /\ Limit <= Reach
         /\ lastack <= snd_nxt /\ lastack < Reach /\ snd_nxt <= Reach /\ Iss <= lastack
         /\ rcv_nxt <= Iss + Total + 1 /\ ann_edge <= Iss + Total + 1 + TcpWnd
         /\ Iss <= rcv_nxt
  <1>1. Sending(unsent, unacked, written, Fins, lastack, snd_wnd, snd_nxt)
    BY DEF IInv, SenderOK
  <1>2. /\ written \in 0 .. Total /\ Fins \in 0 .. 1 /\ lastack \in Nat /\ snd_nxt \in Nat
        /\ snd_wnd \in 0 .. TcpWnd /\ lastack <= snd_nxt /\ Iss <= lastack
    BY <1>1 DEF Sending
  <1>3. Ends \in 0 .. 1
    BY DEF Ends
  <1>4. /\ rcv_nxt \in Nat /\ ann_edge \in Nat /\ rcv_wnd \in 0 .. TcpWnd
        /\ ann_wnd \in 0 .. TcpWnd /\ unread \in 0 .. TcpWnd /\ ann_edge <= rcv_nxt + ann_wnd
        /\ Len(got) \in 0 .. written /\ rcv_nxt = Iss + Len(got) + Ends
    BY DEF IInv, ReceiverOK, EndOf
  <1>5. snd_wl2 \in Nat
    BY DEF IInv, SenderOK
  <1>6. Reach \in Nat /\ lastack < Reach /\ snd_nxt <= Reach
    BY <1>2 DEF Reach, ReachOf
  <1>7. Limit \in Nat /\ Limit <= ann_edge /\ Limit <= Reach
    BY <1>4, <1>6 DEF Limit
  <1>8. /\ rcv_nxt <= Iss + Total + 1 /\ ann_edge <= Iss + Total + 1 + TcpWnd
        /\ Iss <= rcv_nxt
    BY <1>2, <1>3, <1>4, ConstantFacts
  <1>9. written \in Nat
    BY <1>2, ConstantFacts
  <1> QED BY <1>2, <1>3, <1>4, <1>5, <1>6, <1>7, <1>8, <1>9

LEMMA SenderActs ==
  ASSUME NoWrap, IInv, UNCHANGED receiver,
         written' \in 0 .. Total, written <= written', Fins' \in 0 .. 1,
         Fins = 1 => Fins' = 1 /\ written' = written, finQueued => finQueued',
         SenderOK', Reach' \in Nat, Reach <= Reach', faults' \in 0 .. MaxFaults,
         net' \in Seq(InFlight(written', Fins', ann_edge, rcv_nxt, Reach')),
         acks' \in Seq(Answers(snd_wl2', snd_wnd', ann_edge, rcv_nxt)),
         Rising(Items(acks')), lastack' <= snd_wl2', snd_wl2' <= rcv_nxt,
         snd_wl2' + snd_wnd' <= ann_edge
  PROVE  IInv'
  <1>1. /\ rcv_nxt' = rcv_nxt /\ rcv_wnd' = rcv_wnd /\ ann_wnd' = ann_wnd /\ ann_edge' = ann_edge
        /\ ooseq' = ooseq /\ ackDelay' = ackDelay /\ got' = got /\ unread' = unread
        /\ gotFin' = gotFin /\ Ends' = Ends
    BY DEF receiver, Ends
  <1>2. /\ written \in Nat /\ Fins \in 0 .. 1 /\ Reach \in Nat /\ Limit \in Nat
        /\ ann_edge \in Nat /\ rcv_nxt \in Nat
    BY NumbersOf
  <1>3. Limit' \in Nat /\ Limit <= Limit'
    BY <1>1, <1>2 DEF Limit
  <1>4. written' \in Nat
    BY ConstantFacts
  <1>5. Ordered(ooseq, rcv_nxt, Limit', written', Fins')
    <2>1. Ordered(ooseq, rcv_nxt, Limit, written, Fins)
      BY DEF IInv, ReceiverOK
    <2> QED BY <1>2, <1>3, <1>4, <2>1, OrderedStays
  <1>6. gotFin => finQueued' /\ Len(got) = written' /\ ooseq = <<>>
    <2> SUFFICES ASSUME gotFin PROVE finQueued' /\ Len(got) = written' /\ ooseq = <<>>
      OBVIOUS
    <2>1. finQueued /\ Len(got) = written /\ ooseq = <<>>
      BY DEF IInv, ReceiverOK
    <2>2. Fins = 1
      BY <2>1 DEF Fins
    <2> QED BY <2>1, <2>2
  <1>7. Len(got) \in 0 .. written'
    BY <1>2, <1>4 DEF IInv, ReceiverOK
  <1>8. ReceiverOK'
    <2>1. /\ rcv_nxt \in Nat /\ ann_edge \in Nat
          /\ rcv_wnd \in 0 .. TcpWnd /\ ann_wnd \in 0 .. TcpWnd /\ unread \in 0 .. TcpWnd
          /\ ackDelay \in BOOLEAN /\ gotFin \in BOOLEAN
          /\ got = Stretch(Len(got))
          /\ rcv_nxt = EndOf(Len(got), Ends)
          /\ rcv_wnd + unread = TcpWnd
          /\ unread <= Len(got)
          /\ ann_wnd <= rcv_wnd
          /\ ann_edge <= rcv_nxt + ann_wnd
      BY DEF IInv, ReceiverOK
    <2> QED BY <1>1, <1>5, <1>6, <1>7, <2>1 DEF ReceiverOK
  <1>9. rcv_nxt <= Reach'
    <2>1. rcv_nxt <= Reach
      BY DEF IInv, NetworkOK
    <2> QED BY <1>2, <2>1
  <1>10. NetworkOK'
    BY <1>1, <1>9 DEF NetworkOK
  <1> QED BY <1>8, <1>10 DEF IInv

\* An ACK tells what is new.
LEMMA ReceiverActs ==
  ASSUME NoWrap, IInv, UNCHANGED sender, faults' = faults,
         net' \in Seq(InFlight(written, Fins, ann_edge, rcv_nxt, Reach)),
         ReceiverOK', ann_edge <= ann_edge', rcv_nxt <= rcv_nxt', rcv_nxt' <= Reach,
         \/ acks' = acks
         \/ /\ acks' = Transmit(acks, <<[ackno |-> rcv_nxt', wnd |-> ann_wnd']>>)
            /\ ann_edge' = rcv_nxt' + ann_wnd'
  PROVE  IInv'
  <1>1. /\ written' = written /\ snd_wl2' = snd_wl2 /\ snd_wnd' = snd_wnd /\ lastack' = lastack
        /\ snd_nxt' = snd_nxt /\ Fins' = Fins /\ Reach' = Reach
    BY DEF sender, Fins, Reach
  <1>2. SenderOK'
    <2>1. SenderOK
      BY DEF IInv
    <2>2. /\ finQueued' = finQueued /\ unsent' = unsent /\ unacked' = unacked /\ inFR' = inFR
          /\ rtime' = rtime /\ persist' = persist
      BY DEF sender
    <2> QED BY <1>1, <2>1, <2>2 DEF SenderOK
  <1>3. /\ rcv_nxt \in Nat /\ ann_edge \in Nat /\ snd_wl2 \in Nat /\ snd_wnd \in 0 .. TcpWnd
        /\ snd_wnd \in Nat /\ Iss \in Nat
    BY NumbersOf, ConstantFacts
  <1>4. /\ rcv_nxt' \in Nat /\ ann_edge' \in Nat /\ ann_wnd' \in 0 .. TcpWnd /\ ann_wnd' \in Nat
    <2>1. rcv_nxt' \in Nat /\ ann_edge' \in Nat /\ ann_wnd' \in 0 .. TcpWnd
      BY DEF ReceiverOK
    <2> QED BY <2>1, ConstantFacts
  <1>5. net' \in Seq(InFlight(written, Fins, ann_edge', rcv_nxt', Reach))
    <2>1. InFlight(written, Fins, ann_edge, rcv_nxt, Reach)
            \subseteq InFlight(written, Fins, ann_edge', rcv_nxt', Reach)
      <3> SUFFICES ASSUME NEW s \in InFlight(written, Fins, ann_edge, rcv_nxt, Reach)
                   PROVE  s \in InFlight(written, Fins, ann_edge', rcv_nxt', Reach)
        OBVIOUS
      <3>1. /\ s \in Segment /\ Piece(s, written, Fins) /\ Stop(s) <= Reach
            /\ Stop(s) <= ann_edge \/ (TcpLen(s) = 1 /\ s.seq <= rcv_nxt)
        BY DEF InFlight
      <3>2. Stop(s) \in Nat /\ s.seq \in Nat
        BY <3>1, SegmentFacts
      <3>3. Stop(s) <= ann_edge' \/ (TcpLen(s) = 1 /\ s.seq <= rcv_nxt')
        BY <1>3, <1>4, <3>1, <3>2
      <3> QED BY <3>1, <3>3 DEF InFlight
    <2> QED BY <2>1, SeqMonotonic
  <1> DEFINE Old == Answers(snd_wl2, snd_wnd, ann_edge, rcv_nxt)
             New == Answers(snd_wl2, snd_wnd, ann_edge', rcv_nxt')
             a == [ackno |-> rcv_nxt', wnd |-> ann_wnd']
             T == Items(acks) \cup {a}
  <1>6. acks \in Seq(Old) /\ Rising(Items(acks))
    BY DEF IInv, NetworkOK
  <1>7. ASSUME NEW b \in Old
        PROVE  b \in New /\ b.ackno \in Nat /\ b.wnd \in Nat
    <2>1. /\ b \in Ack /\ Iss <= b.ackno /\ b.ackno <= rcv_nxt
          /\ b.ackno + b.wnd <= ann_edge
          /\ snd_wl2 < b.ackno => snd_wl2 + snd_wnd <= b.ackno + b.wnd
      BY DEF Answers
    <2>2. b.ackno \in Nat /\ b.wnd \in Nat
      BY <2>1, ConstantFacts DEF Ack
    <2>3. b.ackno <= rcv_nxt' /\ b.ackno + b.wnd <= ann_edge'
      BY <1>3, <1>4, <2>1, <2>2
    <2> QED BY <2>1, <2>2, <2>3 DEF Answers
  <1>8. \A b \in Items(acks) : b \in Old
    BY <1>6 DEF Items
  <1>9. CASE acks' = acks
    <2>1. acks \in Seq(New)
      BY <1>6, <1>7, SeqMonotonic
    <2>2. NetworkOK'
      <3>1. /\ faults \in 0 .. MaxFaults /\ lastack <= snd_wl2 /\ snd_wl2 <= rcv_nxt
            /\ snd_wl2 + snd_wnd <= ann_edge
        BY DEF IInv, NetworkOK
      <3>2. snd_wl2 <= rcv_nxt' /\ snd_wl2 + snd_wnd <= ann_edge'
        BY <1>3, <1>4, <3>1
      <3> QED BY <1>1, <1>5, <1>6, <1>9, <2>1, <3>1, <3>2 DEF NetworkOK
    <2> QED BY <1>2, <2>2 DEF IInv
  <1>10. CASE /\ acks' = Transmit(acks, <<a>>)
              /\ ann_edge' = rcv_nxt' + ann_wnd'
    <2>0. /\ faults \in 0 .. MaxFaults /\ lastack <= snd_wl2 /\ snd_wl2 <= rcv_nxt
          /\ snd_wl2 + snd_wnd <= ann_edge
      BY DEF IInv, NetworkOK
    <2>z. ann_edge' = rcv_nxt' + ann_wnd'
      BY <1>10
    <2>1. a \in New
      <3>1. a \in Ack /\ a.ackno = rcv_nxt' /\ a.wnd = ann_wnd'
        BY <1>4 DEF Ack
      <3>2. Iss <= rcv_nxt' /\ rcv_nxt' <= rcv_nxt' /\ rcv_nxt' + ann_wnd' <= ann_edge'
            /\ snd_wl2 + snd_wnd <= rcv_nxt' + ann_wnd'
        <4>1. Iss <= rcv_nxt
          BY NumbersOf
        <4>2. ann_edge <= ann_edge' /\ rcv_nxt <= rcv_nxt'
          OBVIOUS
        <4>3. Iss <= rcv_nxt' /\ rcv_nxt' <= rcv_nxt'
          BY <1>3, <1>4, <4>1, <4>2
        <4>4. snd_wl2 + snd_wnd <= ann_edge'
          BY <1>3, <1>4, <2>0, <4>2
        <4>5. rcv_nxt' + ann_wnd' <= ann_edge'
          <5>1. ann_edge' \in Nat
            BY <1>4
          <5>2. ann_edge' <= ann_edge'
            BY <5>1
          <5> QED BY <5>2, <2>z
        <4> QED BY <2>z, <4>3, <4>4, <4>5
      <3> HIDE DEF a
      <3> QED BY <3>1, <3>2 DEF Answers
    <2> HIDE DEF a
    <2>2. \A b \in T : b \in New
      BY <1>7, <1>8, <2>1
    <2>3. acks \in Seq(T) /\ <<a>> \in Seq(T)
      <3>1. \A k \in 1 .. Len(acks) : acks[k] \in T
        BY DEF Items
      <3>2. acks \in Seq(T)
        BY <1>6, <3>1, SeqOver
      <3>3. a \in T
        OBVIOUS
      <3> QED BY <3>2, <3>3
    <2>4. acks' \in Seq(T)
      BY <1>10, <2>3, TransmitOver
    <2>5. acks' \in Seq(New)
      BY <2>2, <2>4, SeqMonotonic
    <2>6. Rising(T)
      <3> SUFFICES ASSUME NEW b \in T, NEW c \in T, b.ackno < c.ackno
                   PROVE  b.ackno + b.wnd <= c.ackno + c.wnd
        BY DEF Rising
      <3>0. a.ackno = rcv_nxt' /\ a.wnd = ann_wnd'
        BY DEF a
      <3>1. CASE b = a
        <4>1. c \in New /\ c.ackno <= rcv_nxt'
          BY <2>2 DEF Answers
        <4>2. c.ackno \in Nat
          BY <4>1 DEF Answers, Ack
        <4> QED BY <1>4, <3>0, <3>1, <4>1, <4>2
      <3>2. CASE c = a /\ b /= a
        <4>1. b \in Old /\ b.ackno + b.wnd <= ann_edge /\ b.ackno \in Nat /\ b.wnd \in Nat
          BY <1>7, <1>8, <3>2 DEF Answers
        <4>2. ann_edge <= ann_edge' /\ c.ackno + c.wnd = ann_edge'
          BY <2>z, <3>0, <3>2
        <4>3. b.ackno + b.wnd \in Nat
          BY <4>1
        <4> QED BY <1>3, <1>4, <4>1, <4>2, <4>3
      <3>3. CASE b /= a /\ c /= a
        <4>1. b \in Items(acks) /\ c \in Items(acks)
          BY <3>3
        <4> QED BY <1>6, <4>1 DEF Rising
      <3> QED BY <3>1, <3>2, <3>3
    <2>7. Rising(Items(acks'))
      <3>1. \A k \in 1 .. Len(acks') : acks'[k] \in T
        BY <2>4
      <3>2. \A b \in Items(acks') : b \in T
        BY <3>1 DEF Items
      <3> QED BY <2>6, <3>2 DEF Rising
    <2>8. NetworkOK'
      <3>2. snd_wl2 <= rcv_nxt' /\ snd_wl2 + snd_wnd <= ann_edge'
        BY <1>3, <1>4, <2>0
      <3> QED BY <1>1, <1>5, <2>0, <2>5, <2>7, <3>2 DEF NetworkOK
    <2> QED BY <1>2, <2>8 DEF IInv
  <1> QED BY <1>9, <1>10

\* What is in flight is still in flight, or was.
LEMMA NetworkActs ==
  ASSUME NoWrap, IInv, UNCHANGED <<sender, receiver>>, faults' \in 0 .. MaxFaults,
         net' \in Seq(InFlight(written, Fins, ann_edge, rcv_nxt, Reach)),
         acks' \in Seq(Items(acks))
  PROVE  IInv'
  <1>1. /\ written' = written /\ snd_wl2' = snd_wl2 /\ snd_wnd' = snd_wnd /\ lastack' = lastack
        /\ snd_nxt' = snd_nxt /\ Fins' = Fins /\ Reach' = Reach
        /\ rcv_nxt' = rcv_nxt /\ ann_edge' = ann_edge
    BY DEF sender, receiver, Fins, Reach
  <1>2. SenderOK'
    <2>1. SenderOK
      BY DEF IInv
    <2>2. /\ finQueued' = finQueued /\ unsent' = unsent /\ unacked' = unacked /\ inFR' = inFR
          /\ rtime' = rtime /\ persist' = persist
      BY DEF sender
    <2> QED BY <1>1, <2>1, <2>2 DEF SenderOK
  <1> DEFINE S == Answers(snd_wl2, snd_wnd, ann_edge, rcv_nxt)
  <1>3. acks \in Seq(S) /\ Rising(Items(acks))
    BY DEF IInv, NetworkOK
  <1>4. \A b \in Items(acks) : b \in S
    BY <1>3 DEF Items
  <1>5. acks' \in Seq(S)
    BY <1>4, SeqMonotonic
  <1>6. Rising(Items(acks'))
    <2>1. \A b \in Items(acks') : b \in Items(acks)
      <3>1. \A k \in 1 .. Len(acks') : acks'[k] \in Items(acks)
        OBVIOUS
      <3> QED BY <3>1 DEF Items
    <2> QED BY <1>3, <2>1 DEF Rising
  <1>a. written \in Nat /\ Fins \in 0 .. 1 /\ Reach \in Nat /\ written \in 0 .. Total
    BY NumbersOf
  <1>b. Reach <= Reach /\ written <= written
    BY <1>a
  <1>c. /\ lastack <= snd_wl2 /\ snd_wl2 <= rcv_nxt
        /\ snd_wl2 + snd_wnd <= ann_edge
    BY DEF IInv, NetworkOK
  <1>d. finQueued => finQueued'
    BY DEF sender
  <1> QED BY <1>1, <1>2, <1>5, <1>6, <1>a, <1>b, <1>c, <1>d, SenderActs

-----------------------------------------------------------------------------
(* The steps of the sender that end with tcp_output.                         *)

LEMMA OutputKeeps ==
  ASSUME NoWrap, NEW out, NEW una, NEW timer, NEW cwnd \in Nat, MssLocal <= cwnd,
         Output(out, una, timer, cwnd),
         Sending(out, una, written', Fins', lastack', snd_wnd', snd_nxt)
  PROVE  /\ rtime' \in BOOLEAN /\ (timer => rtime')
         /\ Sending(unsent', unacked', written', Fins', lastack', snd_wnd', snd_nxt')
         /\ snd_nxt <= snd_nxt' /\ snd_nxt \in Nat /\ snd_nxt' \in Nat
         /\ una = <<>> /\ unacked' /= <<>> => rtime'
         /\ \E sent : SentNow(sent, written', Fins', lastack', snd_wnd', snd_nxt')
         /\ finQueued' => lastack' = EndOf(written', Fins') \/ lastack' < snd_nxt'
  <1>1. out \in Seq(Segment)
    BY SendingFacts
  <1>2. Len(out) \in Nat
    BY <1>1
  <1>3. /\ rtime' \in BOOLEAN
        /\ timer => rtime'
        /\ \E c \in 0 .. Len(out) : Sends(out, una, cwnd, c)
    BY <1>2, OutputSends, Zenon
  <1>4. PICK c \in 0 .. Len(out) : Sends(out, una, cwnd, c)
    BY <1>3
  <1>5. /\ Sending(unsent', unacked', written', Fins', lastack', snd_wnd', snd_nxt')
        /\ snd_nxt <= snd_nxt'
        /\ una = <<>> /\ unacked' /= <<>> => rtime'
        /\ \E sent : SentNow(sent, written', Fins', lastack', snd_wnd', snd_nxt')
        /\ c >= 1 => lastack' < snd_nxt'
    BY <1>4, SendsKeeps
  <1>6. /\ snd_nxt \in Nat /\ snd_nxt' \in Nat /\ lastack' \in Nat
    BY <1>5 DEF Sending
  <1>7. ASSUME finQueued'
        PROVE  lastack' = EndOf(written', Fins') \/ lastack' < snd_nxt'
    <2>1. Fins' = 1
      BY <1>7 DEF Fins
    <2>2. \/ lastack' = EndOf(written', Fins')
          \/ lastack' < snd_nxt
          \/ c >= 1
      BY <1>4, <1>7, <2>1, SendsFin
    <2> QED BY <1>5, <1>6, <2>2
  <1>8. timer => rtime'
    BY <1>3, Zenon
  <1> QED BY <1>3, <1>5, <1>6, <1>7, <1>8, Zenon

LEMMA Between3 ==
  ASSUME NEW a \in Nat, NEW b \in Nat, NEW c \in Nat, a <= b, b <= c
  PROVE  a <= c
  OBVIOUS

LEMMA LessPlus ==
  ASSUME NEW a \in Nat, NEW b \in Nat, NEW c \in Nat, NEW d \in Nat, a <= b, b + c <= d
  PROVE  a + c <= d /\ a + c \in Nat
  OBVIOUS

LEMMA ReachOfGrows ==
  ASSUME NEW a \in Nat, NEW n \in Nat, NEW a2 \in Nat, NEW n2 \in Nat,
         a <= n, a2 <= n2, a <= a2, n <= n2
  PROVE  ReachOf(a2, n2) \in Nat /\ ReachOf(a, n) <= ReachOf(a2, n2) /\ n2 <= ReachOf(a2, n2)
  <1>1. ReachOf(a2, n2) \in Nat /\ n2 <= ReachOf(a2, n2) /\ a2 + 1 <= ReachOf(a2, n2)
    BY DEF ReachOf
  <1>2. ReachOf(a, n) = n \/ ReachOf(a, n) = a + 1
    BY DEF ReachOf
  <1>3. CASE ReachOf(a, n) = n
    BY <1>1, <1>3
  <1>4. CASE ReachOf(a, n) = a + 1
    BY <1>1, <1>4
  <1> QED BY <1>1, <1>2, <1>3, <1>4

LEMMA ReachGrows ==
  ASSUME lastack \in Nat, snd_nxt \in Nat, lastack <= snd_nxt,
         lastack' \in Nat, snd_nxt' \in Nat, lastack' <= snd_nxt',
         lastack <= lastack', snd_nxt <= snd_nxt'
  PROVE  Reach' \in Nat /\ Reach <= Reach' /\ snd_nxt' <= Reach'
  <1>1. Reach = ReachOf(lastack, snd_nxt) /\ Reach' = ReachOf(lastack', snd_nxt')
    BY DEF Reach
  <1> QED BY <1>1, ReachOfGrows

LEMMA OutputActs ==
  ASSUME NoWrap, IInv, UNCHANGED receiver, faults' \in 0 .. MaxFaults,
         written' \in 0 .. Total, written <= written', Fins' \in 0 .. 1,
         Fins = 1 => Fins' = 1 /\ written' = written, finQueued => finQueued',
         inFR' \in BOOLEAN, persist' \in BOOLEAN, rtime' \in BOOLEAN, finQueued' \in BOOLEAN,
         snd_wl2' \in Nat, lastack' <= snd_wl2', snd_wl2' <= rcv_nxt,
         snd_wl2' + snd_wnd' <= ann_edge, lastack <= lastack', snd_nxt <= snd_nxt',
         acks' \in Seq(Answers(snd_wl2', snd_wnd', ann_edge, rcv_nxt)), Rising(Items(acks')),
         Sending(unsent', unacked', written', Fins', lastack', snd_wnd', snd_nxt'),
         unacked' /= <<>> => rtime',
         finQueued' => lastack' = EndOf(written', Fins') \/ lastack' < snd_nxt',
         NEW sent, SentNow(sent, written', Fins', lastack', snd_wnd', snd_nxt')
  PROVE  IInv'
  <1>1. /\ lastack' \in Nat /\ snd_nxt' \in Nat /\ lastack' <= snd_nxt'
        /\ snd_wnd' \in 0 .. TcpWnd
    BY DEF Sending
  <1>2. /\ written \in Nat /\ written \in 0 .. Total /\ Fins \in 0 .. 1 /\ lastack \in Nat
        /\ snd_nxt \in Nat /\ lastack <= snd_nxt
        /\ ann_edge \in Nat /\ rcv_nxt \in Nat /\ Reach \in Nat
    BY NumbersOf
  <1>3. Reach' \in Nat /\ Reach <= Reach' /\ snd_nxt' <= Reach'
    BY <1>1, <1>2, ReachGrows
  <1>4. written' \in Nat /\ snd_wnd' \in Nat
    BY <1>1, ConstantFacts
  <1>9. lastack' + snd_wnd' <= ann_edge /\ lastack' + snd_wnd' \in Nat /\ ann_edge \in Nat
    <2>1. lastack' \in Nat /\ snd_wl2' \in Nat /\ snd_wnd' \in Nat /\ ann_edge \in Nat
      BY <1>1, <1>2, <1>4
    <2>2. lastack' <= snd_wl2' /\ snd_wl2' + snd_wnd' <= ann_edge
      OBVIOUS
    <2> QED BY <2>1, <2>2, LessPlus
  <1> DEFINE Old == InFlight(written, Fins, ann_edge, rcv_nxt, Reach)
             New == InFlight(written', Fins', ann_edge, rcv_nxt, Reach')
  <1>5. net \in Seq(New)
    <2>1. Old \subseteq New
      <3> SUFFICES ASSUME NEW s \in Old PROVE s \in New
        OBVIOUS
      <3>1. /\ s \in Segment /\ Piece(s, written, Fins) /\ Stop(s) <= Reach
            /\ Stop(s) <= ann_edge \/ (TcpLen(s) = 1 /\ s.seq <= rcv_nxt)
        BY DEF InFlight
      <3>2. Stop(s) \in Nat
        BY <3>1, SegmentFacts
      <3>3. Piece(s, written', Fins')
        BY <1>2, <1>4, <3>1, PieceStays
      <3>4. Stop(s) <= Reach'
        BY <1>2, <1>3, <3>1, <3>2
      <3> QED BY <3>1, <3>3, <3>4 DEF InFlight
    <2>2. net \in Seq(Old)
      BY DEF IInv, NetworkOK
    <2> QED BY <2>1, <2>2, SeqMonotonic
  <1>6. sent \in Seq(New) /\ net' = Transmit(net, sent)
    <2>1. /\ sent \in Seq(Segment) /\ net' = Transmit(net, sent)
          /\ \A k \in 1 .. Len(sent) : /\ Piece(sent[k], written', Fins')
                                       /\ Stop(sent[k]) <= snd_nxt'
                                       /\ Stop(sent[k]) <= lastack' + snd_wnd'
      BY DEF SentNow
    <2>2. ASSUME NEW k \in 1 .. Len(sent) PROVE sent[k] \in New
      <3>1. sent[k] \in Segment
        BY <2>1
      <3>2. Stop(sent[k]) \in Nat
        BY <3>1, SegmentFacts
      <3>3. Stop(sent[k]) <= Reach'
        BY <1>1, <1>3, <2>1, <3>2, SMTT(30)
      <3>4. Stop(sent[k]) <= ann_edge
        <4>1. Stop(sent[k]) <= lastack' + snd_wnd'
          BY <2>1
        <4> QED BY <1>9, <3>2, <4>1, Between3
      <3> QED BY <2>1, <3>1, <3>3, <3>4 DEF InFlight
    <2> QED BY <2>1, <2>2, SeqOver
  <1>7. net' \in Seq(New)
    BY <1>5, <1>6, TransmitOver
  <1>8. SenderOK'
    BY DEF SenderOK
  <1> QED BY <1>1, <1>3, <1>7, <1>8, SenderActs

LEMMA CwndOf ==
  ASSUME NEW cwnd \in Cwnd
  PROVE  cwnd \in Nat /\ MssLocal <= cwnd
  BY MssLocalOf, ConstantFacts DEF Cwnd

LEMMA FinsOf ==
  ASSUME finQueued \in BOOLEAN, finQueued' \in BOOLEAN
  PROVE  /\ Fins \in 0 .. 1 /\ Fins' \in 0 .. 1
         /\ (finQueued' <=> finQueued) => Fins' = Fins
         /\ finQueued' => Fins' = 1
         /\ finQueued => Fins = 1
         /\ ~finQueued => Fins = 0
         /\ ~finQueued' => Fins' = 0
  BY DEF Fins

\* A step that sends, and neither gets nor writes anything.
LEMMA SendStep ==
  ASSUME NoWrap, IInv, UNCHANGED receiver, faults' \in 0 .. MaxFaults, acks' = acks,
         UNCHANGED <<written, lastack, snd_wnd, snd_wl2, inFR, persist>>,
         finQueued' \in BOOLEAN, finQueued => finQueued',
         NEW out, NEW una, NEW timer, NEW cwnd \in Nat, MssLocal <= cwnd,
         Output(out, una, timer, cwnd),
         Sending(out, una, written, Fins', lastack, snd_wnd, snd_nxt),
         una = <<>> \/ timer
  PROVE  IInv'
  <1>0. /\ written' = written /\ lastack' = lastack /\ snd_wnd' = snd_wnd /\ snd_wl2' = snd_wl2
        /\ (inFR' <=> inFR) /\ (persist' <=> persist)
    OBVIOUS
  <1>1. Sending(out, una, written', Fins', lastack', snd_wnd', snd_nxt)
    BY <1>0
  <1>2. /\ rtime' \in BOOLEAN /\ (timer => rtime')
        /\ Sending(unsent', unacked', written', Fins', lastack', snd_wnd', snd_nxt')
        /\ snd_nxt <= snd_nxt'
        /\ una = <<>> /\ unacked' /= <<>> => rtime'
        /\ \E sent : SentNow(sent, written', Fins', lastack', snd_wnd', snd_nxt')
        /\ finQueued' => lastack' = EndOf(written', Fins') \/ lastack' < snd_nxt'
    BY <1>1, OutputKeeps, Zenon
  <1>3. unacked' /= <<>> => rtime'
    BY <1>2, Zenon
  <1>4. PICK sent : SentNow(sent, written', Fins', lastack', snd_wnd', snd_nxt')
    BY <1>2
  <1>5. /\ Fins' \in 0 .. 1 /\ (Fins = 1 => Fins' = 1)
    <2>1. finQueued \in BOOLEAN
      BY DEF IInv, SenderOK
    <2> QED BY <2>1, FinsOf
  <1>6. /\ written \in 0 .. Total /\ written \in Nat /\ snd_wl2 \in Nat /\ lastack \in Nat
    BY NumbersOf
  <1>7. /\ lastack <= snd_wl2 /\ snd_wl2 <= rcv_nxt /\ snd_wl2 + snd_wnd <= ann_edge
        /\ acks \in Seq(Answers(snd_wl2, snd_wnd, ann_edge, rcv_nxt)) /\ Rising(Items(acks))
    BY DEF IInv, NetworkOK
  <1>8. inFR' \in BOOLEAN /\ persist' \in BOOLEAN
    BY <1>0 DEF IInv, SenderOK
  <1>9. lastack <= lastack' /\ written <= written' /\ written' = written
    BY <1>0, <1>6
  <1> QED BY <1>0, <1>2, <1>3, <1>4, <1>5, <1>6, <1>7, <1>8, <1>9, OutputActs, Zenon

LEMMA PollKeeps ==
  ASSUME NoWrap, IInv, Poll
  PROVE  IInv'
  <1>1. PICK cwnd \in Cwnd : Output(unsent, unacked, rtime, cwnd)
    BY DEF Poll
  <1>2. /\ UNCHANGED <<written, lastack, snd_wnd, snd_wl2, inFR, persist>>
        /\ finQueued' = finQueued /\ UNCHANGED receiver /\ acks' = acks /\ faults' = faults
    BY DEF Poll
  <1>3. /\ finQueued \in BOOLEAN /\ (unacked /= <<>> => rtime)
        /\ Sending(unsent, unacked, written, Fins, lastack, snd_wnd, snd_nxt)
        /\ faults \in 0 .. MaxFaults
    BY DEF IInv, SenderOK, NetworkOK
  <1>4. Fins' = Fins
    BY <1>2 DEF Fins
  <1>5. finQueued' \in BOOLEAN /\ (finQueued => finQueued') /\ faults' \in 0 .. MaxFaults
    BY <1>2, <1>3
  <1>6. cwnd \in Nat /\ MssLocal <= cwnd
    BY CwndOf
  <1> QED BY <1>1, <1>2, <1>3, <1>4, <1>5, <1>6, SendStep, Zenon

\* tcp_rexmit_rto: all that is unacknowledged is to be sent again.
LEMMA SendingBack ==
  ASSUME NoWrap, NEW out, NEW una, NEW w, NEW e, NEW la, NEW wnd, NEW nxt,
         Sending(out, una, w, e, la, wnd, nxt)
  PROVE  Sending(una \o out, <<>>, w, e, la, wnd, nxt)
  <1> DEFINE E == EndOf(w, e)
             u == una \o out
  <1>1. /\ w \in 0 .. Total /\ e \in 0 .. 1 /\ la \in Nat /\ wnd \in 0 .. TcpWnd /\ nxt \in Nat
        /\ Iss <= la /\ la <= nxt /\ nxt <= E /\ nxt <= la + wnd
        /\ e = 1 => E <= la + wnd
        /\ \A k \in 1 .. Len(una) : la < Stop(una[k]) /\ Len(una[k].data) <= MssLocal
        /\ \A k \in 1 .. Len(out) : la < Stop(out[k]) /\ Len(out[k].data) <= MssLocal
    BY DEF Sending
  <1>2. PICK a \in Iss .. E, m \in Iss .. E :
          a <= la /\ Chain(una, a, m, w, e) /\ Chain(out, m, E, w, e)
    BY DEF Sending
  <1>3. E \in Nat /\ a \in Nat /\ m \in Nat /\ una \in Seq(Segment) /\ out \in Seq(Segment)
    BY <1>1, <1>2, SendingFacts, ConstantFacts
  <1>4. Chain(u, a, E, w, e)
    BY <1>1, <1>2, <1>3, ChainJoin
  <1>5. Chain(<<>>, a, a, w, e)
    BY ChainEmpty
  <1>6. ASSUME NEW k \in 1 .. Len(u)
        PROVE  la < Stop(u[k]) /\ Len(u[k].data) <= MssLocal
    <2>1. /\ Len(u) = Len(una) + Len(out) /\ Len(una) \in Nat /\ Len(out) \in Nat
          /\ \A i \in 1 .. Len(una) + Len(out) :
                u[i] = IF i <= Len(una) THEN una[i] ELSE out[i - Len(una)]
      BY <1>3, ConcatProperties
    <2> HIDE DEF u
    <2>2. CASE k <= Len(una)
      <3>1. k \in 1 .. Len(una) /\ u[k] = una[k]
        BY <2>1, <2>2
      <3> QED BY <1>1, <3>1
    <2>3. CASE ~(k <= Len(una))
      <3>1. k - Len(una) \in 1 .. Len(out) /\ u[k] = out[k - Len(una)]
        BY <2>1, <2>3
      <3> QED BY <1>1, <3>1
    <2> QED BY <2>2, <2>3
  <1>7. \A k \in 1 .. Len(<<>>) : FALSE
    OBVIOUS
  <1> HIDE DEF u, E
  <1>8. \E x, y \in Iss .. E : x <= la /\ Chain(<<>>, x, y, w, e) /\ Chain(u, y, E, w, e)
    BY <1>2, <1>4, <1>5
  <1> QED BY <1>1, <1>6, <1>7, <1>8 DEF Sending, u, E

LEMMA ExpiresFaults ==
  ASSUME faults \in 0 .. MaxFaults, Expires
  PROVE  faults' \in 0 .. MaxFaults
  BY ConstantFacts DEF Expires

LEMMA RetransmitTimeoutKeeps ==
  ASSUME NoWrap, IInv, RetransmitTimeout
  PROVE  IInv'
  <1>1. Output(unacked \o unsent, <<>>, rtime, Mss)
    BY DEF RetransmitTimeout
  <1>2. /\ UNCHANGED <<written, lastack, snd_wnd, snd_wl2, inFR, persist>>
        /\ finQueued' = finQueued /\ UNCHANGED receiver /\ acks' = acks /\ Expires
    BY DEF RetransmitTimeout
  <1>3. /\ finQueued \in BOOLEAN
        /\ Sending(unsent, unacked, written, Fins, lastack, snd_wnd, snd_nxt)
        /\ faults \in 0 .. MaxFaults
    BY DEF IInv, SenderOK, NetworkOK
  <1>4. Fins' = Fins
    BY <1>2 DEF Fins
  <1>5. finQueued' \in BOOLEAN /\ (finQueued => finQueued')
    BY <1>2, <1>3
  <1>6. faults' \in 0 .. MaxFaults
    BY <1>2, <1>3, ExpiresFaults
  <1>7. Mss \in Nat /\ MssLocal <= Mss
    BY ConstantFacts, MssLocalOf
  <1>8. Sending(unacked \o unsent, <<>>, written, Fins', lastack, snd_wnd, snd_nxt)
    BY <1>3, <1>4, SendingBack
  <1> QED BY <1>1, <1>2, <1>5, <1>6, <1>7, <1>8, SendStep, Zenon

LEMMA ZeroWindowProbeKeeps ==
  ASSUME NoWrap, IInv, ZeroWindowProbe
  PROVE  IInv'
  <1> DEFINE q == unacked \o unsent
             s == Head(q)
             E == EndOf(written, Fins)
             S == InFlight(written, Fins, ann_edge, rcv_nxt, Reach)
             probe == IF s.data = <<>> THEN s ELSE Seg(s.seq, <<s.data[1]>>, FALSE)
  <1>1. /\ q /= <<>> /\ Expires /\ UNCHANGED <<sender, receiver>> /\ acks' = acks
        /\ net' = Transmit(net, <<probe>>)
    BY DEF ZeroWindowProbe
  <1>2. /\ Sending(unsent, unacked, written, Fins, lastack, snd_wnd, snd_nxt)
        /\ faults \in 0 .. MaxFaults /\ net \in Seq(S) /\ lastack <= snd_wl2 /\ snd_wl2 <= rcv_nxt
    BY DEF IInv, SenderOK, NetworkOK
  <1>3. /\ written \in 0 .. Total /\ Fins \in 0 .. 1 /\ lastack \in Nat /\ lastack < Reach
        /\ rcv_nxt \in Nat /\ snd_wl2 \in Nat /\ Reach \in Nat /\ E \in Nat
    <2>1. /\ written \in 0 .. Total /\ Fins \in 0 .. 1 /\ lastack \in Nat /\ lastack < Reach
          /\ rcv_nxt \in Nat /\ snd_wl2 \in Nat /\ Reach \in Nat
      BY NumbersOf
    <2> QED BY <1>2, <2>1, SendingFacts
  <1>4. PICK a \in Iss .. E, m \in Iss .. E :
          a <= lastack /\ Chain(unacked, a, m, written, Fins)
          /\ Chain(unsent, m, E, written, Fins)
    BY <1>2 DEF Sending
  <1>5. a \in Nat /\ m \in Nat
    BY <1>3, <1>4, ConstantFacts
  <1>6. Chain(q, a, E, written, Fins)
    BY <1>3, <1>4, <1>5, ChainJoin
  <1> HIDE DEF q, E
  <1>7. Piece(s, written, Fins) /\ s.seq = a
    <2>1. q \in Seq(Segment)
      BY <1>6 DEF Chain
    <2>2. 1 \in 1 .. Len(q) /\ Head(q) = q[1]
      BY <1>1, <2>1
    <2> QED BY <1>6, <2>2 DEF Chain
  <1> HIDE DEF s
  <1>8. /\ Piece(probe, written, Fins) /\ probe.seq = a /\ TcpLen(probe) = 1
        /\ Stop(probe) = a + 1
    <2>1. CASE s.data = <<>>
      <3>1. probe = s
        BY <2>1
      <3>2. Len(s.data) = 0
        BY <2>1
      <3>3. s.fin
        BY <1>7, <3>2 DEF Piece
      <3>4. /\ TcpLen(s) = Len(s.data) + 1 /\ Stop(s) = s.seq + TcpLen(s)
        BY <1>3, <1>7, <3>3, PieceFacts
      <3>5. TcpLen(s) = 1 /\ Stop(s) = a + 1
        BY <1>7, <3>2, <3>4
      <3> HIDE DEF probe
      <3> QED BY <1>7, <3>1, <3>5
    <2>2. CASE s.data /= <<>>
      <3>1. probe = Seg(s.seq, <<s.data[1]>>, FALSE)
        BY <2>2
      <3>2. \E t \in {Seg(s.seq, <<s.data[1]>>, FALSE)} :
              /\ Piece(t, written, Fins)
              /\ t.seq = s.seq /\ TcpLen(t) = 1 /\ Stop(t) = s.seq + 1
        BY <1>3, <1>7, <2>2, FirstBytePiece
      <3> HIDE DEF probe
      <3>3. \E t \in {probe} :
              /\ Piece(t, written, Fins)
              /\ t.seq = s.seq /\ TcpLen(t) = 1 /\ Stop(t) = s.seq + 1
        BY <3>1, <3>2, Zenon
      <3> QED BY <1>7, <3>3
    <2> QED BY <2>1, <2>2
  <1> HIDE DEF probe
  <1>9. <<probe>> \in Seq(S)
    <2>1. probe \in Segment
      BY <1>8 DEF Piece
    <2>2. a <= rcv_nxt /\ a + 1 <= Reach
      BY <1>2, <1>3, <1>4, <1>5
    <2>3. probe \in S
      BY <1>8, <2>1, <2>2 DEF InFlight
    <2> QED BY <2>3
  <1>10. net' \in Seq(S)
    BY <1>1, <1>2, <1>9, TransmitOver
  <1>11. acks' \in Seq(Items(acks))
    <2>1. acks \in Seq(Answers(snd_wl2, snd_wnd, ann_edge, rcv_nxt))
      BY DEF IInv, NetworkOK
    <2>2. \A k \in 1 .. Len(acks) : acks[k] \in Items(acks)
      BY DEF Items
    <2>3. acks \in Seq(Items(acks))
      BY <2>1, <2>2, SeqOver
    <2> QED BY <1>1, <2>3
  <1>12. faults' \in 0 .. MaxFaults
    BY <1>1, <1>2, ExpiresFaults
  <1> QED BY <1>1, <1>10, <1>11, <1>12, NetworkActs

LEMMA NetworkFaultKeeps ==
  ASSUME NoWrap, IInv, NetworkFault
  PROVE  IInv'
  <1> DEFINE S == InFlight(written, Fins, ann_edge, rcv_nxt, Reach)
  <1>1. /\ UNCHANGED <<sender, receiver>> /\ faults' = faults + 1 /\ faults < MaxFaults
        /\ \/ Faulty(net, net') /\ acks' = acks
           \/ Faulty(acks, acks') /\ net' = net
    BY DEF NetworkFault
  <1>2. faults \in 0 .. MaxFaults /\ net \in Seq(S)
    BY DEF IInv, NetworkOK
  <1>3. faults' \in 0 .. MaxFaults
    BY <1>1, <1>2, ConstantFacts
  <1>4. acks \in Seq(Items(acks))
    <2>1. acks \in Seq(Answers(snd_wl2, snd_wnd, ann_edge, rcv_nxt))
      BY DEF IInv, NetworkOK
    <2>2. \A k \in 1 .. Len(acks) : acks[k] \in Items(acks)
      BY DEF Items
    <2> QED BY <2>1, <2>2, SeqOver
  <1>5. net' \in Seq(S) /\ acks' \in Seq(Items(acks))
    BY <1>1, <1>2, <1>4, FaultyOver
  <1> QED BY <1>1, <1>3, <1>5, NetworkActs

\* The segments of the queues of a sender that has la acknowledged.
Waiting(la) == {s \in Segment : la < Stop(s) /\ Len(s.data) <= MssLocal}

\* The queue q goes on where out did, to the end of what is written.
GoesOn(out, end, q, w, e) ==
  \A m \in Nat : Chain(out, m, end, w, e) => Chain(q, m, EndOf(w, e), w, e)

\* How a queue that begins where the unacknowledged one ends makes a sender.
LEMMA SendingOf ==
  ASSUME NoWrap, NEW out, NEW una, NEW w \in 0 .. Total, NEW e \in 0 .. 1,
         NEW w2 \in 0 .. Total, NEW e2 \in 0 .. 1, NEW la, NEW wnd, NEW nxt,
         w <= w2, e = 1 => e2 = 1 /\ w2 = w, Sending(out, una, w, e, la, wnd, nxt),
         e2 = 1 => EndOf(w2, e2) <= la + wnd,
         NEW q, q \in Seq(Waiting(la)), GoesOn(out, EndOf(w, e), q, w2, e2)
  PROVE  Sending(q, una, w2, e2, la, wnd, nxt)
  <1>1. /\ la \in Nat /\ wnd \in 0 .. TcpWnd /\ nxt \in Nat
        /\ Iss <= la /\ la <= nxt /\ nxt <= EndOf(w, e) /\ nxt <= la + wnd
        /\ \A k \in 1 .. Len(una) :
              la < Stop(una[k]) /\ Stop(una[k]) <= nxt /\ Len(una[k].data) <= MssLocal
    BY DEF Sending
  <1>2. PICK a \in Iss .. EndOf(w, e), m \in Iss .. EndOf(w, e) :
          a <= la /\ Chain(una, a, m, w, e) /\ Chain(out, m, EndOf(w, e), w, e)
    BY DEF Sending
  <1>3. /\ EndOf(w, e) \in Nat /\ EndOf(w2, e2) \in Nat /\ EndOf(w, e) <= EndOf(w2, e2)
        /\ w \in Nat /\ w2 \in Nat
    BY ConstantFacts DEF EndOf
  <1>4. Chain(una, a, m, w2, e2) /\ Chain(out, m, EndOf(w, e), w2, e2)
    BY <1>2, <1>3, ChainStays
  <1>5. m \in Nat
    BY <1>2, <1>3, ConstantFacts
  <1>6. Chain(q, m, EndOf(w2, e2), w2, e2)
    BY <1>4, <1>5 DEF GoesOn
  <1>7. a \in Iss .. EndOf(w2, e2) /\ m \in Iss .. EndOf(w2, e2)
    BY <1>2, <1>3, ConstantFacts
  <1>8. \A k \in 1 .. Len(q) : la < Stop(q[k]) /\ Len(q[k].data) <= MssLocal
    <2> SUFFICES ASSUME NEW k \in 1 .. Len(q)
                 PROVE  la < Stop(q[k]) /\ Len(q[k].data) <= MssLocal
      OBVIOUS
    <2>1. q[k] \in Waiting(la)
      OBVIOUS
    <2> QED BY <2>1 DEF Waiting
  <1>9. nxt <= EndOf(w2, e2)
    BY <1>1, <1>3
  <1>10. \E x, y \in Iss .. EndOf(w2, e2) :
           x <= la /\ Chain(una, x, y, w2, e2) /\ Chain(q, y, EndOf(w2, e2), w2, e2)
    BY <1>2, <1>4, <1>6, <1>7
  <1> QED BY <1>1, <1>8, <1>9, <1>10 DEF Sending

LEMMA WaitingOut ==
  ASSUME NEW out, NEW una, NEW w, NEW e, NEW la, NEW wnd, NEW nxt, NoWrap,
         Sending(out, una, w, e, la, wnd, nxt)
  PROVE  out \in Seq(Waiting(la))
  <1>1. out \in Seq(Segment) /\ \A k \in 1 .. Len(out) : la < Stop(out[k]) /\ Len(out[k].data) <= MssLocal
    BY SendingFacts DEF Sending
  <1>2. \A k \in 1 .. Len(out) : out[k] \in Waiting(la)
    BY <1>1 DEF Waiting
  <1> QED BY <1>1, <1>2, SeqOver

\* tcp_send_fin: the FIN is the last piece of the queue, or joins it.
LEMMA SendFinChain ==
  ASSUME NoWrap, NEW q \in Seq(Segment), NEW w \in 0 .. Total, NEW m \in Nat,
         SndLbb = Iss + w, Chain(q, m, EndOf(w, 0), w, 1), NEW la \in Nat, la <= Iss + w,
         \A k \in 1 .. Len(q) : ~q[k].fin, q \in Seq(Waiting(la))
  PROVE  Chain(SendFin(q), m, EndOf(w, 1), w, 1) /\ SendFin(q) \in Seq(Waiting(la))
  <1> DEFINE E == Iss + w
             n == Len(q)
  <1>0. /\ EndOf(w, 0) = E /\ EndOf(w, 1) = E + 1 /\ w \in Nat /\ E \in Nat /\ Iss \in Nat
        /\ MssLocal \in Nat /\ 1 \in 0 .. 1 /\ n \in Nat
    BY ConstantFacts, MssLocalOf DEF EndOf
  <1> HIDE DEF E
  <1>1. CASE q = <<>>
    <2> DEFINE t == Seg(SndLbb, <<>>, TRUE)
    <2>1. m = E
      BY <1>0, <1>1 DEF Chain
    <2>2. t \in Segment /\ t.seq = E /\ Len(t.data) = 0 /\ t.fin
      BY <1>0 DEF Segment, Seg, E
    <2>3. SendFin(q) = <<t>>
      BY <1>1 DEF SendFin
    <2> HIDE DEF t
    <2>4. DataStop(t) = E /\ Stop(t) = E + 1
      BY <1>0, <2>2, SegmentFacts, SMTT(30)
    <2>5. Piece(t, w, 1)
      <3>1. \A i \in 1 .. Len(t.data) : FALSE
        BY <2>2
      <3>2. Iss <= E /\ E <= Iss + w /\ E = Iss + w
        BY <1>0 DEF E
      <3> QED BY <2>2, <2>4, <3>1, <3>2 DEF Piece
    <2>6. Chain(<<t>>, t.seq, Stop(t), w, 1)
      BY <2>5, ChainOne
    <2>7. t \in Waiting(la)
      BY <1>0, <2>2, <2>4 DEF Waiting, E
    <2> QED BY <1>0, <2>1, <2>2, <2>3, <2>4, <2>6, <2>7
  <1>2. CASE q /= <<>>
    <2> DEFINE p == SubSeq(q, 1, n - 1)
               s == q[n]
               t == [s EXCEPT !.fin = TRUE]
               c == Cut(q, m, n - 1)
    <2>0. n \in 1 .. Len(q) /\ n - 1 \in 0 .. Len(q)
      BY <1>0, <1>2
    <2>1. SendFin(q) = Append(p, t)
      BY <1>2 DEF SendFin, Front, Last
    <2>2. Chain(p, m, c, w, 1) /\ c \in Nat
      BY <1>0, <2>0, ChainSplit
    <2>3. Piece(s, w, 1) /\ s.seq = c /\ Stop(s) = E
      <3>1. Piece(s, w, 1) /\ s.seq = IF n = 1 THEN m ELSE Stop(q[n - 1])
        BY <2>0 DEF Chain
      <3>2. c = IF n - 1 = 0 THEN m ELSE Stop(q[n - 1])
        BY DEF Cut
      <3>3. Stop(s) = E
        BY <1>0, <1>2 DEF Chain
      <3> QED BY <1>0, <3>1, <3>2, <3>3
    <2>4. ~s.fin
      BY <2>0
    <2>5. s \in Waiting(la)
      BY <2>0
    <2> HIDE DEF p, c, s
    <2>6. DataStop(s) = E /\ s \in Segment
      BY <1>0, <2>3, <2>4, PieceFacts
    <2>7. /\ Piece(t, w, 1) /\ t.seq = s.seq /\ t.data = s.data /\ Stop(t) = DataStop(s) + 1
      BY <2>3, <2>6, SetFinPiece DEF E
    <2> HIDE DEF t
    <2>8. Chain(<<t>>, c, E + 1, w, 1)
      <3>1. Chain(<<t>>, t.seq, Stop(t), w, 1)
        BY <2>7, ChainOne
      <3> QED BY <2>3, <2>6, <2>7, <3>1
    <2>9. Chain(p \o <<t>>, m, E + 1, w, 1)
      BY <1>0, <2>2, <2>8, ChainJoin
    <2>10. t \in Segment
      BY <2>7 DEF Piece
    <2>11. t \in Waiting(la)
      <3>1. Len(t.data) <= MssLocal
        BY <2>5, <2>7 DEF Waiting
      <3>2. la < Stop(t)
        BY <1>0, <2>6, <2>7 DEF E
      <3> QED BY <2>10, <3>1, <3>2 DEF Waiting
    <2>12. p \in Seq(Waiting(la)) /\ p \in Seq(Segment)
      BY <2>0, SubSeqOf DEF p
    <2>13. Append(p, t) = p \o <<t>> /\ Append(p, t) \in Seq(Waiting(la))
      BY <2>11, <2>12, AppendIsConcat, AppendProperties
    <2> QED BY <1>0, <2>1, <2>9, <2>13
  <1> QED BY <1>1, <1>2

LEMMA CloseKeeps ==
  ASSUME NoWrap, IInv, Close
  PROVE  IInv'
  <1>1. PICK cwnd \in Cwnd : Output(SendFin(unsent), unacked, rtime, cwnd)
    BY DEF Close
  <1>2. /\ UNCHANGED <<written, lastack, snd_wnd, snd_wl2, inFR, persist>> /\ ~finQueued
        /\ finQueued' /\ (finQueued' <=> TRUE) /\ UNCHANGED receiver /\ acks' = acks /\ faults' = faults
        /\ Minus(SndLbb, lastack) < snd_wnd /\ finQueued' \in BOOLEAN
    BY DEF Close, NoWrap
  <1>3. /\ finQueued \in BOOLEAN /\ (unacked /= <<>> => rtime)
        /\ Sending(unsent, unacked, written, Fins, lastack, snd_wnd, snd_nxt)
        /\ faults \in 0 .. MaxFaults
    BY DEF IInv, SenderOK, NetworkOK
  <1>4. Fins = 0 /\ Fins' = 1
    BY <1>2 DEF Fins
  <1>5. /\ written \in 0 .. Total /\ written \in Nat /\ lastack \in Nat /\ lastack \in Span
        /\ snd_wnd \in 0 .. TcpWnd /\ unsent \in Seq(Segment)
        /\ EndOf(written, 0) = Iss + written /\ lastack <= Iss + written
        /\ EndOf(written, 1) = Iss + written + 1 /\ Iss \in Nat /\ Iss + written \in Nat
    <2>1. /\ written \in 0 .. Total /\ lastack \in Nat /\ lastack \in Span
          /\ snd_wnd \in 0 .. TcpWnd /\ unsent \in Seq(Segment)
          /\ snd_nxt \in Nat /\ lastack <= snd_nxt /\ snd_nxt <= EndOf(written, 0)
      BY <1>3, <1>4, SendingFacts
    <2>2. Iss \in Nat /\ written \in Nat
      BY <2>1, ConstantFacts
    <2>3. EndOf(written, 0) = Iss + written /\ EndOf(written, 1) = Iss + written + 1
      BY <2>2 DEF EndOf
    <2>4. lastack <= Iss + written /\ Iss + written \in Nat
      BY <2>1, <2>2, <2>3
    <2> QED BY <2>1, <2>2, <2>3, <2>4
  <1>6. SndLbb = Iss + written /\ SndLbb \in Span
    <2>1. Iss + written < M /\ Iss + written \in Span
      BY <1>5, ConstantFacts DEF NoWrap, Span
    <2>2. Plus(Iss, written) = Iss + written
      BY <1>5, <2>1, PlusOf
    <2> QED BY <2>1, <2>2 DEF SndLbb
  <1>7. Iss + written - lastack < snd_wnd
    <2>1. Minus(SndLbb, lastack) = SndLbb - lastack
      BY <1>5, <1>6, SpanCompare
    <2>2. Minus(SndLbb, lastack) < snd_wnd
      BY <1>2
    <2>3. SndLbb - lastack = Iss + written - lastack
      BY <1>5, <1>6
    <2> QED BY <2>1, <2>2, <2>3
  <1>8. GoesOn(unsent, EndOf(written, 0), SendFin(unsent), written, 1)
    <2> SUFFICES ASSUME NEW m \in Nat, Chain(unsent, m, EndOf(written, 0), written, 1)
                 PROVE  Chain(SendFin(unsent), m, EndOf(written, 1), written, 1)
      BY DEF GoesOn
    <2>1. unsent \in Seq(Waiting(lastack))
      BY <1>3, WaitingOut
    <2>2. \A k \in 1 .. Len(unsent) : ~unsent[k].fin
      BY <1>3, <1>4, SendingFacts DEF Piece
    <2> QED BY <1>5, <1>6, <2>1, <2>2, SendFinChain
  <1>9. SendFin(unsent) \in Seq(Waiting(lastack))
    <2>1. unsent \in Seq(Waiting(lastack))
      BY <1>3, WaitingOut
    <2>2. \A k \in 1 .. Len(unsent) : ~unsent[k].fin
      BY <1>3, <1>4, SendingFacts, SMTT(30) DEF Piece
    <2>3. PICK m \in Iss .. EndOf(written, 0) : Chain(unsent, m, EndOf(written, 0), written, 0)
      BY <1>3, <1>4 DEF Sending
    <2>4. m \in Nat
      BY <1>5, <2>3
    <2>5. Chain(unsent, m, EndOf(written, 0), written, 1)
      BY <1>5, <2>3, ChainStays
    <2> QED BY <1>5, <1>6, <2>1, <2>2, <2>4, <2>5, SendFinChain
  <1>10. EndOf(written, 1) <= lastack + snd_wnd
    BY <1>5, <1>7, ConstantFacts
  <1>11. Sending(SendFin(unsent), unacked, written, Fins', lastack, snd_wnd, snd_nxt)
    <2>1. Sending(unsent, unacked, written, 0, lastack, snd_wnd, snd_nxt)
      BY <1>3, <1>4
    <2>2. written <= written
      BY <1>5
    <2>3. Sending(SendFin(unsent), unacked, written, 1, lastack, snd_wnd, snd_nxt)
      BY <1>5, <1>8, <1>9, <1>10, <2>1, <2>2, SendingOf
    <2> QED BY <1>4, <2>3
  <1>12. cwnd \in Nat /\ MssLocal <= cwnd
    BY CwndOf
  <1>13. faults' \in 0 .. MaxFaults
    BY <1>2, <1>3
  <1> QED BY <1>1, <1>2, <1>3, <1>11, <1>12, <1>13, SendStep, Zenon

-----------------------------------------------------------------------------
(* tcp_write.                                                               *)

LEMMA DivOf ==
  ASSUME NEW a \in Nat, NEW L \in Nat, L > 0
  PROVE  a \div L \in Nat /\ (a \div L) * L <= a /\ a < (a \div L) * L + L
  OBVIOUS

LEMMA TimesGrows ==
  ASSUME NEW i \in Nat, NEW j \in Nat, NEW L \in Nat, i <= j
  PROVE  i * L <= j * L /\ i * L \in Nat /\ j * L \in Nat
  OBVIOUS

LEMMA TimesOne ==
  ASSUME NEW i \in Nat, NEW L \in Nat
  PROVE  (i + 1) * L = i * L + L
  OBVIOUS

\* How many segments of length L hold n bytes, and where they start.
LEMMA CountOf ==
  ASSUME NEW L \in Nat, L > 0, NEW n \in Nat, NEW c, c = (n - 1 + L) \div L
  PROVE  /\ c \in Nat
         /\ \A k \in 1 .. c : (k - 1) * L \in Nat /\ (k - 1) * L < n
         /\ \A k \in 1 .. c : k < c => k * L = (k - 1) * L + L /\ k * L < n
         /\ c > 0 => n <= (c - 1) * L + L
         /\ c = 0 <=> n = 0
  <1> DEFINE a == n - 1 + L
  <1>1. a \in Nat
    OBVIOUS
  <1>2. c \in Nat /\ c * L <= a /\ a < c * L + L /\ c * L \in Nat
    <2>1. c = a \div L
      OBVIOUS
    <2> HIDE DEF a
    <2>2. c \in Nat /\ c * L <= a /\ a < c * L + L
      BY <1>1, <2>1, DivOf
    <2> QED BY <2>2, TimesGrows
  <1>3. n <= c * L
    BY <1>2
  <1>4. ASSUME NEW k \in Nat, k + 1 <= c
        PROVE  k * L \in Nat /\ k * L < n
    <2>1. (k + 1) * L <= c * L /\ (k + 1) * L = k * L + L /\ k * L \in Nat
      BY <1>2, <1>4, TimesGrows, TimesOne
    <2>2. k * L + L <= n - 1 + L
      BY <1>2, <2>1
    <2> QED BY <2>1, <2>2
  <1>5. ASSUME NEW k \in 1 .. c
        PROVE  (k - 1) * L \in Nat /\ (k - 1) * L < n
    <2>1. k - 1 \in Nat /\ (k - 1) + 1 <= c
      BY <1>2
    <2> QED BY <1>4, <2>1
  <1>6. ASSUME NEW k \in 1 .. c
        PROVE  k * L = (k - 1) * L + L
    <2>1. k - 1 \in Nat /\ (k - 1) + 1 = k
      BY <1>2
    <2> QED BY <2>1, TimesOne
  <1>7. ASSUME NEW k \in 1 .. c, k < c
        PROVE  k * L = (k - 1) * L + L /\ k * L < n
    <2>1. k \in Nat /\ k + 1 <= c
      BY <1>2, <1>7
    <2> QED BY <1>4, <1>6, <2>1
  <1>8. c > 0 => n <= (c - 1) * L + L
    <2> SUFFICES ASSUME c > 0 PROVE n <= (c - 1) * L + L
      OBVIOUS
    <2>1. c \in 1 .. c
      BY <1>2
    <2>2. c * L = (c - 1) * L + L
      BY <1>6, <2>1
    <2> QED BY <1>3, <2>2
  <1>9. c = 0 <=> n = 0
    <2>1. ASSUME c = 0 PROVE n = 0
      <3>1. c * L = 0
        BY <2>1
      <3> QED BY <1>3, <3>1
    <2>2. ASSUME n = 0 PROVE c = 0
      <3> SUFFICES ASSUME c /= 0 PROVE FALSE
        OBVIOUS
      <3>1. 0 \in Nat /\ 0 + 1 <= c
        BY <1>2
      <3>2. 0 * L < n /\ 0 * L \in Nat
        BY <1>4, <3>1
      <3> QED BY <2>2, <3>2
    <2> QED BY <2>1, <2>2
  <1> QED BY <1>2, <1>5, <1>7, <1>8, <1>9

\* The segment of `size` bytes from the one with index `start` on.
Fresh(start, size) ==
  Seg(Plus(Iss, start - 1), [i \in 1 .. size |-> start + i - 1], FALSE)

LEMMA FreshPiece ==
  ASSUME NoWrap, NEW w \in 0 .. Total, NEW e \in 0 .. 1, NEW start \in Nat, NEW size \in Nat,
         start >= 1, size >= 1, start + size <= w + 1
  PROVE  /\ Piece(Fresh(start, size), w, e) /\ Fresh(start, size) \in Segment
         /\ Fresh(start, size).seq = Iss + start - 1 /\ Len(Fresh(start, size).data) = size
         /\ Stop(Fresh(start, size)) = Iss + start - 1 + size
  <1> DEFINE s == Fresh(start, size)
             d == [i \in 1 .. size |-> start + i - 1]
  <1>1. /\ w \in Nat /\ Iss \in Nat /\ Total \in Nat /\ w <= Total /\ Iss + Total < M
        /\ M \in Nat
    BY ConstantFacts DEF NoWrap
  <1>2. Plus(Iss, start - 1) = Iss + (start - 1)
    <2>1. start - 1 \in Int /\ 0 <= Iss + (start - 1) /\ Iss + (start - 1) < M
      BY <1>1
    <2> QED BY <1>1, <2>1, PlusOf
  <1>3. d \in Seq(Nat) /\ Len(d) = size /\ \A i \in 1 .. size : d[i] = start + i - 1
    <2>1. \A i \in 1 .. size : start + i - 1 \in Nat
      OBVIOUS
    <2> QED BY <2>1
  <1> HIDE DEF d
  <1>4. s = [seq |-> Iss + (start - 1), data |-> d, fin |-> FALSE]
    BY <1>2 DEF Fresh, Seg, d
  <1>5. Iss + (start - 1) \in Nat
    BY <1>1
  <1>6. s \in Segment /\ s.seq = Iss + start - 1 /\ s.data = d /\ ~s.fin
    BY <1>3, <1>4, <1>5 DEF Segment
  <1> HIDE DEF s
  <1>7. DataStop(s) = Iss + start - 1 + size /\ Stop(s) = Iss + start - 1 + size
    <2>1. DataStop(s) = s.seq + Len(s.data) /\ Stop(s) = DataStop(s)
      BY <1>6, SegmentFacts
    <2> QED BY <1>1, <1>3, <1>6, <2>1
  <1>8. \A i \in 1 .. Len(s.data) : s.data[i] = s.seq - Iss + i
    <2> SUFFICES ASSUME NEW i \in 1 .. size PROVE d[i] = s.seq - Iss + i
      BY <1>3, <1>6
    <2>1. d[i] = start + i - 1 /\ s.seq = Iss + start - 1
      BY <1>3, <1>6
    <2>2. start + i - 1 = (Iss + start - 1) - Iss + i
      BY <1>1
    <2> QED BY <2>1, <2>2
  <1>9. Piece(s, w, e)
    <2>1. Iss <= s.seq /\ DataStop(s) <= Iss + w /\ Len(s.data) >= 1
      BY <1>1, <1>3, <1>6, <1>7
    <2> QED BY <1>6, <1>8, <2>1 DEF Piece
  <1> QED BY <1>3, <1>6, <1>7, <1>9 DEF s

LEMMA SegmentsChain ==
  ASSUME NoWrap, NEW w \in 0 .. Total, NEW e \in 0 .. 1, NEW first \in Nat, NEW last \in Nat,
         first >= 1, first <= last + 1, last <= w
  PROVE  /\ Chain(Segments(first, last), Iss + first - 1, Iss + last, w, e)
         /\ \A k \in 1 .. Len(Segments(first, last)) :
              Len(Segments(first, last)[k].data) <= MssLocal
  <1> DEFINE L == MssLocal
             n == last - first + 1
             c == (last - first + L) \div L
             Start(k) == first + (k - 1) * L
             Size(k) == Min({L, last - Start(k) + 1})
             q == Segments(first, last)
  <1>0. L \in Nat /\ L > 0 /\ Iss \in Nat /\ w \in Nat /\ n \in Nat
    BY MssLocalOf, ConstantFacts
  <1>1. q = [k \in 1 .. c |-> Fresh(Start(k), Size(k))]
    BY DEF Segments, Fresh
  <1>2. /\ c \in Nat
        /\ \A k \in 1 .. c : (k - 1) * L \in Nat /\ (k - 1) * L < n
        /\ \A k \in 1 .. c : k < c => k * L = (k - 1) * L + L /\ k * L < n
        /\ c > 0 => n <= (c - 1) * L + L
        /\ c = 0 <=> n = 0
    <2>1. last - first + L = n - 1 + L
      BY <1>0
    <2>2. c = (n - 1 + L) \div L
      BY <2>1
    <2> HIDE DEF c, n, L
    <2> QED BY <1>0, <2>2, CountOf
  <1>d. n = last - first + 1
    OBVIOUS
  <1> HIDE DEF c, n, L, q
  <1>3. ASSUME NEW k \in 1 .. c
        PROVE  /\ Start(k) \in Nat /\ Size(k) \in Nat /\ Start(k) >= 1 /\ Size(k) >= 1
               /\ Start(k) + Size(k) <= w + 1 /\ Size(k) <= L
               /\ k < c => Start(k) + Size(k) = Start(k + 1)
               /\ k = c => Start(k) + Size(k) = last + 1
               /\ k = 1 => Start(k) = first
    <2> DEFINE x == (k - 1) * L
    <2>1. x \in Nat /\ x < n /\ (k < c => k * L = x + L /\ k * L < n) /\ (k = c => n <= x + L)
      BY <1>2
    <2>2. Start(k) = first + x /\ (k = 1 => x = 0) /\ Start(k + 1) = first + k * L
      <3>1. k = 1 => x = 0
        BY <1>0
      <3>2. (k + 1) - 1 = k
        BY <1>2
      <3> QED BY <3>1, <3>2
    <2> HIDE DEF x, Start
    <2>3. Size(k) = IF L <= last - Start(k) + 1 THEN L ELSE last - Start(k) + 1
      <3>1. last - Start(k) + 1 \in Int /\ L \in Int
        BY <1>0, <2>1, <2>2
      <3> QED BY <3>1, MinOf
    <2> HIDE DEF Size
    <2>4. Start(k) \in Nat /\ Start(k) >= 1 /\ Start(k) <= last
      BY <1>d, <2>1, <2>2
    <2>5. Size(k) \in Nat /\ Size(k) >= 1 /\ Size(k) <= L /\ Start(k) + Size(k) <= last + 1
      BY <1>0, <2>3, <2>4
    <2>6. k < c => Start(k) + Size(k) = Start(k + 1)
      <3> SUFFICES ASSUME k < c PROVE Start(k) + Size(k) = Start(k + 1)
        OBVIOUS
      <3>1. k * L = x + L /\ x + L < n
        BY <2>1
      <3>2. Size(k) = L
        BY <1>0, <1>d, <2>1, <2>2, <2>3, <3>1
      <3> QED BY <1>0, <2>1, <2>2, <3>1, <3>2
    <2>7. k = c => Start(k) + Size(k) = last + 1
      BY <1>0, <1>d, <2>1, <2>2, <2>3
    <2>8. Start(k) + Size(k) <= w + 1
      BY <1>0, <2>4, <2>5
    <2>9. k = 1 => Start(k) = first
      BY <2>2
    <2> QED BY <2>4, <2>5, <2>6, <2>7, <2>8, <2>9
  <1> HIDE DEF Start, Size
  <1>4. ASSUME NEW k \in 1 .. c
        PROVE  /\ Piece(q[k], w, e) /\ q[k] \in Segment
               /\ q[k].seq = Iss + Start(k) - 1 /\ Len(q[k].data) <= MssLocal
               /\ Stop(q[k]) = Iss + Start(k) - 1 + Size(k)
    <2>1. q[k] = Fresh(Start(k), Size(k))
      BY <1>1
    <2>2. /\ Start(k) \in Nat /\ Size(k) \in Nat /\ Start(k) >= 1 /\ Size(k) >= 1
          /\ Start(k) + Size(k) <= w + 1 /\ Size(k) <= L
      BY <1>3
    <2>3. /\ Piece(Fresh(Start(k), Size(k)), w, e) /\ Fresh(Start(k), Size(k)) \in Segment
          /\ Fresh(Start(k), Size(k)).seq = Iss + Start(k) - 1
          /\ Len(Fresh(Start(k), Size(k)).data) = Size(k)
          /\ Stop(Fresh(Start(k), Size(k))) = Iss + Start(k) - 1 + Size(k)
      BY <2>2, FreshPiece
    <2> QED BY <2>1, <2>2, <2>3 DEF L
  <1>5. q \in Seq(Segment) /\ Len(q) = c /\ (q = <<>> <=> c = 0)
    <2>1. \A k \in 1 .. c : Fresh(Start(k), Size(k)) \in Segment
      BY <1>1, <1>4
    <2>2. q \in Seq(Segment) /\ Len(q) = c
      BY <1>1, <1>2, <2>1
    <2> QED BY <1>2, <2>2
  <1>6. ASSUME NEW k \in 1 .. c
        PROVE  q[k].seq = IF k = 1 THEN Iss + first - 1 ELSE Stop(q[k - 1])
    <2>1. CASE k = 1
      BY <1>3, <1>4, <2>1
    <2>2. CASE k /= 1
      <3> DEFINE j == k - 1
      <3>1. j \in 1 .. c /\ j < c /\ j + 1 = k
        BY <1>2, <2>2
      <3> HIDE DEF j
      <3>2. Stop(q[j]) = Iss + Start(j) - 1 + Size(j) /\ Start(j) + Size(j) = Start(k)
        BY <1>3, <1>4, <3>1
      <3>3. Start(j) \in Nat /\ Size(j) \in Nat /\ Start(k) \in Nat
        BY <1>3, <3>1
      <3>4. q[k].seq = Stop(q[j])
        BY <1>0, <1>4, <3>2, <3>3
      <3> QED BY <2>2, <3>4 DEF j
    <2> QED BY <2>1, <2>2
  <1>7. Iss + last = IF q = <<>> THEN Iss + first - 1 ELSE Stop(q[Len(q)])
    <2>1. CASE q = <<>>
      <3>1. n = 0
        BY <1>2, <1>5, <2>1
      <3>2. Iss + last = Iss + first - 1
        BY <1>0, <1>d, <3>1
      <3> QED BY <2>1, <3>2
    <2>2. CASE q /= <<>>
      <3>1. c \in 1 .. c
        BY <1>2, <1>5, <2>2
      <3>2. Stop(q[c]) = Iss + Start(c) - 1 + Size(c) /\ Start(c) + Size(c) = last + 1
            /\ Start(c) \in Nat /\ Size(c) \in Nat
        BY <1>3, <1>4, <3>1
      <3>3. Stop(q[c]) = Iss + last
        BY <1>0, <3>2
      <3> QED BY <1>5, <2>2, <3>3
    <2> QED BY <2>1, <2>2
  <1>8. Chain(q, Iss + first - 1, Iss + last, w, e)
    BY <1>4, <1>5, <1>6, <1>7 DEF Chain
  <1> QED BY <1>4, <1>5, <1>8 DEF q

-----------------------------------------------------------------------------
(* tcp_write.                                                                *)

\* The segment with the next bytes of the stream at its end, of which w are
\* written.
Longer(s, w, n) == [s EXCEPT !.data = @ \o [i \in 1 .. n |-> w + i]]
Filled(q, w, n) == Append(Front(q), Longer(Last(q), w, n))

LEMMA Shift ==
  ASSUME NEW a \in Nat, NEW b \in Nat, NEW c \in Nat, NEW d \in Nat, a + b = c + d, NEW i \in Int
  PROVE  d + (i - b) = a - c + i
  OBVIOUS

LEMMA LongerPiece ==
  ASSUME NoWrap, NEW w \in 0 .. Total, NEW w2 \in 0 .. Total, NEW s, Piece(s, w2, 0),
         DataStop(s) = Iss + w, NEW n \in Nat, w + n <= w2
  PROVE  /\ Piece(Longer(s, w, n), w2, 0) /\ Longer(s, w, n) \in Segment
         /\ Longer(s, w, n).seq = s.seq /\ Len(Longer(s, w, n).data) = Len(s.data) + n
         /\ Stop(Longer(s, w, n)) = Iss + w + n
  <1> DEFINE t == Longer(s, w, n)
             added == [i \in 1 .. n |-> w + i]
             d == s.data \o added
             l == Len(s.data)
  <1>1. /\ s \in Segment /\ s.seq \in Nat /\ s.data \in Seq(Nat) /\ l \in Nat /\ ~s.fin
        /\ s.fin \in BOOLEAN /\ s.seq + l = Iss + w /\ Iss <= s.seq /\ l >= 1
        /\ \A i \in 1 .. l : s.data[i] = s.seq - Iss + i
    <2>1. /\ s \in Segment /\ Iss <= s.seq /\ ~s.fin /\ Len(s.data) >= 1
          /\ \A i \in 1 .. l : s.data[i] = s.seq - Iss + i
      BY DEF Piece
    <2>2. s.seq \in Nat /\ s.data \in Seq(Nat) /\ l \in Nat /\ s.fin \in BOOLEAN
      BY <2>1, SegmentFacts, SegmentData
    <2>3. s.seq + l = Iss + w
      BY DEF DataStop
    <2> QED BY <2>1, <2>2, <2>3
  <1>2. w \in Nat /\ w2 \in Nat /\ Iss \in Nat
    BY ConstantFacts
  <1>3. added \in Seq(Nat) /\ Len(added) = n /\ \A i \in 1 .. n : added[i] = w + i
    BY <1>2
  <1>n. s.seq \in Nat /\ l \in Nat /\ s.seq + l = Iss + w /\ n \in Nat
    BY <1>1
  <1> HIDE DEF added
  <1>4. /\ d \in Seq(Nat) /\ Len(d) = l + n
        /\ \A i \in 1 .. l + n : d[i] = IF i <= l THEN s.data[i] ELSE added[i - l]
    BY <1>1, <1>3, ConcatProperties, ZenonT(30)
  <1>5. t = [s EXCEPT !.data = d]
    BY DEF Longer, added
  <1> HIDE DEF d
  <1>6. /\ t \in Segment /\ t.seq = s.seq /\ t.data = d /\ (t.fin <=> s.fin)
    BY <1>1, <1>4, <1>5 DEF Segment
  <1> HIDE DEF t
  <1>7. \A i \in 1 .. Len(t.data) : t.data[i] = t.seq - Iss + i
    <2> SUFFICES ASSUME NEW i \in 1 .. l + n PROVE d[i] = s.seq - Iss + i
      BY <1>4, <1>6
    <2>1. CASE i <= l
      BY <1>1, <1>4, <2>1
    <2>2. CASE i > l
      <3>1. d[i] = added[i - l] /\ i - l \in 1 .. n
        BY <1>1, <1>4, <2>2
      <3>2. d[i] = w + (i - l)
        BY <1>3, <3>1
      <3>3. w + (i - l) = s.seq - Iss + i
        <4>1. i \in Int
          BY <1>n
        <4>2. s.seq \in Nat /\ l \in Nat /\ s.seq + l = Iss + w
          BY <1>n
        <4> HIDE DEF l
        <4> QED BY ONLY <1>2, <4>1, <4>2, Shift
      <3> QED BY <3>1, <3>2, <3>3
    <2> QED BY <1>1, <2>1, <2>2
  <1>8. DataStop(t) = Iss + w + n /\ Stop(t) = DataStop(t)
    <2>1. t \in Segment /\ ~t.fin
      BY <1>1, <1>6
    <2>2. DataStop(t) = t.seq + Len(t.data) /\ Stop(t) = DataStop(t)
      BY <2>1, SegmentFacts
    <2>3. t.seq + Len(t.data) = Iss + w + n
      <3>1. t.seq = s.seq /\ Len(t.data) = l + n
        BY <1>4, <1>6
      <3> QED BY <1>n, <1>2, <3>1, SMTT(30)
    <2> QED BY <2>2, <2>3
  <1>9. Piece(t, w2, 0)
    <2>1. Iss <= t.seq /\ DataStop(t) <= Iss + w2 /\ Len(t.data) >= 1
      BY <1>1, <1>2, <1>4, <1>6, <1>8
    <2>2. ~t.fin
      BY <1>1, <1>6
    <2> QED BY <1>6, <1>7, <2>1, <2>2 DEF Piece
  <1> QED BY <1>4, <1>6, <1>8, <1>9 DEF t

LEMMA FilledChain ==
  ASSUME NoWrap, NEW w \in 0 .. Total, NEW w2 \in 0 .. Total, NEW q, NEW m \in Nat,
         Chain(q, m, Iss + w, w2, 0), q /= <<>>, NEW n \in Nat, w + n <= w2,
         NEW la \in Nat, q \in Seq(Waiting(la)), Len(Last(q).data) + n <= MssLocal
  PROVE  /\ Chain(Filled(q, w, n), m, Iss + w + n, w2, 0)
         /\ Filled(q, w, n) \in Seq(Waiting(la))
  <1> DEFINE k == Len(q)
             p == SubSeq(q, 1, k - 1)
             s == q[k]
             t == Longer(s, w, n)
             c == Cut(q, m, k - 1)
  <1>0. /\ q \in Seq(Segment) /\ k \in Nat /\ Iss \in Nat /\ w \in Nat /\ w2 \in Nat /\ 0 \in 0 .. 1
        /\ MssLocal \in Nat
    BY ConstantFacts, MssLocalOf DEF Chain
  <1>1. k \in 1 .. Len(q) /\ k - 1 \in 0 .. Len(q)
    BY <1>0
  <1>2. Filled(q, w, n) = Append(p, t) /\ Last(q) = s
    BY DEF Filled, Front, Last
  <1>3. Chain(p, m, c, w2, 0) /\ c \in Nat
    BY <1>0, <1>1, ChainSplit
  <1>4. Piece(s, w2, 0) /\ s.seq = c /\ Stop(s) = Iss + w
    <2>1. Piece(s, w2, 0) /\ s.seq = IF k = 1 THEN m ELSE Stop(q[k - 1])
      BY <1>1 DEF Chain
    <2>2. c = IF k - 1 = 0 THEN m ELSE Stop(q[k - 1])
      BY DEF Cut
    <2>3. Stop(s) = Iss + w
      BY DEF Chain
    <2> QED BY <1>0, <2>1, <2>2, <2>3
  <1>5. s \in Waiting(la)
    BY <1>1
  <1> HIDE DEF p, c, s
  <1>6. DataStop(s) = Iss + w /\ s \in Segment
    <2>1. ~s.fin
      BY <1>4 DEF Piece
    <2> QED BY <1>0, <1>4, <2>1, PieceFacts
  <1>7. /\ Piece(t, w2, 0) /\ t \in Segment /\ t.seq = s.seq
        /\ Len(t.data) = Len(s.data) + n /\ Stop(t) = Iss + w + n
    BY <1>4, <1>6, LongerPiece
  <1> HIDE DEF t
  <1>8. Chain(<<t>>, c, Iss + w + n, w2, 0)
    <2>1. Chain(<<t>>, t.seq, Stop(t), w2, 0)
      BY <1>7, ChainOne
    <2> QED BY <1>4, <1>7, <2>1
  <1>9. Chain(p \o <<t>>, m, Iss + w + n, w2, 0)
    BY <1>0, <1>3, <1>8, ChainJoin
  <1>10. t \in Waiting(la)
    <2>1. Len(t.data) <= MssLocal
      BY <1>2, <1>7
    <2>2. la < Stop(s)
      BY <1>5 DEF Waiting
    <2>3. la < Stop(t)
      BY <1>0, <1>4, <1>7, <2>2
    <2> QED BY <1>7, <2>1, <2>3 DEF Waiting
  <1>11. p \in Seq(Waiting(la)) /\ p \in Seq(Segment)
    BY <1>0, <1>1, SubSeqOf DEF p
  <1>12. Append(p, t) = p \o <<t>> /\ Append(p, t) \in Seq(Waiting(la))
    BY <1>10, <1>11, AppendIsConcat, AppendProperties
  <1> QED BY <1>2, <1>9, <1>12

\* The queue with n bytes more, of which f are for its last segment.
Lengthened(q, w, f) == IF f = 0 THEN q ELSE Filled(q, w, f)
WithBytes(q, w, n, f) == Lengthened(q, w, f) \o Segments(w + f + 1, w + n)

\* What tcp_write adds to the queue goes on where it ended.
LEMMA WrittenChain ==
  ASSUME NoWrap, NEW w \in 0 .. Total, NEW n \in Nat, w + n \in 0 .. Total, NEW q, NEW m \in Nat,
         Chain(q, m, Iss + w, w + n, 0), NEW f \in 0 .. n, q = <<>> => f = 0,
         f > 0 => Len(Last(q).data) + f <= MssLocal,
         NEW la \in Nat, q \in Seq(Waiting(la)), la <= Iss + w
  PROVE  /\ Chain(WithBytes(q, w, n, f), m, Iss + (w + n), w + n, 0)
         /\ WithBytes(q, w, n, f) \in Seq(Waiting(la))
  <1> DEFINE w2 == w + n
             b == Lengthened(q, w, f)
             r == Segments(w + f + 1, w2)
  <1>0. /\ w \in Nat /\ Iss \in Nat /\ w2 \in 0 .. Total /\ w2 \in Nat /\ f \in Nat /\ 0 \in 0 .. 1
        /\ w + f <= w2 /\ w + f \in Nat /\ w + f + 1 \in Nat /\ w + f + 1 <= w2 + 1 /\ w2 <= w2
        /\ w + f + 1 >= 1 /\ Iss + (w + f + 1) - 1 = Iss + w + f /\ Iss + w + f \in Nat
    BY ConstantFacts
  <1>1. Chain(b, m, Iss + w + f, w2, 0) /\ b \in Seq(Waiting(la))
    <2>1. CASE f = 0
      BY <1>0, <2>1 DEF Lengthened
    <2>2. CASE f > 0
      BY <1>0, <2>2, FilledChain DEF Lengthened
    <2> QED BY <1>0, <2>1, <2>2
  <1> HIDE DEF w2, b
  <1>2. /\ Chain(r, Iss + w + f, Iss + w2, w2, 0)
        /\ \A k \in 1 .. Len(r) : Len(r[k].data) <= MssLocal
    <2>1. /\ Chain(r, Iss + (w + f + 1) - 1, Iss + w2, w2, 0)
          /\ \A k \in 1 .. Len(r) : Len(r[k].data) <= MssLocal
      BY <1>0, SegmentsChain
    <2> QED BY <1>0, <2>1
  <1> HIDE DEF r
  <1>3. Chain(b \o r, m, Iss + w2, w2, 0)
    BY <1>0, <1>1, <1>2, ChainJoin
  <1>4. r \in Seq(Waiting(la))
    <2>1. r \in Seq(Segment) /\ \A k \in 1 .. Len(r) : Piece(r[k], w2, 0) /\ Iss + w + f <= r[k].seq
      BY <1>0, <1>2, ChainFacts
    <2>2. ASSUME NEW k \in 1 .. Len(r) PROVE r[k] \in Waiting(la)
      <3>1. r[k] \in Segment /\ r[k].seq \in Nat /\ r[k].seq < Stop(r[k]) /\ Stop(r[k]) \in Nat
        BY <1>0, <2>1, PieceFacts
      <3>2. Iss + w + f <= r[k].seq
        BY <2>1
      <3>3. la < Stop(r[k])
        <4>1. Iss \in Nat /\ w \in Nat /\ f \in Nat
          BY <1>0
        <4> QED BY <3>1, <3>2, <4>1
      <3> QED BY <1>2, <3>1, <3>3 DEF Waiting
    <2> QED BY <2>1, <2>2, SeqOver
  <1>5. b \o r \in Seq(Waiting(la))
    BY <1>1, <1>4, ConcatProperties
  <1> QED BY <1>3, <1>5 DEF r, w2, b, WithBytes

\* The pieces in flight are pieces of what is written when more is.
LEMMA InFlightStays ==
  ASSUME NEW w \in Nat, NEW w2 \in Nat, NEW e \in 0 .. 1, NEW e2 \in 0 .. 1,
         w <= w2, e = 1 => e2 = 1 /\ w2 = w, NEW edge, NEW nxt,
         NEW reach \in Nat, NEW reach2 \in Nat, reach <= reach2,
         NEW q, q \in Seq(InFlight(w, e, edge, nxt, reach))
  PROVE  q \in Seq(InFlight(w2, e2, edge, nxt, reach2))
  <1>1. ASSUME NEW s \in InFlight(w, e, edge, nxt, reach)
        PROVE  s \in InFlight(w2, e2, edge, nxt, reach2)
    <2>1. /\ s \in Segment /\ Piece(s, w, e) /\ Stop(s) <= reach
          /\ Stop(s) <= edge \/ (TcpLen(s) = 1 /\ s.seq <= nxt)
      BY DEF InFlight
    <2>2. Piece(s, w2, e2)
      BY <2>1, PieceStays
    <2>3. Stop(s) \in Nat
      BY <2>1, SegmentFacts
    <2>4. Stop(s) <= reach2
      BY <2>1, <2>3
    <2> QED BY <2>1, <2>2, <2>4 DEF InFlight
  <1> QED BY <1>1, SeqMonotonic

LEMMA WriteKeeps ==
  ASSUME NoWrap, IInv, NEW n \in 1 .. Total, Write(n)
  PROVE  IInv'
  <1> DEFINE last  == IF unsent = <<>> THEN Seg(SndLbb, <<>>, FALSE) ELSE Last(unsent)
             fill  == IF last.data = <<>> THEN 0 ELSE Min({n, MssLocal - Len(last.data)})
             queue == WithBytes(unsent, written, n, fill)
  <1>1. /\ ~finQueued /\ written + n <= Total /\ written' = written + n
        /\ UNCHANGED <<finQueued, unacked, snd_nxt, lastack, snd_wnd, snd_wl2, inFR,
                       rtime, persist, receiver, network>>
    BY DEF Write
  <1>2. unsent' = (IF fill = 0 THEN unsent
                   ELSE Append(Front(unsent),
                          [last EXCEPT !.data = @ \o [i \in 1 .. fill |-> written + i]]))
                  \o Segments(written + fill + 1, written + n)
    BY DEF Write
  <1>3. /\ finQueued \in BOOLEAN /\ inFR \in BOOLEAN /\ rtime \in BOOLEAN /\ persist \in BOOLEAN
        /\ snd_wl2 \in Nat /\ (unacked /= <<>> => rtime)
        /\ Sending(unsent, unacked, written, Fins, lastack, snd_wnd, snd_nxt)
    BY DEF IInv, SenderOK
  <1>4. Fins = 0 /\ Fins' = 0
    BY <1>1 DEF Fins
  <1>5. Sending(unsent, unacked, written, 0, lastack, snd_wnd, snd_nxt)
    BY <1>3, <1>4
  <1>6. /\ written \in 0 .. Total /\ written \in Nat /\ lastack \in Nat /\ 0 \in 0 .. 1
        /\ n \in Nat /\ written + n \in 0 .. Total /\ Iss \in Nat /\ written <= written + n
        /\ EndOf(written, 0) = Iss + written /\ lastack <= Iss + written
        /\ EndOf(written + n, 0) = Iss + (written + n)
    <2>1. /\ written \in 0 .. Total /\ lastack \in Nat /\ Iss \in Nat /\ snd_nxt \in Nat
          /\ lastack <= snd_nxt /\ snd_nxt <= EndOf(written, 0)
      BY <1>5, SendingFacts, ConstantFacts
    <2>2. written \in Nat /\ n \in Nat /\ written + n \in 0 .. Total /\ written <= written + n
      BY <1>1, <2>1, ConstantFacts
    <2>3. EndOf(written, 0) = Iss + written /\ EndOf(written + n, 0) = Iss + (written + n)
      BY <2>1, <2>2 DEF EndOf
    <2>4. lastack <= Iss + written
      BY <2>1, <2>2, <2>3
    <2> QED BY <2>1, <2>2, <2>3, <2>4
  <1>7. /\ unsent \in Seq(Segment) /\ unsent \in Seq(Waiting(lastack))
        /\ \A k \in 1 .. Len(unsent) : Piece(unsent[k], written, 0)
    BY <1>5, SendingFacts, WaitingOut
  <1>a. unsent = <<>> => last.data = <<>>
    BY DEF Seg
  <1>b. unsent /= <<>> => last = Last(unsent) /\ last = unsent[Len(unsent)]
    BY DEF Last
  <1> HIDE DEF last
  <1>c. /\ last.data = <<>> => fill = 0
        /\ last.data /= <<>> => fill = Min({n, MssLocal - Len(last.data)})
    OBVIOUS
  <1> HIDE DEF fill
  <1>8. /\ fill \in 0 .. n /\ (unsent = <<>> => fill = 0)
        /\ fill > 0 => Len(Last(unsent).data) + fill <= MssLocal
    <2>1. CASE unsent = <<>>
      <3>1. fill = 0
        BY <1>a, <1>c, <2>1
      <3> QED BY <1>6, <3>1
    <2>2. CASE unsent /= <<>>
      <3> DEFINE l == Len(last.data)
      <3>1. Len(unsent) \in 1 .. Len(unsent) /\ Len(unsent) \in Nat
        BY <1>7, <2>2
      <3>2. last = unsent[Len(unsent)] /\ last = Last(unsent)
        BY <1>b, <2>2
      <3>3. last \in Waiting(lastack) /\ last \in Segment
        <4>1. unsent[Len(unsent)] \in Waiting(lastack)
          BY <1>7, <3>1, ElementOfSeq
        <4>2. unsent[Len(unsent)] \in Segment
          BY <4>1 DEF Waiting
        <4> QED BY <3>2, <4>1, <4>2
      <3>4. l \in Nat /\ l <= MssLocal
        BY <3>3, SegmentFacts DEF Waiting
      <3>5. MssLocal - l \in Nat /\ MssLocal \in Nat
        BY <3>4, MssLocalOf
      <3>6. Min({n, MssLocal - l}) = IF n <= MssLocal - l THEN n ELSE MssLocal - l
        BY <1>6, <3>5, MinOf
      <3>7. fill = 0 \/ fill = IF n <= MssLocal - l THEN n ELSE MssLocal - l
        BY <1>c, <3>6
      <3> HIDE DEF l
      <3>8. fill \in 0 .. n /\ (fill > 0 => l + fill <= MssLocal)
        BY <1>6, <3>4, <3>5, <3>7
      <3> QED BY <2>2, <3>2, <3>8 DEF l
    <2> QED BY <2>1, <2>2
  <1>9. unsent' = queue
    <2>1. CASE fill = 0
      BY <1>2, <2>1 DEF WithBytes, Lengthened
    <2>2. CASE fill /= 0
      <3>1. last = Last(unsent)
        BY <1>8, <1>b, <2>2
      <3>2. unsent' = Append(Front(unsent),
                          [last EXCEPT !.data = @ \o [i \in 1 .. fill |-> written + i]])
                        \o Segments(written + fill + 1, written + n)
        BY <1>2, <2>2
      <3> QED BY <2>2, <3>1, <3>2 DEF WithBytes, Lengthened, Filled, Longer
    <2> QED BY <2>1, <2>2
  <1> DEFINE w2 == written + n
  <1>10. w2 = written + n
    OBVIOUS
  <1>11. ASSUME NEW m \in Nat, Chain(unsent, m, EndOf(written, 0), w2, 0)
         PROVE  /\ Chain(queue, m, EndOf(w2, 0), w2, 0)
                /\ queue \in Seq(Waiting(lastack))
    <2>1. Chain(unsent, m, Iss + written, written + n, 0)
      BY <1>6, <1>11
    <2>2. /\ Chain(queue, m, Iss + (written + n), written + n, 0)
          /\ queue \in Seq(Waiting(lastack))
      BY <1>6, <1>7, <1>8, <2>1, WrittenChain
    <2> HIDE DEF queue
    <2> QED BY <1>6, <2>2
  <1> HIDE DEF queue
  <1>12. GoesOn(unsent, EndOf(written, 0), queue, w2, 0)
    <2> SUFFICES ASSUME NEW m \in Nat, Chain(unsent, m, EndOf(written, 0), w2, 0)
                 PROVE  Chain(queue, m, EndOf(w2, 0), w2, 0)
      BY DEF GoesOn
    <2> QED BY <1>11
  <1>13. queue \in Seq(Waiting(lastack))
    <2>1. PICK m \in Iss .. EndOf(written, 0) : Chain(unsent, m, EndOf(written, 0), written, 0)
      BY <1>5 DEF Sending
    <2>2. m \in Nat
      BY <1>6, <2>1
    <2>3. w2 \in Nat /\ written <= w2 /\ (0 = 1 => 0 = 1 /\ w2 = written)
      BY <1>6
    <2>4. Chain(unsent, m, EndOf(written, 0), w2, 0)
      BY <1>6, <2>1, <2>3, ChainStays
    <2> QED BY <1>11, <2>2, <2>4
  <1> HIDE DEF w2
  <1>14. Sending(queue, unacked, w2, 0, lastack, snd_wnd, snd_nxt)
    <2>1. w2 \in 0 .. Total /\ written <= w2
      BY <1>6, <1>10
    <2>2. /\ written \in 0 .. Total /\ 0 \in 0 .. 1 /\ (0 = 1 => 0 = 1 /\ w2 = written)
          /\ 0 = 1 => EndOf(w2, 0) <= lastack + snd_wnd
      BY <1>6
    <2> QED BY <1>5, <1>12, <1>13, <2>1, <2>2, SendingOf, Zenon
  <1>15. SenderOK'
    <2>1. Sending(unsent', unacked', written', Fins', lastack', snd_wnd', snd_nxt')
      BY <1>1, <1>4, <1>9, <1>10, <1>14
    <2>2. /\ finQueued' \in BOOLEAN /\ inFR' \in BOOLEAN /\ rtime' \in BOOLEAN /\ persist' \in BOOLEAN
          /\ snd_wl2' \in Nat /\ (unacked' /= <<>> => rtime') /\ ~finQueued'
      BY <1>1, <1>3
    <2> QED BY <2>1, <2>2 DEF SenderOK
  <1>16. /\ Reach' = Reach /\ Reach \in Nat /\ Reach <= Reach
    <2>1. Reach \in Nat
      BY NumbersOf
    <2> QED BY <1>1, <2>1 DEF Reach
  <1>17. /\ net' = net /\ acks' = acks /\ faults' = faults
         /\ snd_wl2' = snd_wl2 /\ snd_wnd' = snd_wnd /\ lastack' = lastack
    BY <1>1 DEF network
  <1>18. net' \in Seq(InFlight(written', Fins', ann_edge, rcv_nxt, Reach'))
    <2>1. net \in Seq(InFlight(written, 0, ann_edge, rcv_nxt, Reach))
      BY <1>4 DEF IInv, NetworkOK
    <2>2. net \in Seq(InFlight(written + n, 0, ann_edge, rcv_nxt, Reach))
      BY <1>6, <1>16, <2>1, InFlightStays
    <2> QED BY <1>1, <1>4, <1>16, <1>17, <2>2
  <1>19. /\ faults' \in 0 .. MaxFaults
         /\ acks' \in Seq(Answers(snd_wl2', snd_wnd', ann_edge, rcv_nxt))
         /\ Rising(Items(acks')) /\ lastack' <= snd_wl2' /\ snd_wl2' <= rcv_nxt
         /\ snd_wl2' + snd_wnd' <= ann_edge
    BY <1>17 DEF IInv, NetworkOK
  <1>20. /\ written' \in 0 .. Total /\ written <= written' /\ Fins' \in 0 .. 1 /\ Fins /= 1
         /\ Reach' \in Nat /\ Reach <= Reach'
    BY <1>1, <1>4, <1>6, <1>16
  <1>21. UNCHANGED receiver /\ (finQueued => finQueued')
    BY <1>1
  <1> QED BY <1>15, <1>18, <1>19, <1>20, <1>21, SenderActs

-----------------------------------------------------------------------------
(* tcp_receive, an ACK: what it acknowledges leaves the queues.              *)

\* How many segments at the head of the queue lie before n, and how many of
\* these if n was sent.
UpTo(q, n) == Cardinality({k \in 1 .. Len(q) : \A j \in 1 .. k : LEQ(End(q[j]), n)})
UpToSent(q, n, nxt) ==
  Cardinality({k \in 1 .. Len(q) : \A j \in 1 .. k : Between(n, End(q[j]), nxt)})

LEMMA UpToOf ==
  ASSUME NoWrap, NEW w \in 0 .. Total, NEW e \in 0 .. 1, NEW q, Len(q) \in Nat,
         \A k \in 1 .. Len(q) : Piece(q[k], w, e), NEW n \in Span
  PROVE  /\ UpTo(q, n) \in 0 .. Len(q)
         /\ \A j \in 1 .. UpTo(q, n) : Stop(q[j]) <= n
         /\ UpTo(q, n) < Len(q) => n < Stop(q[UpTo(q, n) + 1])
  <1> DEFINE S == {k \in 1 .. Len(q) : \A j \in 1 .. k : LEQ(End(q[j]), n)}
             c == UpTo(q, n)
  <1>1. \A j \in 1 .. Len(q) : (LEQ(End(q[j]), n) <=> Stop(q[j]) <= n) /\ Stop(q[j]) \in Nat
    <2> SUFFICES ASSUME NEW j \in 1 .. Len(q)
                 PROVE  (LEQ(End(q[j]), n) <=> Stop(q[j]) <= n) /\ Stop(q[j]) \in Nat
      OBVIOUS
    <2>1. End(q[j]) = Stop(q[j]) /\ Stop(q[j]) \in Span /\ Stop(q[j]) \in Nat
      BY PieceFacts
    <2> QED BY <2>1, SpanCompare
  <1>2. S \in SUBSET (1 .. Len(q)) /\ \A k \in S : \A j \in 1 .. k : j \in S
    OBVIOUS
  <1>4. c = Cardinality(S)
    BY DEF UpTo
  <1>5. c \in 0 .. Len(q) /\ (\A j \in 1 .. c : j \in S) /\ \A k \in S : k <= c
    <2> HIDE DEF S, c
    <2> QED BY <1>2, <1>4, CountRun
  <1> HIDE DEF c
  <1>6. c \in 0 .. Len(q) /\ \A j \in 1 .. c : LEQ(End(q[j]), n)
    BY <1>5
  <1>7. \A j \in 1 .. c : Stop(q[j]) <= n
    BY <1>1, <1>6
  <1>8. ASSUME c < Len(q) PROVE n < Stop(q[c + 1])
    <2>1. c + 1 \in 0 .. Len(q) /\ c + 1 \in 1 .. Len(q) /\ ~(c + 1 <= c) /\ n \in Nat
      BY <1>6, <1>8, ConstantFacts DEF Span
    <2>2. c + 1 \notin S
      BY <1>5, <2>1
    <2>3. PICK j \in 1 .. c + 1 : ~LEQ(End(q[j]), n)
      BY <2>1, <2>2
    <2>4. j = c + 1
      BY <1>6, <2>3
    <2>5. ~LEQ(End(q[c + 1]), n)
      BY <2>3, <2>4
    <2>6. ~(Stop(q[c + 1]) <= n) /\ Stop(q[c + 1]) \in Nat
      BY <1>1, <2>1, <2>5
    <2> QED BY <2>1, <2>6
  <1> QED BY <1>6, <1>7, <1>8 DEF c

LEMMA UpToSentOf ==
  ASSUME NoWrap, NEW w \in 0 .. Total, NEW e \in 0 .. 1, NEW q, Len(q) \in Nat,
         \A k \in 1 .. Len(q) : Piece(q[k], w, e), NEW n \in Span, NEW nxt \in Span
  PROVE  /\ n <= nxt => UpToSent(q, n, nxt) = UpTo(q, n)
         /\ nxt < n => UpToSent(q, n, nxt) = 0
  <1>1. \A j \in 1 .. Len(q) :
          Between(n, End(q[j]), nxt) <=> Stop(q[j]) <= n /\ n <= nxt
    <2> SUFFICES ASSUME NEW j \in 1 .. Len(q)
                 PROVE  Between(n, End(q[j]), nxt) <=> Stop(q[j]) <= n /\ n <= nxt
      OBVIOUS
    <2>1. End(q[j]) = Stop(q[j]) /\ Stop(q[j]) \in Span /\ Stop(q[j]) \in Nat
      BY PieceFacts
    <2>2. GEQ(n, End(q[j])) <=> n >= Stop(q[j])
      BY <2>1, SpanCompare
    <2>3. LEQ(n, nxt) <=> n <= nxt
      BY SpanCompare
    <2>4. n \in Nat
      BY ConstantFacts DEF Span
    <2> QED BY <2>1, <2>2, <2>3, <2>4 DEF Between
  <1>2. \A j \in 1 .. Len(q) : LEQ(End(q[j]), n) <=> Stop(q[j]) <= n
    <2> SUFFICES ASSUME NEW j \in 1 .. Len(q)
                 PROVE  LEQ(End(q[j]), n) <=> Stop(q[j]) <= n
      OBVIOUS
    <2>1. End(q[j]) = Stop(q[j]) /\ Stop(q[j]) \in Span
      BY PieceFacts
    <2> QED BY <2>1, SpanCompare
  <1>3. ASSUME n <= nxt PROVE UpToSent(q, n, nxt) = UpTo(q, n)
    <2>1. \A j \in 1 .. Len(q) : Between(n, End(q[j]), nxt) <=> LEQ(End(q[j]), n)
      BY <1>1, <1>2, <1>3
    <2>2. {k \in 1 .. Len(q) : \A j \in 1 .. k : Between(n, End(q[j]), nxt)}
            = {k \in 1 .. Len(q) : \A j \in 1 .. k : LEQ(End(q[j]), n)}
      <3>1. \A k \in 1 .. Len(q) : \A j \in 1 .. k : j \in 1 .. Len(q)
        OBVIOUS
      <3> QED BY <2>1, <3>1, Zenon
    <2> QED BY <2>2 DEF UpTo, UpToSent
  <1>4. ASSUME nxt < n PROVE UpToSent(q, n, nxt) = 0
    <2> DEFINE S == {k \in 1 .. Len(q) : \A j \in 1 .. k : Between(n, End(q[j]), nxt)}
    <2>1. ~(n <= nxt)
      BY <1>4, ConstantFacts DEF Span
    <2>2. \A j \in 1 .. Len(q) : ~Between(n, End(q[j]), nxt)
      BY <1>1, <2>1
    <2>3. S = {}
      <3> SUFFICES ASSUME NEW k \in S PROVE FALSE
        OBVIOUS
      <3>1. 1 \in 1 .. k /\ 1 \in 1 .. Len(q)
        OBVIOUS
      <3> QED BY <2>2, <3>1
    <2>4. UpToSent(q, n, nxt) = Cardinality(S)
      BY DEF UpToSent
    <2> HIDE DEF S
    <2> QED BY <2>3, <2>4, FS_EmptySet
  <1> QED BY <1>3, <1>4

\* A queue from its first segment on is the queue.
LEMMA FromFirst ==
  ASSUME NEW S, NEW q \in Seq(S)
  PROVE  From(q, 0 + 1) = q
  <1> DEFINE r == From(q, 0 + 1)
  <1>1. Len(q) \in Nat
    OBVIOUS
  <1>2. 0 \in 0 .. Len(q)
    BY <1>1
  <1>3. r \in Seq(S) /\ Len(r) = Len(q) - 0 /\ \A i \in 1 .. Len(q) - 0 : r[i] = q[0 + i]
    BY <1>2, SubSeqOf
  <1> HIDE DEF r
  <1>4. Len(r) = Len(q) /\ \A i \in 1 .. Len(q) : r[i] = q[i]
    BY <1>1, <1>3
  <1> QED BY <1>3, <1>4, SeqEqual DEF r

\* A queue of which nothing is acknowledged stays as it is.
LEMMA NoneUpTo ==
  ASSUME NoWrap, NEW w \in 0 .. Total, NEW e \in 0 .. 1, NEW q \in Seq(Segment),
         \A k \in 1 .. Len(q) : Piece(q[k], w, e), NEW n \in Span, NEW nxt \in Span,
         \A k \in 1 .. Len(q) : n < Stop(q[k])
  PROVE  From(q, UpToSent(q, n, nxt) + 1) = q
  <1>1. Len(q) \in Nat /\ n \in Nat /\ nxt \in Nat
    BY ConstantFacts DEF Span
  <1>2. UpTo(q, n) = 0
    <2>1. UpTo(q, n) \in 0 .. Len(q) /\ \A j \in 1 .. UpTo(q, n) : Stop(q[j]) <= n
      BY <1>1, UpToOf
    <2>2. CASE UpTo(q, n) >= 1
      <3>1. 1 \in 1 .. UpTo(q, n) /\ 1 \in 1 .. Len(q)
        BY <1>1, <2>1, <2>2
      <3>2. Stop(q[1]) <= n /\ n < Stop(q[1]) /\ q[1] \in Segment
        BY <2>1, <3>1
      <3>3. Stop(q[1]) \in Nat
        BY <3>2, SegmentFacts
      <3> QED BY <1>1, <3>2, <3>3
    <2> QED BY <1>1, <2>1, <2>2
  <1>3. UpToSent(q, n, nxt) = 0
    BY <1>1, <1>2, UpToSentOf
  <1> QED BY <1>3, FromFirst

\* What is acknowledged up to n leaves both queues: of unsent only when nothing
\* of unacked stays.
LEMMA SendingAcked ==
  ASSUME NoWrap, NEW out, NEW una, NEW w, NEW e, NEW la, NEW wnd, NEW nxt,
         Sending(out, una, w, e, la, wnd, nxt), NEW n \in Nat, la <= n, n <= nxt,
         NEW wnd2 \in 0 .. TcpWnd, nxt <= n + wnd2, e = 1 => EndOf(w, e) <= n + wnd2
  PROVE  Sending(From(out, UpTo(out, n) + 1), From(una, UpTo(una, n) + 1), w, e, n, wnd2, nxt)
  <1> DEFINE E == EndOf(w, e)
             j == UpTo(una, n)
             k == UpTo(out, n)
             u == From(una, j + 1)
             o == From(out, k + 1)
  <1>1. /\ w \in 0 .. Total /\ e \in 0 .. 1 /\ la \in Nat /\ nxt \in Nat
        /\ Iss <= la /\ nxt <= E /\ E \in Nat /\ nxt \in Span /\ Iss \in Nat
        /\ out \in Seq(Segment) /\ una \in Seq(Segment)
        /\ \A i \in 1 .. Len(una) : Piece(una[i], w, e)
        /\ \A i \in 1 .. Len(out) : Piece(out[i], w, e)
    BY SendingFacts, ConstantFacts
  <1>2. /\ \A i \in 1 .. Len(una) : Stop(una[i]) <= nxt /\ Len(una[i].data) <= MssLocal
        /\ \A i \in 1 .. Len(out) : Len(out[i].data) <= MssLocal
    BY DEF Sending
  <1>3. PICK a \in Iss .. E, m \in Iss .. E :
          a <= la /\ Chain(una, a, m, w, e) /\ Chain(out, m, E, w, e)
    BY DEF Sending
  <1>4. a \in Nat /\ m \in Nat /\ Len(out) \in Nat /\ Len(una) \in Nat /\ a <= n /\ n \in Span
    <2>1. a \in Nat /\ m \in Nat /\ Len(out) \in Nat /\ Len(una) \in Nat
      BY <1>1, <1>3
    <2>2. a <= la /\ la <= n
      BY <1>3
    <2>3. a <= n
      BY <1>1, <2>1, <2>2
    <2>4. n \in Span
      BY <1>1, ConstantFacts DEF Span
    <2> QED BY <2>1, <2>3, <2>4
  <1>5. /\ j \in 0 .. Len(una) /\ \A i \in 1 .. j : Stop(una[i]) <= n
        /\ j < Len(una) => n < Stop(una[j + 1])
    BY <1>1, <1>4, UpToOf
  <1>6. /\ k \in 0 .. Len(out) /\ \A i \in 1 .. k : Stop(out[i]) <= n
        /\ k < Len(out) => n < Stop(out[k + 1])
    BY <1>1, <1>4, UpToOf
  <1> HIDE DEF j, k, E
  <1>7. /\ u \in Seq(Segment) /\ Len(u) = Len(una) - j /\ \A i \in 1 .. Len(una) - j : u[i] = una[j + i]
        /\ o \in Seq(Segment) /\ Len(o) = Len(out) - k /\ \A i \in 1 .. Len(out) - k : o[i] = out[k + i]
    BY <1>1, <1>5, <1>6, SubSeqOf
  <1>8. /\ Chain(u, Cut(una, a, j), m, w, e) /\ Cut(una, a, j) \in Nat
        /\ Cut(una, a, j) >= a /\ Cut(una, a, j) <= m
    BY <1>1, <1>3, <1>4, <1>5, ChainSplit
  <1>9. /\ Chain(o, Cut(out, m, k), E, w, e) /\ Cut(out, m, k) \in Nat
        /\ Cut(out, m, k) >= m /\ Cut(out, m, k) <= E
    BY <1>1, <1>3, <1>4, <1>6, ChainSplit
  <1>10. /\ \A x, y \in 1 .. Len(una) : x < y => Stop(una[x]) <= una[y].seq
         /\ \A x \in 1 .. Len(una) : Stop(una[x]) <= m
    BY <1>1, <1>3, <1>4, ChainFacts
  <1>11. /\ \A x, y \in 1 .. Len(out) : x < y => Stop(out[x]) <= out[y].seq
         /\ \A x \in 1 .. Len(out) : m <= out[x].seq
    BY <1>1, <1>3, <1>4, ChainFacts
  <1> HIDE DEF u, o
  <1>12. ASSUME NEW i \in 1 .. Len(u)
         PROVE  n < Stop(u[i]) /\ Stop(u[i]) <= nxt /\ Len(u[i].data) <= MssLocal
    <2>1. j + i \in 1 .. Len(una) /\ j + 1 \in 1 .. Len(una) /\ j < Len(una) /\ u[i] = una[j + i]
      BY <1>4, <1>5, <1>7
    <2>2. n < Stop(una[j + 1])
      BY <1>5, <2>1
    <2>3. /\ Stop(una[j + i]) \in Nat /\ una[j + i].seq \in Nat /\ una[j + i].seq < Stop(una[j + i])
          /\ Stop(una[j + 1]) \in Nat
      BY <1>1, <2>1, PieceFacts
    <2>4. n < Stop(una[j + i])
      <3>1. CASE i = 1
        BY <2>2, <3>1
      <3>2. CASE i > 1
        <4>1. Stop(una[j + 1]) <= una[j + i].seq
          <5>1. j + 1 < j + i
            BY <1>5, <3>2
          <5> QED BY <1>10, <2>1, <5>1
        <4> QED BY <2>2, <2>3, <4>1
      <3> QED BY <1>7, <3>1, <3>2
    <2> QED BY <1>2, <2>1, <2>4
  <1>13. ASSUME NEW i \in 1 .. Len(o)
         PROVE  n < Stop(o[i]) /\ Len(o[i].data) <= MssLocal
    <2>1. k + i \in 1 .. Len(out) /\ k + 1 \in 1 .. Len(out) /\ k < Len(out) /\ o[i] = out[k + i]
      BY <1>4, <1>6, <1>7
    <2>2. n < Stop(out[k + 1])
      BY <1>6, <2>1
    <2>3. /\ Stop(out[k + i]) \in Nat /\ out[k + i].seq \in Nat /\ out[k + i].seq < Stop(out[k + i])
          /\ Stop(out[k + 1]) \in Nat
      BY <1>1, <2>1, PieceFacts
    <2>4. n < Stop(out[k + i])
      <3>1. CASE i = 1
        BY <2>2, <3>1
      <3>2. CASE i > 1
        <4>1. Stop(out[k + 1]) <= out[k + i].seq
          <5>1. k + 1 < k + i
            BY <1>6, <3>2
          <5> QED BY <1>11, <2>1, <5>1
        <4> QED BY <2>2, <2>3, <4>1
      <3> QED BY <1>7, <3>1, <3>2
    <2> QED BY <1>2, <2>1, <2>4
  <1>14. \E x, y \in Iss .. E : x <= n /\ Chain(u, x, y, w, e) /\ Chain(o, y, E, w, e)
    <2>1. CASE j < Len(una)
      <3>1. k = 0
        <4>1. CASE k >= 1
          <5>1. 1 \in 1 .. k /\ 1 \in 1 .. Len(out) /\ j + 1 \in 1 .. Len(una)
            BY <1>4, <1>5, <1>6, <2>1, <4>1
          <5>2. Stop(out[1]) <= n /\ m <= out[1].seq /\ Stop(una[j + 1]) <= m /\ n < Stop(una[j + 1])
            BY <1>5, <1>6, <1>10, <1>11, <2>1, <5>1
          <5>3. /\ Stop(out[1]) \in Nat /\ out[1].seq \in Nat /\ out[1].seq < Stop(out[1])
                /\ Stop(una[j + 1]) \in Nat
            BY <1>1, <5>1, PieceFacts
          <5> QED BY <1>4, <5>2, <5>3
        <4> QED BY <1>6, <4>1
      <3>2. Cut(out, m, k) = m
        BY <3>1 DEF Cut
      <3>3. Cut(una, a, j) <= n
        <4>1. CASE j = 0
          BY <1>4, <4>1 DEF Cut
        <4>2. CASE j > 0
          <5>1. j \in 1 .. j
            BY <1>5, <4>2
          <5> QED BY <1>5, <4>2, <5>1 DEF Cut
        <4> QED BY <1>5, <4>1, <4>2
      <3>4. Cut(una, a, j) \in Iss .. E /\ m \in Iss .. E
        <4>1. a \in Iss .. E /\ m \in Iss .. E
          BY <1>3
        <4>2. Cut(una, a, j) \in Nat /\ Cut(una, a, j) >= a /\ Cut(una, a, j) <= m
          BY <1>8
        <4> QED BY <1>1, <4>1, <4>2
      <3>5. Chain(o, m, E, w, e)
        BY <1>9, <3>2
      <3> QED BY <1>8, <3>3, <3>4, <3>5
    <2>2. CASE j = Len(una)
      <3> DEFINE x == Cut(out, m, k)
      <3>1. u = <<>>
        BY <1>4, <1>7, <2>2
      <3>2. m <= n
        <4>1. CASE una = <<>>
          <5>1. m = a
            BY <1>3, <4>1 DEF Chain
          <5> QED BY <1>4, <5>1
        <4>2. CASE una /= <<>>
          <5>1. m = Stop(una[Len(una)]) /\ Len(una) \in 1 .. j
            BY <1>1, <1>3, <1>4, <2>2, <4>2 DEF Chain
          <5> QED BY <1>5, <5>1
        <4> QED BY <4>1, <4>2
      <3>3. x <= n
        <4>1. CASE k = 0
          BY <3>2, <4>1 DEF Cut
        <4>2. CASE k > 0
          <5>1. k \in 1 .. k
            BY <1>6, <4>2
          <5> QED BY <1>6, <4>2, <5>1 DEF Cut
        <4> QED BY <1>6, <4>1, <4>2
      <3>4. x \in Iss .. E
        <4>1. m \in Iss .. E
          BY <1>3
        <4>2. x \in Nat /\ x >= m /\ x <= E
          BY <1>9
        <4> HIDE DEF x
        <4> QED BY <1>1, <4>1, <4>2
      <3>5. Chain(u, x, x, w, e)
        BY <3>1, ChainEmpty
      <3> QED BY <1>9, <3>3, <3>4, <3>5
    <2> QED BY <1>4, <1>5, <2>1, <2>2
  <1>15. Iss <= n
    BY <1>1
  <1> QED BY <1>1, <1>12, <1>13, <1>14, <1>15 DEF Sending, E, u, o, j, k

\* The window moves, nothing is acknowledged.
LEMMA SendingMoved ==
  ASSUME NoWrap, NEW out, NEW una, NEW w, NEW e, NEW la, NEW wnd, NEW nxt,
         Sending(out, una, w, e, la, wnd, nxt), NEW wnd2 \in 0 .. TcpWnd, nxt <= la + wnd2,
         e = 1 => EndOf(w, e) <= la + wnd2
  PROVE  Sending(out, una, w, e, la, wnd2, nxt)
  BY DEF Sending

\* What an ACK says.
LEMMA AnswerOf ==
  ASSUME NoWrap, IInv, acks /= <<>>, NEW a, a = Head(acks)
  PROVE  /\ a.ackno \in Nat /\ a.wnd \in 0 .. TcpWnd /\ a.wnd \in Nat /\ a.ackno \in Span
         /\ Iss <= a.ackno /\ a.ackno <= rcv_nxt /\ a.ackno <= Reach
         /\ a.ackno + a.wnd <= ann_edge
         /\ snd_wl2 < a.ackno => snd_wl2 + snd_wnd <= a.ackno + a.wnd
         /\ snd_wl2 \in Span /\ lastack \in Span /\ snd_nxt \in Span
  <1>1. acks \in Seq(Answers(snd_wl2, snd_wnd, ann_edge, rcv_nxt)) /\ rcv_nxt <= Reach
        /\ lastack <= snd_wl2 /\ snd_wl2 <= rcv_nxt
    BY DEF IInv, NetworkOK
  <1>2. a \in Answers(snd_wl2, snd_wnd, ann_edge, rcv_nxt)
    BY <1>1, TailOver
  <1>3. /\ a \in Ack /\ Iss <= a.ackno /\ a.ackno <= rcv_nxt
        /\ a.ackno + a.wnd <= ann_edge
        /\ snd_wl2 < a.ackno => snd_wl2 + snd_wnd <= a.ackno + a.wnd
    BY <1>2 DEF Answers
  <1>4. a.ackno \in Nat /\ a.wnd \in 0 .. TcpWnd /\ a.wnd \in Nat
    BY <1>3, ConstantFacts DEF Ack
  <1>5. /\ rcv_nxt \in Nat /\ Reach \in Nat /\ rcv_nxt <= Iss + Total + 1 /\ snd_wl2 \in Nat
        /\ lastack \in Nat /\ Iss <= lastack /\ Iss \in Nat /\ Total \in Nat /\ TcpWnd \in Nat
        /\ TcpWnd >= 2
    BY NumbersOf, ConstantFacts
  <1>6. a.ackno <= Reach
    BY <1>1, <1>3, <1>4, <1>5
  <1>7. a.ackno \in Span /\ snd_wl2 \in Span
    BY <1>1, <1>3, <1>4, <1>5 DEF Span
  <1>8. lastack \in Span /\ snd_nxt \in Span
    BY SendingFacts DEF IInv, SenderOK
  <1> QED BY <1>3, <1>4, <1>6, <1>7, <1>8

\* tcp_receive: the window that an ACK brings.
LEMMA WindowUpdate ==
  ASSUME NoWrap, IInv, acks /= <<>>, acks' = Tail(acks), NEW a, a = Head(acks),
         IF UpdatesWindow(a)
           THEN snd_wnd' = a.wnd /\ snd_wl2' = a.ackno /\ persist' = (a.wnd = 0)
           ELSE UNCHANGED <<snd_wnd, snd_wl2, persist>>
  PROVE  /\ snd_wl2' \in Nat /\ snd_wnd' \in 0 .. TcpWnd /\ persist' \in BOOLEAN
         /\ a.ackno <= snd_wl2' /\ snd_wl2 <= snd_wl2' /\ snd_wl2' <= rcv_nxt
         /\ snd_wl2 + snd_wnd <= snd_wl2' + snd_wnd' /\ snd_wl2' + snd_wnd' <= ann_edge
         /\ snd_wnd' = snd_wnd \/ snd_wl2' = a.ackno
         /\ acks' \in Seq(Answers(snd_wl2', snd_wnd', ann_edge, rcv_nxt))
         /\ Rising(Items(acks'))
  <1>1. /\ a.ackno \in Nat /\ a.wnd \in 0 .. TcpWnd /\ a.wnd \in Nat /\ a.ackno \in Span
        /\ a.ackno <= rcv_nxt /\ a.ackno + a.wnd <= ann_edge /\ snd_wl2 \in Span
        /\ snd_wl2 < a.ackno => snd_wl2 + snd_wnd <= a.ackno + a.wnd
    BY AnswerOf
  <1>2. /\ snd_wl2 \in Nat /\ snd_wnd \in 0 .. TcpWnd /\ snd_wnd \in Nat
        /\ rcv_nxt \in Nat /\ ann_edge \in Nat
    BY NumbersOf, ConstantFacts
  <1>3. /\ snd_wl2 <= rcv_nxt /\ snd_wl2 + snd_wnd <= ann_edge
        /\ acks \in Seq(Answers(snd_wl2, snd_wnd, ann_edge, rcv_nxt)) /\ Rising(Items(acks))
    BY DEF IInv, NetworkOK
  <1>4. persist \in BOOLEAN
    BY DEF IInv, SenderOK
  <1>5. UpdatesWindow(a) <=> snd_wl2 < a.ackno \/ (snd_wl2 = a.ackno /\ a.wnd > snd_wnd)
    <2>1. LT(snd_wl2, a.ackno) <=> snd_wl2 < a.ackno
      BY <1>1, SpanCompare
    <2> QED BY <2>1 DEF UpdatesWindow
  <1>6. \A k \in 1 .. Len(acks) : acks[k] \in Items(acks)
    BY DEF Items
  <1>7. acks \in Seq(Items(acks))
    BY <1>3, <1>6, SeqOver
  <1>8. a \in Items(acks) /\ acks' \in Seq(Items(acks))
    BY <1>7, TailOver
  <1>9. \A b \in Items(acks) : b \in Answers(snd_wl2, snd_wnd, ann_edge, rcv_nxt)
    BY <1>3 DEF Items
  <1>10. Rising(Items(acks'))
    <2>1. \A k \in 1 .. Len(acks') : acks'[k] \in Items(acks)
      BY <1>8
    <2>2. \A b \in Items(acks') : b \in Items(acks)
      BY <2>1 DEF Items
    <2> QED BY <1>3, <2>2 DEF Rising
  <1>11. CASE UpdatesWindow(a)
    <2>1. snd_wnd' = a.wnd /\ snd_wl2' = a.ackno /\ persist' = (a.wnd = 0)
      BY <1>11
    <2>2. snd_wl2 < a.ackno \/ (snd_wl2 = a.ackno /\ a.wnd > snd_wnd)
      BY <1>5, <1>11
    <2>3. snd_wl2 <= a.ackno /\ snd_wl2 + snd_wnd <= a.ackno + a.wnd
      BY <1>1, <1>2, <2>2
    <2>4. ASSUME NEW b \in Items(acks)
          PROVE  b \in Answers(a.ackno, a.wnd, ann_edge, rcv_nxt)
      <3>1. /\ b \in Ack /\ Iss <= b.ackno /\ b.ackno <= rcv_nxt
            /\ b.ackno + b.wnd <= ann_edge
        BY <1>9 DEF Answers
      <3>2. a.ackno < b.ackno => a.ackno + a.wnd <= b.ackno + b.wnd
        BY <1>3, <1>8 DEF Rising
      <3> QED BY <3>1, <3>2 DEF Answers
    <2>5. acks' \in Seq(Answers(a.ackno, a.wnd, ann_edge, rcv_nxt))
      BY <1>8, <2>4, SeqMonotonic
    <2>6. a.ackno <= a.ackno
      BY <1>1
    <2>7. persist' \in BOOLEAN
      BY <2>1
    <2>8. snd_wnd' = a.wnd /\ snd_wl2' = a.ackno
      BY <2>1
    <2> QED BY <1>1, <1>10, <2>3, <2>5, <2>6, <2>7, <2>8
  <1>12. CASE ~UpdatesWindow(a)
    <2>1. snd_wnd' = snd_wnd /\ snd_wl2' = snd_wl2 /\ persist' = persist
      BY <1>12
    <2>2. a.ackno <= snd_wl2
      BY <1>1, <1>2, <1>5, <1>12
    <2>3. \A b \in Items(acks) : b \in Answers(snd_wl2, snd_wnd, ann_edge, rcv_nxt)
      BY <1>9
    <2>4. acks' \in Seq(Answers(snd_wl2, snd_wnd, ann_edge, rcv_nxt))
      BY <1>8, <2>3, SeqMonotonic
    <2>5. snd_wl2 <= snd_wl2 /\ snd_wl2 + snd_wnd <= snd_wl2 + snd_wnd
      BY <1>2
    <2>6. persist' \in BOOLEAN
      BY <1>4, <2>1
    <2>7. snd_wnd' = snd_wnd /\ snd_wl2' = snd_wl2
      BY <2>1
    <2> QED BY <1>2, <1>3, <1>10, <2>2, <2>4, <2>5, <2>6, <2>7
  <1> QED BY <1>11, <1>12

LEMMA PlusMore ==
  ASSUME NEW a \in Nat, NEW b \in Nat
  PROVE  a <= a + b /\ a + b \in Nat
  OBVIOUS

\* A step for an ACK that sends.
LEMMA AckStep ==
  ASSUME NoWrap, IInv, UNCHANGED receiver, faults' = faults, written' = written,
         finQueued' = finQueued, persist' \in BOOLEAN, inFR' \in BOOLEAN, snd_wl2' \in Nat,
         lastack' <= snd_wl2', snd_wl2' <= rcv_nxt, snd_wl2' + snd_wnd' <= ann_edge,
         lastack <= lastack',
         acks' \in Seq(Answers(snd_wl2', snd_wnd', ann_edge, rcv_nxt)), Rising(Items(acks')),
         NEW out, NEW una, NEW timer, NEW cwnd \in Cwnd, Output(out, una, timer, cwnd),
         Sending(out, una, written, Fins, lastack', snd_wnd', snd_nxt),
         una = <<>> \/ timer
  PROVE  IInv'
  <1>1. Fins' = Fins
    BY DEF Fins
  <1>2. Sending(out, una, written', Fins', lastack', snd_wnd', snd_nxt)
    BY <1>1
  <1>3. cwnd \in Nat /\ MssLocal <= cwnd
    BY CwndOf
  <1>4. /\ rtime' \in BOOLEAN /\ (timer => rtime')
        /\ Sending(unsent', unacked', written', Fins', lastack', snd_wnd', snd_nxt')
        /\ snd_nxt <= snd_nxt'
        /\ una = <<>> /\ unacked' /= <<>> => rtime'
        /\ \E sent : SentNow(sent, written', Fins', lastack', snd_wnd', snd_nxt')
        /\ finQueued' => lastack' = EndOf(written', Fins') \/ lastack' < snd_nxt'
    BY <1>2, <1>3, OutputKeeps, Zenon
  <1>5. unacked' /= <<>> => rtime'
    BY <1>4, Zenon
  <1>6. PICK sent : SentNow(sent, written', Fins', lastack', snd_wnd', snd_nxt')
    BY <1>4
  <1>7. /\ finQueued' \in BOOLEAN /\ faults' \in 0 .. MaxFaults
    BY DEF IInv, SenderOK, NetworkOK
  <1>8. /\ written' \in 0 .. Total /\ written <= written' /\ Fins' \in 0 .. 1
        /\ (Fins = 1 => Fins' = 1 /\ written' = written)
    BY <1>1, NumbersOf
  <1> QED BY <1>4, <1>5, <1>6, <1>7, <1>8, OutputActs, Zenon

LEMMA NewAckKeeps ==
  ASSUME NoWrap, IInv, AckArrives, NewAck(Head(acks))
  PROVE  IInv'
  <1> DEFINE a == Head(acks)
  <1>1. /\ acks /= <<>> /\ acks' = Tail(acks) /\ written' = written /\ finQueued' = finQueued
        /\ UNCHANGED receiver /\ faults' = faults
    BY DEF AckArrives
  <1>2. /\ snd_wl2' \in Nat /\ snd_wnd' \in 0 .. TcpWnd /\ persist' \in BOOLEAN
        /\ a.ackno <= snd_wl2' /\ snd_wl2' <= rcv_nxt
        /\ snd_wl2 + snd_wnd <= snd_wl2' + snd_wnd' /\ snd_wl2' + snd_wnd' <= ann_edge
        /\ snd_wnd' = snd_wnd \/ snd_wl2' = a.ackno
        /\ acks' \in Seq(Answers(snd_wl2', snd_wnd', ann_edge, rcv_nxt))
        /\ Rising(Items(acks'))
    BY WindowUpdate DEF AckArrives
  <1>3. /\ a.ackno \in Nat /\ a.ackno \in Span /\ lastack \in Span /\ snd_nxt \in Span
    BY <1>1, AnswerOf
  <1>4. /\ written \in 0 .. Total /\ Fins \in 0 .. 1 /\ lastack \in Nat /\ snd_nxt \in Nat
        /\ snd_wl2 \in Nat /\ snd_wnd \in Nat /\ snd_wnd' \in Nat /\ lastack <= snd_nxt
    BY <1>2, NumbersOf, ConstantFacts
  <1>5. Sending(unsent, unacked, written, Fins, lastack, snd_wnd, snd_nxt)
    BY DEF IInv, SenderOK
  <1>6. lastack <= snd_wl2
    BY DEF IInv, NetworkOK
  <1> HIDE DEF a
  <1>7. Between(a.ackno, Plus(lastack, 1), snd_nxt) /\ lastack' = a.ackno /\ inFR' = FALSE
    BY DEF NewAck, a
  <1>8. lastack < a.ackno /\ a.ackno <= snd_nxt
    <2>1. lastack + 1 < M /\ lastack + 1 \in Span
      <3>1. /\ lastack <= Iss + Total + 1 /\ Iss <= lastack
        <4>1. snd_nxt <= EndOf(written, Fins) /\ EndOf(written, Fins) <= Iss + Total + 1
          BY <1>5, SendingFacts
        <4>2. EndOf(written, Fins) \in Nat /\ Iss <= lastack
          BY <1>5, SendingFacts
        <4> QED BY <1>4, <4>1, <4>2, ConstantFacts
      <3> QED BY <1>4, <3>1, ConstantFacts DEF Span, NoWrap
    <2>2. Plus(lastack, 1) = lastack + 1
      BY <1>4, <2>1, PlusOf
    <2>3. GEQ(a.ackno, lastack + 1) /\ LEQ(a.ackno, snd_nxt)
      BY <1>7, <2>2 DEF Between
    <2>4. a.ackno >= lastack + 1
      BY <1>3, <2>1, <2>3, SpanCompare
    <2>5. a.ackno <= snd_nxt
      BY <1>3, <2>3, SpanCompare
    <2> QED BY <1>3, <1>4, <2>4, <2>5
  <1>9. snd_nxt <= lastack + snd_wnd /\ (Fins = 1 => EndOf(written, Fins) <= lastack + snd_wnd)
        /\ EndOf(written, Fins) \in Nat
    BY <1>5, SendingFacts DEF Sending
  <1>10. lastack + snd_wnd <= a.ackno + snd_wnd'
    <2>1. CASE snd_wnd' = snd_wnd
      BY <1>3, <1>4, <1>8, <2>1
    <2>2. CASE snd_wl2' = a.ackno
      <3>1. snd_wl2 + snd_wnd <= a.ackno + snd_wnd'
        BY <1>2, <2>2
      <3> QED BY <1>3, <1>4, <1>6, <3>1
    <2> QED BY <1>2, <2>1, <2>2
  <1>11. snd_nxt <= a.ackno + snd_wnd' /\ (Fins = 1 => EndOf(written, Fins) <= a.ackno + snd_wnd')
    <2>1. lastack + snd_wnd \in Nat /\ a.ackno + snd_wnd' \in Nat
      BY <1>3, <1>4
    <2> QED BY <1>4, <1>9, <1>10, <2>1
  <1> DEFINE una == From(unacked, UpTo(unacked, a.ackno) + 1)
             out == From(unsent, UpTo(unsent, a.ackno) + 1)
  <1>12. Sending(out, una, written, Fins, a.ackno, snd_wnd', snd_nxt)
    <2>1. lastack <= a.ackno
      BY <1>3, <1>4, <1>8
    <2> QED BY <1>2, <1>3, <1>5, <1>8, <1>11, <2>1, SendingAcked
  <1>13. AckedUna(a) = UpTo(unacked, a.ackno)
    BY DEF AckedUna, Prefix, UpTo
  <1>14. AckedOut(unsent, a) = UpTo(unsent, a.ackno)
    <2>1. AckedOut(unsent, a) = UpToSent(unsent, a.ackno, snd_nxt)
      BY DEF AckedOut, Prefix, UpToSent
    <2>2. unsent \in Seq(Segment) /\ \A k \in 1 .. Len(unsent) : Piece(unsent[k], written, Fins)
      BY <1>5, SendingFacts
    <2>3. Len(unsent) \in Nat
      BY <2>2
    <2> QED BY <1>3, <1>4, <1>8, <2>1, <2>2, <2>3, UpToSentOf
  <1>15. PICK cwnd \in Cwnd : Output(out, una, una /= <<>>, cwnd)
    <2>1. \E cwnd \in Cwnd :
            Output(From(unsent, AckedOut(unsent, a) + 1), From(unacked, AckedUna(a) + 1),
                   From(unacked, AckedUna(a) + 1) /= <<>>, cwnd)
      BY Zenon DEF NewAck, a
    <2> QED BY <1>13, <1>14, <2>1, Zenon
  <1> HIDE DEF una, out
  <1>16. una = <<>> \/ una /= <<>>
    OBVIOUS
  <1>17. /\ lastack <= lastack' /\ lastack' <= snd_wl2' /\ inFR' \in BOOLEAN
         /\ Sending(out, una, written, Fins, lastack', snd_wnd', snd_nxt)
    <2>1. lastack' = a.ackno /\ a.ackno <= snd_wl2' /\ inFR' \in BOOLEAN
      BY <1>2, <1>7
    <2>2. lastack <= a.ackno
      BY <1>3, <1>4, <1>8
    <2> QED BY <1>12, <2>1, <2>2
  <1> QED BY <1>1, <1>2, <1>15, <1>16, <1>17, AckStep, Zenon

LEMMA StrangeAckKeeps ==
  ASSUME NoWrap, IInv, AckArrives, StrangeAck(Head(acks))
  PROVE  IInv'
  <1> DEFINE a == Head(acks)
  <1>1. /\ acks /= <<>> /\ acks' = Tail(acks) /\ written' = written /\ finQueued' = finQueued
        /\ UNCHANGED receiver /\ faults' = faults
    BY DEF AckArrives
  <1>2. /\ snd_wl2' \in Nat /\ snd_wnd' \in 0 .. TcpWnd /\ persist' \in BOOLEAN
        /\ snd_wl2 <= snd_wl2' /\ snd_wl2' <= rcv_nxt
        /\ snd_wl2' + snd_wnd' <= ann_edge
        /\ acks' \in Seq(Answers(snd_wl2', snd_wnd', ann_edge, rcv_nxt))
        /\ Rising(Items(acks'))
    BY WindowUpdate DEF AckArrives
  <1>3. /\ a.ackno \in Nat /\ a.ackno \in Span /\ lastack \in Span /\ snd_nxt \in Span
        /\ a.ackno <= Reach /\ a.ackno <= rcv_nxt
    BY <1>1, AnswerOf
  <1>4. /\ written \in 0 .. Total /\ Fins \in 0 .. 1 /\ lastack \in Nat /\ snd_nxt \in Nat
        /\ snd_wl2 \in Nat /\ snd_wnd' \in Nat /\ lastack <= snd_nxt /\ written \in Nat
        /\ rcv_nxt \in Nat
    BY <1>2, NumbersOf, ConstantFacts
  <1>5. /\ Sending(unsent, unacked, written, Fins, lastack, snd_wnd, snd_nxt)
        /\ finQueued => lastack = EndOf(written, Fins) \/ lastack < snd_nxt
        /\ (unacked /= <<>> => rtime) /\ rtime \in BOOLEAN /\ inFR \in BOOLEAN
    BY DEF IInv, SenderOK
  <1>6. lastack <= snd_wl2
    BY DEF IInv, NetworkOK
  <1> HIDE DEF a
  <1>7. GT(a.ackno, snd_nxt) /\ lastack' = lastack /\ inFR' = inFR
    BY DEF StrangeAck, a
  <1>8. snd_nxt < a.ackno
    <2>1. a.ackno > snd_nxt
      BY <1>3, <1>7, SpanCompare
    <2> QED BY <1>3, <1>4, <2>1
  <1>9. snd_nxt = lastack /\ a.ackno = lastack + 1
    <2>1. Reach = IF snd_nxt > lastack THEN snd_nxt ELSE lastack + 1
      BY DEF Reach, ReachOf
    <2> QED BY <1>3, <1>4, <1>8, <2>1
  <1>10. Fins = 0
    <2>1. CASE finQueued
      <3>1. lastack = EndOf(written, Fins) /\ Fins = 1
        BY <1>4, <1>5, <1>9, <2>1 DEF Fins
      <3>2. /\ Len(got) \in 0 .. written /\ rcv_nxt = EndOf(Len(got), Ends)
        BY DEF IInv, ReceiverOK
      <3>3. rcv_nxt <= EndOf(written, Fins)
        <4>1. Ends \in 0 .. 1
          BY DEF Ends
        <4> QED BY <1>4, <3>1, <3>2, <4>1, ConstantFacts DEF EndOf
      <3>4. EndOf(written, Fins) \in Nat
        BY <1>4, <3>1
      <3> QED BY <1>3, <1>4, <1>9, <3>1, <3>3, <3>4
    <2>2. CASE ~finQueued
      BY <2>2 DEF Fins
    <2> QED BY <2>1, <2>2
  <1>11. Sending(unsent, unacked, written, Fins, lastack, snd_wnd', snd_nxt)
    <2>0. snd_nxt = lastack
      BY <1>9
    <2>1. lastack \in Nat /\ snd_wnd' \in Nat
      BY <1>4
    <2>2. lastack <= lastack + snd_wnd'
      BY <2>1, PlusMore
    <2>3. Fins /= 1 /\ snd_nxt <= lastack + snd_wnd'
      BY ONLY <1>10, <2>0, <2>2
    <2> QED BY <1>2, <1>5, <2>3, SendingMoved
  <1>12. From(unsent, AckedOut(unsent, a) + 1) = unsent
    <2>1. AckedOut(unsent, a) = UpToSent(unsent, a.ackno, snd_nxt)
      BY DEF AckedOut, Prefix, UpToSent
    <2>2. unsent \in Seq(Segment) /\ \A k \in 1 .. Len(unsent) : Piece(unsent[k], written, Fins)
      BY <1>5, SendingFacts
    <2>3. Len(unsent) \in Nat
      BY <2>2
    <2>4. AckedOut(unsent, a) = 0
      BY <1>3, <1>4, <1>8, <2>1, <2>2, <2>3, UpToSentOf
    <2> QED BY <2>2, <2>4, FromFirst
  <1>13. PICK cwnd \in Cwnd : Output(unsent, unacked, rtime, cwnd)
    <2>1. \E cwnd \in Cwnd : Output(From(unsent, AckedOut(unsent, a) + 1), unacked, rtime, cwnd)
      BY Zenon DEF StrangeAck, a
    <2> QED BY <1>12, <2>1, Zenon
  <1>14. unacked = <<>> \/ rtime
    BY <1>5
  <1>15. /\ lastack <= lastack' /\ lastack' <= snd_wl2' /\ inFR' \in BOOLEAN
         /\ Sending(unsent, unacked, written, Fins, lastack', snd_wnd', snd_nxt)
    <2>1. lastack <= snd_wl2' /\ lastack <= lastack
      BY <1>2, <1>4, <1>6
    <2> QED BY <1>5, <1>7, <1>11, <2>1
  <1> QED BY <1>1, <1>2, <1>13, <1>14, <1>15, AckStep, Zenon

\* Output of no more than the queues, when nothing is acknowledged.
LEMMA OldAckKeeps ==
  ASSUME NoWrap, IInv, AckArrives, OldAck(Head(acks))
  PROVE  IInv'
  <1> DEFINE a == Head(acks)
             s == Head(unacked)
             una == Tail(unacked)
  <1>1. /\ acks /= <<>> /\ acks' = Tail(acks) /\ written' = written /\ finQueued' = finQueued
        /\ UNCHANGED receiver /\ faults' = faults
    BY DEF AckArrives
  <1>2. /\ snd_wl2' \in Nat /\ snd_wnd' \in 0 .. TcpWnd /\ persist' \in BOOLEAN
        /\ snd_wl2 <= snd_wl2' /\ snd_wl2' <= rcv_nxt /\ a.ackno <= snd_wl2'
        /\ snd_wl2 + snd_wnd <= snd_wl2' + snd_wnd' /\ snd_wl2' + snd_wnd' <= ann_edge
        /\ snd_wnd' = snd_wnd \/ snd_wl2' = a.ackno
        /\ acks' \in Seq(Answers(snd_wl2', snd_wnd', ann_edge, rcv_nxt))
        /\ Rising(Items(acks'))
    BY WindowUpdate DEF AckArrives
  <1>3. /\ a.ackno \in Nat /\ a.ackno \in Span /\ lastack \in Span /\ snd_nxt \in Span
    BY <1>1, AnswerOf
  <1>4. /\ written \in 0 .. Total /\ Fins \in 0 .. 1 /\ lastack \in Nat /\ snd_nxt \in Nat
        /\ snd_wl2 \in Nat /\ snd_wnd \in Nat /\ snd_wnd' \in Nat /\ lastack <= snd_nxt
        /\ written \in Nat /\ snd_nxt \in Nat
    BY <1>2, NumbersOf, ConstantFacts
  <1>5. /\ Sending(unsent, unacked, written, Fins, lastack, snd_wnd, snd_nxt)
        /\ (unacked /= <<>> => rtime) /\ rtime \in BOOLEAN /\ inFR \in BOOLEAN
        /\ finQueued \in BOOLEAN
    BY DEF IInv, SenderOK
  <1>6. lastack <= snd_wl2 /\ faults \in 0 .. MaxFaults
    BY DEF IInv, NetworkOK
  <1>7. /\ unsent \in Seq(Segment) /\ unacked \in Seq(Segment)
        /\ \A k \in 1 .. Len(unsent) : Piece(unsent[k], written, Fins)
        /\ \A k \in 1 .. Len(unacked) : Piece(unacked[k], written, Fins)
        /\ \A k \in 1 .. Len(unsent) : lastack < Stop(unsent[k])
        /\ \A k \in 1 .. Len(unacked) : lastack < Stop(unacked[k])
    BY <1>5, SendingFacts DEF Sending
  <1> HIDE DEF a
  <1>8. LEQ(a.ackno, lastack) /\ lastack' = lastack
    BY DEF OldAck, a
  <1>9. a.ackno <= lastack
    BY <1>3, <1>8, SpanCompare
  <1>10. lastack + snd_wnd <= lastack + snd_wnd'
    <2>1. CASE snd_wnd' = snd_wnd
      BY <1>4, <2>1
    <2>2. CASE snd_wl2' = a.ackno
      <3>1. snd_wl2 = lastack /\ snd_wl2' = lastack
        BY <1>2, <1>3, <1>4, <1>6, <1>9, <2>2
      <3> QED BY <1>2, <3>1
    <2> QED BY <1>2, <2>1, <2>2
  <1>11. Sending(unsent, unacked, written, Fins, lastack, snd_wnd', snd_nxt)
    <2>1. snd_nxt <= lastack + snd_wnd /\ (Fins = 1 => EndOf(written, Fins) <= lastack + snd_wnd)
          /\ EndOf(written, Fins) \in Nat
      BY <1>5, SendingFacts DEF Sending
    <2>2. lastack + snd_wnd \in Nat /\ lastack + snd_wnd' \in Nat
      BY <1>4, PlusMore
    <2>3. snd_nxt <= lastack + snd_wnd' /\ (Fins = 1 => EndOf(written, Fins) <= lastack + snd_wnd')
      BY <1>4, <1>10, <2>1, <2>2, Between3
    <2> QED BY <1>2, <1>5, <2>3, SendingMoved
  <1>12. /\ lastack <= lastack' /\ lastack' <= snd_wl2'
    <2>1. lastack <= snd_wl2' /\ lastack <= lastack
      BY <1>2, <1>4, <1>6
    <2> QED BY <1>8, <2>1
  <1>13. ASSUME NEW q \in Seq(Segment), \A k \in 1 .. Len(q) : Piece(q[k], written, Fins),
                \A k \in 1 .. Len(q) : lastack < Stop(q[k])
         PROVE  From(q, AckedOut(q, a) + 1) = q
    <2>1. AckedOut(q, a) = UpToSent(q, a.ackno, snd_nxt)
      BY DEF AckedOut, Prefix, UpToSent
    <2>2. \A k \in 1 .. Len(q) : a.ackno < Stop(q[k])
      <3> SUFFICES ASSUME NEW k \in 1 .. Len(q) PROVE a.ackno < Stop(q[k])
        OBVIOUS
      <3>1. Stop(q[k]) \in Nat /\ lastack < Stop(q[k])
        BY SegmentFacts, <1>13
      <3> QED BY <1>3, <1>4, <1>9, <3>1
    <2> QED BY <1>3, <1>4, <1>13, <2>1, <2>2, NoneUpTo
  <1>14. PICK third \in BOOLEAN, cwnd \in Cwnd :
           LET fast == third /\ Duplicate(a) /\ unacked /= <<>> /\ ~inFR
               q    == IF fast THEN Rexmit(unsent, unacked)
                       ELSE [out |-> unsent, una |-> unacked]
           IN  /\ inFR' = (inFR \/ fast)
               /\ Output(From(q.out, AckedOut(q.out, a) + 1), q.una, rtime, cwnd)
    BY Zenon DEF OldAck, a
  <1>15. CASE ~(third /\ Duplicate(a) /\ unacked /= <<>> /\ ~inFR)
    <2>1. /\ inFR' = inFR
          /\ Output(From(unsent, AckedOut(unsent, a) + 1), unacked, rtime, cwnd)
      <3> DEFINE fast == third /\ Duplicate(a) /\ unacked /= <<>> /\ ~inFR
                 q == IF fast THEN Rexmit(unsent, unacked) ELSE [out |-> unsent, una |-> unacked]
      <3>1. /\ inFR' = (inFR \/ fast)
            /\ Output(From(q.out, AckedOut(q.out, a) + 1), q.una, rtime, cwnd)
        BY <1>14, Zenon
      <3>2. ~fast /\ q = [out |-> unsent, una |-> unacked]
        BY <1>15
      <3> HIDE DEF fast, q
      <3>3. q.out = unsent /\ q.una = unacked
        BY <3>2
      <3>4. Output(From(unsent, AckedOut(unsent, a) + 1), unacked, rtime, cwnd)
        BY <3>1, <3>3, Zenon
      <3>5. inFR' = inFR
        BY <1>5, <3>1, <3>2, Zenon
      <3> QED BY <3>4, <3>5, Zenon
    <2>2. From(unsent, AckedOut(unsent, a) + 1) = unsent
      BY <1>7, <1>13
    <2>3. Output(unsent, unacked, rtime, cwnd)
      BY <2>1, <2>2
    <2>4. unacked = <<>> \/ rtime
      BY <1>5
    <2>5. /\ Sending(unsent, unacked, written, Fins, lastack', snd_wnd', snd_nxt)
          /\ inFR' \in BOOLEAN
      BY <1>5, <1>8, <1>11, <2>1
    <2> QED BY <1>1, <1>2, <1>12, <2>3, <2>4, <2>5, AckStep, Zenon
  <1>16. CASE third /\ Duplicate(a) /\ unacked /= <<>> /\ ~inFR
    <2> DEFINE out == Cons(s, unsent)
    <2>1. /\ inFR'
          /\ Output(From(Insert(unsent, s), AckedOut(Insert(unsent, s), a) + 1), una, rtime, cwnd)
      BY <1>14, <1>16 DEF Rexmit
    <2>2. /\ s = unacked[1] /\ 1 \in 1 .. Len(unacked) /\ s \in Segment /\ una \in Seq(Segment)
          /\ unacked = Cons(s, una)
      BY <1>7, <1>16, HeadTailProperties DEF Cons
    <2>3. Piece(s, written, Fins) /\ lastack < Stop(s)
      BY <1>7, <2>2
    <2> HIDE DEF s, una
    <2>4. PICK x \in Iss .. EndOf(written, Fins), m \in Iss .. EndOf(written, Fins) :
            Chain(unacked, x, m, written, Fins) /\ Chain(unsent, m, EndOf(written, Fins), written, Fins)
      BY <1>5 DEF Sending
    <2>5. x \in Nat /\ m \in Nat
      BY <2>4, ConstantFacts
    <2>6. \A k \in 1 .. Len(unsent) : unsent[k].seq \in Span /\ s.seq < unsent[k].seq
      <3> SUFFICES ASSUME NEW k \in 1 .. Len(unsent)
                   PROVE  unsent[k].seq \in Span /\ s.seq < unsent[k].seq
        OBVIOUS
      <3>1. Stop(s) <= m
        BY <1>4, <2>2, <2>4, <2>5, ChainFacts
      <3>2. m <= unsent[k].seq
        BY <1>4, <2>4, <2>5, ChainFacts
      <3>3. s.seq < Stop(s) /\ s.seq \in Nat /\ Stop(s) \in Nat
        BY <1>4, <2>3, PieceFacts
      <3>4. unsent[k].seq \in Span /\ unsent[k].seq \in Nat
        BY <1>4, <1>7, PieceFacts
      <3> QED BY <2>5, <3>1, <3>2, <3>3, <3>4
    <2>7. s.seq \in Span
      BY <1>4, <2>3, PieceFacts
    <2>8. Insert(unsent, s) = out
      BY <1>7, <2>2, <2>6, <2>7, InsertFirst
    <2>9. /\ out \in Seq(Segment) /\ Len(out) = Len(unsent) + 1 /\ out[1] = s
          /\ \A i \in 1 .. Len(unsent) : out[i + 1] = unsent[i]
      <3>1. unsent \in Seq(Segment) /\ s \in Segment
        BY <1>7, <2>2
      <3> QED BY <3>1, ConsOf
    <2> HIDE DEF out
    <2>10. \A k \in 1 .. Len(out) : Piece(out[k], written, Fins) /\ lastack < Stop(out[k])
      <3> SUFFICES ASSUME NEW k \in 1 .. Len(out)
                   PROVE  Piece(out[k], written, Fins) /\ lastack < Stop(out[k])
        OBVIOUS
      <3>1. CASE k = 1
        BY <2>3, <2>9, <3>1
      <3>2. CASE k > 1
        <4>1. k - 1 \in 1 .. Len(unsent) /\ k = (k - 1) + 1
          BY <1>7, <2>9, <3>2
        <4>2. out[(k - 1) + 1] = unsent[k - 1]
          BY <2>9, <4>1
        <4>3. out[k] = unsent[k - 1]
          BY <4>1, <4>2
        <4> QED BY <1>7, <4>1, <4>3
      <3> QED BY <2>9, <3>1, <3>2
    <2>11. From(out, AckedOut(out, a) + 1) = out
      BY <1>13, <2>9, <2>10
    <2>12. Output(out, una, rtime, cwnd)
      BY <2>1, <2>8, <2>11
    <2>13. Fins' = Fins
      BY <1>1 DEF Fins
    <2>14. Sending(unsent, Cons(s, una), written', Fins', lastack', snd_wnd', snd_nxt)
      BY <1>1, <1>8, <1>11, <2>2, <2>13
    <2>15. cwnd \in Nat /\ MssLocal <= cwnd
      BY CwndOf
    <2>16. Len(out) \in Nat
      BY <2>9
    <2>17. /\ rtime' \in BOOLEAN
           /\ \E c \in 0 .. Len(out) : Sends(out, una, cwnd, c)
      BY <2>12, <2>16, OutputSends, Zenon
    <2>18. PICK c \in 0 .. Len(out) : Sends(out, una, cwnd, c)
      BY <2>17
    <2>19. Sends(Cons(s, unsent), una, cwnd, c)
      BY <2>18 DEF out
    <2>20. /\ Sending(unsent', unacked', written', Fins', lastack', snd_wnd', snd_nxt')
           /\ snd_nxt <= snd_nxt' /\ rtime' /\ lastack' < snd_nxt'
           /\ \E sent : SentNow(sent, written', Fins', lastack', snd_wnd', snd_nxt')
      BY <2>1, <2>2, <2>14, <2>15, <2>19, SendsAgain
    <2>21. PICK sent : SentNow(sent, written', Fins', lastack', snd_wnd', snd_nxt')
      BY <2>20
    <2>22. /\ written' \in 0 .. Total /\ written <= written' /\ Fins' \in 0 .. 1
           /\ (Fins = 1 => Fins' = 1 /\ written' = written)
      BY <1>1, <1>4, <2>13
    <2>23. /\ finQueued' \in BOOLEAN /\ (finQueued => finQueued') /\ faults' \in 0 .. MaxFaults
           /\ inFR' \in BOOLEAN
      <3>1. inFR' = (inFR \/ TRUE)
        BY <1>14, <1>16
      <3> QED BY <1>1, <1>5, <1>6, <3>1
    <2> QED BY <1>1, <1>2, <1>12, <2>17, <2>20, <2>21, <2>22, <2>23, OutputActs, Zenon
  <1> QED BY <1>15, <1>16

LEMMA AckArrivesKeeps ==
  ASSUME NoWrap, IInv, AckArrives
  PROVE  IInv'
  <1>1. OldAck(Head(acks)) \/ NewAck(Head(acks)) \/ StrangeAck(Head(acks))
    BY DEF AckArrives
  <1> QED BY <1>1, OldAckKeeps, NewAckKeeps, StrangeAckKeeps

-----------------------------------------------------------------------------
(* The out-of-order queue.                                                   *)

LEMMA OrderedFacts ==
  ASSUME NoWrap, NEW w \in 0 .. Total, NEW e \in 0 .. 1, NEW q, NEW n, NEW b \in Nat,
         Ordered(q, n, b, w, e)
  PROVE  /\ q \in Seq(Segment) /\ Len(q) \in Nat
         /\ \A k \in 1 .. Len(q) : Piece(q[k], w, e) /\ n < q[k].seq /\ Stop(q[k]) <= b
         /\ \A k \in 1 .. Len(q) : k < Len(q) => ~q[k].fin /\ Stop(q[k]) = DataStop(q[k])
         /\ \A j, k \in 1 .. Len(q) : j < k => Stop(q[j]) <= q[k].seq
  <1>1. /\ q \in Seq(Segment) /\ Len(q) \in Nat
        /\ \A k \in 1 .. Len(q) : /\ Piece(q[k], w, e)
                                  /\ n < q[k].seq /\ Stop(q[k]) <= b
                                  /\ k < Len(q) => ~q[k].fin /\ DataStop(q[k]) <= q[k + 1].seq
    BY DEF Ordered
  <1>2. \A k \in 1 .. Len(q) : q[k].seq \in Nat /\ Stop(q[k]) \in Nat /\ q[k].seq < Stop(q[k])
    BY <1>1, PieceFacts
  <1>3. \A k \in 1 .. Len(q) : k < Len(q) => ~q[k].fin /\ Stop(q[k]) = DataStop(q[k])
    BY <1>1, PieceFacts
  <1>4. \A k \in 1 .. Len(q) : k > 1 => k - 1 \in 1 .. Len(q) /\ Stop(q[k - 1]) <= q[k].seq
    <2> SUFFICES ASSUME NEW k \in 1 .. Len(q), k > 1
                 PROVE  k - 1 \in 1 .. Len(q) /\ Stop(q[k - 1]) <= q[k].seq
      OBVIOUS
    <2>1. k - 1 \in 1 .. Len(q) /\ k - 1 < Len(q) /\ (k - 1) + 1 = k
      BY <1>1
    <2>2. DataStop(q[k - 1]) <= q[(k - 1) + 1].seq /\ Stop(q[k - 1]) = DataStop(q[k - 1])
      BY <1>1, <1>3, <2>1
    <2> QED BY <2>1, <2>2
  <1>5. \A j, k \in 1 .. Len(q) : j < k => Stop(q[j]) <= q[k].seq
    <2> DEFINE S == {k \in 1 .. Len(q) : \E j \in 1 .. Len(q) : j < k /\ ~(Stop(q[j]) <= q[k].seq)}
    <2> SUFFICES ASSUME S /= {} PROVE FALSE
      OBVIOUS
    <2>1. S \in SUBSET Nat
      OBVIOUS
    <2>2. PICK k \in S : \A i \in S : k <= i
      BY <2>1, LeastExists
    <2>3. PICK j \in 1 .. Len(q) : j < k /\ ~(Stop(q[j]) <= q[k].seq)
      BY <2>2
    <2>4. k \in 1 .. Len(q) /\ k > 1 /\ k - 1 \in 1 .. Len(q) /\ Stop(q[k - 1]) <= q[k].seq
      BY <1>4, <2>2, <2>3
    <2>5. j /= k - 1
      BY <2>3, <2>4
    <2>6. j < k - 1
      BY <1>1, <2>3, <2>4, <2>5
    <2>7. k - 1 \notin S
      BY <2>2, <2>4, SMTT(30)
    <2>8. Stop(q[j]) <= q[k - 1].seq
      BY <2>4, <2>6, <2>7
    <2>9. /\ Stop(q[j]) \in Nat /\ q[k - 1].seq \in Nat /\ Stop(q[k - 1]) \in Nat
          /\ q[k - 1].seq < Stop(q[k - 1]) /\ q[k].seq \in Nat
      BY <1>2, <2>3, <2>4
    <2> QED BY <2>3, <2>4, <2>8, <2>9, SMTT(30)
  <1> QED BY <1>1, <1>3, <1>5

\* The segments of q lie beyond n and up to b.
LEMMA OrderedOver ==
  ASSUME NoWrap, NEW w \in 0 .. Total, NEW e \in 0 .. 1, NEW q, NEW n, NEW b \in Nat,
         Ordered(q, n, b, w, e), NEW n2, NEW b2,
         \A k \in 1 .. Len(q) : n2 < q[k].seq /\ Stop(q[k]) <= b2
  PROVE  Ordered(q, n2, b2, w, e)
  BY DEF Ordered

LEMMA OrderedEmpty ==
  ASSUME NEW w, NEW e, NEW n, NEW b
  PROVE  Ordered(<<>>, n, b, w, e)
  <1>1. <<>> \in Seq(Segment) /\ Len(<<>>) = 0
    OBVIOUS
  <1> QED BY <1>1 DEF Ordered

LEMMA OrderedOne ==
  ASSUME NEW w, NEW e, NEW n, NEW b, NEW s, Piece(s, w, e), n < s.seq, Stop(s) <= b
  PROVE  Ordered(<<s>>, n, b, w, e)
  <1>1. s \in Segment
    BY DEF Piece
  <1> DEFINE q == <<s>>
  <1>2. q \in Seq(Segment) /\ Len(q) = 1 /\ q[1] = s
    BY <1>1
  <1> HIDE DEF q
  <1>3. \A k \in 1 .. Len(q) : q[k] = s /\ ~(k < Len(q))
    BY <1>2
  <1>4. Ordered(q, n, b, w, e)
    BY <1>2, <1>3 DEF Ordered
  <1> QED BY <1>4 DEF q

LEMMA OrderedParts ==
  ASSUME NoWrap, NEW w \in 0 .. Total, NEW e \in 0 .. 1, NEW q, NEW n, NEW b \in Nat,
         Ordered(q, n, b, w, e), NEW k \in 0 .. Len(q)
  PROVE  /\ Ordered(SubSeq(q, 1, k), n, b, w, e) /\ Len(SubSeq(q, 1, k)) = k
         /\ \A i \in 1 .. k : SubSeq(q, 1, k)[i] = q[i]
         /\ Ordered(From(q, k + 1), n, b, w, e) /\ Len(From(q, k + 1)) = Len(q) - k
         /\ \A i \in 1 .. Len(q) - k : From(q, k + 1)[i] = q[k + i]
  <1> DEFINE p == SubSeq(q, 1, k)
             r == From(q, k + 1)
  <1>1. /\ q \in Seq(Segment) /\ Len(q) \in Nat
        /\ \A i \in 1 .. Len(q) : /\ Piece(q[i], w, e)
                                  /\ n < q[i].seq /\ Stop(q[i]) <= b
                                  /\ i < Len(q) => ~q[i].fin /\ DataStop(q[i]) <= q[i + 1].seq
    BY DEF Ordered
  <1>2. /\ p \in Seq(Segment) /\ Len(p) = k /\ \A i \in 1 .. k : p[i] = q[i]
        /\ r \in Seq(Segment) /\ Len(r) = Len(q) - k /\ \A i \in 1 .. Len(q) - k : r[i] = q[k + i]
    BY <1>1, SubSeqOf
  <1> HIDE DEF p, r
  <1>3. Ordered(p, n, b, w, e)
    <2>1. ASSUME NEW i \in 1 .. Len(p)
          PROVE  /\ Piece(p[i], w, e) /\ n < p[i].seq /\ Stop(p[i]) <= b
                 /\ i < Len(p) => ~p[i].fin /\ DataStop(p[i]) <= p[i + 1].seq
      <3>1. i \in 1 .. Len(q) /\ p[i] = q[i]
        BY <1>1, <1>2
      <3>2. ASSUME i < Len(p) PROVE ~p[i].fin /\ DataStop(p[i]) <= p[i + 1].seq
        <4>1. i < Len(q) /\ i + 1 \in 1 .. k
          BY <1>1, <1>2, <3>2
        <4> QED BY <1>1, <1>2, <3>1, <4>1
      <3> QED BY <1>1, <3>1, <3>2
    <2> QED BY <1>2, <2>1 DEF Ordered
  <1>4. Ordered(r, n, b, w, e)
    <2>1. ASSUME NEW i \in 1 .. Len(r)
          PROVE  /\ Piece(r[i], w, e) /\ n < r[i].seq /\ Stop(r[i]) <= b
                 /\ i < Len(r) => ~r[i].fin /\ DataStop(r[i]) <= r[i + 1].seq
      <3>1. k + i \in 1 .. Len(q) /\ r[i] = q[k + i]
        BY <1>1, <1>2
      <3>2. ASSUME i < Len(r) PROVE ~r[i].fin /\ DataStop(r[i]) <= r[i + 1].seq
        <4>1. k + i < Len(q) /\ i + 1 \in 1 .. Len(q) - k /\ k + (i + 1) = (k + i) + 1
          BY <1>1, <1>2, <3>2
        <4>2. r[i + 1] = q[(k + i) + 1]
          BY <1>2, <4>1
        <4> QED BY <1>1, <3>1, <4>1, <4>2
      <3> QED BY <1>1, <3>1, <3>2
    <2> QED BY <1>2, <2>1 DEF Ordered
  <1> QED BY <1>2, <1>3, <1>4 DEF p, r

\* A queue goes on with another one that begins where it ends or later.
Precedes(p, q) ==
  p /= <<>> /\ q /= <<>> => ~p[Len(p)].fin /\ DataStop(p[Len(p)]) <= q[1].seq

LEMMA OrderedJoin ==
  ASSUME NEW w, NEW e, NEW p, NEW q, NEW n, NEW b, Ordered(p, n, b, w, e), Ordered(q, n, b, w, e),
         Precedes(p, q)
  PROVE  Ordered(p \o q, n, b, w, e)
  <1> DEFINE r == p \o q
  <1>1. /\ p \in Seq(Segment) /\ q \in Seq(Segment) /\ Len(p) \in Nat /\ Len(q) \in Nat
        /\ \A i \in 1 .. Len(p) : /\ Piece(p[i], w, e)
                                  /\ n < p[i].seq /\ Stop(p[i]) <= b
                                  /\ i < Len(p) => ~p[i].fin /\ DataStop(p[i]) <= p[i + 1].seq
        /\ \A i \in 1 .. Len(q) : /\ Piece(q[i], w, e)
                                  /\ n < q[i].seq /\ Stop(q[i]) <= b
                                  /\ i < Len(q) => ~q[i].fin /\ DataStop(q[i]) <= q[i + 1].seq
    BY DEF Ordered
  <1>2. /\ r \in Seq(Segment) /\ Len(r) = Len(p) + Len(q)
        /\ \A i \in 1 .. Len(p) + Len(q) : r[i] = IF i <= Len(p) THEN p[i] ELSE q[i - Len(p)]
    BY <1>1, ConcatProperties
  <1> HIDE DEF r
  <1>3. ASSUME NEW i \in 1 .. Len(r)
        PROVE  /\ Piece(r[i], w, e) /\ n < r[i].seq /\ Stop(r[i]) <= b
               /\ i < Len(r) => ~r[i].fin /\ DataStop(r[i]) <= r[i + 1].seq
    <2>1. CASE i < Len(p)
      <3>1. i \in 1 .. Len(p) /\ r[i] = p[i] /\ r[i + 1] = p[i + 1]
        BY <1>1, <1>2, <2>1
      <3> QED BY <1>1, <2>1, <3>1
    <2>2. CASE i = Len(p)
      <3>1. i \in 1 .. Len(p) /\ r[i] = p[i] /\ p /= <<>>
        BY <1>1, <1>2, <2>2
      <3>2. ASSUME i < Len(r) PROVE ~r[i].fin /\ DataStop(r[i]) <= r[i + 1].seq
        <4>1. q /= <<>> /\ (i + 1) - Len(p) = 1 /\ i + 1 \in 1 .. Len(p) + Len(q)
          BY <1>1, <1>2, <2>2, <3>2
        <4>2. r[i + 1] = q[1]
          BY <1>1, <1>2, <2>2, <4>1
        <4>3. ~p[Len(p)].fin /\ DataStop(p[Len(p)]) <= q[1].seq
          BY <3>1, <4>1 DEF Precedes
        <4> QED BY <2>2, <3>1, <4>2, <4>3
      <3> QED BY <1>1, <3>1, <3>2
    <2>3. CASE i > Len(p)
      <3> DEFINE j == i - Len(p)
      <3>1. j \in 1 .. Len(q) /\ r[i] = q[j]
        BY <1>1, <1>2, <2>3
      <3>2. ASSUME i < Len(r) PROVE ~r[i].fin /\ DataStop(r[i]) <= r[i + 1].seq
        <4>1. j < Len(q) /\ (i + 1) - Len(p) = j + 1 /\ i + 1 \in 1 .. Len(p) + Len(q)
              /\ ~(i + 1 <= Len(p))
          BY <1>1, <1>2, <2>3, <3>2
        <4>2. r[i + 1] = q[(i + 1) - Len(p)]
          BY <1>2, <4>1
        <4>3. r[i + 1] = q[j + 1]
          BY <4>1, <4>2
        <4> QED BY <1>1, <3>1, <4>1, <4>3
      <3> QED BY <1>1, <3>1, <3>2
    <2> QED BY <1>1, <1>2, <2>1, <2>2, <2>3
  <1>4. Ordered(r, n, b, w, e)
    BY <1>2, <1>3 DEF Ordered
  <1> QED BY <1>4 DEF r

\* How far the numbers from 1 up to n are in T.
Run(n, T) == Cardinality({k \in 1 .. n : \A j \in 1 .. k : j \in T})

LEMMA RunOf ==
  ASSUME NEW n \in Nat, NEW T
  PROVE  /\ Run(n, T) \in 0 .. n
         /\ \A j \in 1 .. Run(n, T) : j \in T
         /\ Run(n, T) < n => Run(n, T) + 1 \notin T
  <1> DEFINE S == {k \in 1 .. n : \A j \in 1 .. k : j \in T}
             c == Run(n, T)
  <1>1. S \in SUBSET (1 .. n) /\ \A k \in S : \A j \in 1 .. k : j \in S
    OBVIOUS
  <1>2. c = Cardinality(S)
    BY DEF Run
  <1>3. c \in 0 .. n /\ (\A j \in 1 .. c : j \in S) /\ \A k \in S : k <= c
    <2> HIDE DEF S, c
    <2> QED BY <1>1, <1>2, CountRun
  <1> HIDE DEF c
  <1>4. c \in 0 .. n /\ \A j \in 1 .. c : j \in T
    BY <1>3
  <1>5. ASSUME c < n, c + 1 \in T PROVE FALSE
    <2>1. c + 1 \in 1 .. n /\ ~(c + 1 <= c)
      BY <1>4, <1>5
    <2>2. \A j \in 1 .. c + 1 : j \in T
      BY <1>4, <1>5
    <2>3. c + 1 \in S
      BY <2>1, <2>2
    <2> QED BY <1>3, <2>1, <2>3
  <1> QED BY <1>4, <1>5 DEF c

LEMMA RunSame ==
  ASSUME NEW n \in Nat, NEW S, NEW T, \A j \in 1 .. n : j \in S <=> j \in T
  PROVE  Run(n, S) = Run(n, T)
  <1>1. {k \in 1 .. n : \A j \in 1 .. k : j \in S} = {k \in 1 .. n : \A j \in 1 .. k : j \in T}
    <2>1. \A k \in 1 .. n : \A j \in 1 .. k : j \in 1 .. n
      OBVIOUS
    <2> QED BY <2>1, Zenon
  <1> QED BY <1>1 DEF Run

\* tcp_oos_insert_segment: how many segments of the queue c covers.
Covered(c, q) == Cardinality({k \in 1 .. Len(q) : \A j \in 1 .. k : GEQ(DataEnd(c), DataEnd(q[j]))})

LEMMA CoveredOf ==
  ASSUME NoWrap, NEW w \in 0 .. Total, NEW e \in 0 .. 1, NEW c, Piece(c, w, e), NEW q,
         Len(q) \in Nat, \A k \in 1 .. Len(q) : Piece(q[k], w, e)
  PROVE  /\ Covered(c, q) \in 0 .. Len(q)
         /\ \A j \in 1 .. Covered(c, q) : DataStop(q[j]) <= DataStop(c)
         /\ Covered(c, q) < Len(q) => DataStop(c) < DataStop(q[Covered(c, q) + 1])
  <1> DEFINE n == Len(q)
             S == {j \in 1 .. n : GEQ(DataEnd(c), DataEnd(q[j]))}
             T == {j \in 1 .. n : DataStop(q[j]) <= DataStop(c)}
  <1>1. ASSUME NEW j \in 1 .. n
        PROVE  /\ GEQ(DataEnd(c), DataEnd(q[j])) <=> DataStop(q[j]) <= DataStop(c)
               /\ DataStop(q[j]) \in Nat
    <2>1. DataEnd(q[j]) = DataStop(q[j]) /\ DataStop(q[j]) \in Nat /\ DataStop(q[j]) \in Span
      BY PieceFacts
    <2>2. DataEnd(c) = DataStop(c) /\ DataStop(c) \in Nat /\ DataStop(c) \in Span
      BY PieceFacts
    <2>3. GEQ(DataStop(c), DataStop(q[j])) <=> DataStop(c) >= DataStop(q[j])
      BY <2>1, <2>2, SpanCompare
    <2> QED BY <2>1, <2>2, <2>3
  <1>2. Covered(c, q) = Run(n, S)
    <2>1. \A k \in 1 .. n : (\A j \in 1 .. k : GEQ(DataEnd(c), DataEnd(q[j]))) <=> (\A j \in 1 .. k : j \in S)
      <3>1. \A k \in 1 .. n : \A j \in 1 .. k : j \in 1 .. n
        OBVIOUS
      <3> QED BY <3>1, Zenon
    <2>2. {k \in 1 .. n : \A j \in 1 .. k : GEQ(DataEnd(c), DataEnd(q[j]))}
            = {k \in 1 .. n : \A j \in 1 .. k : j \in S}
      <3> HIDE DEF S
      <3> QED BY <2>1, Zenon
    <2> HIDE DEF S
    <2> QED BY <2>2 DEF Run, Covered
  <1>3. Run(n, S) = Run(n, T)
    <2>1. \A j \in 1 .. n : j \in S <=> j \in T
      BY <1>1
    <2> HIDE DEF S, T
    <2> QED BY <2>1, RunSame
  <1>4. /\ Run(n, T) \in 0 .. n
        /\ \A j \in 1 .. Run(n, T) : j \in T
        /\ Run(n, T) < n => Run(n, T) + 1 \notin T
    <2> HIDE DEF T
    <2> QED BY RunOf
  <1> DEFINE x == Covered(c, q)
  <1>5. x = Run(n, T)
    BY <1>2, <1>3
  <1> HIDE DEF x
  <1>6. x \in 0 .. n /\ (\A j \in 1 .. x : j \in T) /\ (x < n => x + 1 \notin T)
    BY <1>4, <1>5
  <1>7. \A j \in 1 .. x : DataStop(q[j]) <= DataStop(c)
    BY <1>6
  <1>8. ASSUME x < n PROVE DataStop(c) < DataStop(q[x + 1])
    <2>1. x + 1 \in 1 .. n /\ x + 1 \notin T
      BY <1>6, <1>8
    <2>2. ~(DataStop(q[x + 1]) <= DataStop(c)) /\ DataStop(q[x + 1]) \in Nat
      BY <1>1, <2>1
    <2>3. DataStop(c) \in Nat
      BY PieceFacts
    <2> QED BY <2>2, <2>3
  <1> QED BY <1>6, <1>7, <1>8 DEF x

\* c goes in front of the queue, or takes the place of its first segment.
Leads(c, q) ==
  q /= <<>> => c.seq < q[1].seq \/ (c.seq = q[1].seq /\ DataStop(q[1]) <= DataStop(c))

\* What becomes of c, a segment without a FIN, in front of the queue: it gets
\* the FIN of what it covers, and ends where the rest begins.
CoversFin(c, q) == \E j \in 1 .. Covered(c, q) : q[j].fin
Shortened(c, q) ==
  IF Covered(c, q) < Len(q) /\ GT(DataEnd(c), q[Covered(c, q) + 1].seq)
    THEN CutTail(c, q[Covered(c, q) + 1].seq) ELSE c
Headed(c, q) ==
  IF CoversFin(c, q) THEN [c EXCEPT !.fin = TRUE] ELSE Shortened(c, q)

LEMMA HeadedOf ==
  ASSUME NoWrap, NEW w \in 0 .. Total, NEW e \in 0 .. 1, NEW c, Piece(c, w, e), ~c.fin,
         NEW q, NEW n, NEW b \in Nat, Ordered(q, n, b, w, e), Leads(c, q),
         NEW B \in Nat, b <= B, Stop(c) <= B
  PROVE  /\ Piece(Headed(c, q), w, e) /\ Headed(c, q).seq = c.seq /\ Stop(Headed(c, q)) <= B
         /\ CoversFin(c, q) => Covered(c, q) = Len(q)
         /\ CoversFin(c, q) <=> Headed(c, q).fin
         /\ \A k \in 1 .. Len(q) : k > Covered(c, q) => Stop(Headed(c, q)) <= q[k].seq
  <1> DEFINE k == Covered(c, q)
             m == Len(q)
             h == Headed(c, q)
  <1>1. /\ q \in Seq(Segment) /\ m \in Nat
        /\ \A i \in 1 .. m : Piece(q[i], w, e) /\ n < q[i].seq /\ Stop(q[i]) <= b
        /\ \A i \in 1 .. m : i < m => ~q[i].fin /\ Stop(q[i]) = DataStop(q[i])
        /\ \A i, j \in 1 .. m : i < j => Stop(q[i]) <= q[j].seq
    BY OrderedFacts
  <1>2. /\ k \in 0 .. m
        /\ \A j \in 1 .. k : DataStop(q[j]) <= DataStop(c)
        /\ k < m => DataStop(c) < DataStop(q[k + 1])
    BY <1>1, CoveredOf
  <1>3. /\ c \in Segment /\ c.seq \in Nat /\ DataStop(c) \in Nat /\ Stop(c) = DataStop(c)
        /\ DataEnd(c) = DataStop(c) /\ DataStop(c) \in Span /\ DataStop(c) <= Iss + w
        /\ w \in Nat /\ Iss \in Nat /\ c.seq < Stop(c)
    BY PieceFacts, ConstantFacts
  <1> HIDE DEF k
  <1>4. CASE CoversFin(c, q)
    <2> DEFINE t == [c EXCEPT !.fin = TRUE]
    <2>1. PICK j \in 1 .. k : q[j].fin
      BY <1>4 DEF CoversFin, k
    <2>2. j \in 1 .. m
      BY <1>1, <1>2, <2>1
    <2>3. j = m /\ k = m
      BY <1>1, <1>2, <2>1, <2>2
    <2>4. e = 1 /\ DataStop(q[j]) = Iss + w /\ Stop(q[j]) = Iss + w + 1 /\ Stop(q[j]) <= b
      <3>1. Piece(q[j], w, e) /\ Stop(q[j]) <= b
        BY <1>1, <2>2
      <3>2. e = 1 /\ DataStop(q[j]) = Iss + w
        BY <2>1, <3>1 DEF Piece
      <3>3. Stop(q[j]) = DataStop(q[j]) + 1
        BY <2>1, <3>1, PieceFacts
      <3> QED BY <3>1, <3>2, <3>3
    <2>5. DataStop(q[j]) <= DataStop(c)
      BY <1>2, <2>1
    <2>6. DataStop(c) = Iss + w
      BY <1>3, <2>4, <2>5
    <2>7. Piece(c, w, 1)
      BY <2>4
    <2>8. Piece(t, w, 1) /\ t.seq = c.seq /\ t.fin /\ Stop(t) = DataStop(c) + 1
      BY <2>6, <2>7, SetFinPiece
    <2>9. h = t
      BY <1>4 DEF Headed
    <2> HIDE DEF t, h
    <2>10. Stop(h) <= B
      <3>1. Stop(h) = Iss + w + 1
        BY <2>6, <2>8, <2>9
      <3> QED BY <1>3, <2>4, <3>1
    <2>11. Piece(h, w, e) /\ h.seq = c.seq /\ h.fin
      BY <2>4, <2>8, <2>9
    <2>12. \A i \in 1 .. m : ~(i > k)
      BY <1>1, <2>3
    <2> QED BY <1>4, <2>3, <2>10, <2>11, <2>12 DEF h, k
  <1>5. CASE ~CoversFin(c, q)
    <2>1. h = IF k < m /\ GT(DataEnd(c), q[k + 1].seq) THEN CutTail(c, q[k + 1].seq) ELSE c
      BY <1>5 DEF Headed, Shortened, k
    <2>2. CASE k = m
      <3>1. h = c
        BY <1>1, <2>1, <2>2
      <3>2. \A i \in 1 .. m : ~(i > k)
        BY <1>1, <2>2
      <3> HIDE DEF h
      <3> QED BY <1>5, <3>1, <3>2 DEF k, h
    <2>3. CASE k < m
      <3> DEFINE p == q[k + 1].seq
      <3>1. /\ k + 1 \in 1 .. m /\ 1 \in 1 .. m /\ q /= <<>>
        BY <1>1, <1>2, <2>3
      <3>2. /\ p \in Nat /\ p \in Span /\ q[1].seq \in Nat /\ DataStop(q[1]) \in Nat /\ Stop(q[1]) \in Nat
            /\ q[1].seq < Stop(q[1])
        BY <1>1, <3>1, PieceFacts
      <3>3. c.seq < p
        <4>1. CASE k = 0
          <5>1. DataStop(c) < DataStop(q[1])
            BY <1>2, <2>3, <4>1
          <5>2. c.seq < q[1].seq
            BY <1>3, <3>1, <3>2, <5>1 DEF Leads
          <5> QED BY <4>1, <5>2
        <4>2. CASE k > 0
          <5>1. 1 < k + 1
            BY <1>2, <4>2
          <5>2. Stop(q[1]) <= p
            BY <1>1, <3>1, <5>1
          <5>3. c.seq <= q[1].seq
            BY <1>3, <3>1, <3>2, SMTT(30) DEF Leads
          <5> HIDE DEF p
          <5> QED BY <1>3, <3>2, <5>2, <5>3
        <4> QED BY <1>2, <4>1, <4>2
      <3>4. GT(DataEnd(c), p) <=> DataStop(c) > p
        BY <1>3, <3>2, SpanCompare
      <3>5. h = IF DataStop(c) > p THEN CutTail(c, p) ELSE c
        BY <2>1, <2>3, <3>4
      <3>6. \A i \in 1 .. m : i > k => p <= q[i].seq
        <4> SUFFICES ASSUME NEW i \in 1 .. m, i > k PROVE p <= q[i].seq
          OBVIOUS
        <4>1. CASE i = k + 1
          BY <3>2, <4>1
        <4>2. CASE i > k + 1
          <5>1. Stop(q[k + 1]) <= q[i].seq
            BY <1>1, <3>1, <4>2
          <5>2. q[k + 1].seq < Stop(q[k + 1]) /\ Stop(q[k + 1]) \in Nat /\ q[i].seq \in Nat
            BY <1>1, <3>1, PieceFacts
          <5> QED BY <3>2, <5>1, <5>2, SMTT(30)
        <4> QED BY <1>2, <4>1, <4>2
      <3> HIDE DEF p, h
      <3>7. CASE DataStop(c) > p
        <4>1. p <= DataStop(c)
          BY <1>3, <3>2, <3>7
        <4>2. /\ Piece(CutTail(c, p), w, e)
              /\ CutTail(c, p).seq = c.seq /\ ~CutTail(c, p).fin /\ Stop(CutTail(c, p)) = p
          BY <3>2, <3>3, <4>1, CutTailPiece
        <4>3. Piece(h, w, e) /\ h.seq = c.seq /\ ~h.fin /\ Stop(h) = p
          BY <3>5, <3>7, <4>2
        <4>4. Stop(h) <= B
          BY <1>3, <3>2, <3>7, <4>3
        <4>5. \A i \in 1 .. m : i > k => Stop(h) <= q[i].seq
          BY <3>6, <4>3
        <4> QED BY <1>5, <4>3, <4>4, <4>5 DEF k, h
      <3>8. CASE ~(DataStop(c) > p)
        <4>1. h = c
          BY <3>5, <3>8
        <4>2. \A i \in 1 .. m : i > k => Stop(h) <= q[i].seq
          <5> SUFFICES ASSUME NEW i \in 1 .. m, i > k PROVE Stop(h) <= q[i].seq
            OBVIOUS
          <5>1. p <= q[i].seq /\ q[i].seq \in Nat
            BY <1>1, <3>6, PieceFacts
          <5>2. Stop(h) = DataStop(c)
            BY <1>3, <4>1
          <5> QED BY <1>3, <3>2, <3>8, <5>1, <5>2
        <4> QED BY <1>5, <4>1, <4>2 DEF k, h
      <3> QED BY <3>7, <3>8
    <2> QED BY <1>1, <1>2, <2>2, <2>3
  <1> QED BY <1>4, <1>5

\* tcp_oos_insert_segment keeps the queue a queue.
LEMMA OosInsertIs ==
  ASSUME NoWrap, NEW w \in 0 .. Total, NEW e \in 0 .. 1, NEW c, Piece(c, w, e), ~c.fin,
         NEW q, NEW n, NEW b \in Nat, Ordered(q, n, b, w, e), Leads(c, q)
  PROVE  OosInsert(c, q) = <<Headed(c, q)>> \o From(q, Covered(c, q) + 1)
  <1> DEFINE k == Covered(c, q)
             d == Shortened(c, q)
             fin == CoversFin(c, q)
  <1>1. OosInsert(c, q) = <<[d EXCEPT !.fin = fin]>> \o From(q, k + 1)
    BY DEF OosInsert, Prefix, Covered, Shortened, CoversFin
  <1>2. c \in Segment /\ Stop(c) \in Nat
    BY PieceFacts
  <1>3. /\ Piece(Headed(c, q), w, e)
        /\ CoversFin(c, q) => Covered(c, q) = Len(q)
        /\ CoversFin(c, q) <=> Headed(c, q).fin
    <2> DEFINE B == IF b <= Stop(c) THEN Stop(c) ELSE b
    <2>1. B \in Nat /\ b <= B /\ Stop(c) <= B
      BY <1>2
    <2> HIDE DEF B
    <2> QED BY <2>1, HeadedOf
  <1>4. CASE CoversFin(c, q)
    <2>1. Len(q) \in Nat
      BY DEF Ordered
    <2>2. d = c
      BY <1>3, <1>4, <2>1 DEF Shortened
    <2>3. fin = TRUE
      BY <1>4 DEF CoversFin
    <2>4. Headed(c, q) = [c EXCEPT !.fin = TRUE]
      BY <1>4 DEF Headed
    <2> HIDE DEF d, fin, k
    <2>5. [d EXCEPT !.fin = fin] = Headed(c, q)
      BY <2>2, <2>3, <2>4, Zenon
    <2> QED BY <1>1, <2>5 DEF k
  <1>5. CASE ~CoversFin(c, q)
    <2>1. Headed(c, q) = d
      BY <1>5 DEF Headed
    <2>2. fin = FALSE
      BY <1>5 DEF CoversFin
    <2>3. d \in Segment /\ ~d.fin
      <3>1. Headed(c, q) \in Segment /\ ~Headed(c, q).fin
        BY <1>3, <1>5, PieceFacts
      <3> QED BY <2>1, <3>1
    <2> HIDE DEF d, fin, k
    <2>4. [d EXCEPT !.fin = FALSE] = d
      BY <2>3, ClearFinPiece
    <2>5. [d EXCEPT !.fin = fin] = Headed(c, q)
      BY <2>1, <2>2, <2>4, Zenon
    <2> QED BY <1>1, <2>5 DEF k
  <1> QED BY <1>4, <1>5

LEMMA OosInsertOrdered ==
  ASSUME NoWrap, NEW w \in 0 .. Total, NEW e \in 0 .. 1, NEW c, Piece(c, w, e),
         NEW q, NEW n, NEW b \in Nat, Ordered(q, n, b, w, e), Leads(c, q),
         n < c.seq, Stop(c) <= b
  PROVE  /\ Ordered(OosInsert(c, q), n, b, w, e)
         /\ OosInsert(c, q) /= <<>> /\ OosInsert(c, q)[1].seq = c.seq
  <1>1. CASE c.fin
    <2>1. OosInsert(c, q) = <<c>>
      BY <1>1 DEF OosInsert
    <2>2. Ordered(<<c>>, n, b, w, e)
      BY OrderedOne
    <2>3. <<c>> /= <<>> /\ <<c>>[1] = c
      OBVIOUS
    <2> QED BY <2>1, <2>2, <2>3
  <1>2. CASE ~c.fin
    <2> DEFINE h == Headed(c, q)
               k == Covered(c, q)
               r == From(q, k + 1)
    <2>1. OosInsert(c, q) = <<h>> \o r
      BY <1>2, OosInsertIs
    <2>2. /\ Piece(h, w, e) /\ h.seq = c.seq /\ Stop(h) <= b
          /\ h.fin => k = Len(q)
          /\ \A i \in 1 .. Len(q) : i > k => Stop(h) <= q[i].seq
      <3>1. b <= b
        OBVIOUS
      <3> QED BY <1>2, <3>1, HeadedOf
    <2>3. q \in Seq(Segment) /\ Len(q) \in Nat /\ \A i \in 1 .. Len(q) : Piece(q[i], w, e)
      BY OrderedFacts
    <2>4. k \in 0 .. Len(q)
      BY <2>3, CoveredOf
    <2> HIDE DEF h, k
    <2>r. r = From(q, k + 1)
      OBVIOUS
    <2> HIDE DEF r
    <2>5. /\ Ordered(r, n, b, w, e) /\ Len(r) = Len(q) - k
          /\ \A i \in 1 .. Len(q) - k : r[i] = q[k + i]
      <3>1. /\ Ordered(From(q, k + 1), n, b, w, e) /\ Len(From(q, k + 1)) = Len(q) - k
            /\ \A i \in 1 .. Len(q) - k : From(q, k + 1)[i] = q[k + i]
        BY ONLY <2>4, OrderedParts, NoWrap, Ordered(q, n, b, w, e), w \in 0 .. Total, e \in 0 .. 1, b \in Nat
      <3> QED BY <2>r, <3>1
    <2>6. Ordered(<<h>>, n, b, w, e)
      <3>1. n < h.seq
        BY <2>2
      <3> QED BY <2>2, <3>1, OrderedOne
    <2>7. Precedes(<<h>>, r)
      <3> SUFFICES ASSUME r /= <<>> PROVE ~h.fin /\ DataStop(h) <= r[1].seq
        <4>1. <<h>>[Len(<<h>>)] = h
          OBVIOUS
        <4> QED BY <4>1 DEF Precedes
      <3>1. r \in Seq(Segment)
        BY <2>5 DEF Ordered
      <3>2. Len(q) - k >= 1
        BY <2>3, <2>4, <2>5, <3>1
      <3>3. k + 1 \in 1 .. Len(q) /\ k + 1 > k /\ 1 \in 1 .. Len(q) - k /\ k /= Len(q)
        BY <2>3, <2>4, <3>2
      <3>4. r[1] = q[k + 1] /\ Stop(h) <= q[k + 1].seq /\ ~h.fin
        BY <2>2, <2>5, <3>3
      <3>5. Stop(h) = DataStop(h)
        BY <2>2, <3>4, PieceFacts
      <3> QED BY <3>4, <3>5
    <2>8. Ordered(<<h>> \o r, n, b, w, e)
      BY <2>5, <2>6, <2>7, OrderedJoin
    <2>9. <<h>> \o r /= <<>> /\ (<<h>> \o r)[1] = h
      <3>1. h \in Segment /\ r \in Seq(Segment)
        BY <2>2, <2>5, PieceFacts DEF Ordered
      <3> QED BY <3>1
    <2> QED BY <2>1, <2>2, <2>8, <2>9
  <1> QED BY <1>1, <1>2

LEMMA TrimToPiece ==
  ASSUME NoWrap, NEW w \in 0 .. Total, NEW e \in 0 .. 1, NEW s, Piece(s, w, e), ~s.fin,
         NEW p \in Span, s.seq < p
  PROVE  /\ Piece(TrimTo(s, p), w, e) /\ TrimTo(s, p) \in Segment
         /\ TrimTo(s, p).seq = s.seq /\ ~TrimTo(s, p).fin
         /\ DataStop(TrimTo(s, p)) <= p /\ Stop(TrimTo(s, p)) <= Stop(s)
  <1> DEFINE t == TrimTo(s, p)
  <1>1. /\ s \in Segment /\ DataStop(s) \in Nat /\ Stop(s) = DataStop(s) /\ DataEnd(s) = DataStop(s)
        /\ DataStop(s) \in Span
    BY PieceFacts
  <1>2. p \in Nat
    BY ConstantFacts DEF Span
  <1>3. GT(DataEnd(s), p) <=> DataStop(s) > p
    BY <1>1, SpanCompare
  <1>4. t = IF DataStop(s) > p THEN CutTail(s, p) ELSE s
    BY <1>3 DEF TrimTo
  <1> HIDE DEF t
  <1>5. CASE DataStop(s) > p
    <2>1. p <= DataStop(s)
      BY <1>1, <1>2, <1>5
    <2>2. /\ Piece(CutTail(s, p), w, e) /\ CutTail(s, p).seq = s.seq /\ ~CutTail(s, p).fin
          /\ DataStop(CutTail(s, p)) = p /\ Stop(CutTail(s, p)) = p
      BY <1>2, <2>1, CutTailPiece
    <2>3. Piece(t, w, e) /\ t.seq = s.seq /\ ~t.fin /\ DataStop(t) = p /\ Stop(t) = p
      BY <1>4, <1>5, <2>2
    <2>4. t \in Segment
      BY <2>3 DEF Piece
    <2>5. DataStop(t) <= p /\ Stop(t) <= Stop(s)
      BY <1>1, <1>2, <2>1, <2>3
    <2> QED BY <2>3, <2>4, <2>5 DEF t
  <1>6. CASE ~(DataStop(s) > p)
    <2>1. t = s
      BY <1>4, <1>6
    <2>2. DataStop(s) <= p /\ Stop(s) <= Stop(s)
      BY <1>1, <1>2, <1>6
    <2> QED BY <1>1, <2>1, <2>2 DEF t
  <1> QED BY <1>5, <1>6

\* The queue up to its i-th segment, which is cut where the next one begins.
CutAt(q, i, p) == SubSeq(q, 1, i - 1) \o <<TrimTo(q[i], p)>>

LEMMA CutAtOrdered ==
  ASSUME NoWrap, NEW w \in 0 .. Total, NEW e \in 0 .. 1, NEW q, NEW n, NEW b \in Nat,
         Ordered(q, n, b, w, e), NEW i \in 1 .. Len(q), ~q[i].fin, NEW p \in Span, q[i].seq < p
  PROVE  /\ Ordered(CutAt(q, i, p), n, b, w, e)
         /\ \A r : r /= <<>> /\ r[1].seq = p => Precedes(CutAt(q, i, p), r)
  <1> DEFINE h == SubSeq(q, 1, i - 1)
             t == TrimTo(q[i], p)
             c == h \o <<t>>
  <1>1. /\ q \in Seq(Segment) /\ Len(q) \in Nat
        /\ \A k \in 1 .. Len(q) : Piece(q[k], w, e) /\ n < q[k].seq /\ Stop(q[k]) <= b
        /\ \A k \in 1 .. Len(q) : k < Len(q) => ~q[k].fin /\ Stop(q[k]) = DataStop(q[k])
        /\ \A j, k \in 1 .. Len(q) : j < k => Stop(q[j]) <= q[k].seq
    BY OrderedFacts
  <1>2. /\ Piece(t, w, e) /\ t \in Segment /\ t.seq = q[i].seq /\ ~t.fin
        /\ DataStop(t) <= p /\ Stop(t) <= Stop(q[i])
    BY <1>1, TrimToPiece
  <1>3. i - 1 \in 0 .. Len(q) /\ i \in Nat
    BY <1>1
  <1>h. h = SubSeq(q, 1, i - 1)
    OBVIOUS
  <1> HIDE DEF h, t
  <1>4. Ordered(h, n, b, w, e) /\ Len(h) = i - 1 /\ \A k \in 1 .. i - 1 : h[k] = q[k]
    <2> DEFINE k == i - 1
    <2> HIDE DEF k
    <2>1. k \in 0 .. Len(q)
      BY <1>3 DEF k
    <2>2. /\ Ordered(SubSeq(q, 1, k), n, b, w, e) /\ Len(SubSeq(q, 1, k)) = k
          /\ \A j \in 1 .. k : SubSeq(q, 1, k)[j] = q[j]
      BY ONLY <2>1, OrderedParts, NoWrap, Ordered(q, n, b, w, e), w \in 0 .. Total, e \in 0 .. 1, b \in Nat
    <2> QED BY <1>h, <2>2 DEF k
  <1>5. Ordered(<<t>>, n, b, w, e)
    <2>1. n < t.seq
      BY <1>1, <1>2
    <2>2. Stop(t) <= b
      <3>1. Stop(t) \in Nat /\ Stop(q[i]) \in Nat /\ Stop(q[i]) <= b
        BY <1>1, <1>2, PieceFacts
      <3> QED BY <1>2, <3>1, Between3
    <2> QED BY <1>2, <2>1, <2>2, OrderedOne
  <1>6. Precedes(h, <<t>>)
    <2> SUFFICES ASSUME h /= <<>> PROVE ~h[Len(h)].fin /\ DataStop(h[Len(h)]) <= t.seq
      <3>1. <<t>>[1] = t
        OBVIOUS
      <3> QED BY <3>1 DEF Precedes
    <2>1. h \in Seq(Segment)
      BY <1>4 DEF Ordered
    <2>2. i - 1 >= 1
      BY <1>3, <1>4, <2>1
    <2>3. i - 1 \in 1 .. Len(q) /\ i - 1 < Len(q) /\ i - 1 < i /\ i - 1 \in 1 .. i - 1
      BY <1>1, <1>3, <2>2
    <2>4. h[Len(h)] = q[i - 1]
      BY <1>4, <2>3
    <2>5. ~q[i - 1].fin /\ Stop(q[i - 1]) = DataStop(q[i - 1]) /\ Stop(q[i - 1]) <= q[i].seq
      BY <1>1, <2>3
    <2> QED BY <1>2, <2>4, <2>5
  <1>7. Ordered(c, n, b, w, e)
    BY <1>4, <1>5, <1>6, OrderedJoin
  <1>8. c[Len(c)] = t
    <2>1. h \in Seq(Segment)
      BY <1>4 DEF Ordered
    <2> QED BY <1>2, <2>1
  <1>9. c = CutAt(q, i, p)
    BY DEF CutAt, h, t
  <1> HIDE DEF c
  <1>10. ASSUME NEW r, r /= <<>>, r[1].seq = p PROVE Precedes(c, r)
    BY <1>2, <1>8, <1>10 DEF Precedes
  <1> QED BY <1>7, <1>9, <1>10

\* tcp_receive: how many segments of the queue begin before c does, or with it.
Placed(q, c) == Cardinality({k \in 1 .. Len(q) : \A j \in 1 .. k : LEQ(q[j].seq, c.seq)})

LEMMA PlacedOf ==
  ASSUME NoWrap, NEW w \in 0 .. Total, NEW e \in 0 .. 1, NEW c, Piece(c, w, e), NEW q,
         Len(q) \in Nat, \A k \in 1 .. Len(q) : Piece(q[k], w, e)
  PROVE  /\ Placed(q, c) \in 0 .. Len(q)
         /\ \A j \in 1 .. Placed(q, c) : q[j].seq <= c.seq
         /\ Placed(q, c) < Len(q) => c.seq < q[Placed(q, c) + 1].seq
  <1> DEFINE n == Len(q)
             S == {j \in 1 .. n : LEQ(q[j].seq, c.seq)}
             T == {j \in 1 .. n : q[j].seq <= c.seq}
  <1>1. ASSUME NEW j \in 1 .. n
        PROVE  /\ LEQ(q[j].seq, c.seq) <=> q[j].seq <= c.seq
               /\ q[j].seq \in Nat
    <2>1. q[j].seq \in Nat /\ q[j].seq \in Span
      BY PieceFacts
    <2>2. c.seq \in Span
      BY PieceFacts
    <2> QED BY <2>1, <2>2, SpanCompare
  <1>2. Placed(q, c) = Run(n, S)
    <2>1. \A k \in 1 .. n : (\A j \in 1 .. k : LEQ(q[j].seq, c.seq)) <=> (\A j \in 1 .. k : j \in S)
      <3>1. \A k \in 1 .. n : \A j \in 1 .. k : j \in 1 .. n
        OBVIOUS
      <3> QED BY <3>1, Zenon
    <2>2. {k \in 1 .. n : \A j \in 1 .. k : LEQ(q[j].seq, c.seq)}
            = {k \in 1 .. n : \A j \in 1 .. k : j \in S}
      <3> HIDE DEF S
      <3> QED BY <2>1, Zenon
    <2> HIDE DEF S
    <2> QED BY <2>2 DEF Run, Placed
  <1>3. Run(n, S) = Run(n, T)
    <2>1. \A j \in 1 .. n : j \in S <=> j \in T
      BY <1>1
    <2> HIDE DEF S, T
    <2> QED BY <2>1, RunSame
  <1>4. /\ Run(n, T) \in 0 .. n
        /\ \A j \in 1 .. Run(n, T) : j \in T
        /\ Run(n, T) < n => Run(n, T) + 1 \notin T
    <2> HIDE DEF T
    <2> QED BY RunOf
  <1> DEFINE x == Placed(q, c)
  <1>5. x = Run(n, T)
    BY <1>2, <1>3
  <1> HIDE DEF x
  <1>6. x \in 0 .. n /\ (\A j \in 1 .. x : j \in T) /\ (x < n => x + 1 \notin T)
    BY <1>4, <1>5
  <1>7. \A j \in 1 .. x : q[j].seq <= c.seq
    BY <1>6
  <1>8. ASSUME x < n PROVE c.seq < q[x + 1].seq
    <2>1. x + 1 \in 1 .. n /\ x + 1 \notin T
      BY <1>6, <1>8
    <2>2. ~(q[x + 1].seq <= c.seq) /\ q[x + 1].seq \in Nat
      BY <1>1, <2>1
    <2>3. c.seq \in Nat
      BY PieceFacts
    <2> QED BY <2>2, <2>3
  <1> QED BY <1>6, <1>7, <1>8 DEF x

\* tcp_receive: c finds its place in ooseq, which stays a queue.
LEMMA QueueOrdered ==
  ASSUME NoWrap, NEW w \in 0 .. Total, NEW e \in 0 .. 1, NEW c, Piece(c, w, e),
         NEW n, NEW b \in Nat, Ordered(ooseq, n, b, w, e), n < c.seq, Stop(c) <= b,
         InWindow(c) = c
  PROVE  Ordered(Queue(c), n, b, w, e)
  <1> DEFINE q == ooseq
             i == Placed(q, c)
             before == SubSeq(q, 1, i - 1)
  <1>1. Queue(c) =
          IF q = <<>> THEN <<c>>
          ELSE IF i = 0 THEN OosInsert(c, q)
          ELSE IF q[i].seq = c.seq
            THEN IF Len(c.data) > Len(q[i].data)
                   THEN before \o OosInsert(c, From(q, i)) ELSE q
          ELSE IF i < Len(q)
            THEN before \o <<TrimTo(q[i], c.seq)>> \o OosInsert(c, From(q, i + 1))
          ELSE IF q[i].fin THEN q
          ELSE before \o <<TrimTo(q[i], c.seq), c>>
    BY DEF Queue, Placed, Prefix
  <1>2. /\ q \in Seq(Segment) /\ Len(q) \in Nat
        /\ \A k \in 1 .. Len(q) : Piece(q[k], w, e) /\ n < q[k].seq /\ Stop(q[k]) <= b
        /\ \A k \in 1 .. Len(q) : k < Len(q) => ~q[k].fin /\ Stop(q[k]) = DataStop(q[k])
        /\ \A j, k \in 1 .. Len(q) : j < k => Stop(q[j]) <= q[k].seq
    BY OrderedFacts
  <1>3. i \in 0 .. Len(q) /\ (\A j \in 1 .. i : q[j].seq <= c.seq)
        /\ (i < Len(q) => c.seq < q[i + 1].seq)
    BY <1>2, PlacedOf
  <1>4. c \in Segment /\ c.seq \in Nat /\ c.seq \in Span /\ DataStop(c) \in Nat
        /\ DataStop(c) = c.seq + Len(c.data) /\ Len(c.data) \in Nat
    BY PieceFacts
  <1>b. before = SubSeq(q, 1, i - 1)
    OBVIOUS
  <1>o. Ordered(q, n, b, w, e)
    OBVIOUS
  <1> HIDE DEF q, i, before
  <1>5. CASE q = <<>>
    <2>1. Ordered(<<c>>, n, b, w, e)
      BY OrderedOne
    <2> QED BY <1>1, <1>5, <2>1
  <1>6. CASE q /= <<>> /\ i = 0
    <2>1. Len(q) > 0
      BY <1>2, <1>6
    <2>2. c.seq < q[0 + 1].seq
      BY <1>3, <1>6, <2>1
    <2>3. Leads(c, q)
      BY <2>2 DEF Leads
    <2>4. Ordered(OosInsert(c, q), n, b, w, e)
      BY <1>o, <2>3, OosInsertOrdered
    <2> QED BY <1>1, <1>6, <2>4
  <1>7. CASE q /= <<>> /\ i /= 0
    <2>1. i \in 1 .. Len(q) /\ i \in Nat /\ i - 1 \in 0 .. Len(q) /\ q[i].seq <= c.seq
      BY <1>2, <1>3, <1>7
    <2>2. /\ Piece(q[i], w, e) /\ q[i].seq \in Nat /\ DataStop(q[i]) = q[i].seq + Len(q[i].data)
          /\ Len(q[i].data) \in Nat /\ DataStop(q[i]) \in Nat
      BY <1>2, <2>1, PieceFacts
    <2>3. CASE q[i].seq = c.seq
      <3>1. Queue(c) = IF Len(c.data) > Len(q[i].data)
                         THEN before \o OosInsert(c, From(q, i)) ELSE q
        BY <1>1, <1>7, <2>3
      <3> SUFFICES ASSUME Len(c.data) > Len(q[i].data)
                   PROVE  Ordered(before \o OosInsert(c, From(q, i)), n, b, w, e)
        BY <1>o, <3>1
      <3> DEFINE k == i - 1
                 r == From(q, k + 1)
      <3>2. From(q, i) = r
        BY <2>1
      <3>r. r = From(q, k + 1)
        OBVIOUS
      <3>3. before = SubSeq(q, 1, k)
        BY <1>b
      <3>4. k \in 0 .. Len(q) /\ k + 1 = i
        BY <2>1
      <3> HIDE DEF k, r
      <3>5. /\ Ordered(SubSeq(q, 1, k), n, b, w, e) /\ Len(SubSeq(q, 1, k)) = k
            /\ \A j \in 1 .. k : SubSeq(q, 1, k)[j] = q[j]
            /\ Ordered(From(q, k + 1), n, b, w, e) /\ Len(From(q, k + 1)) = Len(q) - k
            /\ \A j \in 1 .. Len(q) - k : From(q, k + 1)[j] = q[k + j]
        <4>1. k \in 0 .. Len(q)
          BY <3>4
        <4>2. /\ Ordered(SubSeq(q, 1, k), n, b, w, e) /\ Len(SubSeq(q, 1, k)) = k
              /\ \A j \in 1 .. k : SubSeq(q, 1, k)[j] = q[j]
          BY ONLY <1>o, <4>1, OrderedParts, NoWrap, w \in 0 .. Total, e \in 0 .. 1, b \in Nat
        <4>3. /\ Ordered(From(q, k + 1), n, b, w, e) /\ Len(From(q, k + 1)) = Len(q) - k
              /\ \A j \in 1 .. Len(q) - k : From(q, k + 1)[j] = q[k + j]
          BY ONLY <1>o, <4>1, OrderedParts, NoWrap, w \in 0 .. Total, e \in 0 .. 1, b \in Nat
        <4> QED BY <4>2, <4>3
      <3>6. /\ Ordered(before, n, b, w, e) /\ Len(before) = k
            /\ (\A j \in 1 .. k : before[j] = q[j])
            /\ Ordered(r, n, b, w, e) /\ Len(r) = Len(q) - k
            /\ \A j \in 1 .. Len(q) - k : r[j] = q[k + j]
        BY <3>r, <3>3, <3>5
      <3>7. 1 \in 1 .. Len(q) - k /\ k \in Nat
        BY <1>2, <2>1, <3>4
      <3>8. r[1] = q[i]
        BY <3>4, <3>6, <3>7
      <3>9. DataStop(q[i]) <= DataStop(c)
        BY <1>4, <2>2, <2>3
      <3>10. Leads(c, r)
        BY <2>3, <3>8, <3>9 DEF Leads
      <3>o. Ordered(r, n, b, w, e)
        BY <3>6
      <3>p. Ordered(OosInsert(c, r), n, b, w, e)
        BY ONLY <3>10, <3>o, OosInsertOrdered, NoWrap, w \in 0 .. Total, e \in 0 .. 1,
                b \in Nat, Piece(c, w, e), n < c.seq, Stop(c) <= b
      <3>q. OosInsert(c, r) /= <<>>
        BY ONLY <3>10, <3>o, OosInsertOrdered, NoWrap, w \in 0 .. Total, e \in 0 .. 1,
                b \in Nat, Piece(c, w, e), n < c.seq, Stop(c) <= b
      <3>s. OosInsert(c, r)[1].seq = c.seq
        BY ONLY <3>10, <3>o, OosInsertOrdered, NoWrap, w \in 0 .. Total, e \in 0 .. 1,
                b \in Nat, Piece(c, w, e), n < c.seq, Stop(c) <= b
      <3> DEFINE x == OosInsert(c, r)
      <3>11. Ordered(x, n, b, w, e) /\ x /= <<>> /\ x[1].seq = c.seq
        BY <3>p, <3>q, <3>s
      <3> HIDE DEF x
      <3>12. Precedes(before, x)
        <4> SUFFICES ASSUME before /= <<>>
                     PROVE ~before[Len(before)].fin /\ DataStop(before[Len(before)]) <= x[1].seq
          BY DEF Precedes
        <4>1. before \in Seq(Segment)
          BY <3>6 DEF Ordered
        <4>2. k >= 1
          BY <3>6, <3>7, <4>1
        <4>3. k \in 1 .. Len(q) /\ k < Len(q) /\ k < i /\ k \in 1 .. k
          BY <1>2, <2>1, <3>4, <3>7, <4>2
        <4>4. before[Len(before)] = q[k]
          BY <3>6, <4>3
        <4>5. ~q[k].fin /\ Stop(q[k]) = DataStop(q[k]) /\ Stop(q[k]) <= q[i].seq
          BY <1>2, <2>1, <4>3
        <4> QED BY <2>3, <3>11, <4>4, <4>5
      <3>13. Ordered(before \o x, n, b, w, e)
        BY <3>6, <3>11, <3>12, OrderedJoin
      <3> QED BY <3>2, <3>13 DEF x
    <2>4. CASE q[i].seq /= c.seq /\ (i < Len(q) \/ ~q[i].fin)
      <3>1. ~q[i].fin /\ q[i].seq < c.seq
        BY <1>2, <1>4, <2>1, <2>2, <2>4
      <3> DEFINE p == CutAt(q, i, c.seq)
      <3>2. /\ Ordered(p, n, b, w, e)
            /\ \A r : r /= <<>> /\ r[1].seq = c.seq => Precedes(p, r)
        BY ONLY <1>o, <1>4, <2>1, <3>1, CutAtOrdered, NoWrap, w \in 0 .. Total, e \in 0 .. 1, b \in Nat
      <3>3. p = before \o <<TrimTo(q[i], c.seq)>>
        BY <1>b DEF CutAt
      <3> HIDE DEF p
      <3>4. CASE i < Len(q)
        <4> DEFINE r == From(q, i + 1)
                   x == OosInsert(c, r)
        <4>1. Queue(c) = p \o x
          BY <1>1, <1>7, <2>4, <3>3, <3>4
        <4>2. Ordered(r, n, b, w, e) /\ Len(r) = Len(q) - i /\ \A j \in 1 .. Len(q) - i : r[j] = q[i + j]
          BY ONLY <1>o, <1>3, OrderedParts, NoWrap, w \in 0 .. Total, e \in 0 .. 1, b \in Nat
        <4> HIDE DEF r
        <4>3. 1 \in 1 .. Len(q) - i
          BY <1>2, <2>1, <3>4
        <4>4. r[1] = q[i + 1]
          BY <4>2, <4>3
        <4>5. Leads(c, r)
          BY <1>3, <3>4, <4>4 DEF Leads
        <4>6. Ordered(x, n, b, w, e) /\ x /= <<>> /\ x[1].seq = c.seq
          BY <4>2, <4>5, OosInsertOrdered
        <4> HIDE DEF x
        <4>7. Ordered(p \o x, n, b, w, e)
          BY <3>2, <4>6, OrderedJoin
        <4> QED BY <4>1, <4>7
      <3>5. CASE ~(i < Len(q))
        <4>1. Queue(c) = before \o <<TrimTo(q[i], c.seq), c>>
          BY <1>1, <1>7, <2>4, <3>5
        <4>2. before \in Seq(Segment) /\ TrimTo(q[i], c.seq) \in Segment
          <5>1. before \in Seq(Segment)
            <6> DEFINE k == i - 1
            <6> HIDE DEF k
            <6>1. k \in 0 .. Len(q)
              BY <2>1 DEF k
            <6>2. SubSeq(q, 1, k) \in Seq(Segment)
              BY <1>2, <6>1, SubSeqOf
            <6> QED BY <1>b, <6>2 DEF k
          <5>2. TrimTo(q[i], c.seq) \in Segment
            BY <1>4, <2>2, <3>1, TrimToPiece
          <5> QED BY <5>1, <5>2
        <4>3. Queue(c) = p \o <<c>>
          <5> DEFINE t == TrimTo(q[i], c.seq)
          <5> HIDE DEF t
          <5>1. t \in Segment
            BY <4>2 DEF t
          <5>2. before \o <<t, c>> = (before \o <<t>>) \o <<c>>
            BY <1>4, <4>2, <5>1, SMTT(30)
          <5> QED BY <3>3, <4>1, <5>2 DEF t
        <4>4. Ordered(<<c>>, n, b, w, e)
          BY OrderedOne
        <4>5. Precedes(p, <<c>>)
          <5>1. <<c>> /= <<>> /\ <<c>>[1] = c
            OBVIOUS
          <5> QED BY <3>2, <5>1
        <4>6. Ordered(p \o <<c>>, n, b, w, e)
          BY <3>2, <4>4, <4>5, OrderedJoin
        <4> QED BY <4>3, <4>6
      <3> QED BY <3>4, <3>5
    <2>5. CASE q[i].seq /= c.seq /\ ~(i < Len(q)) /\ q[i].fin
      <3>1. Queue(c) = q
        BY <1>1, <1>7, <2>5
      <3> QED BY <1>o, <3>1
    <2> QED BY <2>3, <2>4, <2>5
  <1> QED BY <1>5, <1>6, <1>7

\* tcp_receive: what an in-sequence segment is merged to, and what is left of
\* ooseq, follow one another.
LEMMA MergeIs ==
  ASSUME NoWrap, NEW w \in 0 .. Total, NEW e \in 0 .. 1, NEW c, Piece(c, w, e), ~c.fin,
         NEW n, NEW b \in Nat, Ordered(ooseq, n, b, w, e), Leads(c, ooseq)
  PROVE  /\ Merge(c).seg = Headed(c, ooseq)
         /\ Merge(c).rest = From(ooseq, Covered(c, ooseq) + 1)
  <1> DEFINE q == ooseq
             k == Covered(c, q)
             fin == CoversFin(c, q)
             d == [c EXCEPT !.fin = fin]
  <1>1. c \in Segment /\ Stop(c) \in Nat /\ End(c) = DataEnd(c)
    BY PieceFacts
  <1>2. Merge(c) = IF k < Len(q) /\ GT(End(d), q[k + 1].seq)
                     THEN [seg |-> CutTail(d, q[k + 1].seq), rest |-> From(q, k + 1)]
                     ELSE [seg |-> d, rest |-> From(q, k + 1)]
    <2>1. {m \in 1 .. Len(q) : \A j \in 1 .. m : GEQ(End(c), DataEnd(q[j]))}
            = {m \in 1 .. Len(q) : \A j \in 1 .. m : GEQ(DataEnd(c), DataEnd(q[j]))}
      BY <1>1
    <2>2. k = Cardinality({m \in 1 .. Len(q) : \A j \in 1 .. m : GEQ(End(c), DataEnd(q[j]))})
      BY <2>1 DEF Covered
    <2>3. fin = \E j \in 1 .. k : q[j].fin
      BY DEF CoversFin
    <2> HIDE DEF k, fin
    <2> QED BY <2>2, <2>3 DEF Merge, Prefix
  <1>3. /\ CoversFin(c, q) => Covered(c, q) = Len(q)
        /\ CoversFin(c, q) <=> Headed(c, q).fin
    <2> DEFINE B == IF b <= Stop(c) THEN Stop(c) ELSE b
    <2>1. B \in Nat /\ b <= B /\ Stop(c) <= B
      BY <1>1
    <2> HIDE DEF B
    <2> QED BY <2>1, HeadedOf
  <1>4. CASE CoversFin(c, q)
    <2>1. Len(q) \in Nat
      BY DEF Ordered
    <2>2. ~(k < Len(q))
      BY <1>3, <1>4, <2>1
    <2>3. fin = TRUE
      BY <1>4 DEF CoversFin
    <2>4. Headed(c, q) = [c EXCEPT !.fin = TRUE]
      BY <1>4 DEF Headed
    <2>5. Merge(c) = [seg |-> d, rest |-> From(q, k + 1)]
      <3> HIDE DEF k, d
      <3> QED BY <1>2, <2>2
    <2>6. d = Headed(c, q)
      <3> HIDE DEF fin
      <3> QED BY <2>3, <2>4, Zenon
    <2> HIDE DEF d, k
    <2> QED BY <2>5, <2>6 DEF k
  <1>5. CASE ~CoversFin(c, q)
    <2>1. Headed(c, q) = Shortened(c, q)
      BY <1>5 DEF Headed
    <2>2. fin = FALSE
      BY <1>5 DEF CoversFin
    <2>3. d = c
      <3>1. [c EXCEPT !.fin = FALSE] = c
        BY <1>1, ClearFinPiece
      <3> HIDE DEF fin
      <3> QED BY <2>2, <3>1, Zenon
    <2>4. Shortened(c, q) = IF k < Len(q) /\ GT(End(d), q[k + 1].seq)
                              THEN CutTail(d, q[k + 1].seq) ELSE d
      BY <1>1, <2>3 DEF Shortened
    <2> HIDE DEF d, k
    <2> QED BY <1>2, <2>1, <2>4 DEF k
  <1> QED BY <1>4, <1>5

LEMMA MergeOrdered ==
  ASSUME NoWrap, NEW w \in 0 .. Total, NEW e \in 0 .. 1, NEW c, Piece(c, w, e),
         NEW n \in Nat, NEW b \in Nat, Ordered(ooseq, n, b, w, e), c.seq = n,
         NEW B \in Nat, b <= B, Stop(c) <= B, NEW h, NEW r, h = Merge(c).seg, r = Merge(c).rest
  PROVE  /\ Piece(h, w, e) /\ h.seq = n /\ Stop(h) <= B
         /\ Ordered(r, n, b, w, e)
         /\ h.fin => r = <<>>
         /\ \A k \in 1 .. Len(r) : Stop(h) <= r[k].seq
  <1>1. CASE c.fin
    <2>1. Merge(c) = [seg |-> c, rest |-> <<>>]
      BY <1>1 DEF Merge
    <2>2. h = c /\ r = <<>>
      BY <2>1
    <2>3. Ordered(<<>>, n, b, w, e)
      BY OrderedEmpty
    <2>4. Len(r) = 0
      BY <2>2
    <2> QED BY <2>2, <2>3, <2>4
  <1>2. CASE ~c.fin
    <2> DEFINE q == ooseq
               k == Covered(c, q)
    <2>1. /\ q \in Seq(Segment) /\ Len(q) \in Nat
          /\ \A i \in 1 .. Len(q) : Piece(q[i], w, e) /\ n < q[i].seq
      BY OrderedFacts
    <2>2. Leads(c, q)
      <3> SUFFICES ASSUME q /= <<>> PROVE c.seq < q[1].seq
        BY DEF Leads
      <3>1. 1 \in 1 .. Len(q)
        BY <2>1
      <3> QED BY <2>1, <3>1
    <2>3. h = Headed(c, q) /\ r = From(q, k + 1)
      BY <1>2, <2>2, MergeIs
    <2>4. /\ Piece(h, w, e) /\ h.seq = c.seq /\ Stop(h) <= B
          /\ h.fin => k = Len(q)
          /\ \A i \in 1 .. Len(q) : i > k => Stop(h) <= q[i].seq
      <3>1. /\ Piece(Headed(c, q), w, e) /\ Headed(c, q).seq = c.seq /\ Stop(Headed(c, q)) <= B
            /\ CoversFin(c, q) => Covered(c, q) = Len(q)
            /\ CoversFin(c, q) <=> Headed(c, q).fin
            /\ \A i \in 1 .. Len(q) : i > Covered(c, q) => Stop(Headed(c, q)) <= q[i].seq
        BY <1>2, <2>2, HeadedOf
      <3> QED BY <2>3, <3>1
    <2>5. k \in 0 .. Len(q)
      BY <2>1, CoveredOf
    <2> HIDE DEF k
    <2>6. Ordered(r, n, b, w, e) /\ Len(r) = Len(q) - k /\ \A i \in 1 .. Len(q) - k : r[i] = q[k + i]
      <3>o. Ordered(q, n, b, w, e)
        OBVIOUS
      <3> HIDE DEF q
      <3>1. /\ Ordered(From(q, k + 1), n, b, w, e) /\ Len(From(q, k + 1)) = Len(q) - k
            /\ \A i \in 1 .. Len(q) - k : From(q, k + 1)[i] = q[k + i]
        BY ONLY <3>o, <2>5, OrderedParts, NoWrap, w \in 0 .. Total, e \in 0 .. 1, b \in Nat
      <3> QED BY <2>3, <3>1
    <2>7. h.fin => r = <<>>
      <3> SUFFICES ASSUME h.fin PROVE r = <<>>
        OBVIOUS
      <3>1. Len(r) = 0 /\ r \in Seq(Segment)
        BY <2>1, <2>4, <2>6 DEF Ordered
      <3> QED BY <3>1
    <2>8. \A i \in 1 .. Len(r) : Stop(h) <= r[i].seq
      <3> SUFFICES ASSUME NEW i \in 1 .. Len(q) - k PROVE Stop(h) <= r[i].seq
        BY <2>6
      <3>1. k + i \in 1 .. Len(q) /\ k + i > k
        BY <2>1, <2>5
      <3> QED BY <2>4, <2>6, <3>1
    <2> QED BY <2>4, <2>6, <2>7, <2>8
  <1> QED BY <1>1, <1>2

\* tcp_receive: the segments of q that follow on from n are a chain, and those
\* after them leave a gap.
NextIs(q, n, j) == q[j].seq = IF j = 1 THEN n ELSE End(q[j - 1])

LEMMA FollowingOf ==
  ASSUME NoWrap, NEW w \in 0 .. Total, NEW e \in 0 .. 1, NEW q, NEW a, NEW b \in Nat,
         Ordered(q, a, b, w, e), NEW n \in Nat, \A k \in 1 .. Len(q) : n <= q[k].seq,
         NEW f, f = Following(q, n)
  PROVE  /\ f \in 0 .. Len(q)
         /\ Chain(SubSeq(q, 1, f), n, Cut(q, n, f), w, e)
         /\ \A k \in 1 .. Len(q) : k > f => Cut(q, n, f) < q[k].seq
  <1> DEFINE m == Len(q)
             S == {j \in 1 .. m : NextIs(q, n, j)}
  <1>1. /\ q \in Seq(Segment) /\ m \in Nat
        /\ \A k \in 1 .. m : Piece(q[k], w, e)
        /\ \A j, k \in 1 .. m : j < k => Stop(q[j]) <= q[k].seq
    BY OrderedFacts
  <1>2. f = Run(m, S)
    <2>1. \A k \in 1 .. m : (\A j \in 1 .. k : NextIs(q, n, j)) <=> (\A j \in 1 .. k : j \in S)
      <3>1. \A k \in 1 .. m : \A j \in 1 .. k : j \in 1 .. m
        OBVIOUS
      <3> QED BY <3>1, Zenon
    <2>2. {k \in 1 .. m : \A j \in 1 .. k : NextIs(q, n, j)}
            = {k \in 1 .. m : \A j \in 1 .. k : j \in S}
      <3> HIDE DEF S
      <3> QED BY <2>1, Zenon
    <2>3. f = Cardinality({k \in 1 .. m : \A j \in 1 .. k : NextIs(q, n, j)})
      BY DEF Following, NextIs
    <2> HIDE DEF S
    <2> QED BY <2>2, <2>3 DEF Run
  <1>3. f \in 0 .. m /\ (\A j \in 1 .. f : j \in S) /\ (f < m => f + 1 \notin S)
    <2> HIDE DEF S
    <2> QED BY <1>1, <1>2, RunOf
  <1>4. \A j \in 1 .. f : NextIs(q, n, j)
    BY <1>3
  <1>5. f < m => ~NextIs(q, n, f + 1)
    <2> SUFFICES ASSUME f < m PROVE ~NextIs(q, n, f + 1)
      OBVIOUS
    <2>1. f + 1 \in 1 .. m
      BY <1>1, <1>3
    <2> QED BY <1>3, <2>1
  <1>6. \A k \in 1 .. m : /\ q[k].seq \in Nat /\ Stop(q[k]) \in Nat /\ q[k].seq < Stop(q[k])
                          /\ End(q[k]) = Stop(q[k])
    BY <1>1, PieceFacts
  <1> HIDE DEF S
  <1> DEFINE p == SubSeq(q, 1, f)
             x == Cut(q, n, f)
  <1>7. p \in Seq(Segment) /\ Len(p) = f /\ \A i \in 1 .. f : p[i] = q[i]
    BY <1>1, <1>3, SubSeqOf
  <1> HIDE DEF p
  <1>8. Chain(p, n, x, w, e)
    <2>1. ASSUME NEW k \in 1 .. Len(p)
          PROVE  Piece(p[k], w, e) /\ p[k].seq = IF k = 1 THEN n ELSE Stop(p[k - 1])
      <3>1. k \in 1 .. f /\ k \in 1 .. m /\ p[k] = q[k] /\ NextIs(q, n, k)
        BY <1>1, <1>3, <1>4, <1>7
      <3>2. CASE k = 1
        BY <1>1, <3>1, <3>2 DEF NextIs
      <3>3. CASE k /= 1
        <4>1. k - 1 \in 1 .. f /\ k - 1 \in 1 .. m
          BY <1>1, <1>3, <3>1, <3>3
        <4>2. q[k].seq = End(q[k - 1]) /\ End(q[k - 1]) = Stop(q[k - 1]) /\ p[k - 1] = q[k - 1]
          BY <1>6, <1>7, <3>1, <3>3, <4>1 DEF NextIs
        <4> QED BY <1>1, <3>1, <3>3, <4>2
      <3> QED BY <3>2, <3>3
    <2>2. x = IF p = <<>> THEN n ELSE Stop(p[Len(p)])
      <3>1. CASE f = 0
        <4>1. p = <<>>
          BY <1>7, <3>1
        <4> QED BY <3>1, <4>1 DEF Cut
      <3>2. CASE f /= 0
        <4>1. f \in 1 .. f /\ p /= <<>>
          BY <1>3, <1>7, <3>2
        <4>2. p[Len(p)] = q[f]
          BY <1>7, <4>1
        <4> QED BY <3>2, <4>1, <4>2 DEF Cut
      <3> QED BY <3>1, <3>2
    <2> HIDE DEF x
    <2> QED BY <1>7, <2>1, <2>2 DEF Chain
  <1>9. ASSUME NEW k \in 1 .. m, k > f PROVE x < q[k].seq
    <2>1. f + 1 \in 1 .. m /\ f < m /\ (f + 1) - 1 = f
      BY <1>1, <1>3, <1>9
    <2>2. x < q[f + 1].seq
      <3>1. ~NextIs(q, n, f + 1)
        BY <1>5, <2>1
      <3>2. CASE f = 0
        <4>1. q[f + 1].seq /= n /\ n <= q[f + 1].seq
          BY <2>1, <3>1, <3>2 DEF NextIs
        <4> QED BY <1>6, <2>1, <3>2, <4>1 DEF Cut
      <3>3. CASE f /= 0
        <4>1. f \in 1 .. m /\ f + 1 /= 1 /\ f < f + 1
          BY <1>1, <1>3, <3>3
        <4>2. q[f + 1].seq /= End(q[f])
          BY <2>1, <3>1, <4>1 DEF NextIs
        <4>3. Stop(q[f]) <= q[f + 1].seq /\ End(q[f]) = Stop(q[f]) /\ Stop(q[f]) \in Nat
              /\ q[f + 1].seq \in Nat
          BY <1>1, <1>6, <2>1, <4>1
        <4> QED BY <3>3, <4>2, <4>3 DEF Cut
      <3> QED BY <3>2, <3>3
    <2>3. x \in Nat
      <3>1. CASE f = 0
        BY <3>1 DEF Cut
      <3>2. CASE f /= 0
        <4>1. f \in 1 .. m
          BY <1>1, <1>3, <3>2
        <4> QED BY <1>6, <3>2, <4>1 DEF Cut
      <3> QED BY <3>1, <3>2
    <2>4. CASE k = f + 1
      BY <2>2, <2>4
    <2>5. CASE k /= f + 1
      <3>1. f + 1 < k
        BY <1>3, <1>9, <2>5
      <3>2. Stop(q[f + 1]) <= q[k].seq
        BY <1>1, <2>1, <3>1
      <3>3. q[f + 1].seq < Stop(q[f + 1]) /\ Stop(q[f + 1]) \in Nat /\ q[k].seq \in Nat
            /\ q[f + 1].seq \in Nat
        BY <1>6, <2>1
      <3> HIDE DEF x
      <3> QED BY <2>2, <2>3, <3>2, <3>3
    <2> QED BY <2>4, <2>5
  <1>10. f \in 0 .. m /\ p = SubSeq(q, 1, f) /\ x = Cut(q, n, f)
    BY <1>3 DEF p
  <1> HIDE DEF x
  <1> QED BY <1>8, <1>9, <1>10, Zenon

-----------------------------------------------------------------------------
(* The bytes that go to the application.                                     *)

LEMMA BytesIs ==
  ASSUME NoWrap, NEW w \in 0 .. Total, NEW e \in 0 .. 1, NEW s, Piece(s, w, e)
  PROVE  Bytes(s) = s.data
  <1> DEFINE d == s.data
             n == Len(d)
             S == {k \in 1 .. n : \A j \in 1 .. k : d[j] /= 0}
  <1>1. s \in Segment /\ s.seq \in Nat /\ n \in Nat /\ Iss <= s.seq /\ Iss \in Nat
    BY PieceFacts, ConstantFacts
  <1>2. d \in Seq(Nat)
    BY <1>1, SegmentData
  <1>3. \A j \in 1 .. n : d[j] /= 0
    <2> SUFFICES ASSUME NEW j \in 1 .. n PROVE d[j] /= 0
      OBVIOUS
    <2>1. d[j] = s.seq - Iss + j
      BY DEF Piece
    <2> QED BY <1>1, <2>1
  <1>4. Bytes(s) = SubSeq(d, 1, Cardinality(S))
    BY DEF Bytes, Prefix
  <1>5. S = 1 .. n
    BY <1>1, <1>3
  <1> DEFINE x == Cardinality(S)
  <1>6. Cardinality(1 .. n) = n
    BY <1>1, CountAll
  <1>7. x = n
    BY <1>5, <1>6
  <1>8. SubSeq(d, 1, n) = d
    <2>1. n \in 0 .. Len(d)
      BY <1>1
    <2> HIDE DEF d
    <2>2. SubSeq(d, 1, n) \in Seq(Nat) /\ Len(SubSeq(d, 1, n)) = n /\ \A i \in 1 .. n : SubSeq(d, 1, n)[i] = d[i]
      BY <1>2, <2>1, SubSeqOf
    <2> QED BY <1>2, <2>2, SeqEqual
  <1> QED BY <1>4, <1>7, <1>8 DEF x

\* What FlattenSeq computes is what any function with its steps has.
LEMMA FlattenIs ==
  ASSUME NEW s, Len(s) \in Nat, Len(s) > 0, NEW g,
         g = [k \in 1 .. Len(s) |-> g[k]], g[1] = s[1],
         \A k \in 1 .. Len(s) : k > 1 => g[k] = g[k - 1] \o s[k]
  PROVE  FlattenSeq(s) = g[Len(s)]
  <1> DEFINE n == Len(s)
             W(f) == [i \in 1 .. n |-> IF i = 1 THEN s[i] ELSE f[i - 1] \o s[i]]
             h == CHOOSE f : f = W(f)
  <1>1. g = W(g)
    <2>1. ASSUME NEW k \in 1 .. n
          PROVE  g[k] = IF k = 1 THEN s[k] ELSE g[k - 1] \o s[k]
      <3>1. CASE k = 1
        BY <3>1
      <3>2. CASE k /= 1
        <4>1. k > 1
          BY <3>2
        <4>2. g[k] = g[k - 1] \o s[k]
          BY <4>1
        <4> QED BY <3>2, <4>2
      <3> QED BY <3>1, <3>2
    <2> QED BY <2>1
  <1>2. h = W(h)
    <2> HIDE DEF W
    <2> QED BY <1>1
  <1>3. FlattenSeq(s) = h[n]
    BY DEF FlattenSeq
  <1>4. h[1] = s[1] /\ \A k \in 1 .. n : k > 1 => h[k] = h[k - 1] \o s[k]
    <2> HIDE DEF h
    <2>1. \A k \in 1 .. n : h[k] = IF k = 1 THEN s[k] ELSE h[k - 1] \o s[k]
      BY <1>2
    <2>2. 1 \in 1 .. n
      OBVIOUS
    <2>3. h[1] = s[1]
      BY <2>1, <2>2
    <2>4. ASSUME NEW k \in 1 .. n, k > 1 PROVE h[k] = h[k - 1] \o s[k]
      <3>1. k /= 1
        BY <2>4
      <3> QED BY <2>1, <3>1
    <2> QED BY <2>3, <2>4
  <1> HIDE DEF h
  <1>5. \A k \in 1 .. n : h[k] = g[k]
    <2> DEFINE S == {k \in 1 .. n : h[k] /= g[k]}
    <2> SUFFICES ASSUME S /= {} PROVE FALSE
      OBVIOUS
    <2>1. S \in SUBSET Nat
      OBVIOUS
    <2>2. PICK k \in S : \A i \in S : k <= i
      BY <2>1, LeastExists
    <2>3. k \in 1 .. n /\ k > 1 /\ k - 1 \in 1 .. n /\ k - 1 \notin S
      BY <1>4, <2>2
    <2>4. h[k - 1] = g[k - 1]
      BY <2>3
    <2> QED BY <1>4, <2>2, <2>3, <2>4
  <1>6. n \in 1 .. n
    OBVIOUS
  <1> QED BY <1>3, <1>5, <1>6

\* The n bytes of the stream from sequence number a on.
Part(a, n) == [i \in 1 .. n |-> a - Iss + i]

LEMMA PartOf ==
  ASSUME NEW a \in Nat, Iss <= a, NEW n \in Nat
  PROVE  /\ Part(a, n) \in Seq(Nat) /\ Len(Part(a, n)) = n
         /\ \A i \in 1 .. n : Part(a, n)[i] = a - Iss + i
  <1>1. Iss \in Nat
    BY ConstantFacts
  <1>2. \A i \in 1 .. n : a - Iss + i \in Nat
    BY <1>1
  <1> QED BY <1>2 DEF Part

LEMMA PartJoin ==
  ASSUME NEW a \in Nat, Iss <= a, NEW n \in Nat, NEW d \in Seq(Nat),
         \A i \in 1 .. Len(d) : d[i] = (a + n) - Iss + i
  PROVE  Part(a, n) \o d = Part(a, n + Len(d))
  <1> DEFINE p == Part(a, n)
             r == Part(a, n + Len(d))
             m == Len(d)
  <1>1. m \in Nat /\ n + m \in Nat /\ Iss \in Nat
    BY ConstantFacts
  <1>2. p \in Seq(Nat) /\ Len(p) = n /\ \A i \in 1 .. n : p[i] = a - Iss + i
    BY PartOf
  <1>3. r \in Seq(Nat) /\ Len(r) = n + m /\ \A i \in 1 .. n + m : r[i] = a - Iss + i
    BY <1>1, PartOf
  <1> HIDE DEF p, r
  <1>4. /\ p \o d \in Seq(Nat) /\ Len(p \o d) = n + m
        /\ \A i \in 1 .. n + m : (p \o d)[i] = IF i <= n THEN p[i] ELSE d[i - n]
    BY <1>2, ConcatProperties
  <1>5. \A i \in 1 .. n + m : (p \o d)[i] = r[i]
    <2> SUFFICES ASSUME NEW i \in 1 .. n + m PROVE (p \o d)[i] = r[i]
      OBVIOUS
    <2>1. CASE i <= n
      BY <1>1, <1>2, <1>3, <1>4, <2>1
    <2>2. CASE ~(i <= n)
      <3>1. i - n \in 1 .. m
        BY <1>1, <2>2
      <3>2. d[i - n] = (a + n) - Iss + (i - n)
        BY <3>1
      <3>3. (a + n) - Iss + (i - n) = a - Iss + i
        BY <1>1
      <3> QED BY <1>3, <1>4, <2>2, <3>2, <3>3
    <2> QED BY <2>1, <2>2
  <1>6. p \o d = r
    BY <1>3, <1>4, <1>5, SeqEqual
  <1> QED BY <1>6 DEF p, r

LEMMA BytesOfChain ==
  ASSUME NoWrap, NEW w \in 0 .. Total, NEW e \in 0 .. 1, NEW q, NEW a \in Nat, NEW b,
         Chain(q, a, b, w, e), q /= <<>>
  PROVE  /\ BytesOf(q) = Part(a, DataStop(q[Len(q)]) - a)
         /\ DataStop(q[Len(q)]) - a \in Nat /\ Iss <= a
  <1> DEFINE n == Len(q)
             s == [k \in DOMAIN q |-> Bytes(q[k])]
             g == [k \in 1 .. n |-> Part(a, DataStop(q[k]) - a)]
  <1>1. /\ q \in Seq(Segment) /\ n \in Nat /\ n > 0
        /\ \A k \in 1 .. n : Piece(q[k], w, e)
        /\ \A j, k \in 1 .. n : j < k => Stop(q[j]) <= q[k].seq
        /\ \A k \in 1 .. n : a <= q[k].seq
        /\ q[1].seq = a
    BY ChainFacts
  <1>2. \A k \in 1 .. n : k > 1 => q[k].seq = Stop(q[k - 1])
    BY DEF Chain
  <1>3. \A k \in 1 .. n : /\ q[k] \in Segment /\ q[k].seq \in Nat /\ DataStop(q[k]) \in Nat /\ Stop(q[k]) \in Nat
                          /\ DataStop(q[k]) = q[k].seq + Len(q[k].data) /\ Len(q[k].data) \in Nat
                          /\ Iss <= q[k].seq /\ q[k].seq < Stop(q[k])
    BY <1>1, PieceFacts
  <1>4. DOMAIN q = 1 .. n
    BY <1>1
  <1>5. /\ DOMAIN s = 1 .. n /\ Len(s) = n
        /\ \A k \in 1 .. n : s[k] = q[k].data /\ s[k] \in Seq(Nat)
    <2>1. \A k \in 1 .. n : s[k] = Bytes(q[k])
      BY <1>4
    <2>2. \A k \in 1 .. n : Bytes(q[k]) = q[k].data
      BY <1>1, BytesIs
    <2>3. \A k \in 1 .. n : q[k].data \in Seq(Nat)
      BY <1>3, SegmentData
    <2>4. s = [k \in 1 .. n |-> Bytes(q[k])]
      BY <1>4
    <2>5. Len(s) = n
      BY <1>1, <2>4
    <2> QED BY <1>4, <2>1, <2>2, <2>3, <2>5
  <1>6. BytesOf(q) = FlattenSeq(s)
    BY DEF BytesOf
  <1> HIDE DEF s
  <1>7. 1 \in 1 .. n /\ n \in 1 .. n
    BY <1>1
  <1>8. Iss <= a
    BY <1>1, <1>3, <1>7
  <1>9. \A k \in 1 .. n : k > 1 => /\ k - 1 \in 1 .. n /\ q[k].seq = DataStop(q[k - 1])
    <2> SUFFICES ASSUME NEW k \in 1 .. n, k > 1
                 PROVE  k - 1 \in 1 .. n /\ q[k].seq = DataStop(q[k - 1])
      OBVIOUS
    <2>1. k - 1 \in 1 .. n /\ q[k].seq = Stop(q[k - 1])
      BY <1>1, <1>2
    <2>2. ~q[k - 1].fin
      <3> SUFFICES ASSUME q[k - 1].fin PROVE FALSE
        OBVIOUS
      <3>1. DataStop(q[k - 1]) = Iss + w
        BY <1>1, <2>1 DEF Piece
      <3>2. Stop(q[k - 1]) = DataStop(q[k - 1]) + 1
        BY <1>1, <2>1, PieceFacts
      <3>3. DataStop(q[k]) <= Iss + w
        BY <1>1, PieceFacts
      <3>4. q[k].seq <= DataStop(q[k])
        <4>1. q[k].seq \in Nat /\ Len(q[k].data) \in Nat /\ DataStop(q[k]) = q[k].seq + Len(q[k].data)
          BY <1>3
        <4> QED BY <4>1
      <3> QED BY <1>3, <2>1, <3>1, <3>2, <3>3, <3>4
    <2>3. Stop(q[k - 1]) = DataStop(q[k - 1])
      BY <1>1, <2>1, <2>2, PieceFacts
    <2> QED BY <2>1, <2>3
  <1>10. \A k \in 1 .. n : DataStop(q[k]) - a \in Nat
    <2> SUFFICES ASSUME NEW k \in 1 .. n PROVE DataStop(q[k]) - a \in Nat
      OBVIOUS
    <2>1. q[k].seq \in Nat /\ Len(q[k].data) \in Nat /\ DataStop(q[k]) = q[k].seq + Len(q[k].data)
      BY <1>3
    <2>2. a <= q[k].seq
      BY <1>1
    <2> QED BY <2>1, <2>2
  <1>11. g[1] = s[1]
    <2>1. s[1] = q[1].data /\ s[1] \in Seq(Nat) /\ Len(q[1].data) = DataStop(q[1]) - a
      BY <1>1, <1>3, <1>5, <1>7
    <2>2. \A i \in 1 .. Len(q[1].data) : q[1].data[i] = a - Iss + i
      BY <1>1, <1>7 DEF Piece
    <2> DEFINE p == Part(a, DataStop(q[1]) - a)
               d == q[1].data
    <2>3. p \in Seq(Nat) /\ Len(p) = DataStop(q[1]) - a
          /\ \A i \in 1 .. DataStop(q[1]) - a : p[i] = a - Iss + i
      BY <1>7, <1>8, <1>10, PartOf
    <2>4. g[1] = p
      BY <1>7
    <2>5. p = d
      <3> HIDE DEF p, d
      <3>1. d \in Seq(Nat) /\ Len(d) = Len(p) /\ \A i \in 1 .. Len(p) : p[i] = d[i]
        BY <2>1, <2>2, <2>3 DEF d
      <3> QED BY <2>3, <3>1, SeqEqual
    <2> QED BY <2>1, <2>4, <2>5
  <1>12. ASSUME NEW k \in 1 .. n, k > 1
         PROVE  g[k] = g[k - 1] \o s[k]
    <2> DEFINE m == DataStop(q[k - 1]) - a
               d == q[k].data
    <2>1. k - 1 \in 1 .. n /\ q[k].seq = DataStop(q[k - 1])
      BY <1>9, <1>12
    <2>2. m \in Nat /\ a + m = q[k].seq
      BY <1>3, <1>10, <2>1
    <2>3. d \in Seq(Nat) /\ s[k] = d /\ Len(d) \in Nat
      BY <1>3, <1>5
    <2>4. \A i \in 1 .. Len(d) : d[i] = q[k].seq - Iss + i
      BY <1>1 DEF Piece
    <2>5. m + Len(d) = DataStop(q[k]) - a
      <3>1. DataStop(q[k]) = q[k].seq + Len(d)
        BY <1>3
      <3> HIDE DEF m, d
      <3> QED BY ONLY <2>2, <2>3, <3>1, a \in Nat
    <2>6. g[k] = Part(a, DataStop(q[k]) - a) /\ g[k - 1] = Part(a, m)
      BY <2>1
    <2> HIDE DEF m, d
    <2>7. Part(a, m) \o d = Part(a, m + Len(d))
      <3>1. \A i \in 1 .. Len(d) : d[i] = (a + m) - Iss + i
        BY <2>2, <2>4
      <3> QED BY <1>8, <2>2, <2>3, <3>1, PartJoin
    <2> HIDE DEF g
    <2> QED BY <2>3, <2>5, <2>6, <2>7
  <1>13. g = [k \in 1 .. n |-> g[k]] /\ g[n] = Part(a, DataStop(q[n]) - a)
    BY <1>7
  <1>14. FlattenSeq(s) = g[Len(s)]
    <2> HIDE DEF g
    <2> QED BY <1>1, <1>5, <1>11, <1>12, <1>13, FlattenIs
  <1> QED BY <1>5, <1>6, <1>7, <1>8, <1>10, <1>13, <1>14

\* tcp_receive: the in-sequence segment and what follows on it from the queue,
\* and what is left of the queue.
Together(h, r) == <<h>> \o SubSeq(r, 1, Following(r, End(h)))
Beyond(h, r) == From(r, Following(r, End(h)) + 1)
HasFin(q) == \E j \in DOMAIN q : q[j].fin

\* The segments t from n to next have all that is from n on, and the rest of
\* the queue lies beyond.
TakenWell(t, rest, n, next, b, w, e) ==
  /\ t \in Seq(Segment) /\ t /= <<>> /\ Len(t) \in Nat /\ next \in Nat
  /\ n < next /\ End(Last(t)) = next
  /\ HasFin(t) => e = 1 /\ next = Iss + w + 1 /\ rest = <<>> /\ BytesOf(t) = Part(n, next - n - 1)
                  /\ next - n - 1 \in Nat
  /\ ~HasFin(t) => next <= Iss + w /\ BytesOf(t) = Part(n, next - n)
  /\ Ordered(rest, next, b, w, e)

LEMMA TakenTogether ==
  ASSUME NoWrap, NEW w \in 0 .. Total, NEW e \in 0 .. 1, NEW n \in Nat, NEW b \in Nat,
         NEW B \in Nat, b <= B, NEW h, NEW r, Piece(h, w, e), h.seq = n, Stop(h) <= B,
         Ordered(r, n, b, w, e), h.fin => r = <<>>, \A k \in 1 .. Len(r) : Stop(h) <= r[k].seq
  PROVE  \E next \in n .. B : TakenWell(Together(h, r), Beyond(h, r), n, next, b, w, e)
  <1> DEFINE f == Following(r, End(h))
             p == SubSeq(r, 1, f)
             t == Together(h, r)
             u == Beyond(h, r)
             m == Stop(h)
             x == Cut(r, m, f)
  <1>1. /\ h \in Segment /\ m \in Nat /\ End(h) = m /\ n < m
    BY PieceFacts
  <1>2. /\ r \in Seq(Segment) /\ Len(r) \in Nat
        /\ \A k \in 1 .. Len(r) : Piece(r[k], w, e) /\ n < r[k].seq /\ Stop(r[k]) <= b
        /\ \A k \in 1 .. Len(r) : k < Len(r) => ~r[k].fin /\ Stop(r[k]) = DataStop(r[k])
    BY OrderedFacts
  <1>f. f = Following(r, m)
    BY <1>1
  <1>t. t = <<h>> \o p /\ u = From(r, f + 1)
    BY DEF Together, Beyond
  <1>p. p = SubSeq(r, 1, f)
    OBVIOUS
  <1>x. x = Cut(r, m, f)
    OBVIOUS
  <1> HIDE DEF f, p, t, u, m, x
  <1>m. m = Stop(h)
    BY DEF m
  <1>3. /\ f \in 0 .. Len(r)
        /\ Chain(p, m, x, w, e)
        /\ \A k \in 1 .. Len(r) : k > f => x < r[k].seq
    <2>1. \A k \in 1 .. Len(r) : m <= r[k].seq
      BY <1>m
    <2>2. /\ f \in 0 .. Len(r)
          /\ Chain(SubSeq(r, 1, f), m, Cut(r, m, f), w, e)
          /\ \A k \in 1 .. Len(r) : k > f => Cut(r, m, f) < r[k].seq
      BY <1>1, <1>f, <2>1, FollowingOf
    <2> QED BY <1>p, <1>x, <2>2
  <1>4. /\ p \in Seq(Segment) /\ x \in Nat /\ m <= x /\ Len(p) = f /\ \A i \in 1 .. f : p[i] = r[i]
    <2>1. p \in Seq(Segment) /\ x \in Nat /\ m <= x
      BY <1>1, <1>3, ChainFacts
    <2>2. Len(SubSeq(r, 1, f)) = f /\ \A i \in 1 .. f : SubSeq(r, 1, f)[i] = r[i]
      BY <1>2, <1>3, SubSeqOf
    <2> QED BY <1>p, <2>1, <2>2
  <1>5. Chain(t, n, x, w, e)
    <2>1. Chain(<<h>>, n, m, w, e)
      <3>1. Chain(<<h>>, h.seq, Stop(h), w, e)
        BY ChainOne
      <3> QED BY <1>m, <3>1
    <2>2. Chain(<<h>> \o p, n, x, w, e)
      BY <1>1, <1>3, <2>1, ChainJoin
    <2> QED BY <1>t, <2>2
  <1>6. /\ t \in Seq(Segment) /\ Len(t) = 1 + f /\ t /= <<>> /\ t[1] = h
        /\ \A i \in 1 .. f : t[i + 1] = r[i]
    <2>1. /\ Len(<<h>> \o p) = 1 + f /\ (<<h>> \o p)[1] = h
          /\ \A i \in 1 .. f : (<<h>> \o p)[i + 1] = p[i]
          /\ <<h>> \o p \in Seq(Segment) /\ <<h>> \o p /= <<>>
      BY <1>1, <1>3, <1>4
    <2> QED BY <1>4, <1>t, <2>1
  <1>7. /\ \A k \in 1 .. Len(t) : Piece(t[k], w, e)
        /\ Stop(t[Len(t)]) = x
    BY <1>5, <1>6, ChainFacts
  <1>8. f \in Nat /\ Len(t) \in 1 .. Len(t) /\ Len(t) \in Nat /\ DOMAIN t = 1 .. Len(t)
    BY <1>2, <1>3, <1>6
  <1> DEFINE l == t[Len(t)]
  <1>9. /\ Piece(l, w, e) /\ Stop(l) = x /\ End(l) = x /\ DataStop(l) \in Nat
        /\ l.fin => Stop(l) = DataStop(l) + 1
        /\ ~l.fin => Stop(l) = DataStop(l)
        /\ DataStop(l) <= Iss + w
    <2>1. Piece(l, w, e) /\ Stop(l) = x
      BY <1>7, <1>8
    <2> HIDE DEF l
    <2> QED BY <2>1, PieceFacts
  <1>10. x <= B
    <2>1. CASE f = 0
      BY <1>m, <1>x, <2>1 DEF Cut
    <2>2. CASE f /= 0
      <3>1. f \in 1 .. Len(r)
        BY <1>2, <1>3, <2>2
      <3>2. x = Stop(r[f]) /\ Stop(r[f]) <= b
        BY <1>2, <1>x, <2>2, <3>1 DEF Cut
      <3> QED BY <1>4, <3>2
    <2> QED BY <2>1, <2>2
  <1>11. HasFin(t) <=> l.fin
    <2>1. ASSUME HasFin(t) PROVE l.fin
      <3>1. PICK j \in 1 .. Len(t) : t[j].fin
        BY <1>8, <2>1 DEF HasFin
      <3>2. CASE f = 0
        <4>1. j = Len(t)
          BY <1>6, <3>1, <3>2
        <4> QED BY <3>1, <4>1
      <3>3. CASE f /= 0
        <4>1. r /= <<>> /\ 1 \in 1 .. Len(r)
          BY <1>2, <1>3, <3>3
        <4>2. j /= 1
          BY <1>6, <3>1, <4>1
        <4>3. j - 1 \in 1 .. f /\ (j - 1) + 1 = j /\ j - 1 \in 1 .. Len(r)
          BY <1>2, <1>3, <1>6, <3>1, <4>2
        <4>4. t[j] = r[j - 1]
          BY <1>6, <4>3
        <4>5. ~(j - 1 < Len(r))
          BY <1>2, <3>1, <4>3, <4>4
        <4>6. j = Len(t)
          BY <1>2, <1>3, <1>6, <4>3, <4>5
        <4> QED BY <3>1, <4>6
      <3> QED BY <3>2, <3>3
    <2>2. ASSUME l.fin PROVE HasFin(t)
      BY <1>8, <2>2 DEF HasFin
    <2> QED BY <2>1, <2>2
  <1>12. l.fin => u = <<>>
    <2> SUFFICES ASSUME l.fin PROVE u = <<>>
      OBVIOUS
    <2>1. From(r, f + 1) \in Seq(Segment) /\ Len(From(r, f + 1)) = Len(r) - f
      BY <1>2, <1>3, SubSeqOf
    <2>2. f = Len(r)
      <3>1. CASE f = 0
        <4>1. l = h
          BY <1>6, <3>1
        <4>2. r = <<>>
          BY <4>1
        <4> QED BY <3>1, <4>2
      <3>2. CASE f /= 0
        <4>1. f \in 1 .. f /\ f \in 1 .. Len(r) /\ Len(t) = f + 1
          BY <1>2, <1>3, <1>6, <3>2
        <4>2. l = r[f]
          BY <1>6, <4>1
        <4>3. ~(f < Len(r))
          BY <1>2, <4>1, <4>2
        <4> QED BY <1>2, <1>3, <4>3
      <3> QED BY <3>1, <3>2
    <2>3. Len(From(r, f + 1)) = 0
      BY <1>2, <2>1, <2>2
    <2>4. From(r, f + 1) = <<>>
      BY <2>1, <2>3
    <2> QED BY <1>t, <2>4
  <1>13. Ordered(u, x, b, w, e)
    <2>1. /\ Ordered(From(r, f + 1), n, b, w, e) /\ Len(From(r, f + 1)) = Len(r) - f
          /\ \A i \in 1 .. Len(r) - f : From(r, f + 1)[i] = r[f + i]
      BY ONLY <1>3, OrderedParts, NoWrap, Ordered(r, n, b, w, e), w \in 0 .. Total, e \in 0 .. 1,
         b \in Nat
    <2>2. Ordered(u, n, b, w, e) /\ Len(u) = Len(r) - f /\ \A i \in 1 .. Len(r) - f : u[i] = r[f + i]
      BY <1>t, <2>1
    <2>3. \A k \in 1 .. Len(u) : x < u[k].seq /\ Stop(u[k]) <= b
      <3> SUFFICES ASSUME NEW k \in 1 .. Len(r) - f PROVE x < u[k].seq /\ Stop(u[k]) <= b
        BY <2>2
      <3>1. f + k \in 1 .. Len(r) /\ f + k > f
        BY <1>2, <1>8
      <3>2. u[k] = r[f + k] /\ x < r[f + k].seq /\ Stop(r[f + k]) <= b
        BY <1>2, <1>3, <2>2, <3>1
      <3> QED BY <3>2
    <2> QED BY ONLY <2>2, <2>3, OrderedOver, NoWrap, w \in 0 .. Total, e \in 0 .. 1, b \in Nat
  <1>14. BytesOf(t) = Part(n, DataStop(l) - n) /\ DataStop(l) - n \in Nat
    BY <1>5, <1>6, BytesOfChain
  <1>15. n < x
    <2>1. n \in Nat /\ m \in Nat /\ x \in Nat /\ n < m /\ m <= x
      BY <1>1, <1>4
    <2> QED BY <2>1
  <1>16. Last(t) = l
    BY DEF Last
  <1> HIDE DEF l
  <1>17. HasFin(t) => /\ e = 1 /\ x = Iss + w + 1 /\ u = <<>> /\ BytesOf(t) = Part(n, x - n - 1)
                      /\ x - n - 1 \in Nat
    <2> SUFFICES ASSUME HasFin(t)
                 PROVE  /\ e = 1 /\ x = Iss + w + 1 /\ u = <<>> /\ BytesOf(t) = Part(n, x - n - 1)
                        /\ x - n - 1 \in Nat
      OBVIOUS
    <2>1. e = 1 /\ DataStop(l) = Iss + w
      BY <1>9, <1>11 DEF Piece
    <2>2. x = DataStop(l) + 1
      BY <1>9, <1>11
    <2>3. x - n - 1 = DataStop(l) - n
      BY <1>9, <2>2
    <2> QED BY <1>11, <1>12, <1>14, <2>1, <2>2, <2>3
  <1>18. ~HasFin(t) => x <= Iss + w /\ BytesOf(t) = Part(n, x - n)
    BY <1>9, <1>11, <1>14
  <1>19. TakenWell(t, u, n, x, b, w, e)
    BY <1>4, <1>6, <1>8, <1>9, <1>13, <1>15, <1>16, <1>17, <1>18 DEF TakenWell
  <1>20. x \in n .. B
    BY <1>4, <1>10, <1>15
  <1> QED BY <1>19, <1>20 DEF t, u

-----------------------------------------------------------------------------
(* The windows.                                                              *)

\* tcp_update_rcv_ann_wnd: what it announces at nxt, the edge announced before.
AnnWnd(room, nxt, edge) ==
  IF GEQ(Plus(nxt, room), Plus(edge, Min({TcpWnd \div 2, Mss}))) THEN room
  ELSE IF GT(nxt, edge) THEN 0
  ELSE Minus(edge, nxt)

LEMMA AnnWndOf ==
  ASSUME NoWrap, NEW room \in 0 .. TcpWnd, NEW nxt \in Nat, NEW edge \in Nat,
         Iss <= nxt, nxt <= Iss + Total + 1, Iss <= edge, edge <= nxt + room,
         NEW ann, ann = AnnWnd(room, nxt, edge)
  PROVE  ann \in 0 .. TcpWnd /\ ann <= room /\ edge <= nxt + ann /\ nxt + ann < M
  <1>1. /\ M \in Nat /\ Mss \in Nat /\ Mss > 0 /\ TcpWnd \in Nat /\ TcpWnd >= 2 /\ Iss \in Nat
        /\ Total \in Nat /\ Iss + Total + 2 * TcpWnd + 1 < M
    BY ConstantFacts DEF NoWrap
  <1> DEFINE x == Min({TcpWnd \div 2, Mss})
  <1>2. x \in Nat /\ 1 <= x /\ x <= TcpWnd
    <2>1. TcpWnd \div 2 \in Nat /\ 1 <= TcpWnd \div 2 /\ TcpWnd \div 2 <= TcpWnd
      BY <1>1, HalfOf
    <2>2. x = IF TcpWnd \div 2 <= Mss THEN TcpWnd \div 2 ELSE Mss
      BY <1>1, <2>1, MinOf
    <2> HIDE DEF x
    <2> QED BY <1>1, <2>1, <2>2
  <1>3. ann = IF GEQ(Plus(nxt, room), Plus(edge, x)) THEN room
              ELSE IF GT(nxt, edge) THEN 0 ELSE Minus(edge, nxt)
    BY DEF AnnWnd
  <1> HIDE DEF x
  <1>4. GT(nxt, edge) <=> nxt > edge
    <2>1. nxt \in 0 .. M - 1 /\ edge \in 0 .. M - 1
      BY <1>1
    <2>2. nxt - edge <= Total + TcpWnd /\ edge - nxt <= Total + TcpWnd
      BY <1>1
    <2> QED BY <2>1, <2>2, Compare
  <1>5. nxt <= edge => Minus(edge, nxt) = edge - nxt
    <2>1. nxt \in 0 .. M - 1 /\ edge \in 0 .. M - 1
      BY <1>1
    <2>2. nxt - edge <= Total + TcpWnd /\ edge - nxt <= Total + TcpWnd
      BY <1>1
    <2> QED BY <2>1, <2>2, Compare
  <1>6. CASE ann = room
    BY <1>1, <1>6
  <1>7. CASE nxt > edge /\ ann = 0
    BY <1>1, <1>7
  <1>8. CASE nxt <= edge /\ ann = edge - nxt
    BY <1>1, <1>8
  <1> QED BY <1>3, <1>4, <1>5, <1>6, <1>7, <1>8

\* tcp_send_empty_ack, or nothing, at the end of a step: the edge announced
\* moves on to what rcv_ann_wnd says, or stays.
LEMMA SendAckOrNot ==
  ASSUME NEW n \in Nat, NEW a \in Nat, rcv_nxt' = n, ann_wnd' = a, ann_edge \in Nat,
         ann_edge <= n + a, n + a < M, SendAck \/ NoAck
  PROVE  /\ ann_edge' \in Nat /\ ann_edge <= ann_edge' /\ ann_edge' <= n + a
         /\ \/ acks' = acks
            \/ /\ acks' = Transmit(acks, <<[ackno |-> rcv_nxt', wnd |-> ann_wnd']>>)
               /\ ann_edge' = rcv_nxt' + ann_wnd'
  <1>1. CASE SendAck
    <2>1. Plus(n, a) = n + a
      BY PlusOf
    <2>2. ann_edge' = Plus(rcv_nxt', ann_wnd')
      BY <1>1 DEF SendAck
    <2>3. ann_edge' = n + a
      BY <2>1, <2>2
    <2>4. acks' = Transmit(acks, <<[ackno |-> rcv_nxt', wnd |-> ann_wnd']>>)
      BY <1>1 DEF SendAck
    <2>5. ann_edge' = rcv_nxt' + ann_wnd'
      BY <2>3
    <2> QED BY <2>3, <2>4, <2>5
  <1>2. CASE NoAck
    <2>1. ann_edge' = ann_edge /\ acks' = acks
      BY <1>2 DEF NoAck
    <2> QED BY <2>1
  <1> QED BY <1>1, <1>2

LEMMA LimitGrows ==
  ASSUME NEW a \in Nat, NEW b \in Nat, NEW r \in Nat, a <= b
  PROVE  /\ (IF a <= r THEN a ELSE r) <= (IF b <= r THEN b ELSE r)
         /\ (IF a <= r THEN a ELSE r) \in Nat /\ (IF b <= r THEN b ELSE r) \in Nat
  OBVIOUS

\* A step of the receiver, as it changes its variables.
LEMMA ReceiverStep ==
  ASSUME NoWrap, IInv, UNCHANGED sender, faults' = faults,
         net' \in Seq(InFlight(written, Fins, ann_edge, rcv_nxt, Reach)),
         rcv_nxt' \in Nat, rcv_nxt <= rcv_nxt', rcv_nxt' <= Reach,
         rcv_wnd' \in 0 .. TcpWnd, ann_wnd' \in 0 .. TcpWnd, unread' \in 0 .. TcpWnd,
         ackDelay' \in BOOLEAN, gotFin' \in BOOLEAN,
         got' = Stretch(Len(got')), Len(got') \in 0 .. written,
         rcv_nxt' = EndOf(Len(got'), Ends'),
         gotFin' => finQueued /\ Len(got') = written /\ ooseq' = <<>>,
         rcv_wnd' + unread' = TcpWnd, unread' <= Len(got'), ann_wnd' <= rcv_wnd',
         ann_edge <= rcv_nxt' + ann_wnd', rcv_nxt' + ann_wnd' < M,
         Ordered(ooseq', rcv_nxt', Limit, written, Fins),
         SendAck \/ NoAck
  PROVE  IInv' /\ ann_edge <= ann_edge' /\ rcv_nxt <= rcv_nxt'
  <1>1. /\ written \in Nat /\ Fins \in 0 .. 1 /\ ann_edge \in Nat /\ Reach \in Nat /\ Limit \in Nat
    BY NumbersOf
  <1>2. written' = written /\ finQueued' = finQueued /\ Fins' = Fins /\ Reach' = Reach
    BY DEF sender, Fins, Reach
  <1>3. /\ ann_edge' \in Nat /\ ann_edge <= ann_edge' /\ ann_edge' <= rcv_nxt' + ann_wnd'
        /\ \/ acks' = acks
           \/ /\ acks' = Transmit(acks, <<[ackno |-> rcv_nxt', wnd |-> ann_wnd']>>)
              /\ ann_edge' = rcv_nxt' + ann_wnd'
    <2>1. \E n \in Nat, a \in Nat : n = rcv_nxt' /\ a = ann_wnd'
      <3>1. rcv_nxt' \in Nat /\ ann_wnd' \in Nat
        BY ConstantFacts
      <3> QED BY <3>1
    <2>2. PICK n \in Nat, a \in Nat : rcv_nxt' = n /\ ann_wnd' = a
      BY <2>1
    <2>3. ann_edge <= n + a /\ n + a < M
      BY <2>2
    <2>4. /\ ann_edge' \in Nat /\ ann_edge <= ann_edge' /\ ann_edge' <= n + a
          /\ \/ acks' = acks
             \/ /\ acks' = Transmit(acks, <<[ackno |-> rcv_nxt', wnd |-> ann_wnd']>>)
                /\ ann_edge' = rcv_nxt' + ann_wnd'
      BY <1>1, <2>2, <2>3, SendAckOrNot
    <2>5. ann_edge' <= rcv_nxt' + ann_wnd'
      BY <2>2, <2>4
    <2> QED BY <2>4, <2>5
  <1>4. Ordered(ooseq', rcv_nxt', Limit', written', Fins')
    <2>1. Limit' \in Nat /\ Limit <= Limit'
      <3>1. Limit' = IF ann_edge' <= Reach THEN ann_edge' ELSE Reach
        BY <1>2 DEF Limit
      <3>2. Limit = IF ann_edge <= Reach THEN ann_edge ELSE Reach
        BY DEF Limit
      <3> QED BY <1>1, <1>3, <3>1, <3>2, LimitGrows
    <2>2. Ordered(ooseq', rcv_nxt', Limit', written, Fins)
      <3>1. written <= written
        BY <1>1
      <3> QED BY <1>1, <2>1, <3>1, OrderedStays
    <2> QED BY <1>2, <2>2
  <1>5. ReceiverOK'
    BY <1>2, <1>3, <1>4 DEF ReceiverOK
  <1> QED BY <1>3, <1>5, ReceiverActs

LEMMA ReceiverNumbers ==
  ASSUME NoWrap, IInv
  PROVE  /\ rcv_nxt \in Nat /\ Iss <= rcv_nxt /\ rcv_nxt <= Iss + Total + 1 /\ rcv_nxt <= Reach
         /\ rcv_wnd \in 0 .. TcpWnd /\ ann_wnd \in 0 .. TcpWnd /\ unread \in 0 .. TcpWnd
         /\ ann_wnd <= rcv_wnd /\ rcv_wnd + unread = TcpWnd
         /\ ackDelay \in BOOLEAN /\ gotFin \in BOOLEAN
         /\ ann_edge \in Nat /\ Iss <= ann_edge /\ ann_edge <= rcv_nxt + ann_wnd
         /\ ann_edge <= rcv_nxt + rcv_wnd
         /\ rcv_nxt + ann_wnd < M /\ rcv_nxt + rcv_wnd < M
         /\ got = Stretch(Len(got)) /\ Len(got) \in 0 .. written /\ Len(got) \in Nat
         /\ unread <= Len(got) /\ rcv_nxt = EndOf(Len(got), Ends)
         /\ gotFin => finQueued /\ Len(got) = written /\ ooseq = <<>>
         /\ Ordered(ooseq, rcv_nxt, Limit, written, Fins)
         /\ net \in Seq(InFlight(written, Fins, ann_edge, rcv_nxt, Reach))
  <1>1. /\ rcv_nxt \in Nat /\ Iss <= rcv_nxt /\ rcv_nxt <= Iss + Total + 1
        /\ rcv_wnd \in 0 .. TcpWnd /\ ann_wnd \in 0 .. TcpWnd /\ unread \in 0 .. TcpWnd
        /\ ann_edge \in Nat /\ written \in Nat /\ lastack \in Nat /\ Iss <= lastack
        /\ snd_wl2 \in Nat /\ snd_wnd \in 0 .. TcpWnd
    BY NumbersOf
  <1>2. /\ ann_wnd <= rcv_wnd /\ rcv_wnd + unread = TcpWnd
        /\ ackDelay \in BOOLEAN /\ gotFin \in BOOLEAN
        /\ ann_edge <= rcv_nxt + ann_wnd
        /\ got = Stretch(Len(got)) /\ Len(got) \in 0 .. written
        /\ unread <= Len(got) /\ rcv_nxt = EndOf(Len(got), Ends)
        /\ gotFin => finQueued /\ Len(got) = written /\ ooseq = <<>>
        /\ Ordered(ooseq, rcv_nxt, Limit, written, Fins)
    BY DEF IInv, ReceiverOK
  <1>3. /\ net \in Seq(InFlight(written, Fins, ann_edge, rcv_nxt, Reach)) /\ rcv_nxt <= Reach
        /\ lastack <= snd_wl2 /\ snd_wl2 + snd_wnd <= ann_edge
    BY DEF IInv, NetworkOK
  <1>4. /\ M \in Nat /\ TcpWnd \in Nat /\ Iss \in Nat /\ Total \in Nat
        /\ Iss + Total + 2 * TcpWnd + 1 < M /\ TcpWnd >= 2
    BY ConstantFacts DEF NoWrap
  <1>5. Iss <= ann_edge
    <2> HIDE <1>2
    <2> QED BY ONLY <1>1, <1>3, <1>4
  <1>6. ann_edge <= rcv_nxt + rcv_wnd /\ rcv_nxt + ann_wnd < M /\ rcv_nxt + rcv_wnd < M
    <2>1. ann_wnd <= rcv_wnd /\ ann_edge <= rcv_nxt + ann_wnd
      BY <1>2
    <2> QED BY ONLY <1>1, <1>4, <2>1
  <1>7. Len(got) \in Nat
    BY <1>1, <1>2
  <1> QED BY <1>1, <1>2, <1>3, <1>5, <1>6, <1>7

\* A step that receives nothing, and reads nothing.
LEMMA QueueStep ==
  ASSUME NoWrap, IInv, UNCHANGED sender, faults' = faults,
         net' \in Seq(InFlight(written, Fins, ann_edge, rcv_nxt, Reach)),
         UNCHANGED <<rcv_nxt, rcv_wnd, ann_wnd, got, unread, gotFin>>,
         Ordered(ooseq', rcv_nxt, Limit, written, Fins), gotFin => ooseq' = <<>>,
         ackDelay' \in BOOLEAN, SendAck \/ NoAck
  PROVE  IInv' /\ ann_edge <= ann_edge' /\ rcv_nxt <= rcv_nxt'
  <1>1. /\ rcv_nxt \in Nat /\ rcv_nxt <= Reach
        /\ rcv_wnd \in 0 .. TcpWnd /\ ann_wnd \in 0 .. TcpWnd /\ unread \in 0 .. TcpWnd
        /\ ann_wnd <= rcv_wnd /\ rcv_wnd + unread = TcpWnd
        /\ gotFin \in BOOLEAN
        /\ ann_edge <= rcv_nxt + ann_wnd
        /\ rcv_nxt + ann_wnd < M
        /\ got = Stretch(Len(got)) /\ Len(got) \in 0 .. written
        /\ unread <= Len(got) /\ rcv_nxt = EndOf(Len(got), Ends)
        /\ gotFin => finQueued /\ Len(got) = written
    BY ReceiverNumbers
  <1>2. /\ rcv_nxt' = rcv_nxt /\ rcv_wnd' = rcv_wnd /\ ann_wnd' = ann_wnd /\ got' = got
        /\ unread' = unread /\ gotFin' = gotFin /\ Ends' = Ends
    BY DEF Ends
  <1>3. rcv_nxt <= rcv_nxt
    BY <1>1
  <1>4. /\ rcv_nxt' \in Nat /\ rcv_nxt <= rcv_nxt' /\ rcv_nxt' <= Reach
        /\ rcv_wnd' \in 0 .. TcpWnd /\ ann_wnd' \in 0 .. TcpWnd /\ unread' \in 0 .. TcpWnd
        /\ gotFin' \in BOOLEAN
        /\ got' = Stretch(Len(got')) /\ Len(got') \in 0 .. written
        /\ rcv_nxt' = EndOf(Len(got'), Ends')
        /\ gotFin' => finQueued /\ Len(got') = written /\ ooseq' = <<>>
        /\ rcv_wnd' + unread' = TcpWnd /\ unread' <= Len(got') /\ ann_wnd' <= rcv_wnd'
        /\ ann_edge <= rcv_nxt' + ann_wnd' /\ rcv_nxt' + ann_wnd' < M
        /\ Ordered(ooseq', rcv_nxt', Limit, written, Fins)
    <2>1. Ordered(ooseq', rcv_nxt', Limit, written, Fins)
      BY <1>2
    <2>2. gotFin' => finQueued /\ Len(got') = written /\ ooseq' = <<>>
      BY <1>1, <1>2
    <2>3. got' = Stretch(Len(got')) /\ Len(got') \in 0 .. written /\ rcv_nxt' = EndOf(Len(got'), Ends')
      BY <1>1, <1>2
    <2>4. rcv_nxt' \in Nat /\ rcv_nxt <= rcv_nxt' /\ rcv_nxt' <= Reach
      BY <1>1, <1>2, <1>3
    <2>5. /\ rcv_wnd' \in 0 .. TcpWnd /\ ann_wnd' \in 0 .. TcpWnd /\ unread' \in 0 .. TcpWnd
          /\ gotFin' \in BOOLEAN
      BY <1>1, <1>2
    <2>6. /\ rcv_wnd' + unread' = TcpWnd /\ unread' <= Len(got') /\ ann_wnd' <= rcv_wnd'
          /\ ann_edge <= rcv_nxt' + ann_wnd' /\ rcv_nxt' + ann_wnd' < M
      BY <1>1, <1>2
    <2> QED BY <2>1, <2>2, <2>3, <2>4, <2>5, <2>6
  <1> QED BY <1>4, ReceiverStep

LEMMA FastTimerKeeps ==
  ASSUME NoWrap, IInv, FastTimer
  PROVE  IInv' /\ ann_edge <= ann_edge' /\ rcv_nxt <= rcv_nxt'
  <1>1. /\ UNCHANGED <<rcv_nxt, rcv_wnd, ann_wnd, ooseq, got, unread, gotFin>> /\ SendAck
        /\ UNCHANGED <<sender, net, faults>>
    BY DEF FastTimer
  <1>2. ackDelay' \in BOOLEAN
    BY <1>1 DEF SendAck
  <1>3. /\ Ordered(ooseq, rcv_nxt, Limit, written, Fins)
        /\ gotFin => ooseq = <<>>
        /\ net \in Seq(InFlight(written, Fins, ann_edge, rcv_nxt, Reach))
    BY ReceiverNumbers
  <1> QED BY <1>1, <1>2, <1>3, QueueStep

LEMMA DropOoseqKeeps ==
  ASSUME NoWrap, IInv, DropOoseq
  PROVE  IInv' /\ ann_edge <= ann_edge' /\ rcv_nxt <= rcv_nxt'
  <1>1. /\ ooseq' = <<>> /\ UNCHANGED <<rcv_nxt, rcv_wnd, ann_wnd, got, unread, gotFin>>
        /\ UNCHANGED sender /\ net' = net /\ faults' = faults /\ NoAck /\ ackDelay' = ackDelay
    BY DEF DropOoseq, network, NoAck
  <1>2. /\ ackDelay \in BOOLEAN
        /\ net \in Seq(InFlight(written, Fins, ann_edge, rcv_nxt, Reach))
    BY ReceiverNumbers
  <1>3. Ordered(ooseq', rcv_nxt, Limit, written, Fins)
    BY <1>1, OrderedEmpty
  <1> QED BY <1>1, <1>2, <1>3, QueueStep

LEMMA RecvedOf ==
  ASSUME NEW wnd \in Nat, NEW n \in Nat, wnd + n <= TcpWnd
  PROVE  Recved(wnd, n) = wnd + n
  <1>1. WndMod \in Nat /\ WndMod > 0 /\ TcpWnd \in Nat /\ TcpWnd < WndMod
    BY ConstantFacts
  <1> DEFINE x == wnd + n
  <1>2. x \in Nat /\ x < WndMod
    BY <1>1
  <1>3. x % WndMod = x
    <2>1. -WndMod <= x /\ x \in Int
      BY <1>1, <1>2
    <2> HIDE DEF x
    <2>2. x % WndMod = IF x < 0 THEN x + WndMod ELSE x
      BY <1>1, <1>2, <2>1, ModOf
    <2> QED BY <1>2, <2>2
  <1>4. Recved(wnd, n) = Min({x % WndMod, TcpWnd})
    BY DEF Recved
  <1>5. x <= TcpWnd
    OBVIOUS
  <1> HIDE DEF x
  <1>6. Min({x, TcpWnd}) = x
    <2>1. x \in Int /\ TcpWnd \in Int
      BY <1>1, <1>2
    <2> QED BY <1>5, <2>1, MinOf
  <1> QED BY <1>3, <1>4, <1>6 DEF x

\* tcp_recved keeps the windows.
LEMMA ReadKeeps ==
  ASSUME NoWrap, IInv, NEW n \in 1 .. Total, Read(n)
  PROVE  IInv' /\ ann_edge <= ann_edge' /\ rcv_nxt <= rcv_nxt'
  <1>1. /\ n <= unread /\ unread' = unread - n /\ rcv_wnd' = Recved(rcv_wnd, n)
        /\ rcv_nxt' = rcv_nxt /\ ooseq' = ooseq /\ got' = got /\ gotFin' = gotFin
        /\ UpdateAnnWnd(rcv_wnd')
        /\ UNCHANGED sender /\ net' = net /\ faults' = faults
    BY DEF Read
  <1>2. SendAck \/ (NoAck /\ ackDelay' = ackDelay)
    BY DEF Read
  <1>3. /\ rcv_nxt \in Nat /\ Iss <= rcv_nxt /\ rcv_nxt <= Iss + Total + 1 /\ rcv_nxt <= Reach
        /\ rcv_wnd \in 0 .. TcpWnd /\ unread \in 0 .. TcpWnd
        /\ rcv_wnd + unread = TcpWnd
        /\ ackDelay \in BOOLEAN /\ gotFin \in BOOLEAN
        /\ ann_edge \in Nat /\ Iss <= ann_edge
        /\ ann_edge <= rcv_nxt + rcv_wnd
        /\ got = Stretch(Len(got)) /\ Len(got) \in 0 .. written /\ Len(got) \in Nat
        /\ unread <= Len(got) /\ rcv_nxt = EndOf(Len(got), Ends)
        /\ gotFin => finQueued /\ Len(got) = written /\ ooseq = <<>>
        /\ Ordered(ooseq, rcv_nxt, Limit, written, Fins)
        /\ net \in Seq(InFlight(written, Fins, ann_edge, rcv_nxt, Reach))
    BY ReceiverNumbers
  <1>4. TcpWnd \in Nat /\ Total \in Nat /\ n \in Nat
    BY ConstantFacts
  <1> DEFINE room == rcv_wnd + n
             left == unread - n
  <1>5. /\ room \in 0 .. TcpWnd /\ left \in 0 .. TcpWnd /\ room + left = TcpWnd /\ left <= Len(got)
        /\ ann_edge <= rcv_nxt + room
    <2>1. /\ rcv_nxt \in Nat /\ rcv_wnd \in 0 .. TcpWnd /\ unread \in 0 .. TcpWnd
          /\ rcv_wnd + unread = TcpWnd /\ ann_edge \in Nat /\ ann_edge <= rcv_nxt + rcv_wnd
          /\ unread <= Len(got) /\ Len(got) \in Nat /\ n <= unread
      BY <1>1, <1>3
    <2> QED BY ONLY <1>4, <2>1
  <1>6. rcv_wnd' = room
    <2>1. rcv_wnd \in Nat /\ n \in Nat /\ rcv_wnd + n <= TcpWnd
      BY <1>3, <1>4, <1>5
    <2> QED BY <1>1, <2>1, RecvedOf
  <1>7. ann_wnd' = AnnWnd(room, rcv_nxt, ann_edge)
    <2> HIDE DEF room
    <2>1. UpdateAnnWnd(room)
      BY <1>1, <1>6
    <2> QED BY <1>1, <2>1 DEF UpdateAnnWnd, WorthIt, AnnWnd
  <1>8. unread' = left
    BY <1>1
  <1> HIDE DEF room, left
  <1> DEFINE ann == AnnWnd(room, rcv_nxt, ann_edge)
  <1>9. ann \in 0 .. TcpWnd /\ ann <= room /\ ann_edge <= rcv_nxt + ann /\ rcv_nxt + ann < M
    <2> HIDE DEF ann
    <2>1. ann = AnnWnd(room, rcv_nxt, ann_edge)
      BY DEF ann
    <2> QED BY <1>3, <1>5, <2>1, AnnWndOf
  <1>10. ann_wnd' = ann
    BY <1>7
  <1> HIDE DEF ann
  <1>11. Ends' = Ends
    BY <1>1 DEF Ends
  <1>12. ackDelay' \in BOOLEAN
    BY <1>2, <1>3 DEF SendAck
  <1>13. /\ rcv_nxt' \in Nat /\ rcv_nxt <= rcv_nxt' /\ rcv_nxt' <= Reach
         /\ rcv_wnd' \in 0 .. TcpWnd /\ ann_wnd' \in 0 .. TcpWnd /\ unread' \in 0 .. TcpWnd
         /\ gotFin' \in BOOLEAN
         /\ got' = Stretch(Len(got')) /\ Len(got') \in 0 .. written
         /\ rcv_nxt' = EndOf(Len(got'), Ends')
         /\ gotFin' => finQueued /\ Len(got') = written /\ ooseq' = <<>>
         /\ rcv_wnd' + unread' = TcpWnd /\ unread' <= Len(got') /\ ann_wnd' <= rcv_wnd'
         /\ ann_edge <= rcv_nxt' + ann_wnd' /\ rcv_nxt' + ann_wnd' < M
         /\ Ordered(ooseq', rcv_nxt', Limit, written, Fins)
    <2>1. rcv_nxt <= rcv_nxt
      BY <1>3
    <2> QED BY <1>1, <1>3, <1>5, <1>6, <1>8, <1>9, <1>10, <1>11, <2>1, Zenon
  <1> QED BY <1>1, <1>2, <1>3, <1>12, <1>13, ReceiverStep

LEMMA StretchGrows ==
  ASSUME NEW g \in Nat, NEW n \in Nat
  PROVE  /\ Stretch(g) \o Part(Iss + g, n) = Stretch(g + n)
         /\ Len(Stretch(g + n)) = g + n
  <1>1. Iss \in Nat
    BY ConstantFacts
  <1>2. \A k \in Nat : Stretch(k) = Part(Iss, k)
    <2> SUFFICES ASSUME NEW k \in Nat PROVE Stretch(k) = Part(Iss, k)
      OBVIOUS
    <2>1. \A i \in 1 .. k : i = Iss - Iss + i
      BY <1>1
    <2> QED BY <2>1 DEF Stretch, Part
  <1> DEFINE a == Iss + g
             d == Part(a, n)
  <1>3. a \in Nat /\ Iss <= a /\ g + n \in Nat
    BY <1>1
  <1> HIDE DEF a
  <1>4. d \in Seq(Nat) /\ Len(d) = n /\ \A i \in 1 .. n : d[i] = a - Iss + i
    BY <1>3, PartOf
  <1> HIDE DEF d
  <1>5. Part(Iss, g) \o d = Part(Iss, g + Len(d))
    <2>1. \A i \in 1 .. Len(d) : d[i] = (Iss + g) - Iss + i
      BY <1>4 DEF a
    <2>2. Iss <= Iss
      BY <1>1
    <2> QED BY <1>1, <1>4, <2>1, <2>2, PartJoin
  <1>6. Len(Stretch(g + n)) = g + n
    BY <1>3 DEF Stretch
  <1>7. Stretch(g) = Part(Iss, g) /\ Stretch(g + n) = Part(Iss, g + n)
    BY <1>2, <1>3
  <1> QED BY <1>4, <1>5, <1>6, <1>7 DEF d, a

\* The receiver's numbers after an in-sequence segment: n bytes and e FINs (0 or
\* 1) arrive, of the bytes `read` are reported at once.
Reported(room, read) == IF read = 0 THEN room ELSE Recved(room, read)

RoomIs(room, left, n, e, read) ==
  /\ room \in 0 .. TcpWnd
  /\ room % WndMod = room
  /\ Reported(room, read) = room + read
  /\ room + read \in 0 .. TcpWnd
  /\ room + read + e \in 0 .. TcpWnd
  /\ left + n - read \in 0 .. TcpWnd
  /\ (room + read + e) + (left + n - read) = TcpWnd

LEMMA RoomOf ==
  ASSUME NEW wnd \in 0 .. TcpWnd, NEW left \in Nat, wnd + left = TcpWnd, NEW n \in Nat,
         NEW e \in 0 .. 1, n + e <= wnd, NEW read \in {0, n}
  PROVE  RoomIs(wnd - (n + e), left, n, e, read)
  <1>1. WndMod \in Nat /\ WndMod > 0 /\ TcpWnd \in Nat /\ TcpWnd < WndMod /\ read \in Nat
    BY ConstantFacts
  <1> DEFINE x == wnd - (n + e)
  <1>2. x \in Nat /\ x <= TcpWnd /\ x + read + e <= TcpWnd /\ read <= n
    BY <1>1
  <1>3. left + n - read \in 0 .. TcpWnd /\ (x + read + e) + (left + n - read) = TcpWnd
    BY <1>1, <1>2
  <1> HIDE DEF x
  <1>4. x % WndMod = x
    <2>1. -WndMod <= x /\ x \in Int /\ x < WndMod
      BY <1>1, <1>2
    <2>2. x % WndMod = IF x < 0 THEN x + WndMod ELSE x
      BY <1>1, <2>1, ModOf
    <2> QED BY <1>2, <2>2
  <1>5. Recved(x, read) = x + read
    <2>1. x + read <= TcpWnd
      BY <1>1, <1>2
    <2> QED BY <1>1, <1>2, <2>1, RecvedOf
  <1>6. Reported(x, read) = x + read
    BY <1>2, <1>5 DEF Reported
  <1>7. x \in 0 .. TcpWnd /\ x + read \in 0 .. TcpWnd /\ x + read + e \in 0 .. TcpWnd
    BY <1>1, <1>2
  <1>8. RoomIs(x, left, n, e, read)
    BY <1>3, <1>4, <1>6, <1>7 DEF RoomIs
  <1> QED BY <1>8 DEF x

LEMMA GiveBackOf ==
  ASSUME NEW wnd \in Nat, NEW e \in 0 .. 1, wnd + e <= TcpWnd, NEW fin, fin <=> e = 1
  PROVE  GiveBack(fin, wnd) = wnd + e
  <1>1. WndMod \in Nat /\ WndMod > 0 /\ TcpWnd \in Nat /\ TcpWnd < WndMod
    BY ConstantFacts
  <1>2. CASE e = 1
    <2>1. wnd /= TcpWnd /\ fin
      BY <1>1, <1>2
    <2>2. GiveBack(fin, wnd) = (wnd + 1) % WndMod
      BY <2>1 DEF GiveBack
    <2> DEFINE x == wnd + 1
    <2>3. x \in Int /\ -WndMod <= x /\ x < WndMod /\ ~(x < 0)
      BY <1>1, <1>2
    <2> HIDE DEF x
    <2>4. x % WndMod = x
      BY <1>1, <2>3, ModOf
    <2> QED BY <1>2, <2>2, <2>4 DEF x
  <1>3. CASE e = 0
    <2>1. ~fin
      BY <1>3
    <2> QED BY <1>3, <2>1 DEF GiveBack
  <1> QED BY <1>2, <1>3

\* tcp_receive and tcp_input for a segment in sequence: the variables, by what
\* was taken together.
LEMMA InSequenceIs ==
  ASSUME NEW c, InSequence(c), Trimmed(c) = c, NEW h, NEW r, h = Merge(c).seg, r = Merge(c).rest,
         NEW t, t = Together(h, r)
  PROVE  /\ rcv_nxt' = End(Last(t)) /\ ooseq' = Beyond(h, r) /\ got' = got \o BytesOf(t)
         /\ gotFin' = HasFin(t)
         /\ \E read \in {0, Len(BytesOf(t))} :
              \E wnd \in {Reported((rcv_wnd - Minus(End(Last(t)), rcv_nxt)) % WndMod, read)} :
                /\ unread' = unread + Len(BytesOf(t)) - read
                /\ rcv_wnd' = GiveBack(HasFin(t), wnd)
                /\ UpdateAnnWnd(wnd)
                /\ SendAck \/ (NoAck /\ ackDelay' = TRUE)
  <1> DEFINE k == Following(r, End(h))
             taken == <<h>> \o SubSeq(r, 1, k)
             fin == \E j \in DOMAIN taken : taken[j].fin
             data == BytesOf(taken)
             next == End(Last(taken))
             room == (rcv_wnd - Minus(next, rcv_nxt)) % WndMod
  <1>1. /\ rcv_nxt' = next
        /\ ooseq' = From(r, k + 1)
        /\ got' = got \o data
        /\ gotFin' = fin
        /\ \E read \in {0, Len(data)} :
             LET wnd == IF read = 0 THEN room ELSE Recved(room, read)
             IN  /\ unread' = unread + Len(data) - read
                 /\ rcv_wnd' = GiveBack(fin, wnd)
                 /\ UpdateAnnWnd(wnd)
                 /\ IF \/ fin \/ ackDelay
                       \/ read > 0 /\ Inflation(wnd) >= UpdateThreshold
                      THEN SendAck
                      ELSE NoAck /\ ackDelay' = TRUE
    BY Zenon DEF InSequence
  <1>2. taken = t
    BY DEF Together
  <1>3. fin = HasFin(t)
    BY <1>2 DEF HasFin
  <1>4. From(r, k + 1) = Beyond(h, r)
    BY DEF Beyond
  <1>5. data = BytesOf(t) /\ next = End(Last(t))
    BY <1>2
  <1>6. room = (rcv_wnd - Minus(End(Last(t)), rcv_nxt)) % WndMod
    BY <1>5
  <1> HIDE DEF k, taken, fin, data, next, room
  <1>7. PICK read \in {0, Len(data)} :
             LET wnd == IF read = 0 THEN room ELSE Recved(room, read)
             IN  /\ unread' = unread + Len(data) - read
                 /\ rcv_wnd' = GiveBack(fin, wnd)
                 /\ UpdateAnnWnd(wnd)
                 /\ IF \/ fin \/ ackDelay
                       \/ read > 0 /\ Inflation(wnd) >= UpdateThreshold
                      THEN SendAck
                      ELSE NoAck /\ ackDelay' = TRUE
    BY <1>1
  <1> DEFINE wnd == Reported(room, read)
  <1>8. /\ unread' = unread + Len(data) - read
        /\ rcv_wnd' = GiveBack(fin, wnd)
        /\ UpdateAnnWnd(wnd)
        /\ SendAck \/ (NoAck /\ ackDelay' = TRUE)
    BY <1>7, Zenon DEF Reported
  <1>9. wnd = Reported((rcv_wnd - Minus(End(Last(t)), rcv_nxt)) % WndMod, read)
    BY <1>6
  <1> HIDE DEF wnd
  <1>10. \E rd \in {0, Len(BytesOf(t))} :
              \E wd \in {Reported((rcv_wnd - Minus(End(Last(t)), rcv_nxt)) % WndMod, rd)} :
                /\ unread' = unread + Len(BytesOf(t)) - rd
                /\ rcv_wnd' = GiveBack(HasFin(t), wd)
                /\ UpdateAnnWnd(wd)
                /\ SendAck \/ (NoAck /\ ackDelay' = TRUE)
    <2>1. read \in {0, Len(BytesOf(t))}
      BY <1>5
    <2>2. wnd \in {Reported((rcv_wnd - Minus(End(Last(t)), rcv_nxt)) % WndMod, read)}
      BY <1>9
    <2>3. /\ unread' = unread + Len(BytesOf(t)) - read
          /\ rcv_wnd' = GiveBack(HasFin(t), wnd)
          /\ UpdateAnnWnd(wnd)
          /\ SendAck \/ (NoAck /\ ackDelay' = TRUE)
      BY <1>3, <1>5, <1>8
    <2> QED BY <2>1, <2>2, <2>3
  <1> QED BY <1>1, <1>3, <1>4, <1>5, <1>10

LEMMA InSequenceKeeps ==
  ASSUME NoWrap, IInv, UNCHANGED sender, faults' = faults,
         net' \in Seq(InFlight(written, Fins, ann_edge, rcv_nxt, Reach)),
         ~gotFin, NEW c, Piece(c, written, Fins), c.seq = rcv_nxt, Stop(c) <= rcv_nxt + rcv_wnd,
         Stop(c) <= Reach, InSequence(c)
  PROVE  IInv' /\ ann_edge <= ann_edge' /\ rcv_nxt <= rcv_nxt'
  <1>1. /\ rcv_nxt \in Nat /\ Iss <= rcv_nxt /\ rcv_nxt <= Iss + Total + 1 /\ rcv_nxt <= Reach
        /\ rcv_wnd \in 0 .. TcpWnd /\ unread \in 0 .. TcpWnd
        /\ rcv_wnd + unread = TcpWnd
        /\ ann_edge \in Nat /\ Iss <= ann_edge
        /\ ann_edge <= rcv_nxt + rcv_wnd /\ rcv_nxt + rcv_wnd < M
        /\ got = Stretch(Len(got)) /\ Len(got) \in 0 .. written /\ Len(got) \in Nat
        /\ unread <= Len(got) /\ rcv_nxt = EndOf(Len(got), Ends)
        /\ Ordered(ooseq, rcv_nxt, Limit, written, Fins)
    BY ReceiverNumbers
  <1>2. /\ written \in 0 .. Total /\ written \in Nat /\ Fins \in 0 .. 1 /\ Reach \in Nat /\ Limit \in Nat
        /\ Limit <= Reach /\ Limit <= ann_edge
    BY NumbersOf
  <1>3. TcpWnd \in Nat /\ Iss \in Nat /\ Total \in Nat /\ M \in Nat
    BY ConstantFacts
  <1>4. Trimmed(c) = c
    <2>1. Stop(c) = c.seq + TcpLen(c) /\ TcpLen(c) \in Nat
      BY <1>2, PieceFacts
    <2>2. ~(TcpLen(c) > rcv_wnd)
      BY <1>1, <1>3, <2>1
    <2> QED BY <2>2 DEF Trimmed
  <1> DEFINE h == Merge(c).seg
             r == Merge(c).rest
             B == IF rcv_nxt + rcv_wnd <= Reach THEN rcv_nxt + rcv_wnd ELSE Reach
             t == Together(h, r)
             u == Beyond(h, r)
  <1>5. B \in Nat /\ B <= Reach /\ B <= rcv_nxt + rcv_wnd /\ Stop(c) <= B /\ Limit <= B
    <2>1. Stop(c) \in Nat
      BY <1>2, PieceFacts
    <2>2. rcv_nxt \in Nat /\ rcv_wnd \in Nat /\ ann_edge \in Nat /\ ann_edge <= rcv_nxt + rcv_wnd
      BY <1>1, <1>3
    <2> QED BY ONLY <1>2, <2>1, <2>2, Stop(c) <= rcv_nxt + rcv_wnd, Stop(c) <= Reach
  <1>h. h = Merge(c).seg /\ r = Merge(c).rest
    OBVIOUS
  <1> HIDE DEF h, r, B
  <1>6. /\ Piece(h, written, Fins) /\ h.seq = rcv_nxt /\ Stop(h) <= B
        /\ Ordered(r, rcv_nxt, Limit, written, Fins)
        /\ h.fin => r = <<>>
        /\ \A k \in 1 .. Len(r) : Stop(h) <= r[k].seq
    <2>1. /\ written \in 0 .. Total /\ Fins \in 0 .. 1 /\ Limit \in Nat
          /\ rcv_nxt \in Nat /\ Ordered(ooseq, rcv_nxt, Limit, written, Fins)
          /\ B \in Nat /\ Limit <= B /\ Stop(c) <= B
      BY <1>1, <1>2, <1>5
    <2> QED BY ONLY <1>h, <2>1, MergeOrdered, NoWrap, Piece(c, written, Fins), c.seq = rcv_nxt
  <1>7. PICK next \in rcv_nxt .. B : TakenWell(t, u, rcv_nxt, next, Limit, written, Fins)
    BY <1>1, <1>2, <1>5, <1>6, TakenTogether
  <1> DEFINE e == IF HasFin(t) THEN 1 ELSE 0
             n == next - rcv_nxt - e
  <1>t. t = Together(h, r) /\ u = Beyond(h, r)
    OBVIOUS
  <1> HIDE DEF t, u
  <1>8. /\ next \in Nat /\ rcv_nxt < next /\ next <= B /\ End(Last(t)) = next
        /\ HasFin(t) => Fins = 1 /\ next = Iss + written + 1 /\ u = <<>>
                        /\ BytesOf(t) = Part(rcv_nxt, next - rcv_nxt - 1) /\ next - rcv_nxt - 1 \in Nat
        /\ ~HasFin(t) => next <= Iss + written /\ BytesOf(t) = Part(rcv_nxt, next - rcv_nxt)
        /\ Ordered(u, next, Limit, written, Fins)
    <2>1. next <= B
      BY <1>1, <1>5
    <2> QED BY <1>7, <2>1 DEF TakenWell
  <1>9. /\ e \in 0 .. 1 /\ n \in Nat /\ n + e = next - rcv_nxt
        /\ BytesOf(t) = Part(rcv_nxt, n) /\ Len(BytesOf(t)) = n
        /\ HasFin(t) <=> e = 1
    <2>1. e \in 0 .. 1 /\ (HasFin(t) <=> e = 1)
      OBVIOUS
    <2>2. n \in Nat /\ n + e = next - rcv_nxt /\ BytesOf(t) = Part(rcv_nxt, n)
      <3>1. CASE HasFin(t)
        <4>1. e = 1 /\ n = next - rcv_nxt - 1
          BY <3>1
        <4> HIDE DEF e, n
        <4> QED BY <1>1, <1>8, <3>1, <4>1
      <3>2. CASE ~HasFin(t)
        <4>1. e = 0
          BY <3>2
        <4> HIDE DEF e
        <4>2. n = next - rcv_nxt
          BY <1>1, <1>8, <4>1
        <4> HIDE DEF n
        <4> QED BY <1>1, <1>8, <3>2, <4>1, <4>2
      <3> QED BY <3>1, <3>2
    <2> HIDE DEF e, n
    <2>3. Len(Part(rcv_nxt, n)) = n
      BY <1>1, <2>2, PartOf
    <2> QED BY <2>1, <2>2, <2>3
  <1> HIDE DEF e, n
  <1>10. /\ rcv_nxt' = next /\ ooseq' = u /\ got' = got \o BytesOf(t)
         /\ gotFin' = HasFin(t)
         /\ \E read \in {0, Len(BytesOf(t))} :
              \E wnd \in {Reported((rcv_wnd - Minus(End(Last(t)), rcv_nxt)) % WndMod, read)} :
                /\ unread' = unread + Len(BytesOf(t)) - read
                /\ rcv_wnd' = GiveBack(HasFin(t), wnd)
                /\ UpdateAnnWnd(wnd)
                /\ SendAck \/ (NoAck /\ ackDelay' = TRUE)
    BY <1>4, <1>h, <1>t, <1>8, InSequenceIs
  <1>11. Minus(next, rcv_nxt) = next - rcv_nxt
    <2>1. next \in Span /\ rcv_nxt \in Span
      <3>1. next <= Iss + Total + 1 /\ TcpWnd >= 2
        BY <1>2, <1>3, <1>8, ConstantFacts
      <3> QED BY <1>1, <1>3, <1>8, <3>1 DEF Span
    <2>2. rcv_nxt <= next
      BY <1>1, <1>8
    <2> QED BY <2>1, <2>2, SpanCompare
  <1> DEFINE room == rcv_wnd - (n + e)
  <1>12. PICK read \in {0, n} :
              \E wnd \in {Reported(room % WndMod, read)} :
                /\ unread' = unread + n - read
                /\ rcv_wnd' = GiveBack(HasFin(t), wnd)
                /\ UpdateAnnWnd(wnd)
                /\ SendAck \/ (NoAck /\ ackDelay' = TRUE)
    <2>1. (rcv_wnd - Minus(End(Last(t)), rcv_nxt)) = room
      BY <1>8, <1>9, <1>11
    <2> HIDE DEF room
    <2> QED BY <1>9, <1>10, <2>1
  <1>13. n + e <= rcv_wnd
    <2>1. next <= rcv_nxt + rcv_wnd
      <3>1. rcv_nxt + rcv_wnd \in Nat
        BY <1>1, <1>3
      <3> QED BY <1>5, <1>8, <3>1, Between3
    <2>2. rcv_nxt \in Nat /\ rcv_wnd \in Nat /\ n + e = next - rcv_nxt /\ next \in Nat
      BY <1>1, <1>3, <1>8, <1>9
    <2> QED BY ONLY <2>1, <2>2
  <1>14. unread \in Nat
    BY <1>1, <1>3
  <1> DEFINE wd == room + read
             left == unread + n - read
  <1>15. /\ room \in 0 .. TcpWnd
         /\ room % WndMod = room
         /\ Reported(room, read) = wd
         /\ wd \in 0 .. TcpWnd /\ wd + e \in 0 .. TcpWnd
         /\ left \in 0 .. TcpWnd /\ (wd + e) + left = TcpWnd
    <2>1. RoomIs(rcv_wnd - (n + e), unread, n, e, read)
      <3>1. /\ rcv_wnd \in 0 .. TcpWnd /\ unread \in Nat /\ rcv_wnd + unread = TcpWnd
            /\ n \in Nat /\ e \in 0 .. 1 /\ n + e <= rcv_wnd
        BY <1>1, <1>9, <1>13, <1>14
      <3> QED BY ONLY <3>1, RoomOf, read \in {0, n}
    <2> QED BY <2>1 DEF RoomIs
  <1>r. room = rcv_wnd - (n + e) /\ wd = room + read /\ left = unread + n - read
    OBVIOUS
  <1> HIDE DEF room, wd, left
  <1>16. /\ unread' = left /\ rcv_wnd' = wd + e /\ UpdateAnnWnd(wd)
         /\ SendAck \/ (NoAck /\ ackDelay' = TRUE)
    <2>1. /\ unread' = left /\ rcv_wnd' = GiveBack(HasFin(t), wd) /\ UpdateAnnWnd(wd)
          /\ SendAck \/ (NoAck /\ ackDelay' = TRUE)
      BY <1>12, <1>15, <1>r
    <2>2. GiveBack(HasFin(t), wd) = wd + e
      <3> DEFINE fin == HasFin(t)
      <3>1. fin <=> e = 1
        BY <1>9
      <3> HIDE DEF fin
      <3>2. wd \in Nat /\ wd + e <= TcpWnd
        BY <1>3, <1>15
      <3>3. GiveBack(fin, wd) = wd + e
        BY <1>9, <3>1, <3>2, GiveBackOf, Zenon
      <3> QED BY <3>3 DEF fin
    <2> QED BY <2>1, <2>2
  <1>17. Iss <= next /\ next <= Iss + Total + 1 /\ ann_edge <= next + wd /\ next <= Reach
    <2>1. /\ rcv_nxt \in Nat /\ Iss <= rcv_nxt /\ rcv_wnd \in 0 .. TcpWnd
          /\ ann_edge \in Nat /\ ann_edge <= rcv_nxt + rcv_wnd
      BY <1>1
    <2>2. next \in Nat /\ rcv_nxt < next /\ next <= B
      BY <1>8
    <2>3. n + e = next - rcv_nxt /\ n \in Nat /\ e \in 0 .. 1
      BY <1>9
    <2>4. next + room = rcv_nxt + rcv_wnd /\ room \in Nat
      BY ONLY <1>3, <1>r, <1>15, <2>1, <2>2, <2>3
    <2>5. read \in Nat
      BY <1>9, <1>12
    <2>6. ann_edge <= next + wd
      BY ONLY <1>r, <2>1, <2>2, <2>4, <2>5
    <2>7. next <= Iss + Total + 1
      <3>1. next <= Iss + written + 1
        BY <1>2, <1>3, <1>8
      <3> QED BY ONLY <1>2, <1>3, <2>2, <3>1
    <2>8. next <= Reach
      BY <1>2, <1>5, <2>2, Between3
    <2>9. Iss <= next
      BY ONLY <1>3, <2>1, <2>2
    <2> QED BY <2>6, <2>7, <2>8, <2>9
  <1> DEFINE ann == AnnWnd(wd, next, ann_edge)
  <1>18. ann_wnd' = ann
    BY <1>10, <1>16 DEF UpdateAnnWnd, WorthIt, AnnWnd
  <1>19. ann \in 0 .. TcpWnd /\ ann <= wd /\ ann_edge <= next + ann /\ next + ann < M
    <2> HIDE DEF ann
    <2>1. ann = AnnWnd(wd, next, ann_edge)
      BY DEF ann
    <2> QED BY <1>1, <1>8, <1>15, <1>17, <2>1, AnnWndOf
  <1> HIDE DEF ann
  <1>20. ann \in Nat /\ ann <= wd + e
    <2>1. wd \in Nat /\ wd <= wd + e /\ wd + e \in Nat /\ ann \in Nat
      BY <1>3, <1>9, <1>15, <1>19
    <2> QED BY <1>19, <2>1, Between3
  <1> DEFINE g == Len(got) + n
  <1>21. /\ got' = Stretch(g) /\ Len(got') = g /\ g \in 0 .. written /\ next = EndOf(g, e)
         /\ left <= g
         /\ e = 1 => g = written
    <2>1. Ends = 0
      BY DEF Ends
    <2>2. rcv_nxt = Iss + Len(got)
      BY <1>1, <1>3, <2>1 DEF EndOf
    <2>3. got' = Stretch(Len(got)) \o Part(Iss + Len(got), n)
      BY <1>1, <1>9, <1>10, <2>2
    <2>4. got' = Stretch(g) /\ Len(Stretch(g)) = g
      BY <1>1, <1>9, <2>3, StretchGrows
    <2>5. next = Iss + g + e /\ g \in Nat
      <3>1. rcv_nxt = Iss + Len(got) /\ Len(got) \in Nat
        BY <1>1, <2>2
      <3> QED BY ONLY <1>3, <1>8, <1>9, <3>1
    <2>6. g <= written /\ (e = 1 => g = written)
      <3>1. CASE HasFin(t)
        <4>1. e = 1 /\ next = Iss + written + 1
          BY <1>8, <1>9, <3>1
        <4> HIDE DEF g
        <4> QED BY ONLY <1>2, <1>3, <2>5, <4>1
      <3>2. CASE ~HasFin(t)
        <4>1. e = 0 /\ next <= Iss + written
          BY <1>8, <1>9, <3>2
        <4> HIDE DEF g
        <4> QED BY ONLY <1>2, <1>3, <2>5, <4>1
      <3> QED BY <3>1, <3>2
    <2>7. left <= g
      <3>1. read \in Nat
        BY <1>9, <1>12
      <3>2. unread \in Nat /\ unread <= Len(got) /\ Len(got) \in Nat /\ n \in Nat
        BY <1>1, <1>9, <1>14
      <3> QED BY ONLY <1>r, <3>1, <3>2
    <2> HIDE DEF g
    <2>8. g \in 0 .. written
      BY <1>2, <2>5, <2>6
    <2>9. next = EndOf(g, e)
      BY <2>5 DEF EndOf
    <2>10. Len(got') = g
      BY <2>4
    <2> QED BY <2>4, <2>6, <2>7, <2>8, <2>9, <2>10
  <1> HIDE DEF g
  <1>22. gotFin' \in BOOLEAN /\ (gotFin' <=> e = 1) /\ Ends' = e
    <2>1. HasFin(t) \in BOOLEAN
      BY DEF HasFin
    <2>2. gotFin' <=> e = 1
      BY <1>9, <1>10
    <2>3. gotFin' \in BOOLEAN
      BY <1>10, <2>1
    <2>4. Ends' = IF gotFin' THEN 1 ELSE 0
      BY DEF Ends
    <2> QED BY <1>9, <2>2, <2>3, <2>4
  <1>23. gotFin' => finQueued /\ Len(got') = written /\ ooseq' = <<>>
    <2> SUFFICES ASSUME gotFin' PROVE finQueued /\ Len(got') = written /\ ooseq' = <<>>
      OBVIOUS
    <2>1. e = 1 /\ HasFin(t)
      BY <1>9, <1>22
    <2>2. Fins = 1 /\ u = <<>>
      BY <1>8, <2>1
    <2>3. finQueued
      BY <2>2 DEF Fins
    <2> QED BY <1>10, <1>21, <2>1, <2>2, <2>3
  <1>24. /\ rcv_nxt' \in Nat /\ rcv_nxt <= rcv_nxt' /\ rcv_nxt' <= Reach
         /\ rcv_wnd' \in 0 .. TcpWnd /\ ann_wnd' \in 0 .. TcpWnd /\ unread' \in 0 .. TcpWnd
    <2>1. rcv_nxt <= next
      BY <1>1, <1>8
    <2> QED BY <1>8, <1>10, <1>15, <1>16, <1>17, <1>18, <1>19, <2>1
  <1>25. got' = Stretch(Len(got')) /\ Len(got') \in 0 .. written /\ rcv_nxt' = EndOf(Len(got'), Ends')
    BY <1>10, <1>21, <1>22
  <1>26. /\ rcv_wnd' + unread' = TcpWnd /\ unread' <= Len(got') /\ ann_wnd' <= rcv_wnd'
         /\ ann_edge <= rcv_nxt' + ann_wnd' /\ rcv_nxt' + ann_wnd' < M
    BY <1>10, <1>15, <1>16, <1>18, <1>19, <1>20, <1>21
  <1>27. Ordered(ooseq', rcv_nxt', Limit, written, Fins)
    BY <1>8, <1>10
  <1>28. ackDelay' \in BOOLEAN /\ (SendAck \/ NoAck)
    BY <1>16 DEF SendAck
  <1> QED BY <1>22, <1>23, <1>24, <1>25, <1>26, <1>27, <1>28, ReceiverStep

\* tcp_receive: what is out of sequence was announced, and may be queued.
LEMMA OutOfSequenceKeeps ==
  ASSUME NoWrap, IInv, UNCHANGED sender, faults' = faults,
         net' \in Seq(InFlight(written, Fins, ann_edge, rcv_nxt, Reach)),
         ~gotFin, NEW c, Piece(c, written, Fins), rcv_nxt < c.seq, Stop(c) <= Limit,
         OutOfSequence(c)
  PROVE  IInv' /\ ann_edge <= ann_edge' /\ rcv_nxt <= rcv_nxt'
  <1>1. /\ rcv_nxt \in Nat /\ rcv_wnd \in 0 .. TcpWnd /\ ann_edge \in Nat
        /\ ann_edge <= rcv_nxt + rcv_wnd /\ rcv_nxt + rcv_wnd < M
        /\ Ordered(ooseq, rcv_nxt, Limit, written, Fins)
    BY ReceiverNumbers
  <1>2. /\ written \in 0 .. Total /\ Fins \in 0 .. 1 /\ Limit \in Nat /\ Limit <= ann_edge
    BY NumbersOf
  <1>3. InWindow(c) = c
    <2>1. End(c) = Stop(c) /\ Stop(c) \in Nat
      BY <1>2, PieceFacts
    <2>2. rcv_wnd \in Nat /\ rcv_wnd \in Int /\ 0 <= rcv_nxt + rcv_wnd
      BY <1>1, ConstantFacts
    <2>3. Plus(rcv_nxt, rcv_wnd) = rcv_nxt + rcv_wnd
      BY <1>1, <2>2, PlusOf
    <2>4. Stop(c) <= rcv_nxt + rcv_wnd
      <3>1. rcv_nxt + rcv_wnd \in Nat /\ Stop(c) <= ann_edge
        BY <1>1, <1>2, <2>1, <2>2, Between3
      <3> QED BY <1>1, <2>1, <3>1, Between3
    <2>5. ~(End(c) > Plus(rcv_nxt, rcv_wnd))
      <3>1. rcv_nxt + rcv_wnd \in Nat
        BY <1>1, <2>2
      <3> QED BY <2>1, <2>3, <2>4, <3>1
    <2> QED BY <2>5 DEF InWindow
  <1>4. Ordered(Queue(c), rcv_nxt, Limit, written, Fins)
    <2>1. Ordered(ooseq, rcv_nxt, Limit, written, Fins)
      BY <1>1
    <2> QED BY ONLY <1>2, <1>3, <2>1, QueueOrdered, NoWrap, Piece(c, written, Fins),
               rcv_nxt < c.seq, Stop(c) <= Limit
  <1>5. /\ ooseq' \in {Queue(c), ooseq}
        /\ UNCHANGED <<rcv_nxt, rcv_wnd, ann_wnd, got, unread, gotFin>> /\ SendAck
    BY DEF OutOfSequence
  <1>6. Ordered(ooseq', rcv_nxt, Limit, written, Fins)
    BY <1>1, <1>4, <1>5
  <1>7. ackDelay' \in BOOLEAN
    BY <1>5 DEF SendAck
  <1> QED BY <1>5, <1>6, <1>7, QueueStep

LEMMA OutsideKeeps ==
  ASSUME NoWrap, IInv, UNCHANGED sender, faults' = faults,
         net' \in Seq(InFlight(written, Fins, ann_edge, rcv_nxt, Reach)),
         Outside
  PROVE  IInv' /\ ann_edge <= ann_edge' /\ rcv_nxt <= rcv_nxt'
  <1>1. /\ UNCHANGED <<rcv_nxt, rcv_wnd, ann_wnd, ooseq, got, unread, gotFin>> /\ SendAck
    BY DEF Outside
  <1>2. ackDelay' \in BOOLEAN
    BY <1>1 DEF SendAck
  <1>3. /\ Ordered(ooseq, rcv_nxt, Limit, written, Fins) /\ (gotFin => ooseq = <<>>)
    BY ReceiverNumbers
  <1> QED BY <1>1, <1>2, <1>3, QueueStep

\* tcp_input: what was received already is cut off the front.
Fronted(s) ==
  IF Between(rcv_nxt, Plus(s.seq, 1), Plus(s.seq, TcpLen(s) - 1)) THEN CutFront(s, rcv_nxt) ELSE s

LEMMA FrontedOf ==
  ASSUME NoWrap, IInv, NEW s, s \in InFlight(written, Fins, ann_edge, rcv_nxt, Reach)
  PROVE  /\ Piece(Fronted(s), written, Fins) /\ Stop(Fronted(s)) = Stop(s)
         /\ Stop(s) <= Reach /\ s.seq \in Nat /\ s.seq \in Span
         /\ Stop(s) <= ann_edge \/ (TcpLen(s) = 1 /\ s.seq <= rcv_nxt)
         /\ Fronted(s) = s \/ (Fronted(s).seq = rcv_nxt /\ s.seq < rcv_nxt)
         /\ TcpLen(s) = 1 => Fronted(s) = s
  <1>1. /\ Piece(s, written, Fins) /\ Stop(s) <= Reach
        /\ Stop(s) <= ann_edge \/ (TcpLen(s) = 1 /\ s.seq <= rcv_nxt)
    BY DEF InFlight
  <1>2. written \in 0 .. Total /\ Fins \in 0 .. 1
    BY NumbersOf
  <1>3. rcv_nxt \in Nat /\ Iss <= rcv_nxt /\ rcv_nxt <= Iss + Total + 1
    BY ReceiverNumbers
  <1>4. /\ s.seq \in Nat /\ Stop(s) = s.seq + TcpLen(s) /\ TcpLen(s) \in Nat /\ TcpLen(s) >= 1
        /\ s.seq \in Span /\ Iss <= s.seq /\ Stop(s) <= Iss + Total + 1
    BY <1>1, <1>2, PieceFacts
  <1>5. /\ M \in Nat /\ TcpWnd \in Nat /\ Iss \in Nat /\ Total \in Nat
        /\ Iss + Total + 2 * TcpWnd + 1 < M /\ TcpWnd >= 2
    BY ConstantFacts DEF NoWrap
  <1> DEFINE l == TcpLen(s)
             a == s.seq + 1
             b == s.seq + (l - 1)
  <1>6. a \in Span /\ b \in Span /\ a \in Nat /\ b \in Nat /\ rcv_nxt \in Span
    BY ONLY <1>3, <1>4, <1>5 DEF Span
  <1>7. Plus(s.seq, 1) = a /\ Plus(s.seq, l - 1) = b
    <2>1. /\ 0 <= a /\ a < M /\ 0 <= b /\ b < M /\ l - 1 \in Int /\ 1 \in Int
      BY ONLY <1>4, <1>5
    <2>2. Plus(s.seq, 1) = s.seq + 1
      BY <1>4, <2>1, PlusOf
    <2> DEFINE m == l - 1
    <2>3. m \in Int /\ 0 <= s.seq + m /\ s.seq + m < M
      BY <2>1
    <2> HIDE DEF m
    <2>4. Plus(s.seq, m) = s.seq + m
      BY <1>4, <2>3, PlusOf
    <2> QED BY <2>2, <2>4 DEF m
  <1>ab. a = s.seq + 1 /\ b = s.seq + (l - 1)
    OBVIOUS
  <1>l. l = TcpLen(s)
    OBVIOUS
  <1> HIDE DEF a, b, l
  <1>8. Between(rcv_nxt, a, b) <=> a <= rcv_nxt /\ rcv_nxt <= b
    <2>1. (GEQ(rcv_nxt, a) <=> rcv_nxt >= a) /\ (LEQ(rcv_nxt, b) <=> rcv_nxt <= b)
      BY <1>6, SpanCompare
    <2> QED BY <1>3, <1>6, <2>1 DEF Between
  <1>9. Fronted(s) = IF a <= rcv_nxt /\ rcv_nxt <= b THEN CutFront(s, rcv_nxt) ELSE s
    BY <1>7, <1>8, <1>l DEF Fronted
  <1>10. CASE a <= rcv_nxt /\ rcv_nxt <= b
    <2>1. s.seq < rcv_nxt /\ s.seq <= rcv_nxt /\ rcv_nxt < Stop(s) /\ l /= 1
      BY ONLY <1>3, <1>4, <1>ab, <1>l, <1>10
    <2>2. /\ Piece(CutFront(s, rcv_nxt), written, Fins)
          /\ CutFront(s, rcv_nxt).seq = rcv_nxt
          /\ Stop(CutFront(s, rcv_nxt)) = Stop(s)
      BY <1>1, <1>2, <1>3, <2>1, CutFrontPiece
    <2>3. Fronted(s) = CutFront(s, rcv_nxt)
      BY <1>9, <1>10
    <2> QED BY <1>1, <1>4, <1>l, <2>1, <2>2, <2>3
  <1>11. CASE ~(a <= rcv_nxt /\ rcv_nxt <= b)
    <2>1. Fronted(s) = s
      BY <1>9, <1>11
    <2> QED BY <1>1, <1>4, <2>1
  <1> QED BY <1>10, <1>11

\* The window that a segment in sequence is inside of is not closed.
LEMMA InsideOpen ==
  ASSUME NoWrap, IInv, NEW q \in Span, NEW edge, edge = Plus(rcv_nxt, rcv_wnd - 1),
         Between(q, rcv_nxt, edge)
  PROVE  rcv_nxt <= q /\ (q = rcv_nxt => rcv_wnd >= 1)
  <1>1. /\ rcv_nxt \in Nat /\ Iss <= rcv_nxt /\ rcv_nxt <= Iss + Total + 1
        /\ rcv_wnd \in 0 .. TcpWnd /\ unread \in 0 .. TcpWnd /\ rcv_wnd + unread = TcpWnd
        /\ unread <= Len(got) /\ rcv_nxt = EndOf(Len(got), Ends) /\ Len(got) \in Nat
    BY ReceiverNumbers
  <1>2. /\ M \in Nat /\ TcpWnd \in Nat /\ Iss \in Nat /\ Total \in Nat
        /\ Iss + Total + 2 * TcpWnd + 1 < M /\ TcpWnd >= 2
    BY ConstantFacts DEF NoWrap
  <1>3. q \in Nat /\ rcv_nxt \in Span
    BY <1>1, <1>2 DEF Span
  <1>4. GEQ(q, rcv_nxt) /\ LEQ(q, edge)
    BY DEF Between
  <1>5. rcv_nxt <= q
    <2>1. GEQ(q, rcv_nxt) <=> q >= rcv_nxt
      BY <1>3, SpanCompare
    <2> QED BY <1>1, <1>3, <1>4, <2>1
  <1>6. ASSUME q = rcv_nxt, rcv_wnd = 0 PROVE FALSE
    <2>1. Ends \in 0 .. 1
      BY DEF Ends
    <2>2. rcv_nxt >= Iss + 2
      <3>1. rcv_nxt = Iss + Len(got) + Ends
        BY <1>1 DEF EndOf
      <3>2. unread = TcpWnd /\ unread <= Len(got) /\ Len(got) \in Nat
        BY <1>1, <1>2, <1>6
      <3> QED BY ONLY <1>2, <2>1, <3>1, <3>2
    <2> DEFINE p == rcv_nxt - 1
    <2>3. p \in Nat /\ p \in Span /\ p < M /\ p < rcv_nxt
      BY ONLY <1>1, <1>2, <2>2 DEF Span
    <2>4. Plus(rcv_nxt, -1) = rcv_nxt + (-1)
      <3>1. -1 \in Int /\ 0 <= rcv_nxt + (-1) /\ rcv_nxt + (-1) < M
        BY ONLY <1>1, <1>2, <2>2
      <3> QED BY <1>1, <3>1, PlusOf
    <2>5. edge = p
      <3>1. rcv_wnd - 1 = -1 /\ rcv_nxt + (-1) = rcv_nxt - 1
        BY <1>1, <1>6
      <3> QED BY <2>4, <3>1
    <2> HIDE DEF p
    <2>6. LEQ(q, p) <=> q <= p
      BY <2>3, SpanCompare
    <2>7. q <= p
      BY <1>4, <2>5, <2>6
    <2> QED BY <1>1, <1>3, <1>6, <2>3, <2>7
  <1>7. q = rcv_nxt => rcv_wnd >= 1
    <2>1. rcv_wnd \in Nat
      BY <1>1, <1>2
    <2> QED BY <1>6, <2>1
  <1> QED BY <1>5, <1>7

LEMMA SegmentArrivesKeeps ==
  ASSUME NoWrap, IInv, SegmentArrives
  PROVE  IInv' /\ ann_edge <= ann_edge' /\ rcv_nxt <= rcv_nxt'
  <1> DEFINE S == InFlight(written, Fins, ann_edge, rcv_nxt, Reach)
             s == Head(net)
             c == Fronted(s)
             q == IF gotFin THEN s.seq ELSE c.seq
             edge == Plus(rcv_nxt, rcv_wnd - 1)
             inside == Between(q, rcv_nxt, edge)
  <1>1. /\ net /= <<>> /\ net' = Tail(net) /\ UNCHANGED sender /\ faults' = faults
        /\ IF ~inside THEN Outside
           ELSE IF gotFin THEN UNCHANGED <<receiver, acks>>
           ELSE IF q = rcv_nxt THEN InSequence(c)
           ELSE OutOfSequence(c)
    BY Zenon DEF SegmentArrives, Fronted
  <1>2. net \in Seq(S)
    BY ReceiverNumbers
  <1> HIDE DEF S
  <1>3. s \in S /\ net' \in Seq(S)
    BY <1>1, <1>2, TailOver
  <1> HIDE DEF s
  <1>4. /\ Piece(c, written, Fins) /\ Stop(c) = Stop(s)
        /\ Stop(s) <= Reach /\ s.seq \in Nat /\ s.seq \in Span
        /\ Stop(s) <= ann_edge \/ (TcpLen(s) = 1 /\ s.seq <= rcv_nxt)
        /\ c = s \/ (c.seq = rcv_nxt /\ s.seq < rcv_nxt)
        /\ TcpLen(s) = 1 => c = s
    BY <1>3, FrontedOf DEF S
  <1>5. /\ rcv_nxt \in Nat /\ rcv_wnd \in 0 .. TcpWnd /\ ann_edge \in Nat
        /\ ann_edge <= rcv_nxt + rcv_wnd /\ ackDelay \in BOOLEAN
        /\ gotFin \in BOOLEAN
        /\ Ordered(ooseq, rcv_nxt, Limit, written, Fins) /\ (gotFin => ooseq = <<>>)
    BY ReceiverNumbers
  <1>6. written \in 0 .. Total /\ Fins \in 0 .. 1 /\ TcpWnd \in Nat
    BY NumbersOf, ConstantFacts
  <1>7. /\ c.seq \in Nat /\ c.seq \in Span /\ Stop(c) \in Nat /\ Stop(c) = c.seq + TcpLen(c)
    BY <1>4, <1>6, PieceFacts
  <1> HIDE DEF c
  <1>e. edge = Plus(rcv_nxt, rcv_wnd - 1)
    OBVIOUS
  <1> HIDE DEF edge
  <1>8. CASE ~inside
    <2>1. Outside
      BY <1>1, <1>8, Zenon
    <2> QED BY <1>1, <1>3, <2>1, OutsideKeeps DEF S
  <1>9. CASE inside /\ gotFin
    <2>1. UNCHANGED <<receiver, acks>>
      BY <1>1, <1>9, Zenon
    <2>2. /\ UNCHANGED <<rcv_nxt, rcv_wnd, ann_wnd, got, unread, gotFin>> /\ ooseq' = ooseq
          /\ ackDelay' = ackDelay /\ NoAck
      BY <2>1 DEF receiver, NoAck
    <2> QED BY <1>1, <1>3, <1>5, <2>2, QueueStep DEF S
  <1>10. CASE inside /\ ~gotFin
    <2>1. q = c.seq
      BY <1>10
    <2>2. q \in Span /\ Between(q, rcv_nxt, edge)
      BY <1>7, <1>10, <2>1
    <2> HIDE DEF q
    <2>3. rcv_nxt <= q /\ (q = rcv_nxt => rcv_wnd >= 1)
      BY <1>e, <2>2, InsideOpen
    <2>4. CASE q = rcv_nxt
      <3>1. InSequence(c)
        BY <1>1, <1>10, <2>4, Zenon
      <3>2. Stop(c) <= rcv_nxt + rcv_wnd
        <4>1. CASE Stop(s) <= ann_edge
          <5>1. rcv_nxt + rcv_wnd \in Nat
            BY <1>5, <1>6
          <5>2. Stop(c) <= ann_edge
            BY <1>4, <4>1
          <5> QED BY <1>5, <1>7, <5>1, <5>2, Between3
        <4>2. CASE TcpLen(s) = 1
          <5>1. c = s /\ rcv_wnd >= 1
            BY <1>4, <2>3, <2>4, <4>2
          <5>2. Stop(c) = rcv_nxt + 1
            BY <1>7, <2>1, <2>4, <4>2, <5>1
          <5> QED BY <1>5, <1>6, <5>1, <5>2
        <4> QED BY <1>4, <4>1, <4>2
      <3>3. c.seq = rcv_nxt /\ Stop(c) <= Reach /\ ~gotFin
        BY <1>4, <1>10, <2>1, <2>4
      <3> QED BY <1>1, <1>3, <1>4, <3>1, <3>2, <3>3, InSequenceKeeps DEF S
    <2>5. CASE q /= rcv_nxt
      <3>1. OutOfSequence(c)
        BY <1>1, <1>10, <2>5, Zenon
      <3>2. rcv_nxt < c.seq
        BY <1>5, <1>7, <2>1, <2>3, <2>5
      <3>3. c = s
        BY <1>4, <2>1, <2>5
      <3>4. Stop(c) <= ann_edge
        <4>1. ~(s.seq <= rcv_nxt)
          BY <1>4, <1>5, <3>2, <3>3
        <4> QED BY <1>4, <4>1
      <3>5. Stop(c) <= Limit
        BY <1>4, <3>4 DEF Limit
      <3>6. ~gotFin
        BY <1>10
      <3> QED BY <1>1, <1>3, <1>4, <3>1, <3>2, <3>5, <3>6, OutOfSequenceKeeps DEF S
    <2> QED BY <2>4, <2>5
  <1> QED BY <1>8, <1>9, <1>10

-----------------------------------------------------------------------------
(* The properties.                                                           *)

LEMMA InitKeeps ==
  ASSUME NoWrap, Init
  PROVE  IInv /\ Iss + TcpWnd <= ann_edge
  <1>1. /\ M \in Nat /\ TcpWnd \in Nat /\ Iss \in Nat /\ Total \in Nat /\ MaxFaults \in Nat
        /\ Iss + Total + 2 * TcpWnd + 1 < M /\ TcpWnd >= 2
    BY ConstantFacts DEF NoWrap
  <1>2. /\ written = 0 /\ finQueued = FALSE
        /\ unsent = <<>> /\ unacked = <<>>
        /\ snd_nxt = Iss /\ lastack = Iss
        /\ snd_wnd = TcpWnd /\ snd_wl2 = Iss
        /\ inFR = FALSE /\ rtime = FALSE /\ persist = FALSE
        /\ rcv_nxt = Iss /\ rcv_wnd = TcpWnd
        /\ ann_wnd = TcpWnd /\ ann_edge = Plus(Iss, TcpWnd)
        /\ ooseq = <<>> /\ ackDelay = FALSE
        /\ got = <<>> /\ unread = 0 /\ gotFin = FALSE
        /\ net = <<>> /\ acks = <<>> /\ faults = 0
    BY DEF Init
  <1>3. ann_edge = Iss + TcpWnd
    <2>1. TcpWnd \in Int /\ 0 <= Iss + TcpWnd /\ Iss + TcpWnd < M
      BY <1>1
    <2> QED BY <1>1, <1>2, <2>1, PlusOf
  <1>4. Fins = 0 /\ Ends = 0 /\ Reach = Iss + 1
    BY <1>1, <1>2 DEF Fins, Ends, Reach, ReachOf
  <1>5. EndOf(0, 0) = Iss
    BY <1>1 DEF EndOf
  <1>6. Len(<<>>) = 0 /\ \A S : <<>> \in Seq(S)
    OBVIOUS
  <1>7. Sending(<<>>, <<>>, 0, 0, Iss, TcpWnd, Iss)
    <2>1. \E a, m \in Iss .. EndOf(0, 0) :
            a <= Iss /\ Chain(<<>>, a, m, 0, 0) /\ Chain(<<>>, m, EndOf(0, 0), 0, 0)
      <3>1. Chain(<<>>, Iss, Iss, 0, 0) /\ Iss \in Iss .. EndOf(0, 0) /\ Iss <= Iss
        BY <1>1, <1>5, ChainEmpty
      <3> QED BY <1>5, <3>1
    <2>2. \A k \in 1 .. Len(<<>>) : FALSE
      BY <1>6
    <2>3. 0 \in 0 .. Total /\ 0 \in 0 .. 1 /\ TcpWnd \in 0 .. TcpWnd /\ Iss <= Iss /\ Iss <= Iss + TcpWnd
      BY <1>1
    <2> QED BY <1>1, <1>5, <2>1, <2>2, <2>3 DEF Sending
  <1>8. SenderOK
    BY <1>1, <1>2, <1>4, <1>7 DEF SenderOK
  <1>9. Ordered(ooseq, rcv_nxt, Limit, written, Fins)
    BY <1>2, OrderedEmpty
  <1>10. got = Stretch(Len(got)) /\ Len(got) \in 0 .. written /\ Len(got) = 0
    <2>1. Stretch(0) = <<>>
      BY DEF Stretch
    <2> QED BY <1>2, <1>6, <2>1
  <1>11. ReceiverOK
    <2>1. rcv_nxt = EndOf(Len(got), Ends)
      BY <1>2, <1>4, <1>5, <1>10
    <2>2. rcv_wnd + unread = TcpWnd /\ ann_edge <= rcv_nxt + ann_wnd /\ unread <= Len(got)
          /\ ann_wnd <= rcv_wnd /\ ann_edge \in Nat
      BY <1>1, <1>2, <1>3, <1>10
    <2>3. TcpWnd \in 0 .. TcpWnd /\ 0 \in 0 .. TcpWnd
      BY <1>1
    <2> QED BY <1>1, <1>2, <1>9, <1>10, <2>1, <2>2, <2>3 DEF ReceiverOK
  <1>12. NetworkOK
    <2>1. /\ net \in Seq(InFlight(written, Fins, ann_edge, rcv_nxt, Reach))
          /\ acks \in Seq(Answers(snd_wl2, snd_wnd, ann_edge, rcv_nxt))
      BY <1>2, <1>6
    <2>2. Rising(Items(acks))
      BY <1>2, <1>6 DEF Rising, Items
    <2>3. /\ faults \in 0 .. MaxFaults /\ rcv_nxt <= Reach /\ lastack <= snd_wl2
          /\ snd_wl2 <= rcv_nxt /\ snd_wl2 + snd_wnd <= ann_edge
      BY <1>1, <1>2, <1>3, <1>4
    <2> QED BY <2>1, <2>2, <2>3 DEF NetworkOK
  <1>13. Iss + TcpWnd <= ann_edge
    BY <1>1, <1>3
  <1> QED BY <1>8, <1>11, <1>12, <1>13 DEF IInv

LEMMA NextKeeps ==
  ASSUME NoWrap, IInv, Next
  PROVE  IInv' /\ ann_edge <= ann_edge' /\ rcv_nxt <= rcv_nxt'
  <1>1. ASSUME UNCHANGED receiver, IInv'
        PROVE  IInv' /\ ann_edge <= ann_edge' /\ rcv_nxt <= rcv_nxt'
    <2>1. ann_edge' = ann_edge /\ rcv_nxt' = rcv_nxt
      BY <1>1 DEF receiver
    <2>2. ann_edge \in Nat /\ rcv_nxt \in Nat
      BY NumbersOf
    <2> QED BY <1>1, <2>1, <2>2
  <1>2. ASSUME NEW n \in 1 .. Total, Write(n) PROVE IInv' /\ UNCHANGED receiver
    BY <1>2, WriteKeeps DEF Write
  <1>3. ASSUME Close PROVE IInv' /\ UNCHANGED receiver
    BY <1>3, CloseKeeps DEF Close
  <1>4. ASSUME Poll PROVE IInv' /\ UNCHANGED receiver
    BY <1>4, PollKeeps DEF Poll
  <1>5. ASSUME RetransmitTimeout PROVE IInv' /\ UNCHANGED receiver
    BY <1>5, RetransmitTimeoutKeeps DEF RetransmitTimeout
  <1>6. ASSUME ZeroWindowProbe PROVE IInv' /\ UNCHANGED receiver
    BY <1>6, ZeroWindowProbeKeeps DEF ZeroWindowProbe
  <1>7. ASSUME AckArrives PROVE IInv' /\ UNCHANGED receiver
    BY <1>7, AckArrivesKeeps DEF AckArrives
  <1>8. ASSUME NetworkFault PROVE IInv' /\ UNCHANGED receiver
    BY <1>8, NetworkFaultKeeps DEF NetworkFault
  <1>9. CASE SegmentArrives
    BY <1>9, SegmentArrivesKeeps
  <1>10. ASSUME NEW n \in 1 .. Total, Read(n)
         PROVE  IInv' /\ ann_edge <= ann_edge' /\ rcv_nxt <= rcv_nxt'
    BY <1>10, ReadKeeps
  <1>11. CASE FastTimer
    BY <1>11, FastTimerKeeps
  <1>12. CASE DropOoseq
    BY <1>12, DropOoseqKeeps
  <1> QED BY <1>1, <1>2, <1>3, <1>4, <1>5, <1>6, <1>7, <1>8, <1>9, <1>10, <1>11, <1>12 DEF Next

LEMMA StutterKeeps ==
  ASSUME NoWrap, IInv, UNCHANGED vars
  PROVE  IInv' /\ ann_edge <= ann_edge' /\ rcv_nxt <= rcv_nxt'
  <1>1. UNCHANGED <<rcv_nxt, rcv_wnd, ann_wnd, got, unread, gotFin>> /\ ooseq' = ooseq
        /\ ackDelay' = ackDelay /\ NoAck /\ UNCHANGED sender /\ faults' = faults /\ net' = net
    BY DEF vars, receiver, network, NoAck
  <1>2. /\ Ordered(ooseq, rcv_nxt, Limit, written, Fins) /\ (gotFin => ooseq = <<>>)
        /\ ackDelay \in BOOLEAN
        /\ net \in Seq(InFlight(written, Fins, ann_edge, rcv_nxt, Reach))
    BY ReceiverNumbers
  <1> QED BY <1>1, <1>2, QueueStep

\* With a stream short enough that the sequence numbers do not wrap and a
\* writer that closes when there is room, the queues of the sender are one chain
\* of what was written, the queue of the receiver lies in order within what was
\* announced and sent, and what is in flight fits both (tcp_write, tcp_output,
\* tcp_receive, tcp_rexmit, tcp_rexmit_rto, tcp_recved).
THEOREM StreamInvariant == NoWrap => (Spec => [](IInv /\ Iss + TcpWnd <= ann_edge))
  <1> SUFFICES ASSUME NoWrap PROVE Spec => [](IInv /\ Iss + TcpWnd <= ann_edge)
    OBVIOUS
  <1> DEFINE J == IInv /\ Iss + TcpWnd <= ann_edge
  <1>1. Init => J
    BY InitKeeps
  <1>2. J /\ [Next]_vars => J'
    <2> SUFFICES ASSUME IInv, Iss + TcpWnd <= ann_edge, [Next]_vars
                 PROVE  IInv' /\ Iss + TcpWnd <= ann_edge'
      OBVIOUS
    <2>1. IInv' /\ ann_edge <= ann_edge'
      BY NextKeeps, StutterKeeps
    <2>2. ann_edge \in Nat /\ Iss + TcpWnd \in Nat
      BY NumbersOf, ConstantFacts
    <2>3. ann_edge' \in Nat
      BY <2>1 DEF IInv, ReceiverOK
    <2> QED BY <2>1, <2>2, <2>3, Between3
  <1> HIDE DEF J
  <1>3. Spec => []J
    BY <1>1, <1>2, PTL DEF Spec
  <1> QED BY <1>3 DEF J

LEMMA SpanMinus ==
  ASSUME NoWrap, NEW a \in Span, NEW b \in Span, b <= a
  PROVE  Minus(a, b) = a - b
  BY SpanCompare

LEMMA PieceType ==
  ASSUME NoWrap, NEW w \in 0 .. Total, NEW e \in 0 .. 1, NEW s, Piece(s, w, e)
  PROVE  SegType(s) /\ Genuine(s) = (s.fin => s.seq - Iss + Len(s.data) = written)
  <1>1. /\ s \in Segment /\ s.seq \in Nat /\ Len(s.data) \in Nat /\ s.fin \in BOOLEAN
        /\ DataStop(s) = s.seq + Len(s.data) /\ DataStop(s) <= Iss + w /\ s.seq \in Span
        /\ Iss <= s.seq
    BY PieceFacts
  <1>2. /\ M \in Nat /\ TcpWnd \in Nat /\ Iss \in Nat /\ Total \in Nat /\ w \in Nat /\ w <= Total
        /\ Iss + Total + 2 * TcpWnd + 1 < M
    BY ConstantFacts DEF NoWrap
  <1>3. s.data \in Seq(Nat) /\ DOMAIN s.data = 1 .. Len(s.data)
    BY <1>1, SegmentData
  <1>4. \A i \in 1 .. Len(s.data) : s.data[i] = s.seq - Iss + i
    BY DEF Piece
  <1>5. s.data \in Seq(0 .. Total)
    <2>1. \A i \in 1 .. Len(s.data) : s.data[i] \in 0 .. Total
      <3> SUFFICES ASSUME NEW i \in 1 .. Len(s.data) PROVE s.data[i] \in 0 .. Total
        OBVIOUS
      <3>1. s.seq - Iss + i \in 0 .. Total
        BY ONLY <1>1, <1>2, i \in 1 .. Len(s.data)
      <3> QED BY <1>4, <3>1
    <2> QED BY <1>3, <2>1, SeqOver
  <1>6. s.seq \in SeqNo
    BY ONLY <1>1, <1>2 DEF SeqNo
  <1>7. SegType(s)
    BY <1>1, <1>5, <1>6 DEF SegType
  <1>8. Minus(s.seq, Iss) = s.seq - Iss
    <2>1. Iss \in Span
      BY <1>2 DEF Span
    <2> QED BY <1>1, <2>1, SpanCompare
  <1>9. \A i \in DOMAIN s.data : s.data[i] = Minus(s.seq, Iss) + i
    BY <1>3, <1>4, <1>8
  <1>10. Genuine(s) = (s.fin => s.seq - Iss + Len(s.data) = written)
    BY <1>8, <1>9 DEF Genuine
  <1> QED BY <1>7, <1>10

LEMMA PieceGenuine ==
  ASSUME NoWrap, written \in 0 .. Total, NEW e \in 0 .. 1, NEW s, Piece(s, written, e)
  PROVE  Genuine(s)
  <1>1. Genuine(s) = (s.fin => s.seq - Iss + Len(s.data) = written)
    BY PieceType
  <1>2. ASSUME s.fin PROVE s.seq - Iss + Len(s.data) = written
    <2>1. DataStop(s) = Iss + written
      BY <1>2 DEF Piece
    <2>2. DataStop(s) = s.seq + Len(s.data) /\ s.seq \in Nat /\ Len(s.data) \in Nat
      BY PieceFacts
    <2>3. Iss \in Nat /\ written \in Nat
      BY ConstantFacts
    <2> QED BY ONLY <2>1, <2>2, <2>3
  <1> QED BY <1>1, <1>2

LEMMA PlacesOf ==
  ASSUME NoWrap, NEW w \in 0 .. Total, NEW e \in 0 .. 1, NEW s, Piece(s, w, e)
  PROVE  \A p \in Int : p \in Places(s) <=> (s.seq <= p + Iss /\ p + Iss < Stop(s))
  <1>1. /\ s.seq \in Nat /\ TcpLen(s) \in Nat /\ Stop(s) = s.seq + TcpLen(s) /\ s.seq \in Span
        /\ Iss <= s.seq /\ Stop(s) <= Iss + Total + 1
    BY PieceFacts
  <1>2. /\ M \in Nat /\ TcpWnd \in Nat /\ Iss \in Nat /\ Total \in Nat /\ TcpWnd >= 2
        /\ Iss + Total + 2 * TcpWnd + 1 < M
    BY ConstantFacts DEF NoWrap
  <1>3. ASSUME NEW i \in 0 .. TcpLen(s) - 1
        PROVE  Minus(Plus(s.seq, i), Iss) = (s.seq + i) - Iss
    <2> DEFINE x == s.seq + i
    <2>1. i \in Int /\ 0 <= s.seq + i /\ s.seq + i < M /\ x \in Span /\ Iss \in Span /\ Iss <= x
      BY ONLY <1>1, <1>2, i \in 0 .. TcpLen(s) - 1 DEF Span
    <2>2. Plus(s.seq, i) = x
      BY <1>1, <2>1, PlusOf
    <2> HIDE DEF x
    <2>3. Minus(x, Iss) = x - Iss
      <3>1. x \in Span /\ Iss \in Span /\ Iss <= x
        BY <2>1
      <3> QED BY ONLY NoWrap, <3>1, SpanMinus
    <2>4. x = s.seq + i
      BY DEF x
    <2> QED BY ONLY <2>2, <2>3, <2>4
  <1> SUFFICES ASSUME NEW p \in Int
               PROVE  p \in Places(s) <=> (s.seq <= p + Iss /\ p + Iss < Stop(s))
    OBVIOUS
  <1>4. ASSUME p \in Places(s) PROVE s.seq <= p + Iss /\ p + Iss < Stop(s)
    <2>1. PICK i \in 0 .. TcpLen(s) - 1 : p = Minus(Plus(s.seq, i), Iss)
      BY <1>4 DEF Places
    <2>2. p = (s.seq + i) - Iss
      BY <1>3, <2>1
    <2> QED BY ONLY <1>1, <1>2, <2>2, i \in 0 .. TcpLen(s) - 1
  <1>5. ASSUME s.seq <= p + Iss, p + Iss < Stop(s) PROVE p \in Places(s)
    <2> DEFINE i == p + Iss - s.seq
    <2>1. i \in 0 .. TcpLen(s) - 1 /\ p = (s.seq + i) - Iss
      BY ONLY <1>1, <1>2, <1>5, p \in Int
    <2> HIDE DEF i
    <2>2. p = Minus(Plus(s.seq, i), Iss)
      BY <1>3, <2>1
    <2> QED BY <2>1, <2>2 DEF Places
  <1> QED BY <1>4, <1>5

\* Every sequence number of a chain is in one of its segments.
LEMMA ChainCovers ==
  ASSUME NoWrap, NEW w \in 0 .. Total, NEW e \in 0 .. 1, NEW q, NEW a \in Nat, NEW b,
         Chain(q, a, b, w, e), NEW x \in Nat, a <= x, x < b
  PROVE  \E k \in 1 .. Len(q) : q[k].seq <= x /\ x < Stop(q[k])
  <1> DEFINE n == Len(q)
             S == {k \in 1 .. n : q[k].seq <= x}
  <1>1. /\ q \in Seq(Segment) /\ n \in Nat /\ b \in Nat
        /\ \A k \in 1 .. n : Piece(q[k], w, e)
        /\ q = <<>> => a = b
        /\ q /= <<>> => q[1].seq = a /\ Stop(q[n]) = b
    BY ChainFacts
  <1>2. \A k \in 1 .. n : k > 1 => q[k].seq = Stop(q[k - 1])
    BY DEF Chain
  <1>3. q /= <<>> /\ n >= 1 /\ 1 \in 1 .. n
    BY <1>1
  <1>4. 1 \in S /\ S \in SUBSET (0 .. n)
    BY <1>1, <1>3
  <1>5. PICK k \in S : \A j \in S : j <= k
    <2> HIDE DEF S
    <2> QED BY <1>1, <1>4, GreatestExists
  <1>6. k \in 1 .. n /\ q[k].seq <= x
    BY <1>5
  <1>7. x < Stop(q[k])
    <2>1. CASE k = n
      BY <1>1, <1>3, <2>1
    <2>2. CASE k < n
      <3>1. k + 1 \in 1 .. n /\ k + 1 > 1 /\ (k + 1) - 1 = k /\ ~(k + 1 <= k)
        BY <1>1, <1>6, <2>2
      <3>2. k + 1 \notin S
        BY <1>5, <3>1
      <3>3. ~(q[k + 1].seq <= x)
        BY <3>1, <3>2
      <3>4. q[k + 1].seq = Stop(q[(k + 1) - 1])
        BY <1>2, <3>1
      <3>5. q[k + 1].seq = Stop(q[k])
        BY <3>1, <3>4
      <3>6. Stop(q[k]) \in Nat
        BY <1>1, <1>6, PieceFacts
      <3> QED BY <3>3, <3>5, <3>6
    <2> QED BY <1>1, <1>6, <2>1, <2>2
  <1> QED BY <1>6, <1>7

LEMMA QueuedOnce ==
  ASSUME NoWrap, IInv
  PROVE  EveryByteQueuedOnce
  <1> DEFINE q == unacked \o unsent
             end == written - (IF finQueued THEN 0 ELSE 1)
  <1>1. Sending(unsent, unacked, written, Fins, lastack, snd_wnd, snd_nxt)
    BY DEF IInv, SenderOK
  <1>2. /\ written \in 0 .. Total /\ Fins \in 0 .. 1 /\ lastack \in Nat /\ Iss <= lastack
        /\ lastack \in Span
    BY <1>1, SendingFacts
  <1>3. PICK a \in Iss .. EndOf(written, Fins), m \in Iss .. EndOf(written, Fins) :
          a <= lastack /\ Chain(unacked, a, m, written, Fins)
          /\ Chain(unsent, m, EndOf(written, Fins), written, Fins)
    BY <1>1 DEF Sending
  <1>4. Iss \in Nat /\ a \in Nat /\ m \in Nat /\ written \in Nat
    BY <1>2, <1>3, ConstantFacts
  <1> DEFINE b == EndOf(written, Fins)
  <1> HIDE DEF q, b
  <1>5. Chain(q, a, b, written, Fins)
    BY <1>2, <1>3, <1>4, ChainJoin DEF q, b
  <1>6. /\ q \in Seq(Segment) /\ Len(q) \in Nat /\ b \in Nat
        /\ \A k \in 1 .. Len(q) : Piece(q[k], written, Fins)
        /\ \A j, k \in 1 .. Len(q) : j < k => Stop(q[j]) <= q[k].seq
    BY <1>2, <1>4, <1>5, ChainFacts
  <1>7. DOMAIN q = 1 .. Len(q)
    BY <1>6
  <1>8. \A k \in DOMAIN q : Genuine(q[k])
    BY <1>2, <1>6, <1>7, PieceGenuine
  <1>9. \A k \in 1 .. Len(q) : \A p \in Int :
          p \in Places(q[k]) <=> (q[k].seq <= p + Iss /\ p + Iss < Stop(q[k]))
    BY <1>2, <1>6, PlacesOf
  <1>10. \A k \in 1 .. Len(q) : q[k].seq \in Nat /\ Stop(q[k]) \in Nat /\ Places(q[k]) \subseteq Int
    <2> SUFFICES ASSUME NEW k \in 1 .. Len(q)
                 PROVE  q[k].seq \in Nat /\ Stop(q[k]) \in Nat /\ Places(q[k]) \subseteq Int
      OBVIOUS
    <2>1. q[k].seq \in Nat /\ Stop(q[k]) \in Nat /\ TcpLen(q[k]) \in Nat
      BY <1>2, <1>6, PieceFacts
    <2>2. \A i \in 0 .. TcpLen(q[k]) - 1 : Minus(Plus(q[k].seq, i), Iss) \in Int
      <3> SUFFICES ASSUME NEW i \in 0 .. TcpLen(q[k]) - 1
                   PROVE  Minus(Plus(q[k].seq, i), Iss) \in Int
        OBVIOUS
      <3>1. M \in Nat /\ M > 0 /\ q[k].seq + i \in Int
        BY <2>1, ConstantFacts
      <3>2. Plus(q[k].seq, i) \in Int
        BY <3>1 DEF Plus
      <3>3. Plus(q[k].seq, i) - Iss \in Int
        BY <1>4, <3>2
      <3> QED BY <3>1, <3>3 DEF Minus
    <2> QED BY <2>1, <2>2 DEF Places
  <1>11. \A j, k \in 1 .. Len(q) : j < k => Places(q[j]) \cap Places(q[k]) = {}
    <2> SUFFICES ASSUME NEW j \in 1 .. Len(q), NEW k \in 1 .. Len(q), j < k,
                        NEW p, p \in Places(q[j]), p \in Places(q[k])
                 PROVE  FALSE
      OBVIOUS
    <2>1. p \in Int /\ p + Iss \in Int
      BY <1>4, <1>10
    <2>2. p + Iss < Stop(q[j]) /\ q[k].seq <= p + Iss
      BY <1>9, <2>1
    <2>3. Stop(q[j]) <= q[k].seq /\ Stop(q[j]) \in Nat /\ q[k].seq \in Nat
      BY <1>6, <1>10
    <2> QED BY ONLY <2>1, <2>2, <2>3
  <1>12. \A j, k \in DOMAIN q : j /= k => Places(q[j]) \cap Places(q[k]) = {}
    <2> SUFFICES ASSUME NEW j \in 1 .. Len(q), NEW k \in 1 .. Len(q), j /= k
                 PROVE  Places(q[j]) \cap Places(q[k]) = {}
      BY <1>7
    <2>1. j < k \/ k < j
      BY <1>6
    <2>2. Places(q[j]) \cap Places(q[k]) = Places(q[k]) \cap Places(q[j])
      OBVIOUS
    <2> QED BY <1>11, <2>1, <2>2
  <1>13. Minus(lastack, Iss) = lastack - Iss
    <2>1. Iss \in Span
      BY <1>4, ConstantFacts DEF Span
    <2> QED BY <1>2, <2>1, SpanCompare
  <1>14. end = written + Fins - 1
    BY <1>4 DEF Fins
  <1> HIDE DEF end
  <1>15. Minus(lastack, Iss) .. end \subseteq UNION {Places(q[k]) : k \in DOMAIN q}
    <2> SUFFICES ASSUME NEW p \in lastack - Iss .. end
                 PROVE  \E k \in 1 .. Len(q) : p \in Places(q[k])
      BY <1>7, <1>13
    <2> DEFINE x == p + Iss
    <2>1. p \in Int /\ x \in Nat /\ a <= x /\ x < b
      <3>1. a \in Nat /\ a <= lastack /\ lastack \in Nat /\ Iss \in Nat /\ Iss <= lastack
        BY <1>2, <1>3, <1>4
      <3>2. end \in Int /\ b = Iss + end + 1
        BY <1>2, <1>4, <1>14 DEF b, EndOf
      <3>3. p \in Int /\ lastack - Iss <= p /\ p <= end
        BY <1>2, <1>4, <3>2
      <3> QED BY ONLY <3>1, <3>2, <3>3
    <2> HIDE DEF x
    <2>2. PICK k \in 1 .. Len(q) : q[k].seq <= x /\ x < Stop(q[k])
      BY <1>2, <1>4, <1>5, <2>1, ChainCovers
    <2>3. p \in Places(q[k])
      BY <1>9, <2>1, <2>2 DEF x
    <2> QED BY <2>3
  <1> QED BY <1>8, <1>12, <1>15 DEF EveryByteQueuedOnce, q, end

LEMMA QueueTyped ==
  ASSUME NoWrap, NEW w \in 0 .. Total, NEW e \in 0 .. 1, NEW q \in Seq(Segment),
         \A k \in 1 .. Len(q) : Piece(q[k], w, e)
  PROVE  \A k \in DOMAIN q : SegType(q[k])
  <1>1. DOMAIN q = 1 .. Len(q)
    OBVIOUS
  <1> SUFFICES ASSUME NEW k \in 1 .. Len(q) PROVE SegType(q[k])
    BY <1>1
  <1>2. Piece(q[k], w, e)
    OBVIOUS
  <1> QED BY ONLY NoWrap, w \in 0 .. Total, e \in 0 .. 1, <1>2, PieceType

LEMMA Typed ==
  ASSUME NoWrap, IInv
  PROVE  TypeOK
  <1>1. /\ written \in 0 .. Total /\ written \in Nat /\ Fins \in 0 .. 1
        /\ lastack \in Nat /\ snd_nxt \in Nat /\ snd_wl2 \in Nat /\ snd_wnd \in 0 .. TcpWnd
        /\ rcv_nxt \in Nat /\ ann_edge \in Nat /\ rcv_wnd \in 0 .. TcpWnd
        /\ ann_wnd \in 0 .. TcpWnd /\ unread \in 0 .. TcpWnd
        /\ Reach \in Nat /\ Limit \in Nat
        /\ rcv_nxt <= Iss + Total + 1 /\ ann_edge <= Iss + Total + 1 + TcpWnd
    BY NumbersOf
  <1>2. Sending(unsent, unacked, written, Fins, lastack, snd_wnd, snd_nxt)
    BY DEF IInv, SenderOK
  <1>3. /\ lastack <= snd_nxt /\ snd_nxt \in Span
        /\ unsent \in Seq(Segment) /\ unacked \in Seq(Segment)
        /\ \A k \in 1 .. Len(unsent) : Piece(unsent[k], written, Fins)
        /\ \A k \in 1 .. Len(unacked) : Piece(unacked[k], written, Fins)
    BY <1>2, SendingFacts
  <1>4. /\ Ordered(ooseq, rcv_nxt, Limit, written, Fins)
        /\ net \in Seq(InFlight(written, Fins, ann_edge, rcv_nxt, Reach))
        /\ got = Stretch(Len(got)) /\ Len(got) \in 0 .. written /\ Len(got) \in Nat
        /\ ackDelay \in BOOLEAN /\ gotFin \in BOOLEAN
    BY ReceiverNumbers
  <1>5. /\ finQueued \in BOOLEAN /\ inFR \in BOOLEAN /\ rtime \in BOOLEAN /\ persist \in BOOLEAN
    BY DEF IInv, SenderOK
  <1>6. /\ faults \in 0 .. MaxFaults
        /\ acks \in Seq(Answers(snd_wl2, snd_wnd, ann_edge, rcv_nxt))
        /\ snd_wl2 <= rcv_nxt
    BY DEF IInv, NetworkOK
  <1>7. /\ M \in Nat /\ TcpWnd \in Nat /\ Iss \in Nat /\ Total \in Nat /\ WndMod \in Nat
        /\ Iss + Total + 2 * TcpWnd + 1 < M /\ TcpWnd >= 2 /\ TcpWnd < WndMod
    BY ConstantFacts DEF NoWrap
  <1>8. /\ snd_nxt \in SeqNo /\ lastack \in SeqNo /\ snd_wl2 \in SeqNo
        /\ rcv_nxt \in SeqNo /\ ann_edge \in SeqNo
    <2>1. snd_nxt < M
      BY <1>3, <1>7 DEF Span
    <2>2. lastack < M
      BY ONLY <1>1, <1>3, <1>7, <2>1
    <2>3. rcv_nxt < M
      BY ONLY <1>1, <1>7
    <2>4. snd_wl2 < M
      BY ONLY <1>1, <1>6, <1>7, <2>3
    <2>5. ann_edge < M
      BY ONLY <1>1, <1>7
    <2> QED BY <1>1, <1>7, <2>1, <2>2, <2>3, <2>4, <2>5 DEF SeqNo
  <1>9. /\ snd_wnd \in 0 .. WndMod - 1 /\ rcv_wnd \in 0 .. WndMod - 1
        /\ ann_wnd \in 0 .. WndMod - 1
    BY ONLY <1>1, <1>7
  <1>10. \A k \in DOMAIN unsent : SegType(unsent[k])
    BY <1>1, <1>3, QueueTyped
  <1>11. \A k \in DOMAIN unacked : SegType(unacked[k])
    BY <1>1, <1>3, QueueTyped
  <1>12. \A k \in DOMAIN ooseq : SegType(ooseq[k])
    BY <1>1, <1>4, OrderedFacts, QueueTyped
  <1>13. \A k \in DOMAIN net : SegType(net[k])
    <2>1. /\ net \in Seq(InFlight(written, Fins, ann_edge, rcv_nxt, Reach))
          /\ DOMAIN net = 1 .. Len(net)
          /\ \A k \in 1 .. Len(net) : net[k] \in InFlight(written, Fins, ann_edge, rcv_nxt, Reach)
      BY <1>4
    <2> SUFFICES ASSUME NEW k \in 1 .. Len(net) PROVE SegType(net[k])
      BY <2>1
    <2>2. Piece(net[k], written, Fins)
      BY <2>1 DEF InFlight
    <2> QED BY <1>1, <2>2, PieceType
  <1>14. \A k \in DOMAIN acks : acks[k].ackno \in SeqNo /\ acks[k].wnd \in 0 .. WndMod - 1
    <2>1. /\ DOMAIN acks = 1 .. Len(acks)
          /\ \A k \in 1 .. Len(acks) : acks[k] \in Answers(snd_wl2, snd_wnd, ann_edge, rcv_nxt)
      BY <1>6
    <2> SUFFICES ASSUME NEW k \in 1 .. Len(acks)
                 PROVE  acks[k].ackno \in SeqNo /\ acks[k].wnd \in 0 .. WndMod - 1
      BY <2>1
    <2>2. acks[k].ackno \in Nat /\ acks[k].wnd \in 0 .. TcpWnd /\ acks[k].ackno <= rcv_nxt
      BY <2>1 DEF Answers, Ack
    <2>3. rcv_nxt < M
      BY ONLY <1>1, <1>7
    <2>4. acks[k].ackno < M /\ acks[k].wnd \in 0 .. WndMod - 1
      BY ONLY <1>1, <1>7, <2>2, <2>3
    <2> QED BY <1>7, <2>2, <2>4 DEF SeqNo
  <1>15. got \in Seq(1 .. Total)
    <2> DEFINE g == Len(got)
    <2>1. g \in Nat /\ g <= Total /\ got = Stretch(g)
      BY <1>1, <1>4, <1>7
    <2> HIDE DEF g
    <2>2. \A i \in 1 .. g : i \in 1 .. Total
      BY <1>7, <2>1
    <2>3. Stretch(g) \in Seq(1 .. Total)
      BY <2>1, <2>2 DEF Stretch
    <2> QED BY <2>1, <2>3
  <1> QED BY <1>1, <1>4, <1>5, <1>6, <1>8, <1>9, <1>10, <1>11, <1>12, <1>13, <1>14, <1>15 DEF TypeOK

LEMMA OoseqOrdered ==
  ASSUME NoWrap, IInv
  PROVE  OoseqInOrder
  <1>1. /\ written \in 0 .. Total /\ Fins \in 0 .. 1 /\ Limit \in Nat
        /\ rcv_nxt \in Nat /\ Iss <= rcv_nxt /\ rcv_nxt <= Iss + Total + 1
    BY NumbersOf
  <1>2. Ordered(ooseq, rcv_nxt, Limit, written, Fins)
    BY ReceiverNumbers
  <1>3. /\ ooseq \in Seq(Segment) /\ Len(ooseq) \in Nat /\ DOMAIN ooseq = 1 .. Len(ooseq)
        /\ \A k \in 1 .. Len(ooseq) : Piece(ooseq[k], written, Fins) /\ rcv_nxt < ooseq[k].seq
        /\ \A k \in 1 .. Len(ooseq) : k < Len(ooseq) => ~ooseq[k].fin
    BY <1>1, <1>2, OrderedFacts
  <1>4. \A k \in 1 .. Len(ooseq) : k < Len(ooseq) => DataStop(ooseq[k]) <= ooseq[k + 1].seq
    BY <1>2 DEF Ordered
  <1>5. rcv_nxt \in Span
    <2>1. TcpWnd \in Nat /\ TcpWnd >= 2 /\ Iss \in Nat /\ Total \in Nat
      BY ConstantFacts
    <2> QED BY ONLY <1>1, <2>1 DEF Span
  <1>6. \A k \in 1 .. Len(ooseq) :
          /\ ooseq[k].seq \in Span /\ DataStop(ooseq[k]) \in Span
          /\ DataEnd(ooseq[k]) = DataStop(ooseq[k])
    BY <1>1, <1>3, PieceFacts
  <1>7. \A k \in DOMAIN ooseq : GT(ooseq[k].seq, rcv_nxt)
    <2> SUFFICES ASSUME NEW k \in 1 .. Len(ooseq) PROVE GT(ooseq[k].seq, rcv_nxt)
      BY <1>3
    <2> DEFINE x == ooseq[k].seq
    <2>1. x \in Span /\ rcv_nxt < x
      BY <1>3, <1>6
    <2> HIDE DEF x
    <2>2. x > rcv_nxt
      BY <1>1, <1>5, <2>1, ConstantFacts DEF Span
    <2>3. GT(x, rcv_nxt)
      BY <1>5, <2>1, <2>2, SpanCompare
    <2> QED BY <2>3 DEF x
  <1>8. \A k \in DOMAIN ooseq : ooseq[k].fin => k = Len(ooseq)
    BY <1>3
  <1>9. \A k \in 1 .. Len(ooseq) - 1 : LEQ(DataEnd(ooseq[k]), ooseq[k + 1].seq)
    <2> SUFFICES ASSUME NEW k \in 1 .. Len(ooseq) - 1
                 PROVE  LEQ(DataEnd(ooseq[k]), ooseq[k + 1].seq)
      OBVIOUS
    <2> DEFINE x == DataStop(ooseq[k])
               y == ooseq[k + 1].seq
    <2>1. k \in 1 .. Len(ooseq) /\ k + 1 \in 1 .. Len(ooseq) /\ k < Len(ooseq)
      BY <1>3
    <2>2. x \in Span /\ y \in Span /\ x <= y /\ DataEnd(ooseq[k]) = x
      BY <1>4, <1>6, <2>1
    <2> HIDE DEF x, y
    <2>3. LEQ(x, y)
      BY <2>2, SpanCompare
    <2> QED BY <2>2, <2>3 DEF y
  <1>10. TypeOK
    BY Typed
  <1> QED BY <1>7, <1>8, <1>9, <1>10 DEF OoseqInOrder

LEMMA WindowsOpen ==
  ASSUME NoWrap, IInv, Iss + TcpWnd <= ann_edge
  PROVE  WindowsAreRoom
  <1>1. /\ rcv_nxt \in Nat /\ Iss <= rcv_nxt /\ rcv_nxt <= Iss + Total + 1
        /\ rcv_wnd \in 0 .. TcpWnd /\ rcv_wnd + unread = TcpWnd
        /\ ann_edge \in Nat /\ ann_edge <= rcv_nxt + rcv_wnd
        /\ rcv_nxt + rcv_wnd < M
    BY ReceiverNumbers
  <1>2. /\ M \in Nat /\ TcpWnd \in Nat /\ Iss \in Nat /\ Total \in Nat
        /\ TcpWnd >= 2
    BY ConstantFacts
  <1> DEFINE x == rcv_nxt + rcv_wnd
  <1>3. x \in Nat /\ rcv_wnd \in Int /\ 0 <= rcv_nxt + rcv_wnd /\ x < M /\ ann_edge <= x
        /\ x - ann_edge <= Total + TcpWnd
    BY ONLY <1>1, <1>2, Iss + TcpWnd <= ann_edge
  <1>4. Plus(rcv_nxt, rcv_wnd) = x
    BY <1>1, <1>3, PlusOf
  <1> HIDE DEF x
  <1>5. ann_edge \in 0 .. M - 1 /\ x \in 0 .. M - 1 /\ ann_edge - x <= Total + TcpWnd
    BY ONLY <1>1, <1>2, <1>3
  <1>6. LEQ(ann_edge, x)
    BY <1>3, <1>5, Compare
  <1> QED BY <1>1, <1>4, <1>6 DEF WindowsAreRoom, WindowIsRoom, AnnouncedIsRoom

\* The four properties below hold whenever the sequence numbers do not wrap
\* (StreamInvariant).

\* Every variable keeps its type: the sequence numbers stay below M and the
\* windows below 2^16 (tcp_input, tcp_recved, tcp_update_rcv_ann_wnd).
THEOREM StreamTypeOK == NoWrap => (Spec => []TypeOK)
  <1> SUFFICES ASSUME NoWrap PROVE Spec => []TypeOK
    OBVIOUS
  <1>1. IInv /\ Iss + TcpWnd <= ann_edge => TypeOK
    BY Typed
  <1>2. Spec => [](IInv /\ Iss + TcpWnd <= ann_edge)
    BY StreamInvariant
  <1> QED BY <1>1, <1>2, PTL

\* What is not acknowledged is in exactly one segment of unsent and unacked,
\* with the bytes that were written: tcp_write, tcp_send_fin, tcp_output,
\* tcp_rexmit, tcp_rexmit_rto, tcp_zero_window_probe and the ACKs that
\* tcp_receive takes neither lose nor repeat any of it.
THEOREM StreamQueuedOnce == NoWrap => (Spec => []EveryByteQueuedOnce)
  <1> SUFFICES ASSUME NoWrap PROVE Spec => []EveryByteQueuedOnce
    OBVIOUS
  <1>1. IInv /\ Iss + TcpWnd <= ann_edge => EveryByteQueuedOnce
    BY QueuedOnce
  <1>2. Spec => [](IInv /\ Iss + TcpWnd <= ann_edge)
    BY StreamInvariant
  <1> QED BY <1>1, <1>2, PTL

\* The out-of-order queue of tcp_receive stays in order and free of overlaps,
\* beyond rcv_nxt, with a FIN in the last segment only, whatever segments the
\* network repeats, reorders or loses.
THEOREM StreamOoseqInOrder == NoWrap => (Spec => []OoseqInOrder)
  <1> SUFFICES ASSUME NoWrap PROVE Spec => []OoseqInOrder
    OBVIOUS
  <1>1. IInv /\ Iss + TcpWnd <= ann_edge => OoseqInOrder
    BY OoseqOrdered
  <1>2. Spec => [](IInv /\ Iss + TcpWnd <= ann_edge)
    BY StreamInvariant
  <1> QED BY <1>1, <1>2, PTL

\* rcv_wnd is TCP_WND less what the application has not reported by tcp_recved,
\* and what tcp_update_rcv_ann_wnd announces is never more than rcv_wnd.
THEOREM StreamWindowsAreRoom == NoWrap => (Spec => []WindowsAreRoom)
  <1> SUFFICES ASSUME NoWrap PROVE Spec => []WindowsAreRoom
    OBVIOUS
  <1>1. IInv /\ Iss + TcpWnd <= ann_edge => WindowsAreRoom
    BY WindowsOpen
  <1>2. Spec => [](IInv /\ Iss + TcpWnd <= ann_edge)
    BY StreamInvariant
  <1> QED BY <1>1, <1>2, PTL

\* While a segment is in unacked the retransmission timer runs (tcp_output,
\* tcp_receive).
THEOREM StreamRetransmissionArmed == NoWrap => (Spec => []RetransmissionArmed)
  <1> SUFFICES ASSUME NoWrap PROVE Spec => []RetransmissionArmed
    OBVIOUS
  <1>1. IInv /\ Iss + TcpWnd <= ann_edge => RetransmissionArmed
    BY DEF IInv, SenderOK, RetransmissionArmed
  <1>2. Spec => [](IInv /\ Iss + TcpWnd <= ann_edge)
    BY StreamInvariant
  <1> QED BY <1>1, <1>2, PTL

LEMMA EdgeBound ==
  ASSUME NoWrap, NEW w \in 0 .. Total, NEW g \in 0 .. w, NEW e \in 0 .. 1, NEW a \in 0 .. TcpWnd
  PROVE  /\ EndOf(g, e) + a \in Nat /\ EndOf(g, e) + a <= Iss + Total + 1 + TcpWnd
         /\ Iss + Total + 1 + TcpWnd < M
  <1>1. /\ M \in Nat /\ TcpWnd \in Nat /\ Iss \in Nat /\ Total \in Nat
        /\ Iss + Total + 2 * TcpWnd + 1 < M
    BY ConstantFacts DEF NoWrap
  <1>2. w \in Nat /\ g \in Nat /\ w <= Total /\ g <= w /\ e \in Nat /\ e <= 1 /\ a \in Nat /\ a <= TcpWnd
    BY <1>1
  <1> QED BY ONLY <1>1, <1>2 DEF EndOf

LEMMA EdgesCompare ==
  ASSUME NoWrap, NEW a \in Nat, NEW b \in Nat, a <= b, Iss + TcpWnd <= a,
         b <= Iss + Total + 1 + TcpWnd
  PROVE  GEQ(b, a)
  <1>1. /\ M \in Nat /\ TcpWnd \in Nat /\ Iss \in Nat /\ Total \in Nat /\ TcpWnd >= 2
        /\ Iss + Total + 2 * TcpWnd + 1 < M
    BY ConstantFacts DEF NoWrap
  <1>2. /\ a \in 0 .. M - 1 /\ b \in 0 .. M - 1 /\ b >= a
        /\ a - b <= Total + TcpWnd /\ b - a <= Total + TcpWnd
    BY ONLY <1>1, a \in Nat, b \in Nat, a <= b, Iss + TcpWnd <= a, b <= Iss + Total + 1 + TcpWnd
  <1> QED BY <1>2, Compare

LEMMA EdgeStep ==
  ASSUME NoWrap, IInv, Iss + TcpWnd <= ann_edge, [Next]_vars
  PROVE  GEQ(ann_edge', ann_edge)
  <1>1. IInv' /\ ann_edge <= ann_edge'
    BY NextKeeps, StutterKeeps
  <1>2. ann_edge \in Nat
    BY NumbersOf
  <1>3. /\ ann_edge' \in Nat /\ ann_edge' <= rcv_nxt' + ann_wnd' /\ rcv_nxt' = EndOf(Len(got'), Ends')
        /\ Len(got') \in 0 .. written' /\ ann_wnd' \in 0 .. TcpWnd
    BY <1>1 DEF IInv, ReceiverOK
  <1>4. written' \in 0 .. Total
    BY <1>1 DEF IInv, SenderOK, Sending
  <1>5. Ends' \in 0 .. 1
    BY DEF Ends
  <1>6. /\ rcv_nxt' + ann_wnd' \in Nat /\ rcv_nxt' + ann_wnd' <= Iss + Total + 1 + TcpWnd
    BY <1>3, <1>4, <1>5, EdgeBound
  <1>7. Iss + Total + 1 + TcpWnd \in Nat
    BY ConstantFacts
  <1>8. ann_edge' <= Iss + Total + 1 + TcpWnd
    BY <1>3, <1>6, <1>7, Between3
  <1> QED BY <1>1, <1>2, <1>3, <1>8, EdgesCompare

\* "keep the right edge of window constant" (tcp.c:553): tcp_update_rcv_ann_wnd,
\* and every step that sends an ACK, announce a right edge that is not behind
\* the one announced before.
THEOREM StreamRightEdge == NoWrap => (Spec => RightEdgeNeverShrinks)
  <1> SUFFICES ASSUME NoWrap PROVE Spec => RightEdgeNeverShrinks
    OBVIOUS
  <1>1. IInv /\ Iss + TcpWnd <= ann_edge /\ [Next]_vars => [GEQ(ann_edge', ann_edge)]_vars
    BY EdgeStep
  <1>2. Spec => [](IInv /\ Iss + TcpWnd <= ann_edge)
    BY StreamInvariant
  <1> QED BY <1>1, <1>2, PTL DEF Spec, RightEdgeNeverShrinks

-----------------------------------------------------------------------------
(* The stream.                                                               *)

LEMMA StretchOf ==
  ASSUME NEW m \in 0 .. Total, NEW n \in 0 .. m
  PROVE  /\ Stretch(m) = [i \in 1 .. m |-> i]
         /\ Stretch(m) \in Seq(1 .. Total) /\ Len(Stretch(m)) = m
         /\ SubSeq(Stretch(m), 1, n) = Stretch(n)
  <1>1. m \in Nat /\ n \in Nat /\ n <= m /\ Total \in Nat /\ m <= Total
    BY ConstantFacts
  <1>2. Stretch(m) = [i \in 1 .. m |-> i]
    BY DEF Stretch
  <1>3. \A i \in 1 .. m : i \in 1 .. Total
    BY <1>1
  <1>4. Stretch(m) \in Seq(1 .. Total) /\ Len(Stretch(m)) = m
    BY <1>1, <1>2, <1>3
  <1>5. SubSeq(Stretch(m), 1, n) = Stretch(n)
    <2>1. /\ SubSeq(Stretch(m), 1, n) \in Seq(1 .. Total) /\ Len(SubSeq(Stretch(m), 1, n)) = n
          /\ \A i \in 1 .. n : SubSeq(Stretch(m), 1, n)[i] = Stretch(m)[i]
      BY <1>1, <1>4, SubSeqOf
    <2>2. SubSeq(Stretch(m), 1, n) = [i \in 1 .. n |-> SubSeq(Stretch(m), 1, n)[i]]
      BY <2>1, IsASeq
    <2>3. \A i \in 1 .. n : Stretch(m)[i] = i
      BY <1>1, <1>2
    <2>4. [i \in 1 .. n |-> SubSeq(Stretch(m), 1, n)[i]] = [i \in 1 .. n |-> i]
      BY <2>1, <2>3
    <2> QED BY <2>2, <2>4 DEF Stretch
  <1> QED BY <1>2, <1>4, <1>5

LEMMA PipeWrites ==
  ASSUME NEW n \in 1 .. Total, IInv, IInv', Write(n)
  PROVE  Pipe!Next
  <1>1. /\ ~finQueued /\ written' = written + n /\ finQueued' = finQueued
        /\ got' = got /\ gotFin' = gotFin
    BY DEF Write, receiver
  <1>2. written \in 0 .. Total /\ written' \in 0 .. Total
    BY DEF IInv, SenderOK, Sending
  <1>3. Total \in Nat
    BY ConstantFacts
  <1>4. written \in 0 .. written'
    <2>1. written \in Nat /\ n \in Nat
      BY <1>2, <1>3
    <2>2. written <= written + n
      BY <2>1
    <2>3. written' \in Nat
      BY <1>2, <1>3
    <2> QED BY <1>1, <2>1, <2>2, <2>3
  <1>5. /\ Stretch(written') \in Seq(1 .. Total)
        /\ SubSeq(Stretch(written'), 1, written) = Stretch(written)
    BY <1>2, <1>4, StretchOf
  <1>6. Len(Stretch(written)) = written
    <2>1. 0 \in 0 .. written
      BY <1>2, <1>3
    <2> QED BY <1>2, <2>1, StretchOf
  <1>7. Pipe!Write
    BY <1>1, <1>5, <1>6 DEF Pipe!Write, Stretch
  <1> QED BY <1>7 DEF Pipe!Next

LEMMA PipeCloses ==
  ASSUME Close
  PROVE  Pipe!Next
  <1>1. /\ ~finQueued /\ written' = written /\ finQueued' = TRUE
        /\ got' = got /\ gotFin' = gotFin
    BY Zenon DEF Close, receiver
  <1> QED BY <1>1 DEF Pipe!Next, Pipe!Close

LEMMA PipeDelivers ==
  ASSUME IInv, IInv', rcv_nxt <= rcv_nxt', ~gotFin, UNCHANGED sender
  PROVE  Pipe!Next
  <1>1. written' = written /\ finQueued' = finQueued
    BY DEF sender
  <1>2. written \in 0 .. Total
    BY DEF IInv, SenderOK, Sending
  <1>3. /\ got = Stretch(Len(got)) /\ Len(got) \in 0 .. written
        /\ rcv_nxt = EndOf(Len(got), Ends)
    BY DEF IInv, ReceiverOK
  <1>4. /\ got' = Stretch(Len(got')) /\ Len(got') \in 0 .. written
        /\ rcv_nxt' = EndOf(Len(got'), Ends')
        /\ gotFin' \in BOOLEAN
        /\ gotFin' => finQueued /\ Len(got') = written
    BY <1>1 DEF IInv, ReceiverOK
  <1>5. Ends = 0 /\ (~gotFin' => Ends' = 0)
    BY DEF Ends
  <1>6. PICK g \in 0 .. written, h \in 0 .. written : g = Len(got) /\ h = Len(got')
    BY <1>3, <1>4
  <1>7. written \in Nat /\ g \in Nat /\ h \in Nat /\ g <= written /\ h <= written /\ Iss \in Nat
    BY <1>2, ConstantFacts
  <1>8. g <= h
    <2>1. CASE gotFin'
      BY <1>4, <1>6, <1>7, <2>1
    <2>2. CASE ~gotFin'
      <3>1. rcv_nxt = EndOf(g, 0) /\ rcv_nxt' = EndOf(h, 0)
        BY <1>3, <1>4, <1>5, <1>6, <2>2
      <3>2. EndOf(g, 0) <= EndOf(h, 0)
        BY <3>1
      <3> QED BY ONLY <1>7, <3>2 DEF EndOf
    <2> QED BY <2>1, <2>2
  <1>9. /\ SubSeq(Stretch(written), 1, h) = Stretch(h) /\ Len(Stretch(written)) = written
    BY <1>2, StretchOf
  <1>10. SubSeq(Stretch(h), 1, g) = Stretch(g)
    <2>1. h \in 0 .. Total /\ g \in 0 .. h
      BY <1>2, <1>7, <1>8, ConstantFacts
    <2> QED BY <2>1, StretchOf
  <1>11. h \in Len(got) .. Len(Stretch(written)) /\ got' = SubSeq(Stretch(written), 1, h)
    BY <1>4, <1>6, <1>7, <1>8, <1>9
  <1>12. SubSeq(got', 1, Len(got)) = got
    BY <1>3, <1>4, <1>6, <1>10
  <1>13. gotFin' => finQueued /\ got' = Stretch(written)
    BY <1>4
  <1>14. Pipe!Deliver
    BY <1>1, <1>4, <1>11, <1>12, <1>13 DEF Pipe!Deliver, Stretch
  <1> QED BY <1>14 DEF Pipe!Next

LEMMA PipeStep ==
  ASSUME NoWrap, IInv, [Next]_vars
  PROVE  Pipe!Next \/ UNCHANGED Pipe!vars
  <1> DEFINE Same == UNCHANGED <<written, finQueued, got, gotFin>>
  <1>1. IInv' /\ rcv_nxt <= rcv_nxt'
    BY NextKeeps, StutterKeeps
  <1>2. ASSUME Same PROVE UNCHANGED Pipe!vars
    BY <1>2 DEF Pipe!vars
  <1>3. ASSUME NEW n \in 1 .. Total, Write(n) PROVE Pipe!Next
    BY <1>1, <1>3, PipeWrites
  <1>4. ASSUME Close PROVE Pipe!Next
    BY <1>4, PipeCloses
  <1>5. ASSUME Poll \/ RetransmitTimeout \/ ZeroWindowProbe \/ AckArrives PROVE Same
    <2>1. ASSUME UNCHANGED <<written, finQueued>>, UNCHANGED receiver PROVE Same
      BY <2>1 DEF receiver
    <2>2. ASSUME Poll PROVE Same
      BY <2>1, <2>2, Zenon DEF Poll
    <2>3. ASSUME RetransmitTimeout PROVE Same
      BY <2>1, <2>3, Zenon DEF RetransmitTimeout
    <2>4. ASSUME ZeroWindowProbe PROVE Same
      <3>1. UNCHANGED sender /\ UNCHANGED receiver
        BY <2>4, Zenon DEF ZeroWindowProbe
      <3> QED BY <2>1, <3>1 DEF sender
    <2>5. ASSUME AckArrives PROVE Same
      BY <2>1, <2>5, Zenon DEF AckArrives
    <2> QED BY <1>5, <2>2, <2>3, <2>4, <2>5
  <1>6. ASSUME SegmentArrives PROVE Same \/ Pipe!Next
    <2>1. CASE gotFin
      <3>1. Outside \/ UNCHANGED <<receiver, acks>>
        BY <1>6, <2>1, Zenon DEF SegmentArrives
      <3> QED BY <1>6, <3>1, Zenon DEF SegmentArrives, Outside, receiver, sender
    <2>2. CASE ~gotFin
      <3>1. UNCHANGED sender
        BY <1>6 DEF SegmentArrives
      <3> QED BY <1>1, <2>2, <3>1, PipeDelivers
    <2> QED BY <2>1, <2>2
  <1>7. ASSUME NEW n \in 1 .. Total, Read(n) PROVE Same
    BY <1>7, Zenon DEF Read, sender
  <1>8. ASSUME FastTimer \/ DropOoseq \/ NetworkFault PROVE Same
    BY <1>8, Zenon DEF FastTimer, DropOoseq, NetworkFault, sender, receiver
  <1>9. ASSUME UNCHANGED vars PROVE Same
    BY <1>9 DEF vars, sender, receiver
  <1> HIDE DEF Same
  <1> QED BY <1>2, <1>3, <1>4, <1>5, <1>6, <1>7, <1>8, <1>9 DEF Next

\* The bytes the application is given are the bytes written, in order and each
\* of them once, and CLOSE_WAIT comes after the last of them: segments, ACKs,
\* retransmissions, probes, the out-of-order queue and both windows implement
\* the abstract stream.
THEOREM StreamImplemented == NoWrap => (Spec => ImplementsStream)
  <1> SUFFICES ASSUME NoWrap PROVE Spec => ImplementsStream
    OBVIOUS
  <1>1. Init => Pipe!Init
    <2> SUFFICES ASSUME Init PROVE Pipe!Init
      OBVIOUS
    <2>1. written = 0 /\ finQueued = FALSE /\ got = <<>> /\ gotFin = FALSE
      BY DEF Init
    <2>2. [i \in 1 .. 0 |-> i] = <<>>
      OBVIOUS
    <2> QED BY <2>1, <2>2 DEF Pipe!Init
  <1>2. IInv /\ Iss + TcpWnd <= ann_edge /\ [Next]_vars => [Pipe!Next]_(Pipe!vars)
    BY PipeStep
  <1>3. Spec => [](IInv /\ Iss + TcpWnd <= ann_edge)
    BY StreamInvariant
  <1> QED BY <1>1, <1>2, <1>3, PTL DEF Spec, ImplementsStream, Pipe!Spec
====
