----------------------------- MODULE TcpStream -----------------------------
(***************************************************************************)
(* The data of one TCP connection in one direction: the sender is          *)
(* tcp_write, tcp_send_fin, tcp_output, the ACK half of tcp_receive and    *)
(* the retransmissions; the receiver is the data half of tcp_receive with  *)
(* its out-of-order queue, tcp_recved and the delayed ACK.  The network    *)
(* loses, repeats and reorders a bounded number of segments.               *)
(*                                                                         *)
(* Sequence numbers are modulo M and start close to it, so that they wrap. *)
(* A segment carries its bytes, so that overlaps and trimming are real;    *)
(* the n-th byte written has the value n.                                  *)
(***************************************************************************)
EXTENDS Naturals, Integers, Sequences, FiniteSets, SequencesExt, FiniteSetsExt

CONSTANTS
  M,          \* sequence numbers are modulo M (2^32 in the code)
  WndMod,     \* windows are modulo WndMod (2^16 in the code)
  Iss,        \* the first sequence number of the data
  Total,      \* bound: the bytes the application writes in all
  Mss,        \* pcb->mss of the sender
  TcpWnd,     \* TCP_WND of the receiver
  SndBuf,     \* TCP_SND_BUF
  NetSize,    \* bound: segments in flight in each direction; the link drops more
  FinFits,    \* the writer closes only when the window has room for the FIN
  MaxFaults   \* bound: segments lost, repeated or reordered and premature
              \* timeouts in all

ASSUME StreamAssumption ==
  /\ {M, WndMod, Mss, TcpWnd, SndBuf, NetSize} \subseteq Nat \ {0}
  /\ {Iss, Total, MaxFaults} \subseteq Nat
  /\ FinFits \in BOOLEAN
  /\ Iss < M /\ TcpWnd < WndMod /\ TcpWnd >= 2
  /\ 2 * (Total + TcpWnd + 1) < M

VARIABLES
  \* the sender's pcb
  written,    \* the bytes given to tcp_write so far (snd_lbb)
  finQueued,  \* TF_FIN: tcp_send_fin was called
  unsent,     \* the segments to be sent, by sequence number
  unacked,    \* the segments sent and not acknowledged
  snd_nxt,    \* what follows the last sequence number sent
  lastack,    \* the highest sequence number acknowledged
  snd_wnd,    \* the receiver's window
  snd_wl2,    \* the ACK that brought it
  inFR,       \* TF_INFR: in fast retransmit
  rtime,      \* the retransmission timer runs (pcb->rtime >= 0)
  persist,    \* the persist timer runs (pcb->persist_backoff > 0)
  \* the receiver's pcb
  rcv_nxt,    \* the next sequence number expected
  rcv_wnd,    \* the room there is
  ann_wnd,    \* the room to announce (rcv_ann_wnd)
  ann_edge,   \* the right edge announced (rcv_ann_right_edge)
  ooseq,      \* the segments received out of sequence
  ackDelay,   \* TF_ACK_DELAY
  got,        \* the bytes passed to the application
  unread,     \* how many of them it has not reported by tcp_recved
  gotFin,     \* CLOSE_WAIT: the end of the stream was reported
  \* the network
  net,        \* data segments in flight, oldest first
  acks,       \* ACKs in flight, oldest first
  faults      \* the faults so far

sender   == <<written, finQueued, unsent, unacked, snd_nxt, lastack, snd_wnd,
              snd_wl2, inFR, rtime, persist>>
receiver == <<rcv_nxt, rcv_wnd, ann_wnd, ann_edge, ooseq, ackDelay, got,
              unread, gotFin>>
network  == <<net, acks, faults>>
vars     == <<sender, receiver, network>>

-----------------------------------------------------------------------------
(* Sequence numbers and segments. *)

LT(a, b)  == (a - b) % M >= (M \div 2)
LEQ(a, b) == a = b \/ LT(a, b)
GEQ(a, b) == ~LT(a, b)
GT(a, b)  == ~LEQ(a, b)
Between(a, b, c) == GEQ(a, b) /\ LEQ(a, c)
Plus(a, n) == (a + n) % M
Minus(a, b) == (a - b) % M

\* A segment: the sequence number of its first byte, its bytes and its FIN.
Seg(seq, data, fin) == [seq |-> seq, data |-> data, fin |-> fin]
TcpLen(s)  == Len(s.data) + IF s.fin THEN 1 ELSE 0
DataEnd(s) == Plus(s.seq, Len(s.data))
End(s)     == Plus(s.seq, TcpLen(s))

\* What is left of a segment in front of sequence number q, and from q on.
CutTail(s, q)  == [s EXCEPT !.data = SubSeq(@, 1, Minus(q, s.seq))]
\* Mutant: the sequence number moves, the data does not.
CutFront_SameData(s, q) == [s EXCEPT !.seq = q]
CutFront(s, q) == Seg(q, SubSeq(s.data, Minus(q, s.seq) + 1, Len(s.data)), s.fin)

\* How many segments at the head of s satisfy P.
Prefix(s, P(_)) == Cardinality({k \in 1 .. Len(s) : \A j \in 1 .. k : P(s[j])})

From(s, k) == SubSeq(s, k, Len(s))

-----------------------------------------------------------------------------
(* The network.  What does not fit is dropped. *)

Transmit(q, s) == SubSeq(q \o s, 1, Min({NetSize, Len(q) + Len(s)}))

Faulty(q, r) ==
  \/ \E k \in DOMAIN q : r = RemoveAt(q, k)                           \* lost
  \/ \E k \in DOMAIN q : Len(q) < NetSize /\ r = InsertAt(q, k, q[k]) \* repeated
  \/ \E k \in 1 .. Len(q) - 1 : r = [q EXCEPT ![k] = q[k + 1], ![k + 1] = q[k]]

NetworkFault ==
  /\ faults < MaxFaults
  /\ faults' = faults + 1
  /\ \/ Faulty(net, net') /\ UNCHANGED acks
     \/ Faulty(acks, acks') /\ UNCHANGED net
  /\ UNCHANGED <<sender, receiver>>

-----------------------------------------------------------------------------
(* The sender. *)

\* tcp_write: no segment is bigger than half the largest window announced.
MssLocal == Min({Mss, TcpWnd \div 2})

\* pcb->snd_lbb and tcp_sndbuf.
SndLbb == Plus(Iss, written)
SndBufLeft == SndBuf - Minus(SndLbb, lastack)

\* The segments of length MssLocal, and a shorter last one, for the bytes from
\* the one with index first up to the one with index last.
Segments(first, last) ==
  LET count == (last - first + MssLocal) \div MssLocal
      Start(k) == first + (k - 1) * MssLocal
  IN  [k \in 1 .. count |->
         Seg(Plus(Iss, Start(k) - 1),
             [i \in 1 .. Min({MssLocal, last - Start(k) + 1}) |-> Start(k) + i - 1],
             FALSE)]

\* tcp_write: fill up the last unsent segment, unless it has no data, then make
\* new ones.
Write(n) ==
  /\ ~finQueued
  /\ written + n <= Total
  /\ n <= SndBufLeft
  /\ LET last  == IF unsent = <<>> THEN Seg(SndLbb, <<>>, FALSE) ELSE Last(unsent)
         fill  == IF last.data = <<>> THEN 0 ELSE Min({n, MssLocal - Len(last.data)})
         added == [i \in 1 .. fill |-> written + i]
     IN  unsent' = (IF fill = 0 THEN unsent
                    ELSE Append(Front(unsent), [last EXCEPT !.data = @ \o added]))
                   \o Segments(written + fill + 1, written + n)
  /\ written' = written + n
  /\ UNCHANGED <<finQueued, unacked, snd_nxt, lastack, snd_wnd, snd_wl2, inFR,
                 rtime, persist, receiver, network>>

\* tcp_send_fin: the FIN joins the last unsent segment, or makes one.
SendFin(queue) ==
  IF queue /= <<>>
    THEN Append(Front(queue), [Last(queue) EXCEPT !.fin = TRUE])
    ELSE <<Seg(SndLbb, <<>>, TRUE)>>

\* tcp_output and tcp_rexmit insert a segment into a queue where it belongs.
Insert(queue, s) == InsertAt(queue, Prefix(queue, LAMBDA t : LT(t.seq, s.seq)) + 1, s)

\* tcp_output inserts one segment after the other.
InsertAll(queue, sent) ==
  LET with[k \in 0 .. Len(sent)] == IF k = 0 THEN queue ELSE Insert(with[k - 1], sent[k])
  IN  with[Len(sent)]

\* tcp_output, with the unsent queue `out`, the unacked queue `una` and the
\* retransmission timer `timer`: send what the window allows, the congestion
\* window being cwnd, and Nagle's algorithm does not hold back.
Output(out, una, timer, cwnd) ==
  LET wnd == Min({snd_wnd', cwnd})
      Fits(j) == Minus(DataEnd(out[j]), lastack') <= wnd
      Nagle(j) == \/ una = <<>> /\ j = 1
                  \/ inFR'
                  \/ j < Len(out)
                  \/ Len(out[j].data) >= Mss
                  \/ SndBufLeft' = 0
      Goes(k) == \A j \in 1 .. k : Fits(j) /\ (Nagle(j) \/ finQueued')
  IN  \E count \in {Cardinality({k \in 1 .. Len(out) : Goes(k)})} :
        LET sent == SubSeq(out, 1, count)
        IN  /\ unsent' = From(out, count + 1)
            /\ unacked' = InsertAll(una, sent)
            /\ snd_nxt' = IF count > 0 /\ LT(snd_nxt, End(out[count]))
                            THEN End(out[count]) ELSE snd_nxt
            /\ rtime' = (timer \/ count > 0)
            /\ net' = Transmit(net, sent)

\* The congestion window is at least one segment; its size is left open.
Cwnd == {Mss, TcpWnd}

\* The application, or tcp_slowtmr after its poll callback, calls tcp_output.
Poll ==
  /\ UNCHANGED <<written, finQueued, lastack, snd_wnd, snd_wl2, inFR, persist>>
  /\ \E cwnd \in Cwnd : Output(unsent, unacked, rtime, cwnd)
  /\ UNCHANGED <<receiver, acks, faults>>

\* tcp_close: queue a FIN and send.  A FIN of its own needs send buffer.
\* tcp_output does not count the FIN against the window: with FinFits the
\* application only closes when that makes no difference.
Close ==
  /\ ~finQueued
  /\ FinFits => Minus(SndLbb, lastack) < snd_wnd
  /\ unsent = <<>> => SndBufLeft > 0
  /\ finQueued' = TRUE
  /\ UNCHANGED <<written, lastack, snd_wnd, snd_wl2, inFR, persist>>
  /\ \E cwnd \in Cwnd : Output(SendFin(unsent), unacked, rtime, cwnd)
  /\ UNCHANGED <<receiver, acks, faults>>

\* A timer that expires while the answer is still on its way is a fault.
Expires ==
  IF net = <<>> /\ acks = <<>> /\ ~ackDelay
    THEN UNCHANGED faults
    ELSE faults < MaxFaults /\ faults' = faults + 1

\* Mutant: tcp_rexmit_rto calls tcp_output and moves nothing.
RetransmitTimeout_NotMoved ==
  /\ ~persist /\ rtime /\ unacked /= <<>>
  /\ Expires
  /\ UNCHANGED <<written, finQueued, lastack, snd_wnd, snd_wl2, inFR, persist>>
  /\ Output(unsent, unacked, rtime, Mss)
  /\ UNCHANGED <<receiver, acks>>

\* tcp_slowtmr: the retransmission timer expires.  All that is unacknowledged
\* goes back to the head of unsent (tcp_rexmit_rto), the congestion window is
\* one segment.
RetransmitTimeout ==
  /\ ~persist /\ rtime /\ unacked /= <<>>
  /\ Expires
  /\ UNCHANGED <<written, finQueued, lastack, snd_wnd, snd_wl2, inFR, persist>>
  /\ Output(unacked \o unsent, <<>>, rtime, Mss)
  /\ UNCHANGED <<receiver, acks>>

\* tcp_slowtmr: the persist timer expires.  tcp_zero_window_probe sends one
\* byte, or the FIN, without moving snd_nxt.
ZeroWindowProbe ==
  /\ persist
  /\ unacked \o unsent /= <<>>
  /\ Expires
  /\ LET s == Head(unacked \o unsent)
     IN  net' = Transmit(net, <<IF s.data = <<>> THEN s
                                ELSE Seg(s.seq, <<s.data[1]>>, FALSE)>>)
  /\ UNCHANGED <<sender, receiver, acks>>

\* Mutant: the segment stays in unacked as well.
Rexmit_Copied(out, una) == [out |-> Insert(out, Head(una)), una |-> una]

\* tcp_rexmit: the first unacknowledged segment goes back to unsent.
Rexmit(out, una) == [out |-> Insert(out, Head(una)), una |-> Tail(una)]

\* tcp_receive, the ACK a: the window, then what a acknowledges, then tcp_output
\* at the end of tcp_input.  A duplicate ACK is counted; which one is the third
\* and starts a fast retransmit is left open.
UpdatesWindow(a) == LT(snd_wl2, a.ackno) \/ (snd_wl2 = a.ackno /\ a.wnd > snd_wnd)

Duplicate(a) ==
  /\ Plus(snd_wl2', snd_wnd') = Plus(snd_wl2, snd_wnd)
  /\ rtime
  /\ lastack = a.ackno

\* The segments of a queue that are acknowledged, by the test of each queue.
AckedUna(a) == Prefix(unacked, LAMBDA s : LEQ(End(s), a.ackno))
AckedOut(out, a) == Prefix(out, LAMBDA s : Between(a.ackno, End(s), snd_nxt))

OldAck(a) ==
  /\ LEQ(a.ackno, lastack)
  /\ UNCHANGED lastack
  /\ \E third \in BOOLEAN, cwnd \in Cwnd :
       LET fast == third /\ Duplicate(a) /\ unacked /= <<>> /\ ~inFR
           q    == IF fast THEN Rexmit(unsent, unacked)
                   ELSE [out |-> unsent, una |-> unacked]
       IN  /\ inFR' = (inFR \/ fast)
           /\ Output(From(q.out, AckedOut(q.out, a) + 1), q.una, rtime, cwnd)

\* Mutant: the timer is stopped by every new ACK.
NewAck_TimerOff(a) ==
  /\ Between(a.ackno, Plus(lastack, 1), snd_nxt)
  /\ lastack' = a.ackno
  /\ inFR' = FALSE
  /\ LET una == From(unacked, AckedUna(a) + 1)
     IN  \E cwnd \in Cwnd :
           Output(From(unsent, AckedOut(unsent, a) + 1), una, FALSE, cwnd)

NewAck(a) ==
  /\ Between(a.ackno, Plus(lastack, 1), snd_nxt)
  /\ lastack' = a.ackno
  /\ inFR' = FALSE
  /\ LET una == From(unacked, AckedUna(a) + 1)
     IN  \E cwnd \in Cwnd :
           Output(From(unsent, AckedOut(unsent, a) + 1), una, una /= <<>>, cwnd)

\* An ACK of what was not sent (of a probe's byte) acknowledges nothing.
StrangeAck(a) ==
  /\ GT(a.ackno, snd_nxt)
  /\ UNCHANGED <<lastack, inFR>>
  /\ \E cwnd \in Cwnd :
       Output(From(unsent, AckedOut(unsent, a) + 1), unacked, rtime, cwnd)

AckArrives ==
  /\ acks /= <<>>
  /\ acks' = Tail(acks)
  /\ LET a == Head(acks)
     IN  /\ UNCHANGED <<written, finQueued>>
         /\ IF UpdatesWindow(a)
              THEN snd_wnd' = a.wnd /\ snd_wl2' = a.ackno /\ persist' = (a.wnd = 0)
              ELSE UNCHANGED <<snd_wnd, snd_wl2, persist>>
         /\ OldAck(a) \/ NewAck(a) \/ StrangeAck(a)
  /\ UNCHANGED <<receiver, faults>>

-----------------------------------------------------------------------------
(* The receiver. *)

\* tcp_update_rcv_ann_wnd, with rcv_nxt' and `room` in the window: announce a
\* right edge that is further on by a step worth it, or keep the old one.
\* Inflation is by how much the announced edge moves.
WorthIt(room) ==
  GEQ(Plus(rcv_nxt', room), Plus(ann_edge, Min({TcpWnd \div 2, Mss})))
Inflation(room) ==
  IF WorthIt(room) THEN Minus(Plus(rcv_nxt', room), ann_edge) ELSE 0
\* Mutant: what cannot be moved on is announced as closed.
UpdateAnnWnd_Shrinks(room) == ann_wnd' = IF WorthIt(room) THEN room ELSE 0
\* Mutant: the whole window is announced when the edge moves.
UpdateAnnWnd_Whole(room) ==
  ann_wnd' = IF WorthIt(room) THEN TcpWnd
             ELSE IF GT(rcv_nxt', ann_edge) THEN 0
             ELSE Minus(ann_edge, rcv_nxt')
UpdateAnnWnd(room) ==
  ann_wnd' = IF WorthIt(room) THEN room
             ELSE IF GT(rcv_nxt', ann_edge) THEN 0
             ELSE Minus(ann_edge, rcv_nxt')

\* TCP_WND_UPDATE_THRESHOLD
UpdateThreshold == TcpWnd \div 4

\* tcp_send_empty_ack, at the end of a step.
SendAck ==
  /\ acks' = Transmit(acks, <<[ackno |-> rcv_nxt', wnd |-> ann_wnd']>>)
  /\ ann_edge' = Plus(rcv_nxt', ann_wnd')
  /\ ackDelay' = FALSE
NoAck == UNCHANGED <<acks, ann_edge>>

\* tcp_oos_insert_segment: c in front of the queue `next`, which loses what c
\* covers; c loses what the rest of it already has.
OosInsert(c, next) ==
  IF c.fin THEN <<c>>
  ELSE LET k == Prefix(next, LAMBDA s : GEQ(DataEnd(c), DataEnd(s)))
           fin == \E j \in 1 .. k : next[j].fin
           d == IF k < Len(next) /\ GT(DataEnd(c), next[k + 1].seq)
                  THEN CutTail(c, next[k + 1].seq) ELSE c
       IN  <<[d EXCEPT !.fin = fin]>> \o From(next, k + 1)

TrimTo(s, q) == IF GT(DataEnd(s), q) THEN CutTail(s, q) ELSE s

\* tcp_receive, appending to the queue: a segment that overruns the window
\* loses its FIN and gets the length that remains.  The test compares sequence
\* numbers without regard to their wrapping, so that it may also lengthen a
\* segment: the bytes it counts and does not hold are 0.
InWindow(c) ==
  LET edge == Plus(rcv_nxt, rcv_wnd)
      len  == Minus(edge, c.seq)
  IN  IF End(c) > edge
        THEN Seg(c.seq,
                 [i \in 1 .. len |-> IF i <= Len(c.data) THEN c.data[i] ELSE 0],
                 FALSE)
        ELSE c

\* tcp_receive: c finds its place in ooseq.
Queue(c) ==
  LET i == Prefix(ooseq, LAMBDA s : LEQ(s.seq, c.seq))
      before == SubSeq(ooseq, 1, i - 1)
  IN  IF ooseq = <<>> THEN <<c>>
      ELSE IF i = 0 THEN OosInsert(c, ooseq)
      ELSE IF ooseq[i].seq = c.seq
        THEN IF Len(c.data) > Len(ooseq[i].data)
               THEN before \o OosInsert(c, From(ooseq, i)) ELSE ooseq
      ELSE IF i < Len(ooseq)
        THEN before \o <<TrimTo(ooseq[i], c.seq)>> \o OosInsert(c, From(ooseq, i + 1))
      ELSE IF ooseq[i].fin THEN ooseq
      ELSE before \o <<TrimTo(ooseq[i], c.seq), InWindow(c)>>

\* An in-sequence segment is cut to the window, which costs it its FIN ...
Trimmed(c) ==
  IF TcpLen(c) > rcv_wnd
    THEN [CutTail(c, Plus(c.seq, rcv_wnd)) EXCEPT !.fin = FALSE]
    ELSE c

\* ... and merged with ooseq: segments it covers go (their FIN stays), and it
\* is cut where the next one starts.
Merge(c) ==
  LET k == Prefix(ooseq, LAMBDA s : GEQ(End(c), DataEnd(s)))
      fin == \E j \in 1 .. k : ooseq[j].fin
      d == [c EXCEPT !.fin = fin]
  IN  IF c.fin THEN [seg |-> c, rest |-> <<>>]
      ELSE IF k < Len(ooseq) /\ GT(End(d), ooseq[k + 1].seq)
        THEN [seg |-> CutTail(d, ooseq[k + 1].seq), rest |-> From(ooseq, k + 1)]
      ELSE [seg |-> d, rest |-> From(ooseq, k + 1)]

\* Mutant: an "if" in place of the "while".
Following_One(q, n) == IF q /= <<>> /\ q[1].seq = n THEN 1 ELSE 0
\* The segments at the head of q that follow on from sequence number n.
Following(q, n) ==
  Cardinality({k \in 1 .. Len(q) : \A j \in 1 .. k :
         q[j].seq = IF j = 1 THEN n ELSE End(q[j - 1])})

\* The bytes that a segment holds, those of a queue of segments.
Bytes(s) == SubSeq(s.data, 1, Prefix(s.data, LAMBDA b : b /= 0))
BytesOf(q) == FlattenSeq([k \in DOMAIN q |-> Bytes(q[k])])
\* tcp_recved of n bytes, with `wnd` of room: what rcv_wnd becomes.
Recved(wnd, n) == Min({(wnd + n) % WndMod, TcpWnd})

\* tcp_input: the application does not report a FIN, its place is given back.
\* Mutant: it is not.
GiveBack_Not(fin, wnd) == wnd
GiveBack(fin, wnd) == IF fin /\ wnd /= TcpWnd THEN (wnd + 1) % WndMod ELSE wnd

\* tcp_receive and tcp_input, a segment that starts at rcv_nxt: what follows it
\* in ooseq goes with it.  The application reports what it reads inside the
\* callback or later.  A FIN is acknowledged at once, data at every second
\* segment or when tcp_recved finds the window moved far enough.
InSequence(c) ==
  LET m == Merge(Trimmed(c))
      k == Following(m.rest, End(m.seg))
      taken == <<m.seg>> \o SubSeq(m.rest, 1, k)
      fin == \E j \in DOMAIN taken : taken[j].fin
      data == BytesOf(taken)
      next == End(Last(taken))
      room == (rcv_wnd - Minus(next, rcv_nxt)) % WndMod
  IN  /\ rcv_nxt' = next
      /\ ooseq' = From(m.rest, k + 1)
      /\ got' = got \o data
      /\ gotFin' = fin
      /\ \E read \in {0, Len(data)} :
           LET wnd == IF read = 0 THEN room ELSE Recved(room, read)
           IN  /\ unread' = unread + Len(data) - read
               /\ rcv_wnd' = GiveBack(fin, wnd)
               /\ UpdateAnnWnd(wnd)
               /\ IF \/ fin \/ ackDelay
                     \/ read > 0 /\ Inflation(wnd) >= UpdateThreshold
                    THEN SendAck
                    ELSE NoAck /\ ackDelay' = TRUE

\* tcp_receive, a segment inside the window and out of sequence: it is
\* acknowledged and queued, if there is memory for a copy.
OutOfSequence(c) ==
  /\ ooseq' \in {Queue(c), ooseq}
  /\ UNCHANGED <<rcv_nxt, rcv_wnd, ann_wnd, got, unread, gotFin>>
  /\ SendAck

\* A segment outside the window is acknowledged.
Outside ==
  /\ UNCHANGED <<rcv_nxt, rcv_wnd, ann_wnd, ooseq, got, unread, gotFin>>
  /\ SendAck

\* tcp_input: a segment arrives.  What was received already is cut off its
\* front; in CLOSE_WAIT its text is ignored.
SegmentArrives ==
  /\ net /= <<>>
  /\ net' = Tail(net)
  /\ LET s == Head(net)
         c == IF Between(rcv_nxt, Plus(s.seq, 1), Plus(s.seq, TcpLen(s) - 1))
                THEN CutFront(s, rcv_nxt) ELSE s
         q == IF gotFin THEN s.seq ELSE c.seq
         inside == Between(q, rcv_nxt, Plus(rcv_nxt, rcv_wnd - 1))
     IN  IF ~inside THEN Outside
         ELSE IF gotFin THEN UNCHANGED <<receiver, acks>>
         ELSE IF q = rcv_nxt THEN InSequence(c)
         ELSE OutOfSequence(c)
  /\ UNCHANGED <<sender, faults>>

\* tcp_recved: the application has processed n bytes.  An ACK is sent when the
\* right edge moves by TCP_WND_UPDATE_THRESHOLD.
Read(n) ==
  /\ n <= unread
  /\ unread' = unread - n
  /\ rcv_wnd' = Recved(rcv_wnd, n)
  /\ UNCHANGED <<rcv_nxt, ooseq, got, gotFin>>
  /\ UpdateAnnWnd(rcv_wnd')
  /\ IF Inflation(rcv_wnd') >= UpdateThreshold
       THEN SendAck ELSE NoAck /\ UNCHANGED ackDelay
  /\ UNCHANGED <<sender, net, faults>>

\* tcp_fasttmr: a delayed ACK is sent.
FastTimer ==
  /\ ackDelay
  /\ UNCHANGED <<rcv_nxt, rcv_wnd, ann_wnd, ooseq, got, unread, gotFin>>
  /\ SendAck
  /\ UNCHANGED <<sender, net, faults>>

\* tcp_slowtmr: out-of-sequence data that waited too long is dropped.
DropOoseq ==
  /\ ooseq /= <<>>
  /\ ooseq' = <<>>
  /\ UNCHANGED <<rcv_nxt, rcv_wnd, ann_wnd, ann_edge, ackDelay, got, unread, gotFin>>
  /\ UNCHANGED <<sender, network>>

-----------------------------------------------------------------------------
Init ==
  /\ written = 0 /\ finQueued = FALSE
  /\ unsent = <<>> /\ unacked = <<>>
  /\ snd_nxt = Iss /\ lastack = Iss
  /\ snd_wnd = TcpWnd /\ snd_wl2 = Iss
  /\ inFR = FALSE /\ rtime = FALSE /\ persist = FALSE
  /\ rcv_nxt = Iss /\ rcv_wnd = TcpWnd
  /\ ann_wnd = TcpWnd /\ ann_edge = Plus(Iss, TcpWnd)
  /\ ooseq = <<>> /\ ackDelay = FALSE
  /\ got = <<>> /\ unread = 0 /\ gotFin = FALSE
  /\ net = <<>> /\ acks = <<>> /\ faults = 0

Next ==
  \/ \E n \in 1 .. Total : Write(n)
  \/ Close
  \/ Poll
  \/ RetransmitTimeout
  \/ ZeroWindowProbe
  \/ AckArrives
  \/ SegmentArrives
  \/ \E n \in 1 .. Total : Read(n)
  \/ FastTimer
  \/ DropOoseq
  \/ NetworkFault

Spec == Init /\ [][Next]_vars

\* The main loops go on: what has arrived is taken (SegmentArrives, AckArrives),
\* the timers run, and the application reports what it read.  Writing and
\* closing are up to the writer.
Taken(queue) == queue /= <<>> /\ queue' = Tail(queue)
Fairness ==
  /\ WF_net(Taken(net))
  /\ WF_acks(Taken(acks))
  /\ WF_vars(Poll \/ RetransmitTimeout \/ ZeroWindowProbe \/ FastTimer)
  /\ WF_vars(\E n \in 1 .. Total : Read(n))

FairSpec == Spec /\ Fairness

-----------------------------------------------------------------------------
(* Properties. *)

SeqNo == 0 .. M - 1
SegType(s) ==
  /\ s.seq \in SeqNo
  /\ s.data \in Seq(0 .. Total)
  /\ s.fin \in BOOLEAN

\* Every variable has its type.
TypeOK ==
  /\ written \in 0 .. Total
  /\ {snd_nxt, lastack, snd_wl2, rcv_nxt, ann_edge} \subseteq SeqNo
  /\ {snd_wnd, rcv_wnd, ann_wnd} \subseteq 0 .. WndMod - 1
  /\ {finQueued, inFR, rtime, persist, ackDelay, gotFin} \subseteq BOOLEAN
  /\ \A q \in {unsent, unacked, ooseq, net} : \A k \in DOMAIN q : SegType(q[k])
  /\ \A k \in DOMAIN acks : acks[k].ackno \in SeqNo /\ acks[k].wnd \in 0 .. WndMod - 1
  /\ got \in Seq(1 .. Total) /\ unread \in 0 .. TcpWnd
  /\ faults \in 0 .. MaxFaults

\* The places in the stream a segment holds, the place of the FIN included.
Places(s) == {Minus(Plus(s.seq, i), Iss) : i \in 0 .. TcpLen(s) - 1}
Genuine(s) ==
  /\ \A i \in DOMAIN s.data : s.data[i] = Minus(s.seq, Iss) + i
  /\ s.fin => Minus(s.seq, Iss) + Len(s.data) = written

\* Nothing is forgotten and nothing is queued twice: whatever is not yet
\* acknowledged is in exactly one segment of unsent and unacked, with the bytes
\* that were written, however often segments moved between the two queues
\* (tcp_output, tcp_rexmit, tcp_rexmit_rto, tcp_receive).
EveryByteQueuedOnce ==
  LET q == unacked \o unsent
      end == written - (IF finQueued THEN 0 ELSE 1)
  IN  /\ \A k \in DOMAIN q : Genuine(q[k])
      /\ \A j, k \in DOMAIN q : j /= k => Places(q[j]) \cap Places(q[k]) = {}
      /\ Minus(lastack, Iss) .. end
            \subseteq UNION {Places(q[k]) : k \in DOMAIN q}

\* ooseq is what tcp_receive relies on when it merges: segments beyond rcv_nxt,
\* in order, that do not overlap, a FIN in the last one only.
OoseqInOrder ==
  /\ TypeOK
  /\ \A k \in DOMAIN ooseq :
       /\ GT(ooseq[k].seq, rcv_nxt)
       /\ ooseq[k].fin => k = Len(ooseq)
  /\ \A k \in 1 .. Len(ooseq) - 1 : LEQ(DataEnd(ooseq[k]), ooseq[k + 1].seq)

\* The window is the room: what the application has not reported by tcp_recved
\* is missing from rcv_wnd, and nothing else (a FIN's place is given back).
WindowIsRoom == rcv_wnd + unread = TcpWnd

\* The right edge announced never lies beyond the room there is: the peer may
\* use all of it.
AnnouncedIsRoom == LEQ(ann_edge, Plus(rcv_nxt, rcv_wnd))

\* The two windows of the receiver (tcp_input, tcp_update_rcv_ann_wnd,
\* tcp_recved) are the room of its reader.
WindowsAreRoom == WindowIsRoom /\ AnnouncedIsRoom

\* "keep the right edge of window constant" (tcp.c:553): the window announced
\* never shrinks.
RightEdgeNeverShrinks == [][GEQ(ann_edge', ann_edge)]_vars

\* What was sent and is not acknowledged has a timer that sends it again.
RetransmissionArmed == unacked /= <<>> => rtime

\* The connection is a stream: the bytes delivered are the bytes written, in
\* order and once, and the end comes last.
Pipe == INSTANCE Stream WITH
  Byte    <- 1 .. Total,
  written <- [i \in 1 .. written |-> i],
  closed  <- finQueued,
  ended   <- gotFin
ImplementsStream == Pipe!Spec

Delivered == Len(got) = written /\ gotFin = finQueued

\* The sender is stuck: nothing is in flight and the next segment is wider than
\* a window that is small and not zero.  The persist timer only runs when the
\* window is zero, so that a lost window update is not asked for.
Stuck ==
  /\ unacked = <<>> /\ unsent /= <<>> /\ ~persist
  /\ Minus(DataEnd(Head(unsent)), lastack) > snd_wnd

\* Whatever was written arrives, and the end after it, although segments and
\* ACKs are lost, unless the sender gets stuck for the loss of a window update.
ArrivesOrStuck == <>[]Delivered \/ <>[]Stuck
=============================================================================
