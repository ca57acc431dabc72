---------------------------- MODULE TcpUserProofs ----------------------------
(***************************************************************************)
(* The invariants of TcpUser, for any number of pcbs, any window, any      *)
(* range of the timer counter, and any application that keeps to           *)
(* WellBehaved.                                                            *)
(*                                                                         *)
(* IInv is inductive.  Beyond the lists it says, of each pcb, what its     *)
(* state tells of refused_data, the FIN and the application's pointer      *)
(* (PcbOK); which functions of the stack can wait for which callbacks      *)
(* (Shape); of each of them, what it may rely on when it goes on with its  *)
(* pcb, and that it does not when the pcb was freed: its callback returns  *)
(* ERR_ABRT or tcp_active_pcbs_changed is set (FrameOK); and of a walk of  *)
(* the timers, that what is neither ahead of it nor processed is no longer *)
(* on the list (WalkOK).  One lemma for each action follows.               *)
(*                                                                         *)
(* The last part is about the server of app_tcp.c (AppTcp), which does not *)
(* keep to WellBehaved: what holds of it until it uses a freed pcb (SInv), *)
(* and that one step of it alone can do that (Doomed).                     *)
(***************************************************************************)
EXTENDS TcpUser, AppTcp, SequenceTheorems, TLAPS

\* What an application must not do in callbacks (see MayClose and Results).
WellBehaved ==
  CallbackOps \cap {"new", "closeUnread", "closeRefused", "closeAccept", "refuseLate"} = {}

\* The SYNs were exchanged.
Sync == {"ESTABLISHED", "FIN_WAIT_1", "FIN_WAIT_2", "CLOSE_WAIT", "CLOSING",
         "LAST_ACK", "TIME_WAIT"}
\* The FIN of the other end was received.
Late == {"CLOSE_WAIT", "CLOSING", "LAST_ACK", "TIME_WAIT"}
\* Our FIN was queued.
Finished == {"FIN_WAIT_1", "FIN_WAIT_2", "CLOSING", "LAST_ACK"}

\* ListsAgree without the types.
Lists ==
  /\ active = {p \in Pcb : st[p] \in ActiveState}
  /\ tw = {p \in Pcb : st[p] = "TIME_WAIT"}

\* The timers; the callbacks that return a result to tcp_input or to
\* tcp_process_refused_data; the places where the segment in hand was received
\* already; the places that have a pcb; and what can be above another record.
Walks == {"fast", "slow"}
Answering == {"accept", "connected", "sent", "recv", "eof", "rrecv", "reof"}
Given == {"d.sent", "sent", "d.recv", "recv", "d.fin", "eof", "rrecv", "reof"}
Conn == Answering \cup Given \cup {"process", "drop", "d.out", "poll"}
Above == {"err", "poll", "rrecv", "reof"}

\* Where records can be.
Shape(s) ==
  /\ \A i \in DOMAIN s :
       /\ i = 1 => s[i].at \notin {"rrecv", "reof", "poll"}
       /\ i > 1 => s[i].at \in Above
       /\ i > 2 => s[i].at = "err"
  /\ Len(s) > 1 /\ s[2].at \in {"rrecv", "reof"} => s[1].at \in {"process", "fast"}
  /\ Len(s) > 1 /\ s[1].at = "process" =>
       /\ s[2].at \in {"rrecv", "reof"} /\ s[2].p = s[1].p
       /\ (s[2].dead <=> s[1].dead)

\* The segment fits the window, if it will be received.
Room(p, s, S, U) ==
  S[p] \in {"SYN_RCVD", "ESTABLISHED", "FIN_WAIT_1", "FIN_WAIT_2"} => U[p] + SegLen(s) <= Window

\* What a function relies on that will use its pcb again.
LiveOK(f, S, U, R) ==
  /\ f.at = "process" => /\ S[f.p] \in ActiveState
                         /\ Room(f.p, f.seg, S, U)
                         /\ f.seg.sent => S[f.p] \in Sync
  /\ f.at = "accept" => S[f.p] = "ESTABLISHED" /\ Room(f.p, f.seg, S, U)
  /\ f.at = "drop" => S[f.p] \in ActiveState /\ f.p \notin R
  /\ f.at \in Answering => S[f.p] \in Sync
  /\ f.at \in Given => /\ f.seg.sent \/ f.seg.data => S[f.p] \in Sync
                       /\ f.seg.fin => S[f.p] \in Late
  /\ f.at \in {"eof", "reof"} => f.seg.fin
  /\ ~f.ab

\* A record whose pcb was freed belongs to a callback that returns ERR_ABRT.
FrameOK(f, S, U, R, C) ==
  /\ f.at \in Conn => f.p \in Pcb
  /\ f.at \in Answering => (f.dead <=> f.ab)
  /\ f.at = "poll" /\ (f.dead \/ S[f.p] \notin ActiveState) => C
  /\ f.at = "drop" => ~f.dead
  /\ f.at \in Conn \ {"poll"} /\ ~f.dead => LiveOK(f, S, U, R)

Frames == \A i \in DOMAIN stack : FrameOK(stack[i], st, unread, ref, changed)

\* The FIN of the other end is on its way to the application.
EndingIn(f, p) ==
  f.p = p /\ ~f.dead /\ f.seg.fin
  /\ f.at \in {"d.sent", "sent", "d.recv", "recv", "d.fin", "eof"}
Ending(p) == stack /= <<>> /\ EndingIn(stack[1], p)

Dropped(p) == stack /= <<>> /\ stack[1].at = "drop" /\ stack[1].p = p

\* What the state of a pcb says of the rest of it, and of who holds it.
PcbOK(p) ==
  /\ refused[p] /= "none" =>
       st[p] \in {"ESTABLISHED", "FIN_WAIT_1", "FIN_WAIT_2", "CLOSE_WAIT", "LAST_ACK"}
  /\ refused[p] = "dataFin" => st[p] \in Late
  /\ st[p] = "FREE" => p \notin rx /\ p \notin ref
  /\ st[p] \in Finished => fin[p] /= "none"
  /\ fin[p] /= "none" => st[p] \in Finished \cup {"TIME_WAIT"}
  /\ p \in rx /\ fin[p] /= "none" => p \notin ref
  /\ st[p] = "SYN_RCVD" => p \notin ref
  /\ p \in ref /\ st[p] \in {"CLOSING", "TIME_WAIT"} => Ending(p)
  /\ st[p] \in {"CLOSED", "SYN_SENT", "ESTABLISHED", "CLOSE_WAIT"} => p \in ref \/ Dropped(p)

\* What is not ahead of a walk was processed in this tick.
WalkOK ==
  stack /= <<>> /\ stack[1].at \in Walks /\ ~changed =>
    /\ stack[1].rest \subseteq active
    /\ \A p \in active : p \in stack[1].rest \/ lag[p] = 0

IInv ==
  /\ TypeOK
  /\ Lists
  /\ \A p \in Pcb : PcbOK(p)
  /\ Shape(stack)
  /\ Frames
  /\ WalkOK
  /\ ~fault

-----------------------------------------------------------------------------
(* Segments and records. *)

AnySeg == Seg \cup [k : {"none"}, ack : {FALSE}, data : BOOLEAN, fin : BOOLEAN, sent : {FALSE}]
Place == Callback \cup Inside

\* The fields of a segment, one that came or one that was kept.
LEMMA SegFields ==
  ASSUME NEW s \in AnySeg
  PROVE  /\ s.k \in {"rst", "synack", "syn", "seg", "none"}
         /\ s.ack \in BOOLEAN /\ s.data \in BOOLEAN /\ s.fin \in BOOLEAN /\ s.sent \in BOOLEAN
         /\ s.k \in {"rst", "synack", "syn"} => ~s.data /\ ~s.fin
         /\ s.k \in {"rst", "synack"} => ~s.sent
         /\ SegLen(s) \in Nat
         /\ SegLen(s) = 0 <=> ~s.data /\ ~s.fin
<1>1. /\ s.k \in {"rst", "synack", "syn", "seg", "none"}
      /\ s.ack \in BOOLEAN /\ s.data \in BOOLEAN /\ s.fin \in BOOLEAN /\ s.sent \in BOOLEAN
      /\ s.k \in {"rst", "synack", "syn"} => ~s.data /\ ~s.fin
      /\ s.k \in {"rst", "synack"} => ~s.sent
  BY DEF AnySeg, Seg
<1> QED BY <1>1 DEF SegLen

\* A state that receives nothing keeps the ACK of a segment and loses the rest.
LEMMA GotFacts ==
  ASSUME NEW p, NEW s \in AnySeg
  PROVE  /\ Got(p, s) \in AnySeg
         /\ Got(p, s).k = s.k /\ Got(p, s).sent = s.sent
         /\ Receiving(p) => Got(p, s) = s
         /\ ~Receiving(p) => ~Got(p, s).data /\ ~Got(p, s).fin
         /\ Got(p, s).data => s.data
         /\ Got(p, s).fin => s.fin
  BY DEF AnySeg, Seg, Got

\* Refused data, with the FIN behind it or without.
LEMMA KeptFacts ==
  ASSUME NEW p
  PROVE  /\ Kept(p) \in AnySeg
         /\ Kept(p).data /\ ~Kept(p).sent
         /\ Kept(p).fin <=> refused[p] = "dataFin"
  BY DEF AnySeg, Kept, NoSeg

\* The fields of an activation record.
LEMMA FrameFields ==
  ASSUME NEW f \in Frame
  PROVE  /\ f.at \in Place /\ f.p \in Pcb \cup {NoPcb} /\ f.seg \in AnySeg
         /\ f.rest \in SUBSET Pcb /\ f.dead \in BOOLEAN /\ f.ab \in BOOLEAN
  BY DEF Frame, AnySeg, Place

Fields(a, p, s, r) ==
  a \in Place /\ p \in Pcb \cup {NoPcb} /\ s \in AnySeg /\ r \in SUBSET Pcb

\* A new record is one; and its fields are those given.
LEMMA RecFrame ==
  ASSUME NEW a, NEW p, NEW s, NEW r, Fields(a, p, s, r)
  PROVE  Rec(a, p, s, r) \in Frame
  BY DEF Rec, Fields, Frame, AnySeg, Place

\* The fields of a new record.
LEMMA RecFields ==
  ASSUME NEW f, NEW a, NEW p, NEW s, NEW r, f = Rec(a, p, s, r)
  PROVE  f.at = a /\ f.p = p /\ f.seg = s /\ f.rest = r /\ ~f.dead /\ ~f.ab
  BY DEF Rec

\* The record of a callback.
LEMMA CallFacts ==
  ASSUME NEW a \in Place, NEW p \in Pcb \cup {NoPcb}
  PROVE  \E f \in Frame : f = Call(a, p) /\ f.at = a /\ f.p = p /\ ~f.dead /\ ~f.ab
<1> DEFINE n == NoSeg
<1>1. Fields(a, p, n, {})
  BY DEF Fields, NoSeg, AnySeg
<1> HIDE DEF n
<1>2. PICK f : f = Rec(a, p, n, {})
  OBVIOUS
<1>3. f \in Frame
  BY <1>1, <1>2, RecFrame
<1>4. f.at = a /\ f.p = p /\ ~f.dead /\ ~f.ab
  BY <1>2, RecFields
<1>5. f = Call(a, p)
  BY <1>2 DEF Call, n
<1> QED BY <1>3, <1>4, <1>5

\* A record that moves on keeps all but its place.
LEMMA FrameGoto ==
  ASSUME NEW f \in Frame, NEW a \in Place
  PROVE  /\ [f EXCEPT !.at = a] \in Frame /\ [f EXCEPT !.at = a].p = f.p
         /\ [f EXCEPT !.at = a].at = a /\ [f EXCEPT !.at = a].seg = f.seg
         /\ [f EXCEPT !.at = a].rest = f.rest
         /\ [f EXCEPT !.at = a].dead = f.dead /\ [f EXCEPT !.at = a].ab = f.ab
  BY DEF Frame, Place

-----------------------------------------------------------------------------
(* Stacks. *)

IsOne(s, f) == s \in Seq(Frame) /\ Len(s) = 1 /\ s[1] = f
IsTwo(s, f, g) == s \in Seq(Frame) /\ Len(s) = 2 /\ s[1] = f /\ s[2] = g

\* An element of a sequence.
LEMMA SeqElement ==
  ASSUME NEW S, NEW s \in Seq(S), NEW i \in 1 .. Len(s)
  PROVE  s[i] \in S
  OBVIOUS

\* The records below the top one.
LEMMA StackFacts ==
  ASSUME stack \in Seq(Frame), stack /= <<>>
  PROVE  /\ Len(stack) \in Nat \ {0} /\ DOMAIN stack = 1 .. Len(stack)
         /\ Top \in Frame
         /\ Below \in Seq(Frame) /\ Len(Below) = Len(stack) - 1
         /\ DOMAIN Below = 1 .. Len(stack) - 1
         /\ \A i \in DOMAIN Below : Below[i] = stack[i]
<1>1. Len(stack) \in Nat \ {0} /\ DOMAIN stack = 1 .. Len(stack)
  OBVIOUS
<1>2. Top \in Frame
  BY <1>1 DEF Top
<1>3. /\ Below \in Seq(Frame) /\ Len(Below) = Len(stack) - 1
      /\ \A i \in 1 .. Len(stack) - 1 : Below[i] = stack[i]
  BY <1>1 DEF Below
<1> QED BY <1>1, <1>2, <1>3

\* A function of the stack that is not a callback is alone.
LEMMA Alone ==
  ASSUME stack \in Seq(Frame), stack /= <<>>, Shape(stack), Top.at \notin Above
  PROVE  IsOne(stack, Top) /\ Below = <<>>
<1>1. Len(stack) = 1
  BY StackFacts DEF Shape, Top
<1>2. Len(Below) = 0 /\ Below \in Seq(Frame)
  BY <1>1, StackFacts
<1> QED BY <1>1, <1>2, StackFacts DEF IsOne, Top

\* A stack of one record.
LEMMA OneFrame ==
  ASSUME NEW f \in Frame
  PROVE  IsOne(<<f>>, f)
  BY DEF IsOne

\* A stack of two records.
LEMMA TwoFrames ==
  ASSUME NEW f \in Frame, NEW g \in Frame
  PROVE  IsTwo(<<f>> \o <<g>>, f, g) /\ IsTwo(<<f, g>>, f, g)
  BY DEF IsTwo

\* An empty stack is in order.
LEMMA NoRecord ==
  ASSUME stack' = <<>>
  PROVE  /\ stack' \in Seq(Frame) /\ Shape(stack') /\ Frames' /\ WalkOK'
         /\ \A p \in Pcb : ~Ending(p)' /\ ~Dropped(p)'
  BY DEF Shape, Frames, WalkOK, Ending, Dropped

\* A stack of one record is in order when the record is.
LEMMA OneRecord ==
  ASSUME NEW f, IsOne(stack', f), f.at \notin {"rrecv", "reof", "poll"},
         FrameOK(f, st', unread', ref', changed')
  PROVE  Shape(stack') /\ Frames'
  BY DEF IsOne, Shape, Frames

\* So is one of two, when the upper one may be above the lower one.
LEMMA TwoRecords ==
  ASSUME NEW f, NEW g, IsTwo(stack', f, g),
         f.at \notin {"rrecv", "reof", "poll"}, g.at \in Above,
         g.at \in {"rrecv", "reof"} => f.at \in {"process", "fast"},
         f.at = "process" => g.at \in {"rrecv", "reof"} /\ g.p = f.p /\ (g.dead <=> f.dead),
         FrameOK(f, st', unread', ref', changed'),
         FrameOK(g, st', unread', ref', changed')
  PROVE  Shape(stack') /\ Frames'
  BY DEF IsTwo, Shape, Frames

\* The top record moves on.
Moved(a, s) == stack' = [stack EXCEPT ![Len(stack)].at = a, ![Len(stack)].seg = s]

\* One record put in the place of another.
LEMMA Replaced ==
  ASSUME NEW f \in Frame, NEW s \in Seq(Frame), Len(s) = 1
  PROVE  IsOne([s EXCEPT ![1] = f], f)
  BY DEF IsOne

\* The only record moves on with another segment.
LEMMA GotoSeg ==
  ASSUME IsOne(stack, Top), NEW a \in Place, NEW s \in AnySeg, Moved(a, s)
  PROVE  \E g \in Frame : /\ IsOne(stack', g)
                          /\ g.at = a /\ g.p = Top.p /\ g.seg = s /\ g.rest = Top.rest
                          /\ g.dead = Top.dead /\ g.ab = Top.ab
<1> DEFINE g == [Top EXCEPT !.at = a, !.seg = s]
<1>1. /\ Top \in Frame /\ Top = stack[1]
      /\ stack \in Seq(Frame) /\ Len(stack) = 1
  BY SeqElement DEF IsOne, Top
<1>2. g \in Frame /\ g.at = a /\ g.p = Top.p /\ g.seg = s /\ g.rest = Top.rest
                  /\ g.dead = Top.dead /\ g.ab = Top.ab
  BY <1>1 DEF Frame, AnySeg, Place
<1>3. stack' = [stack EXCEPT ![1] = g]
  BY <1>1 DEF Moved
<1> HIDE DEF g
<1>4. IsOne(stack', g)
  BY <1>1, <1>2, <1>3, Replaced
<1> QED BY <1>2, <1>4

\* The only record moves on with the same segment.
LEMMA GotoOne ==
  ASSUME IsOne(stack, Top), NEW a \in Place, Goto(a)
  PROVE  \E g \in Frame : /\ IsOne(stack', g)
                          /\ g.at = a /\ g.p = Top.p /\ g.seg = Top.seg /\ g.rest = Top.rest
                          /\ g.dead = Top.dead /\ g.ab = Top.ab
<1> DEFINE g == [Top EXCEPT !.at = a]
<1>1. /\ Top \in Frame /\ Top = stack[1]
      /\ stack \in Seq(Frame) /\ Len(stack) = 1
  BY SeqElement DEF IsOne, Top
<1>2. g \in Frame /\ g.at = a /\ g.p = Top.p /\ g.seg = Top.seg /\ g.rest = Top.rest
                  /\ g.dead = Top.dead /\ g.ab = Top.ab
  BY <1>1 DEF Frame, Place
<1>3. stack' = [stack EXCEPT ![1] = g]
  BY <1>1 DEF Goto
<1> HIDE DEF g
<1>4. IsOne(stack', g)
  BY <1>1, <1>2, <1>3, Replaced
<1> QED BY <1>2, <1>4

\* Concatenation with the empty stack.
LEMMA Joined ==
  ASSUME NEW f \in Frame
  PROVE  <<>> \o <<f>> = <<f>> /\ <<f>> \o <<>> = <<f>>
<1>1. <<>> \o <<f>> = <<f>>
  OBVIOUS
<1>2. <<f>> \o <<>> = <<f>>
  OBVIOUS
<1> QED BY <1>1, <1>2

-----------------------------------------------------------------------------
(* The parts of the invariant, one pcb or one record at a time. *)

\* A function of the stack that is not a callback on another one.
LEMMA InsideFacts ==
  ASSUME IInv, stack /= <<>>, Top.at \notin Above
  PROVE  /\ IsOne(stack, Top) /\ Top \in Frame /\ Below = <<>> /\ stack[1] = Top
         /\ FrameOK(Top, st, unread, ref, changed)
         /\ \A p : Ending(p) <=> EndingIn(Top, p)
         /\ \A p : Dropped(p) <=> Top.at = "drop" /\ Top.p = p
<1>1. stack \in Seq(Frame) /\ Shape(stack) /\ Frames
  BY DEF IInv, TypeOK
<1>2. IsOne(stack, Top) /\ Below = <<>>
  BY <1>1, Alone
<1>3. Top \in Frame
  BY <1>1, StackFacts
<1>4. stack[1] = Top /\ 1 \in DOMAIN stack
  BY <1>2 DEF IsOne
<1>5. FrameOK(Top, st, unread, ref, changed)
  BY <1>1, <1>4 DEF Frames
<1> QED BY <1>2, <1>3, <1>4, <1>5 DEF Ending, Dropped

\* What the next stack of one record says of the pcbs.
LEMMA SegNext ==
  ASSUME NEW f, IsOne(stack', f)
  PROVE  /\ stack' \in Seq(Frame) /\ stack' /= <<>> /\ stack'[1] = f
         /\ \A p : Ending(p)' <=> EndingIn(f, p)
         /\ \A p : Dropped(p)' <=> f.at = "drop" /\ f.p = p
  BY DEF IsOne, Ending, Dropped

\* What the next stack of two records says of the pcbs.
LEMMA TwoNext ==
  ASSUME NEW f, NEW g, IsTwo(stack', f, g)
  PROVE  /\ stack' \in Seq(Frame) /\ stack' /= <<>> /\ stack'[1] = f
         /\ \A p : Ending(p)' <=> EndingIn(f, p)
         /\ \A p : Dropped(p)' <=> f.at = "drop" /\ f.p = p
  BY DEF IsTwo, Ending, Dropped

\* A pcb the step leaves alone.
LEMMA PcbSame ==
  ASSUME NEW p \in Pcb, PcbOK(p),
         st'[p] = st[p], refused'[p] = refused[p],
         fin'[p] = "none" <=> fin[p] = "none",
         p \in rx' <=> p \in rx, p \in ref' <=> p \in ref,
         Ending(p) /\ p \in ref => Ending(p)', Dropped(p) => Dropped(p)'
  PROVE  PcbOK(p)'
  BY DEF PcbOK

\* A pcb in the pool is in order.
LEMMA PcbFree ==
  ASSUME NEW p \in Pcb, st'[p] = "FREE", refused'[p] = "none", fin'[p] = "none",
         p \notin rx', p \notin ref'
  PROVE  PcbOK(p)'
  BY DEF PcbOK, Late, Finished

\* The same data and lists, another stack.
LEMMA SamePcbs ==
  ASSUME IInv, UNCHANGED <<st, refused, fin, rx, ref>>,
         \A p \in Pcb : (Ending(p) /\ p \in ref => Ending(p)') /\ (Dropped(p) => Dropped(p)')
  PROVE  \A p \in Pcb : PcbOK(p)'
  BY PcbSame DEF IInv

\* Without a walk of the timers there is nothing to say of it.
LEMMA NoWalk ==
  ASSUME stack' /= <<>> => stack'[1].at \notin Walks
  PROVE  WalkOK'
  BY DEF WalkOK

\* memp_free.
LEMMA ReleaseFacts ==
  ASSUME TypeOK, Lists, NEW p \in Pcb, Release(p),
         active' = active \ {p}, tw' = tw \ {p}
  PROVE  /\ st' \in [Pcb -> State] /\ rx' \in SUBSET Pcb
         /\ unread' \in [Pcb -> 0 .. Window]
         /\ refused' \in [Pcb -> {"none", "data", "dataFin"}]
         /\ fin' \in [Pcb -> {"none", "unsent", "sent"}]
         /\ lag' \in [Pcb -> 0 .. CtrMod - 1]
         /\ active' \in SUBSET Pcb /\ tw' \in SUBSET Pcb
         /\ Lists'
         /\ st'[p] = "FREE" /\ refused'[p] = "none" /\ fin'[p] = "none" /\ p \notin rx'
         /\ unread'[p] = 0
         /\ \A q \in Pcb \ {p} : /\ st'[q] = st[q] /\ refused'[q] = refused[q]
                                 /\ fin'[q] = fin[q] /\ unread'[q] = unread[q]
                                 /\ lag'[q] = lag[q]
                                 /\ q \in rx' <=> q \in rx
<1>1. "FREE" \in State /\ "FREE" \notin ActiveState
  BY DEF State, ActiveState
<1>2. 0 \in 0 .. Window /\ 0 \in 0 .. CtrMod - 1
  BY WindowAssumption, CtrAssumption
<1>3. /\ st' \in [Pcb -> State] /\ rx' \in SUBSET Pcb
      /\ st'[p] = "FREE" /\ p \notin rx'
      /\ \A q \in Pcb \ {p} : st'[q] = st[q] /\ (q \in rx' <=> q \in rx)
  BY <1>1 DEF TypeOK, Release
<1>4. /\ unread' \in [Pcb -> 0 .. Window] /\ lag' \in [Pcb -> 0 .. CtrMod - 1]
      /\ unread'[p] = 0
      /\ \A q \in Pcb \ {p} : unread'[q] = unread[q] /\ lag'[q] = lag[q]
  BY <1>2 DEF TypeOK, Release
<1>5. /\ refused' \in [Pcb -> {"none", "data", "dataFin"}]
      /\ fin' \in [Pcb -> {"none", "unsent", "sent"}]
      /\ refused'[p] = "none" /\ fin'[p] = "none"
      /\ \A q \in Pcb \ {p} : refused'[q] = refused[q] /\ fin'[q] = fin[q]
  BY DEF TypeOK, Release
<1>6. active' \in SUBSET Pcb /\ tw' \in SUBSET Pcb
  BY DEF TypeOK
<1>7. active' = {q \in Pcb : st'[q] \in ActiveState}
  BY <1>1, <1>3 DEF Lists
<1>8. tw' = {q \in Pcb : st'[q] = "TIME_WAIT"}
  BY <1>3 DEF Lists
<1> QED BY <1>3, <1>4, <1>5, <1>6, <1>7, <1>8 DEF Lists

\* A list a pcb is not on.
LEMMA OffList ==
  ASSUME TypeOK, Lists, NEW p \in Pcb
  PROVE  /\ p \in active <=> st[p] \in ActiveState
         /\ p \in tw <=> st[p] = "TIME_WAIT"
         /\ p \notin active => active \ {p} = active
         /\ p \notin tw => tw \ {p} = tw
         /\ p \in active => p \notin tw
  BY DEF Lists, ActiveState

-----------------------------------------------------------------------------
(* Records that stay while a pcb changes. *)

Roomy == {"SYN_RCVD", "ESTABLISHED", "FIN_WAIT_1", "FIN_WAIT_2"}

\* The pcb of the record changes its state as the record allows, or not at all.
LEMMA FrameStays ==
  ASSUME NEW f \in Frame, FrameOK(f, st, unread, ref, changed),
         changed \in BOOLEAN, changed' \in BOOLEAN, changed => changed',
         f.p \in ref' => f.p \in ref \/ f.at /= "drop",
         f.at \in Conn => /\ unread[f.p] \in Nat /\ unread'[f.p] \in Nat
                          /\ unread'[f.p] <= unread[f.p],
         f.at \in Conn =>
           \/ st'[f.p] = st[f.p]
           \/ /\ f.at = "poll" => st'[f.p] \in ActiveState \/ changed'
              /\ st[f.p] \in Sync => st'[f.p] \in Sync
              /\ st[f.p] \in Late => st'[f.p] \in Late
              /\ f.at \in {"drop", "accept"} => f.dead
              /\ f.at = "process" => /\ st'[f.p] \in ActiveState
                                     /\ st'[f.p] \in Roomy => st[f.p] \in Roomy
           \/ (f.dead /\ f.at /= "poll")
  PROVE  FrameOK(f, st', unread', ref', changed')
<1>1. SegLen(f.seg) \in Nat /\ f.dead \in BOOLEAN /\ f.ab \in BOOLEAN
  BY FrameFields, SegFields
<1>2. CASE f.at \notin Conn
  BY <1>2 DEF FrameOK, Conn, Answering
<1>3. CASE f.at \in Conn /\ f.dead
  BY <1>1, <1>3 DEF FrameOK
<1>4. CASE f.at = "poll" /\ ~f.dead
  BY <1>1, <1>4 DEF FrameOK, Answering, Conn
<1>5. CASE f.at \in Conn \ {"poll"} /\ ~f.dead
  <2>1. LiveOK(f, st, unread, ref) /\ (f.at \in Answering => (f.dead <=> f.ab)) /\ f.p \in Pcb
    BY <1>5 DEF FrameOK
  <2>2. unread[f.p] \in Nat /\ unread'[f.p] \in Nat /\ unread'[f.p] <= unread[f.p]
    BY <1>5
  <2>3. st'[f.p] \in Roomy => st[f.p] \in Roomy \/ f.at /= "process"
    BY <1>5
  <2>4. f.at = "process" \/ f.at = "accept" =>
          (Room(f.p, f.seg, st, unread) => Room(f.p, f.seg, st', unread'))
    BY <1>1, <1>5, <2>2, <2>3, WindowAssumption DEF Room, Roomy
  <2>5. LiveOK(f, st', unread', ref')
    BY <1>5, <2>1, <2>4 DEF LiveOK, Conn
  <2> QED BY <1>5, <2>1, <2>5 DEF FrameOK
<1> QED BY <1>2, <1>3, <1>4, <1>5

\* The pcb of the record was freed.
LEMMA FrameDies ==
  ASSUME NEW f, NEW g \in Frame, FrameOK(f, st, unread, ref, changed),
         g.at = f.at, g.p = f.p, g.dead,
         f.at \in Answering => g.ab,
         f.at = "poll" => changed',
         f.at /= "drop"
  PROVE  FrameOK(g, st', unread', ref', changed')
  BY DEF FrameOK

-----------------------------------------------------------------------------
(* Steps that leave the lists alone. *)

\* A step that changes no state: what is left to show.
LEMMA QuietLists ==
  ASSUME IInv, UNCHANGED <<st, active, tw, fault>>,
         rx' \in SUBSET Pcb, ref' \in SUBSET Pcb,
         unread' \in [Pcb -> 0 .. Window],
         refused' \in [Pcb -> {"none", "data", "dataFin"}],
         fin' \in [Pcb -> {"none", "unsent", "sent"}],
         lag' \in [Pcb -> 0 .. CtrMod - 1],
         changed' \in BOOLEAN,
         stack' \in Seq(Frame), Shape(stack'), Frames', WalkOK',
         \A q \in Pcb : PcbOK(q)'
  PROVE  IInv'
<1>1. TypeOK'
  BY DEF IInv, TypeOK
<1>2. Lists' /\ ~fault'
  BY DEF IInv, Lists
<1> QED BY <1>1, <1>2 DEF IInv

\* The parts of the invariant, variable by variable.
LEMMA SameTypes ==
  ASSUME IInv
  PROVE  /\ st \in [Pcb -> State] /\ active \in SUBSET Pcb /\ tw \in SUBSET Pcb
         /\ rx \in SUBSET Pcb /\ ref \in SUBSET Pcb
         /\ unread \in [Pcb -> 0 .. Window]
         /\ refused \in [Pcb -> {"none", "data", "dataFin"}]
         /\ fin \in [Pcb -> {"none", "unsent", "sent"}]
         /\ lag \in [Pcb -> 0 .. CtrMod - 1]
         /\ changed \in BOOLEAN /\ fault = FALSE
         /\ stack \in Seq(Frame)
         /\ TypeOK /\ Lists /\ Shape(stack) /\ Frames /\ WalkOK
         /\ \A q \in Pcb : PcbOK(q)
  BY DEF IInv, TypeOK

\* A step that changes only the stack.
LEMMA Quiet ==
  ASSUME IInv, UNCHANGED <<st, active, tw, conn, lag, changed, ref, fault>>,
         stack' \in Seq(Frame), Shape(stack'), Frames', WalkOK',
         \A q \in Pcb : (Ending(q) /\ q \in ref => Ending(q)') /\ (Dropped(q) => Dropped(q)')
  PROVE  IInv'
<1>1. \A q \in Pcb : PcbOK(q)'
  BY SamePcbs DEF conn
<1> QED BY <1>1, SameTypes, QuietLists DEF conn

\* A step that leaves one record and changes nothing else.
LEMMA QuietOne ==
  ASSUME IInv, UNCHANGED <<st, active, tw, conn, lag, changed, ref, fault>>,
         NEW g, IsOne(stack', g), g.at \notin Walks \cup {"rrecv", "reof", "poll"},
         FrameOK(g, st, unread, ref, changed),
         \A q \in Pcb : /\ Ending(q) /\ q \in ref => EndingIn(g, q)
                        /\ Dropped(q) => g.at = "drop" /\ g.p = q
  PROVE  IInv'
<1>1. /\ stack' \in Seq(Frame) /\ stack'[1] = g
      /\ \A q \in Pcb : (Ending(q) /\ q \in ref => Ending(q)') /\ (Dropped(q) => Dropped(q)')
  BY SegNext
<1>2. FrameOK(g, st', unread', ref', changed')
  BY DEF conn
<1>3. Shape(stack') /\ Frames'
  BY <1>2, OneRecord
<1>4. WalkOK'
  BY <1>1, NoWalk
<1> QED BY <1>1, <1>3, <1>4, Quiet

\* A step that leaves no record and changes nothing else.
LEMMA QuietEnd ==
  ASSUME IInv, UNCHANGED <<st, active, tw, conn, lag, changed, ref, fault>>,
         stack' = <<>>,
         \A q \in Pcb : ~Dropped(q) /\ (Ending(q) => q \notin ref)
  PROVE  IInv'
<1>1. \A q \in Pcb : PcbOK(q)'
  <2> TAKE q \in Pcb
  <2> QED BY SameTypes DEF PcbOK, conn
<1> QED BY <1>1, NoRecord, SameTypes, QuietLists DEF conn

-----------------------------------------------------------------------------
(* tcp_input. *)

\* tcp_input finds its pcb; its invariant is that of the segment in hand.
LEMMA TcpInputStep ==
  ASSUME IInv, NEW p \in Pcb, NEW s \in Seg, TcpInput(p, s)
  PROVE  IInv'
<1>1. /\ stack = <<>> /\ p \in active /\ Fits(p, s)
      /\ s.sent => st[p] \notin {"SYN_SENT", "SYN_RCVD"}
      /\ UNCHANGED <<st, active, tw, rx, unread, fin, lag, changed, ref, fault>>
  BY DEF TcpInput
<1>2. st[p] \in ActiveState /\ unread[p] \in Nat
  BY <1>1, SameTypes DEF Lists
<1> DEFINE k == Kept(p)
<1> HIDE DEF k
<1>20. Fields("process", p, s, {})
  BY DEF Fields, Place, Inside, AnySeg
<1>21. Fields("rrecv", p, k, {}) /\ k.data /\ ~k.sent /\ (k.fin <=> refused[p] = "dataFin")
  BY KeptFacts DEF k, Fields, Place, Callback
<1>22. PICK f : f = Rec("process", p, s, {})
  OBVIOUS
<1>3. f \in Frame /\ f.at = "process" /\ f.p = p /\ f.seg = s /\ ~f.dead /\ ~f.ab
  BY <1>20, <1>22, RecFrame, RecFields
<1>4. FrameOK(f, st', unread', ref', changed')
  <2>1. Room(p, s, st, unread)
    BY <1>1 DEF Fits, Room, Receiving
  <2>2. s.sent => st[p] \in Sync
    BY <1>1, <1>2 DEF ActiveState, Sync
  <2> QED BY <1>1, <1>2, <1>3, <2>1, <2>2 DEF FrameOK, LiveOK, Answering, Given
<1>23. PICK g : g = Rec("rrecv", p, k, {})
  OBVIOUS
<1>5. g \in Frame /\ g.at = "rrecv" /\ g.p = p /\ g.seg = k /\ ~g.dead /\ ~g.ab
  BY <1>21, <1>23, RecFrame, RecFields
<1>6. refused[p] /= "none" => FrameOK(g, st', unread', ref', changed')
  <2> SUFFICES ASSUME refused[p] /= "none"
               PROVE  FrameOK(g, st, unread, ref, changed)
    BY <1>1
  <2>1. PcbOK(p)
    BY SameTypes
  <2>2. st[p] \in Sync /\ (k.fin => st[p] \in Late)
    BY <1>21, <2>1 DEF PcbOK, Sync
  <2> QED BY <1>21, <1>5, <2>2 DEF FrameOK, LiveOK
<1>7. \A q \in Pcb : ~Ending(q) /\ ~Dropped(q)
  BY <1>1 DEF Ending, Dropped
<1>8. CASE refused[p] = "none"
  <2>1. stack' = <<f>> /\ UNCHANGED refused
    BY <1>22, <1>8 DEF TcpInput
  <2>2. IsOne(stack', f)
    BY <1>3, <2>1, OneFrame
  <2> QED BY <1>1, <1>3, <1>4, <1>7, <2>1, <2>2, QuietOne DEF conn, Walks
<1>9. CASE refused[p] /= "none"
  <2>1. stack' = <<f, g>> /\ refused' = [refused EXCEPT ![p] = "none"]
    BY <1>22, <1>23, <1>9 DEF TcpInput, k
  <2>2. IsTwo(stack', f, g)
    BY <1>3, <1>5, <2>1, TwoFrames
  <2>3. Shape(stack') /\ Frames'
    BY <1>3, <1>4, <1>5, <1>6, <1>9, <2>2, TwoRecords DEF Above
  <2>4. stack' \in Seq(Frame) /\ WalkOK'
    BY <1>3, <2>2, TwoNext, NoWalk DEF Walks
  <2>5. refused' \in [Pcb -> {"none", "data", "dataFin"}]
    BY <2>1, SameTypes
  <2>6. \A q \in Pcb : PcbOK(q)'
    <3> TAKE q \in Pcb
    <3>1. PcbOK(q) /\ refused'[q] \in {"none", refused[q]}
      BY <2>1, SameTypes
    <3> QED BY <1>1, <1>7, <3>1 DEF PcbOK
  <2> QED BY <1>1, <2>3, <2>4, <2>5, <2>6, SameTypes, QuietLists
<1> QED BY <1>8, <1>9

\* What holds while tcp_process looks at a segment.
LEMMA ProcessFacts ==
  ASSUME IInv, Processing
  PROVE  /\ IsOne(stack, Top) /\ Top \in Frame /\ Below = <<>> /\ stack[1] = Top
         /\ stack /= <<>> /\ Len(stack) = 1
         /\ Top.at = "process" /\ Top.p \in Pcb /\ Top.seg \in AnySeg
         /\ ~Top.dead /\ ~Top.ab /\ Top.dead \in BOOLEAN /\ Top.ab \in BOOLEAN
         /\ st[Top.p] \in ActiveState /\ Top.p \in active
         /\ Room(Top.p, Top.seg, st, unread)
         /\ Top.seg.sent => st[Top.p] \in Sync
         /\ \A q : ~Ending(q) /\ ~Dropped(q)
         /\ PcbOK(Top.p)
<1>1. stack /= <<>> /\ Top.at = "process" /\ ~Top.dead
  BY DEF Processing, At
<1>2. /\ IsOne(stack, Top) /\ Top \in Frame /\ Below = <<>> /\ stack[1] = Top
      /\ FrameOK(Top, st, unread, ref, changed)
      /\ \A q : ~Ending(q) /\ ~Dropped(q)
  BY <1>1, InsideFacts DEF Above, EndingIn
<1>3. Top.p \in Pcb /\ LiveOK(Top, st, unread, ref)
  BY <1>1, <1>2 DEF FrameOK, Conn
<1>4. Top.p \in active /\ PcbOK(Top.p)
  BY <1>1, <1>3, SameTypes DEF Lists, LiveOK
<1>5. Top.seg \in AnySeg /\ Top.dead \in BOOLEAN /\ Top.ab \in BOOLEAN
  BY <1>2, FrameFields
<1>6. Len(stack) = 1
  BY <1>2 DEF IsOne
<1> QED BY <1>1, <1>2, <1>3, <1>4, <1>5, <1>6 DEF LiveOK

\* The application refused again: nothing happens to the pcb.
LEMMA DropRefusedStep ==
  ASSUME IInv, DropRefused
  PROVE  IInv'
<1>1. Processing /\ stack' = Below \o <<>>
      /\ UNCHANGED <<st, active, tw, conn, lag, changed, ref, fault>>
  BY DEF DropRefused, Return
<1>2. stack' = <<>> /\ \A q : ~Ending(q) /\ ~Dropped(q)
  BY <1>1, ProcessFacts
<1> QED BY <1>1, <1>2, QuietEnd

\* TF_RESET and TF_CLOSED.
LEMMA KillStep ==
  ASSUME IInv, Processing, NEW told \in BOOLEAN, Kill(Top.p, told),
         told \/ Top.p \notin ref
  PROVE  IInv'
<1> DEFINE p == Top.p
           f == [Top EXCEPT !.at = "drop"]
<1>1. /\ Top \in Frame /\ Below = <<>> /\ p \in Pcb /\ st[p] \in ActiveState
      /\ Top.at = "process" /\ ~Top.dead /\ ~Top.ab
      /\ \A q : ~Ending(q) /\ ~Dropped(q)
  BY ProcessFacts
<1>2. f \in Frame /\ f.at = "drop" /\ f.p = p /\ ~f.dead /\ ~f.ab
  BY <1>1, FrameGoto DEF Place, Inside
<1>3. PICK e \in Frame : e = Call("err", p) /\ e.at = "err"
  <2>1. "err" \in Place /\ p \in Pcb \cup {NoPcb}
    BY <1>1 DEF Place, Callback
  <2> QED BY <2>1, CallFacts
<1>4. /\ UNCHANGED <<st, active, tw, conn, lag, changed, fault>>
      /\ ref' \in SUBSET Pcb /\ ref' \subseteq ref /\ ref \ {p} \subseteq ref'
      /\ p \notin ref'
  BY SameTypes DEF Kill
<1>5. FrameOK(f, st', unread', ref', changed')
  <2> HIDE DEF f
  <2> QED BY <1>1, <1>2, <1>4 DEF FrameOK, LiveOK, Answering, Given, conn
<1>6. FrameOK(e, st', unread', ref', changed')
  <2> QED BY <1>3 DEF FrameOK, Conn, Answering, Given
<1>7. IsOne(stack', f) \/ IsTwo(stack', f, e)
  <2>1. stack' = <<>> \o <<f>> \o <<>> \/ stack' = <<>> \o <<f>> \o <<e>>
    BY <1>1, <1>3 DEF Kill, ErrCall
  <2> HIDE DEF f
  <2>2. <<>> \o <<f>> = <<f>> /\ <<f>> \o <<>> = <<f>>
    BY <1>2, <1>3, Joined
  <2> QED BY <1>2, <1>3, <2>1, <2>2, OneFrame, TwoFrames
<1> HIDE DEF f
<1>8. Shape(stack') /\ Frames'
  BY <1>2, <1>3, <1>5, <1>6, <1>7, OneRecord, TwoRecords DEF Above
<1>9. /\ stack' \in Seq(Frame) /\ stack' /= <<>> /\ stack'[1] = f
      /\ \A q : ~Ending(q)'
      /\ \A q : Dropped(q)' <=> q = p
  BY <1>2, <1>7, SegNext, TwoNext DEF EndingIn
<1>10. WalkOK'
  BY <1>2, <1>9, NoWalk DEF Walks
<1>11. \A q \in Pcb : PcbOK(q)'
  <2> TAKE q \in Pcb
  <2>1. CASE q = p
    BY <1>1, <1>4, <1>9, <2>1, SameTypes DEF PcbOK, conn, ActiveState
  <2>2. CASE q /= p
    BY <1>1, <1>4, <2>2, SameTypes, PcbSame DEF conn
  <2> QED BY <2>1, <2>2
<1> QED BY <1>4, <1>8, <1>9, <1>10, <1>11, SameTypes, QuietLists DEF conn

\* A reset removes the pcb behind its err callback.
LEMMA ProcessRstStep ==
  ASSUME IInv, ProcessRst
  PROVE  IInv'
  BY KillStep DEF ProcessRst

\* tcp_process leaves the pcb as it is.
LEMMA GoOn ==
  ASSUME IInv, Processing, UNCHANGED <<st, active, tw, conn, lag, changed, ref, fault>>,
         Goto("d.out")
  PROVE  IInv'
<1>1. PICK g \in Frame : IsOne(stack', g) /\ g.at = "d.out" /\ g.p = Top.p
                         /\ g.dead = Top.dead /\ g.ab = Top.ab
  BY ProcessFacts, GotoOne DEF Place, Inside
<1>2. FrameOK(g, st, unread, ref, changed)
  BY <1>1, ProcessFacts DEF FrameOK, LiveOK, Answering, Given
<1> QED BY <1>1, <1>2, ProcessFacts, QuietOne DEF Walks

\* What tcp_process passes over announces at most an old ACK.
LEMMA ProcessIgnoredStep ==
  ASSUME IInv, ProcessIgnored
  PROVE  IInv'
<1> DEFINE p == Top.p
           s == Got(p, Top.seg)
<1>1. /\ Processing /\ (Top.seg.k = "syn" \/ st[p] = "TIME_WAIT")
      /\ UNCHANGED <<st, active, tw, conn, lag, changed, ref, fault>>
  BY DEF ProcessIgnored
<1>2. /\ s \in AnySeg /\ s.sent = Top.seg.sent
      /\ ~s.data /\ ~s.fin
  BY <1>1, ProcessFacts, GotFacts, SegFields DEF ActiveState
<1>3. Moved("d.sent", s)
  BY ProcessFacts, <1>1 DEF ProcessIgnored, Moved
<1> HIDE DEF s
<1>20. "d.sent" \in Place
  BY DEF Place, Inside
<1>4. PICK g \in Frame : IsOne(stack', g) /\ g.at = "d.sent" /\ g.p = p /\ g.seg = s
                         /\ g.dead = Top.dead /\ g.ab = Top.ab
  BY <1>20, <1>1, <1>2, <1>3, ProcessFacts, GotoSeg
<1>5. FrameOK(g, st, unread, ref, changed)
  BY <1>1, <1>2, <1>4, ProcessFacts DEF FrameOK, LiveOK, Answering
<1> QED BY <1>1, <1>4, <1>5, ProcessFacts, QuietOne DEF Walks

\* The pcb stays on tcp_active_pcbs.
LEMMA ListsKept ==
  ASSUME Lists, NEW p \in Pcb, st[p] \in ActiveState, st'[p] \in ActiveState,
         \A q \in Pcb \ {p} : st'[q] = st[q], UNCHANGED <<active, tw>>
  PROVE  Lists'
<1>1. "TIME_WAIT" \notin ActiveState
  BY DEF ActiveState
<1>2. active' = {q \in Pcb : st'[q] \in ActiveState}
  BY DEF Lists
<1>3. tw' = {q \in Pcb : st'[q] = "TIME_WAIT"}
  BY <1>1 DEF Lists
<1> QED BY <1>2, <1>3 DEF Lists

\* A pcb that changes from one active state to another.
LEMMA ToStateFacts ==
  ASSUME IInv, NEW p \in Pcb, NEW s \in ActiveState, st[p] \in ActiveState, ToState(p, s)
  PROVE  /\ st' \in [Pcb -> State] /\ active' \in SUBSET Pcb /\ tw' \in SUBSET Pcb
         /\ refused' \in [Pcb -> {"none", "data", "dataFin"}] /\ changed' \in BOOLEAN
         /\ Lists'
         /\ st'[p] = s /\ refused' = refused
         /\ \A q \in Pcb \ {p} : st'[q] = st[q] /\ refused'[q] = refused[q]
<1>1. s \in State /\ s /= "TIME_WAIT" /\ st[p] /= "TIME_WAIT"
  BY DEF State, ActiveState
<1>2. /\ st' \in [Pcb -> State] /\ st'[p] = s
      /\ \A q \in Pcb \ {p} : st'[q] = st[q]
  BY <1>1, SameTypes DEF ToState
<1>3. Lists'
  BY <1>1, <1>2, SameTypes DEF Lists, ToState
<1> QED BY <1>2, <1>3, SameTypes DEF ToState

\* A pcb that goes to TIME_WAIT.
LEMMA ToTimeWaitFacts ==
  ASSUME IInv, NEW p \in Pcb, ToTimeWait(p)
  PROVE  /\ st' \in [Pcb -> State] /\ active' \in SUBSET Pcb /\ tw' \in SUBSET Pcb
         /\ refused' \in [Pcb -> {"none", "data", "dataFin"}] /\ changed' \in BOOLEAN
         /\ changed'
         /\ Lists'
         /\ st'[p] = "TIME_WAIT" /\ refused'[p] = "none"
         /\ \A q \in Pcb \ {p} : st'[q] = st[q] /\ refused'[q] = refused[q]
<1>1. "TIME_WAIT" \in State /\ "TIME_WAIT" \notin ActiveState
  BY DEF State, ActiveState
<1>2. /\ st' \in [Pcb -> State] /\ st'[p] = "TIME_WAIT"
      /\ \A q \in Pcb \ {p} : st'[q] = st[q]
  BY <1>1, SameTypes DEF ToTimeWait
<1>3. /\ refused' \in [Pcb -> {"none", "data", "dataFin"}] /\ refused'[p] = "none"
      /\ \A q \in Pcb \ {p} : refused'[q] = refused[q]
  BY SameTypes DEF ToTimeWait
<1>4. active' = {q \in Pcb : st'[q] \in ActiveState} /\ tw' = {q \in Pcb : st'[q] = "TIME_WAIT"}
  BY <1>1, <1>2, SameTypes DEF Lists, ToTimeWait
<1> QED BY <1>2, <1>3, <1>4, SameTypes DEF Lists, ToTimeWait

\* tcp_receive, in tcp_process or behind TCP_EVENT_ACCEPT.
LEMMA ReceiveStep ==
  ASSUME IInv, stack /= <<>>, Top.at \in {"process", "accept"}, ~Top.dead,
         NEW p \in Pcb, p = Top.p, NEW s \in AnySeg, s = Top.seg,
         Receive(p, s),
         st' \in [Pcb -> State], active' \in SUBSET Pcb, tw' \in SUBSET Pcb,
         refused' \in [Pcb -> {"none", "data", "dataFin"}], changed' \in BOOLEAN,
         Lists',
         \A q \in Pcb \ {p} : st'[q] = st[q] /\ refused'[q] = refused[q],
         s.sent \/ Got(p, s).data => st'[p] \in Sync,
         Got(p, s).fin => st'[p] \in Late,
         (Ending(p)' <=> Got(p, s).fin) => PcbOK(p)'
  PROVE  IInv'
<1> DEFINE t == Got(p, s)
<1>1. /\ IsOne(stack, Top) /\ Top \in Frame
      /\ FrameOK(Top, st, unread, ref, changed)
      /\ \A q : ~Ending(q) /\ ~Dropped(q)
  BY InsideFacts DEF Above, EndingIn
<1>2. Room(p, s, st, unread) /\ ~Top.ab
  BY <1>1 DEF FrameOK, LiveOK, Conn, Answering
<1>3. t \in AnySeg /\ t.sent = s.sent
  BY GotFacts
<1>4. unread' \in [Pcb -> 0 .. Window] /\ UNCHANGED <<rx, fin, lag, ref, fault>>
  <2>1. unread[p] \in 0 .. Window /\ SegLen(t) \in Nat
    BY <1>3, SameTypes, SegFields
  <2>2. unread[p] + SegLen(t) \in 0 .. Window
    <3>1. CASE Receiving(p)
      <4>1. t = s /\ unread[p] + SegLen(s) <= Window
        BY <1>2, <3>1, GotFacts DEF Room, Receiving
      <4> QED BY <2>1, <4>1, WindowAssumption
    <3>2. CASE ~Receiving(p)
      <4>1. SegLen(t) = 0
        BY <1>3, <3>2, GotFacts, SegFields
      <4> QED BY <2>1, <4>1, WindowAssumption
    <3> QED BY <3>1, <3>2
  <2>3. unread' = [unread EXCEPT ![p] = unread[p] + SegLen(t)]
    BY SameTypes DEF Receive
  <2> HIDE DEF t
  <2> QED BY <2>2, <2>3, SameTypes DEF Receive
<1>5. Moved("d.sent", t) /\ "d.sent" \in Place
  BY DEF Receive, Moved, Place, Inside
<1> HIDE DEF t
<1>6. PICK g \in Frame : /\ IsOne(stack', g)
                         /\ g.at = "d.sent" /\ g.p = p /\ g.seg = t
                         /\ g.dead = Top.dead /\ g.ab = Top.ab
  BY <1>1, <1>3, <1>5, GotoSeg
<1>7. FrameOK(g, st', unread', ref', changed')
  BY <1>2, <1>3, <1>6 DEF FrameOK, LiveOK, Answering, t
<1>8. Shape(stack') /\ Frames'
  BY <1>6, <1>7, OneRecord
<1>9. /\ stack' \in Seq(Frame) /\ stack' /= <<>> /\ stack'[1] = g
      /\ Ending(p)' <=> t.fin
  BY <1>6, SegNext DEF EndingIn
<1>10. WalkOK'
  BY <1>6, <1>9, NoWalk DEF Walks
<1>11. \A q \in Pcb : PcbOK(q)'
  <2> TAKE q \in Pcb
  <2>1. CASE q = p
    BY <1>9, <2>1 DEF t
  <2>2. CASE q /= p
    BY <1>1, <1>4, <2>2, SameTypes, PcbSame
  <2> QED BY <2>1, <2>2
<1>12. TypeOK'
  BY <1>4, <1>9, SameTypes DEF TypeOK
<1> QED BY <1>4, <1>8, <1>10, <1>11, <1>12, SameTypes DEF IInv

\* The SYN|ACK establishes the connection of a pcb that is held.
LEMMA ProcessSynSentStep ==
  ASSUME IInv, ProcessSynSent
  PROVE  IInv'
<1> DEFINE p == Top.p
<1>1. /\ Processing /\ st[p] = "SYN_SENT" /\ Top.seg.k \in {"seg", "synack"}
      /\ UNCHANGED <<active, tw, conn, lag, changed, ref, fault>>
  BY DEF ProcessSynSent
<1>2. CASE Top.seg.k /= "synack"
  BY <1>1, <1>2, GoOn DEF ProcessSynSent
<1>3. CASE Top.seg.k = "synack"
  <2>1. st' = [st EXCEPT ![p] = "ESTABLISHED"] /\ Goto("connected")
    BY <1>3 DEF ProcessSynSent
  <2>2. "connected" \in Place /\ "ESTABLISHED" \in ActiveState
    BY DEF Place, Callback, ActiveState
  <2>3. PICK g \in Frame : IsOne(stack', g) /\ g.at = "connected" /\ g.p = p
                           /\ g.dead = Top.dead /\ g.ab = Top.ab
    BY <1>1, <2>1, <2>2, ProcessFacts, GotoOne
  <2>4. /\ p \in Pcb /\ ~Top.dead /\ ~Top.ab /\ st[p] \in ActiveState
        /\ \A q : ~Ending(q) /\ ~Dropped(q)
    BY <1>1, ProcessFacts
  <2>5. TypeOK' /\ Lists' /\ st'[p] = "ESTABLISHED"
    <3>1. st' \in [Pcb -> State] /\ st'[p] = "ESTABLISHED"
          /\ \A q \in Pcb \ {p} : st'[q] = st[q]
      BY <2>1, <2>2, <2>4, SameTypes DEF State
    <3>2. stack' \in Seq(Frame)
      BY <2>3, SegNext
    <3>3. Lists'
      BY <1>1, <2>2, <2>4, <3>1, SameTypes, ListsKept
    <3> QED BY <1>1, <3>1, <3>2, <3>3, SameTypes DEF TypeOK, conn
  <2>6. FrameOK(g, st', unread', ref', changed')
    BY <2>3, <2>4, <2>5 DEF FrameOK, LiveOK, Given, Sync
  <2>7. Shape(stack') /\ Frames'
    BY <2>3, <2>6, OneRecord
  <2>8. WalkOK'
    BY <2>3, SegNext, NoWalk DEF Walks
  <2>9. \A q \in Pcb : PcbOK(q)'
    <3> TAKE q \in Pcb
    <3>1. CASE q = p
      BY <1>1, <2>4, <2>5, <3>1, SameTypes DEF PcbOK, conn, Late, Finished
    <3>2. CASE q /= p
      <4>1. st'[q] = st[q]
        BY <2>1, <2>4, <3>2, SameTypes
      <4> QED BY <1>1, <2>4, <4>1, SameTypes, PcbSame DEF conn
    <3> QED BY <3>1, <3>2
  <2> QED BY <1>1, <2>5, <2>7, <2>8, <2>9, SameTypes DEF IInv
<1> QED BY <1>2, <1>3

\* The ACK of a SYN|ACK gives the pcb to the application.
LEMMA ProcessSynRcvdStep ==
  ASSUME IInv, ProcessSynRcvd
  PROVE  IInv'
<1> DEFINE p == Top.p
<1>1. /\ Processing /\ st[p] = "SYN_RCVD"
      /\ UNCHANGED <<active, tw, conn, lag, changed, fault>>
  BY DEF ProcessSynRcvd
<1>2. CASE ~Top.seg.ack
  BY <1>1, <1>2, GoOn DEF ProcessSynRcvd
<1>3. CASE Top.seg.ack
  <2>1. /\ st' = [st EXCEPT ![p] = "ESTABLISHED"] /\ Goto("accept")
        /\ ref' = ref \cup {p}
    BY <1>3 DEF ProcessSynRcvd
  <2>2. "accept" \in Place /\ "ESTABLISHED" \in ActiveState
    BY DEF Place, Callback, ActiveState
  <2>3. PICK g \in Frame : IsOne(stack', g) /\ g.at = "accept" /\ g.p = p
                           /\ g.seg = Top.seg /\ g.dead = Top.dead /\ g.ab = Top.ab
    BY <1>1, <2>1, <2>2, ProcessFacts, GotoOne
  <2>4. /\ p \in Pcb /\ ~Top.dead /\ ~Top.ab /\ st[p] \in ActiveState
        /\ Room(p, Top.seg, st, unread)
        /\ \A q : ~Ending(q) /\ ~Dropped(q)
    BY <1>1, ProcessFacts
  <2>5. TypeOK' /\ Lists' /\ st'[p] = "ESTABLISHED"
    <3>1. st' \in [Pcb -> State] /\ st'[p] = "ESTABLISHED"
          /\ \A q \in Pcb \ {p} : st'[q] = st[q]
      BY <2>1, <2>2, <2>4, SameTypes DEF State
    <3>2. stack' \in Seq(Frame)
      BY <2>3, SegNext
    <3>3. Lists'
      BY <1>1, <2>2, <2>4, <3>1, SameTypes, ListsKept
    <3>4. ref' \in SUBSET Pcb
      BY <2>1, <2>4, SameTypes
    <3> QED BY <1>1, <3>1, <3>2, <3>3, <3>4, SameTypes DEF TypeOK, conn
  <2>6. FrameOK(g, st', unread', ref', changed')
    <3>1. Room(p, Top.seg, st', unread')
      BY <1>1, <2>4 DEF Room, conn
    <3> QED BY <2>3, <2>4, <2>5, <3>1 DEF FrameOK, LiveOK, Given, Sync
  <2>7. Shape(stack') /\ Frames'
    BY <2>3, <2>6, OneRecord
  <2>8. WalkOK'
    BY <2>3, SegNext, NoWalk DEF Walks
  <2>9. \A q \in Pcb : PcbOK(q)'
    <3> TAKE q \in Pcb
    <3>1. CASE q = p
      <4>1. p \in ref' /\ PcbOK(p) /\ UNCHANGED <<refused, fin, rx>>
        BY <1>1, <2>1, <2>4, SameTypes DEF conn
      <4> QED BY <1>1, <2>5, <3>1, <4>1 DEF PcbOK, Late, Finished
    <3>2. CASE q /= p
      <4>1. st'[q] = st[q] /\ (q \in ref' <=> q \in ref)
        BY <2>1, <2>4, <3>2, SameTypes
      <4> QED BY <1>1, <2>4, <4>1, SameTypes, PcbSame DEF conn
    <3> QED BY <3>1, <3>2
  <2> QED BY <1>1, <2>5, <2>7, <2>8, <2>9, SameTypes DEF IInv
<1> QED BY <1>2, <1>3

\* Data or the FIN in ESTABLISHED and CLOSE_WAIT.
LEMMA ProcessEstablishedStep ==
  ASSUME IInv, ProcessEstablished
  PROVE  IInv'
<1>20. PICK p, s : p = Top.p /\ s = Top.seg
  OBVIOUS
<1>1. /\ Processing /\ st[p] \in {"ESTABLISHED", "CLOSE_WAIT"}
      /\ Receive(p, s)
      /\ ToState(p, IF Got(p, s).fin THEN "CLOSE_WAIT" ELSE st[p])
  BY <1>20 DEF ProcessEstablished
<1>2. /\ p \in Pcb /\ s \in AnySeg /\ Top.at = "process" /\ ~Top.dead /\ stack /= <<>>
      /\ \A q : ~Ending(q) /\ ~Dropped(q)
      /\ PcbOK(p)
  BY <1>1, <1>20, ProcessFacts
<1>3. PICK t \in ActiveState : t = IF Got(p, s).fin THEN "CLOSE_WAIT" ELSE st[p]
  BY <1>1 DEF ActiveState
<1>4. st[p] \in ActiveState
  BY <1>1 DEF ActiveState
<1>5. /\ st' \in [Pcb -> State] /\ active' \in SUBSET Pcb /\ tw' \in SUBSET Pcb
      /\ refused' \in [Pcb -> {"none", "data", "dataFin"}] /\ changed' \in BOOLEAN
      /\ Lists'
      /\ st'[p] = t /\ refused' = refused
      /\ \A q \in Pcb \ {p} : st'[q] = st[q] /\ refused'[q] = refused[q]
  BY <1>1, <1>2, <1>3, <1>4, ToStateFacts
<1>6. /\ t \in {"ESTABLISHED", "CLOSE_WAIT"}
      /\ Got(p, s).fin \/ st[p] = "CLOSE_WAIT" => t = "CLOSE_WAIT"
  BY <1>1, <1>3
<1>7. UNCHANGED <<rx, fin, ref>>
  BY <1>1 DEF Receive
<1>8. PcbOK(p)'
  BY <1>1, <1>2, <1>5, <1>6, <1>7 DEF PcbOK, Late, Finished
<1> QED BY <1>1, <1>20, <1>2, <1>5, <1>6, <1>8, ReceiveStep DEF Sync, Late

\* Our FIN and theirs, in any order.
LEMMA ProcessFinWait1Step ==
  ASSUME IInv, ProcessFinWait1
  PROVE  IInv'
<1>20. PICK p, s : p = Top.p /\ s = Top.seg
  OBVIOUS
<1>1. /\ Processing /\ ~StillRefused /\ st[p] = "FIN_WAIT_1" /\ Receive(p, s)
      /\ \/ s.fin /\ s.ack /\ ToTimeWait(p)
         \/ s.fin /\ ~s.ack /\ ToState(p, "CLOSING")
         \/ ~s.fin /\ s.ack /\ ToState(p, "FIN_WAIT_2")
         \/ ~s.fin /\ ~s.ack /\ ToState(p, "FIN_WAIT_1")
  BY <1>20 DEF ProcessFinWait1
<1>2. /\ p \in Pcb /\ s \in AnySeg /\ Top.at = "process" /\ ~Top.dead /\ stack /= <<>>
      /\ \A q : ~Ending(q) /\ ~Dropped(q)
      /\ PcbOK(p) /\ st[p] \in ActiveState
  BY <1>1, <1>20, ProcessFacts
<1>3. Got(p, s) = s
  BY <1>1, <1>2, GotFacts DEF Receiving
<1>4. /\ {"CLOSING", "FIN_WAIT_1", "FIN_WAIT_2"} \subseteq ActiveState
      /\ s.fin => refused[p] = "none"
  <2>1. SegLen(s) \in Nat /\ (SegLen(s) = 0 => ~s.fin)
    BY <1>2, SegFields
  <2> QED BY <1>1, <1>20, <2>1 DEF ActiveState, StillRefused
<1>5. /\ st' \in [Pcb -> State] /\ active' \in SUBSET Pcb /\ tw' \in SUBSET Pcb
      /\ refused' \in [Pcb -> {"none", "data", "dataFin"}] /\ changed' \in BOOLEAN
      /\ Lists'
      /\ \/ s.fin /\ st'[p] \in {"TIME_WAIT", "CLOSING"} /\ refused'[p] = "none"
         \/ ~s.fin /\ st'[p] \in {"FIN_WAIT_1", "FIN_WAIT_2"} /\ refused'[p] = refused[p]
      /\ \A q \in Pcb \ {p} : st'[q] = st[q] /\ refused'[q] = refused[q]
  <2>1. CASE s.fin /\ s.ack /\ ToTimeWait(p)
    BY <1>2, <2>1, ToTimeWaitFacts
  <2>2. CASE s.fin /\ ~s.ack /\ ToState(p, "CLOSING")
    BY <1>2, <1>4, <2>2, ToStateFacts
  <2>3. CASE ~s.fin /\ s.ack /\ ToState(p, "FIN_WAIT_2")
    BY <1>2, <1>4, <2>3, ToStateFacts
  <2>4. CASE ~s.fin /\ ~s.ack /\ ToState(p, "FIN_WAIT_1")
    BY <1>2, <1>4, <2>4, ToStateFacts
  <2> QED BY <1>1, <2>1, <2>2, <2>3, <2>4
<1>6. UNCHANGED <<rx, fin, ref>>
  BY <1>1 DEF Receive
<1>7. (Ending(p)' <=> s.fin) => PcbOK(p)'
  BY <1>1, <1>2, <1>5, <1>6 DEF PcbOK, Late, Finished
<1>8. st'[p] \in Sync /\ (s.fin => st'[p] \in Late)
  BY <1>5 DEF Sync, Late
<1> QED BY <1>1, <1>20, <1>2, <1>3, <1>5, <1>7, <1>8, ReceiveStep

\* Their FIN after ours.
LEMMA ProcessFinWait2Step ==
  ASSUME IInv, ProcessFinWait2
  PROVE  IInv'
<1>20. PICK p, s : p = Top.p /\ s = Top.seg
  OBVIOUS
<1>1. /\ Processing /\ ~StillRefused /\ st[p] = "FIN_WAIT_2" /\ Receive(p, s)
      /\ IF s.fin THEN ToTimeWait(p) ELSE ToState(p, "FIN_WAIT_2")
  BY <1>20 DEF ProcessFinWait2
<1>2. /\ p \in Pcb /\ s \in AnySeg /\ Top.at = "process" /\ ~Top.dead /\ stack /= <<>>
      /\ \A q : ~Ending(q) /\ ~Dropped(q)
      /\ PcbOK(p) /\ st[p] \in ActiveState
  BY <1>1, <1>20, ProcessFacts
<1>3. Got(p, s) = s
  BY <1>1, <1>2, GotFacts DEF Receiving
<1>4. "FIN_WAIT_2" \in ActiveState
  BY DEF ActiveState
<1>5. /\ st' \in [Pcb -> State] /\ active' \in SUBSET Pcb /\ tw' \in SUBSET Pcb
      /\ refused' \in [Pcb -> {"none", "data", "dataFin"}] /\ changed' \in BOOLEAN
      /\ Lists'
      /\ \/ s.fin /\ st'[p] = "TIME_WAIT" /\ refused'[p] = "none"
         \/ ~s.fin /\ st'[p] = "FIN_WAIT_2" /\ refused'[p] = refused[p]
      /\ \A q \in Pcb \ {p} : st'[q] = st[q] /\ refused'[q] = refused[q]
  <2>1. CASE s.fin
    BY <1>1, <1>2, <2>1, ToTimeWaitFacts
  <2>2. CASE ~s.fin
    BY <1>1, <1>2, <1>4, <2>2, ToStateFacts
  <2> QED BY <2>1, <2>2
<1>6. UNCHANGED <<rx, fin, ref>>
  BY <1>1 DEF Receive
<1>7. (Ending(p)' <=> s.fin) => PcbOK(p)'
  BY <1>1, <1>2, <1>5, <1>6 DEF PcbOK, Late, Finished
<1>8. st'[p] \in Sync /\ (s.fin => st'[p] \in Late)
  BY <1>5 DEF Sync, Late
<1> QED BY <1>1, <1>20, <1>2, <1>3, <1>5, <1>7, <1>8, ReceiveStep

\* The ACK of our FIN after theirs.
LEMMA ProcessClosingStep ==
  ASSUME IInv, ProcessClosing
  PROVE  IInv'
<1>20. PICK p, s : p = Top.p /\ s = Top.seg
  OBVIOUS
<1>1. /\ Processing /\ st[p] = "CLOSING" /\ Receive(p, s)
      /\ IF s.ack THEN ToTimeWait(p) ELSE ToState(p, "CLOSING")
  BY <1>20 DEF ProcessClosing
<1>2. /\ p \in Pcb /\ s \in AnySeg /\ Top.at = "process" /\ ~Top.dead /\ stack /= <<>>
      /\ \A q : ~Ending(q) /\ ~Dropped(q)
      /\ PcbOK(p) /\ st[p] \in ActiveState
  BY <1>1, <1>20, ProcessFacts
<1>3. ~Got(p, s).fin /\ ~Got(p, s).data
  BY <1>1, <1>2, GotFacts DEF Receiving
<1>4. "CLOSING" \in ActiveState
  BY DEF ActiveState
<1>5. /\ st' \in [Pcb -> State] /\ active' \in SUBSET Pcb /\ tw' \in SUBSET Pcb
      /\ refused' \in [Pcb -> {"none", "data", "dataFin"}] /\ changed' \in BOOLEAN
      /\ Lists'
      /\ st'[p] \in {"TIME_WAIT", "CLOSING"} /\ refused'[p] \in {"none", refused[p]}
      /\ \A q \in Pcb \ {p} : st'[q] = st[q] /\ refused'[q] = refused[q]
  <2>1. CASE s.ack
    BY <1>1, <1>2, <2>1, ToTimeWaitFacts
  <2>2. CASE ~s.ack
    BY <1>1, <1>2, <1>4, <2>2, ToStateFacts
  <2> QED BY <2>1, <2>2
<1>6. UNCHANGED <<rx, fin, ref>>
  BY <1>1 DEF Receive
<1>7. PcbOK(p)'
  BY <1>1, <1>2, <1>5, <1>6 DEF PcbOK, Late, Finished
<1>8. st'[p] \in Sync
  BY <1>5 DEF Sync
<1> QED BY <1>1, <1>20, <1>2, <1>3, <1>5, <1>7, <1>8, ReceiveStep

\* The ACK of our FIN, or one more segment before it.
LEMMA ProcessLastAckStep ==
  ASSUME IInv, ProcessLastAck
  PROVE  IInv'
<1>20. PICK p, s : p = Top.p /\ s = Top.seg
  OBVIOUS
<1>1. /\ Processing /\ st[p] = "LAST_ACK"
      /\ IF s.ack THEN Kill(p, p \notin rx) ELSE Receive(p, s) /\ ToState(p, "LAST_ACK")
  BY <1>20 DEF ProcessLastAck
<1>2. /\ p \in Pcb /\ s \in AnySeg /\ Top.at = "process" /\ ~Top.dead /\ stack /= <<>>
      /\ \A q : ~Ending(q) /\ ~Dropped(q)
      /\ PcbOK(p) /\ st[p] \in ActiveState
  BY <1>1, <1>20, ProcessFacts
<1>3. CASE s.ack
  <2>1. p \notin rx \/ p \notin ref
    BY <1>1, <1>2 DEF PcbOK, Finished
  <2> QED BY <1>1, <1>3, <1>20, <2>1, KillStep
<1>4. CASE ~s.ack
  <2>1. ~Got(p, s).fin /\ ~Got(p, s).data
    BY <1>1, <1>2, GotFacts DEF Receiving
  <2>2. "LAST_ACK" \in ActiveState
    BY DEF ActiveState
  <2>3. Receive(p, s) /\ ToState(p, "LAST_ACK")
    BY <1>1, <1>4
  <2>4. /\ st' \in [Pcb -> State] /\ active' \in SUBSET Pcb /\ tw' \in SUBSET Pcb
        /\ refused' \in [Pcb -> {"none", "data", "dataFin"}] /\ changed' \in BOOLEAN
        /\ Lists'
        /\ st'[p] = "LAST_ACK" /\ refused'[p] = refused[p]
        /\ \A q \in Pcb \ {p} : st'[q] = st[q] /\ refused'[q] = refused[q]
    BY <1>2, <2>2, <2>3, ToStateFacts
  <2>5. UNCHANGED <<rx, fin, ref>>
    BY <2>3 DEF Receive
  <2>6. PcbOK(p)'
    BY <1>1, <1>2, <2>4, <2>5 DEF PcbOK, Late, Finished
  <2>7. st'[p] \in Sync
    BY <2>4 DEF Sync
  <2> QED BY <1>20, <1>2, <2>1, <2>3, <2>4, <2>6, <2>7, ReceiveStep
<1> QED BY <1>3, <1>4

-----------------------------------------------------------------------------
(* memp_free and tcp_abort. *)

FreedRecord(f, p) == [f EXCEPT !.dead = @ \/ f.p = p]

\* memp_free changes nothing of a record but the mark.
LEMMA FreedRecordFields ==
  ASSUME NEW f \in Frame, NEW p, NEW g, g = FreedRecord(f, p)
  PROVE  /\ g \in Frame /\ g.at = f.at /\ g.p = f.p /\ g.seg = f.seg /\ g.rest = f.rest
         /\ g.ab = f.ab /\ (g.dead <=> f.dead \/ f.p = p)
  BY DEF FreedRecord, Frame

\* memp_free marks the records one by one.
LEMMA FreedFacts ==
  ASSUME NEW s \in Seq(Frame), NEW p
  PROVE  /\ Freed(s, p) \in Seq(Frame) /\ Len(Freed(s, p)) = Len(s)
         /\ \A i \in 1 .. Len(s) : Freed(s, p)[i] = FreedRecord(s[i], p)
<1> DEFINE t == [i \in 1 .. Len(s) |-> FreedRecord(s[i], p)]
<1>1. Freed(s, p) = t
  BY DEF Freed, FreedRecord
<1>2. Len(s) \in Nat /\ \A i \in 1 .. Len(s) : FreedRecord(s[i], p) \in Frame
  <2>1. \A i \in 1 .. Len(s) : s[i] \in Frame
    OBVIOUS
  <2> QED BY <2>1, FreedRecordFields
<1>3. t \in Seq(Frame) /\ Len(t) = Len(s)
  BY <1>2
<1>4. \A i \in 1 .. Len(s) : t[i] = FreedRecord(s[i], p)
  OBVIOUS
<1> HIDE DEF t
<1> QED BY <1>1, <1>3, <1>4

\* Without records there is none to mark.
LEMMA FreedNone ==
  ASSUME NEW p
  PROVE  Freed(<<>>, p) = <<>>
<1>1. <<>> \in Seq(Frame) /\ Len(<<>>) = 0
  OBVIOUS
<1>2. Freed(<<>>, p) \in Seq(Frame) /\ Len(Freed(<<>>, p)) = 0
  BY <1>1, FreedFacts
<1> QED BY <1>2

\* An err callback with no function of the stack below it.
LEMMA ErrAlone ==
  ASSUME NEW p \in Pcb, stack' = <<>> \/ stack' = <<>> \o ErrCall(p)
  PROVE  /\ stack' \in Seq(Frame) /\ Shape(stack') /\ Frames' /\ WalkOK'
         /\ \A q : ~Ending(q)' /\ ~Dropped(q)'
<1>1. "err" \in Place /\ p \in Pcb \cup {NoPcb}
  BY DEF Place, Callback
<1>2. PICK e \in Frame : e = Call("err", p) /\ e.at = "err"
  BY <1>1, CallFacts
<1>3. stack' = <<>> \/ stack' = <<e>>
  BY <1>2, Joined DEF ErrCall
<1>4. CASE stack' = <<>>
  BY <1>4, NoRecord DEF Ending, Dropped
<1>5. CASE stack' = <<e>>
  <2>1. IsOne(stack', e)
    BY <1>2, <1>5, OneFrame
  <2>2. FrameOK(e, st', unread', ref', changed')
    BY <1>2 DEF FrameOK, Conn, Answering, Given
  <2>3. Shape(stack') /\ Frames'
    BY <1>2, <2>1, <2>2, OneRecord
  <2>4. stack' \in Seq(Frame) /\ stack' /= <<>> /\ stack'[1] = e
        /\ \A q : ~Ending(q)' /\ ~Dropped(q)'
    BY <1>2, <2>1, SegNext DEF EndingIn
  <2>5. WalkOK'
    BY <1>2, <2>4, NoWalk DEF Walks
  <2> QED BY <2>3, <2>4, <2>5
<1> QED BY <1>3, <1>4, <1>5

\* What a step does that frees p, once the records are in order.
LEMMA FreeStep ==
  ASSUME IInv, NEW p \in Pcb, Release(p), active' = active \ {p}, tw' = tw \ {p},
         ref' \in SUBSET Pcb, p \notin ref', \A q \in Pcb \ {p} : q \in ref' <=> q \in ref,
         changed' \in BOOLEAN, UNCHANGED fault,
         stack' \in Seq(Frame), Shape(stack'), Frames', WalkOK',
         \A q \in Pcb \ {p} : (Ending(q) => Ending(q)') /\ (Dropped(q) => Dropped(q)')
  PROVE  IInv'
<1>1. /\ st' \in [Pcb -> State] /\ rx' \in SUBSET Pcb
      /\ unread' \in [Pcb -> 0 .. Window]
      /\ refused' \in [Pcb -> {"none", "data", "dataFin"}]
      /\ fin' \in [Pcb -> {"none", "unsent", "sent"}]
      /\ lag' \in [Pcb -> 0 .. CtrMod - 1]
      /\ active' \in SUBSET Pcb /\ tw' \in SUBSET Pcb
      /\ Lists'
      /\ st'[p] = "FREE" /\ refused'[p] = "none" /\ fin'[p] = "none" /\ p \notin rx'
      /\ \A q \in Pcb \ {p} : /\ st'[q] = st[q] /\ refused'[q] = refused[q]
                              /\ fin'[q] = fin[q]
                              /\ q \in rx' <=> q \in rx
  BY SameTypes, ReleaseFacts
<1>2. TypeOK'
  BY <1>1, SameTypes DEF TypeOK
<1>3. \A q \in Pcb : PcbOK(q)'
  <2> TAKE q \in Pcb
  <2>1. CASE q = p
    BY <1>1, <2>1, PcbFree
  <2>2. CASE q /= p
    BY <1>1, <2>2, SameTypes, PcbSame
  <2> QED BY <2>1, <2>2
<1> QED BY <1>1, <1>2, <1>3, SameTypes DEF IInv

\* tcp_abort does not depend on the list p is on.
LEMMA AbortLists ==
  ASSUME IInv, NEW p \in Pcb, NEW s, AbortOn(p, s)
  PROVE  /\ Release(p) /\ ref' = ref \ {p} /\ UNCHANGED fault
         /\ active' = active \ {p} /\ tw' = tw \ {p}
         /\ changed' \in BOOLEAN /\ (changed => changed')
         /\ \/ st[p] = "TIME_WAIT" /\ stack' = Freed(s, p) /\ changed' = changed
            \/ st[p] /= "TIME_WAIT" /\ stack' = Freed(s, p) \o ErrCall(p) /\ changed'
<1>1. CASE st[p] = "TIME_WAIT"
  <2>1. p \notin active
    BY <1>1, SameTypes, OffList
  <2> QED BY <1>1, <2>1, SameTypes DEF AbortOn
<1>2. CASE st[p] /= "TIME_WAIT"
  <2>1. p \notin tw
    BY <1>2, SameTypes, OffList
  <2> QED BY <1>2, <2>1, SameTypes DEF AbortOn
<1> QED BY <1>1, <1>2

\* tcp_abort in a function of the stack that returns at once.
LEMMA AbortLone ==
  ASSUME IInv, NEW p \in Pcb, AbortOn(p, <<>>),
         \A q \in Pcb \ {p} : ~Ending(q) /\ ~Dropped(q)
  PROVE  IInv'
<1>1. stack' = <<>> \/ stack' = <<>> \o ErrCall(p)
  BY AbortLists, FreedNone
<1>2. /\ stack' \in Seq(Frame) /\ Shape(stack') /\ Frames' /\ WalkOK'
      /\ \A q : ~Ending(q)' /\ ~Dropped(q)'
  BY <1>1, ErrAlone
<1>3. ref' \in SUBSET Pcb /\ p \notin ref' /\ \A q \in Pcb \ {p} : q \in ref' <=> q \in ref
  BY AbortLists, SameTypes
<1> QED BY <1>2, <1>3, AbortLists, FreeStep

-----------------------------------------------------------------------------
(* The rest of tcp_input, and tcp_alloc. *)

\* tcp_input removes a pcb that nobody holds any more.
LEMMA DropStep ==
  ASSUME IInv, Drop
  PROVE  IInv'
<1>1. PICK p : p = Top.p
  OBVIOUS
<1>2. /\ stack /= <<>> /\ Top.at = "drop" /\ ~Top.dead
      /\ Release(p) /\ active' = active \ {p} /\ stack' = Freed(Below, p)
      /\ UNCHANGED <<tw, changed, ref, fault>>
  BY <1>1 DEF Drop, At
<1>3. /\ Top \in Frame /\ Below = <<>>
      /\ FrameOK(Top, st, unread, ref, changed)
      /\ \A q : ~Ending(q) /\ (Dropped(q) <=> q = p)
  BY <1>1, <1>2, InsideFacts DEF Above, EndingIn
<1>4. p \in Pcb /\ st[p] \in ActiveState /\ p \notin ref
  BY <1>1, <1>2, <1>3 DEF FrameOK, LiveOK, Conn
<1>5. tw' = tw \ {p}
  BY <1>2, <1>4, SameTypes, OffList
<1>6. stack' = <<>>
  BY <1>2, <1>3, FreedNone
<1>7. \A q \in Pcb \ {p} : ~Ending(q) /\ ~Dropped(q)
  BY <1>3
<1> QED BY <1>2, <1>4, <1>5, <1>6, <1>7, NoRecord, SameTypes, FreeStep

\* What holds while tcp_input delivers.
LEMMA DeliverFacts ==
  ASSUME IInv, stack /= <<>>, ~Top.dead,
         Top.at \in {"d.sent", "d.recv", "d.fin", "d.out"}
  PROVE  /\ IsOne(stack, Top) /\ Top \in Frame /\ Below = <<>>
         /\ Top.p \in Pcb /\ Top.seg \in AnySeg /\ ~Top.ab
         /\ Top.at /= "d.out" =>
              /\ Top.seg.sent \/ Top.seg.data => st[Top.p] \in Sync
              /\ Top.seg.fin => st[Top.p] \in Late
         /\ \A q : ~Dropped(q) /\ (Ending(q) <=> EndingIn(Top, q))
<1>1. /\ IsOne(stack, Top) /\ Top \in Frame /\ Below = <<>>
      /\ FrameOK(Top, st, unread, ref, changed)
      /\ \A q : ~Dropped(q) /\ (Ending(q) <=> EndingIn(Top, q))
  BY InsideFacts DEF Above
<1>2. Top.p \in Pcb /\ LiveOK(Top, st, unread, ref)
  BY <1>1 DEF FrameOK, Conn, Given
<1> QED BY <1>1, <1>2, FrameFields DEF LiveOK, Given

\* The sent callback, or none.
LEMMA DeliverSentStep ==
  ASSUME IInv, DeliverSent
  PROVE  IInv'
<1>1. PICK a : a = IF Top.seg.sent THEN "sent" ELSE "d.recv"
  OBVIOUS
<1>2. /\ stack /= <<>> /\ Top.at = "d.sent" /\ ~Top.dead /\ Goto(a)
      /\ UNCHANGED <<st, active, tw, conn, lag, changed, ref, fault>>
  BY <1>1 DEF DeliverSent, At
<1>3. a \in Place
  BY <1>1 DEF Place, Callback, Inside
<1>4. PICK g \in Frame : IsOne(stack', g) /\ g.at = a /\ g.p = Top.p
                         /\ g.seg = Top.seg /\ g.dead = Top.dead /\ g.ab = Top.ab
  BY <1>2, <1>3, DeliverFacts, GotoOne
<1>5. FrameOK(g, st, unread, ref, changed)
  BY <1>1, <1>2, <1>4, DeliverFacts DEF FrameOK, LiveOK, Answering
<1>6. \A q : ~Dropped(q) /\ (Ending(q) => EndingIn(g, q))
  BY <1>1, <1>2, <1>4, DeliverFacts DEF EndingIn
<1> QED BY <1>1, <1>2, <1>4, <1>5, <1>6, QuietOne DEF Walks

\* The recv callback, none, or the abort for a closed receiver.
LEMMA DeliverRecvStep ==
  ASSUME IInv, DeliverRecv
  PROVE  IInv'
<1>1. PICK p : p = Top.p
  OBVIOUS
<1>2. stack /= <<>> /\ Top.at = "d.recv" /\ ~Top.dead
  BY DEF DeliverRecv, At
<1>3. CASE Top.seg.data /\ p \in rx
  <2>1. AbortOn(p, <<>>) /\ p \in Pcb
    BY <1>1, <1>2, <1>3, DeliverFacts DEF DeliverRecv
  <2>2. \A q \in Pcb \ {p} : ~Ending(q) /\ ~Dropped(q)
    BY <1>1, <1>2, DeliverFacts DEF EndingIn
  <2> QED BY <2>1, <2>2, AbortLone
<1>4. CASE ~(Top.seg.data /\ p \in rx)
  <2>1. PICK a : a = IF Top.seg.data THEN "recv" ELSE "d.fin"
    OBVIOUS
  <2>2. Goto(a) /\ UNCHANGED <<st, active, tw, conn, lag, changed, ref, fault>>
    BY <1>1, <1>4, <2>1 DEF DeliverRecv
  <2>3. a \in Place
    BY <2>1 DEF Place, Callback, Inside
  <2>4. PICK g \in Frame : IsOne(stack', g) /\ g.at = a /\ g.p = Top.p
                           /\ g.seg = Top.seg /\ g.dead = Top.dead /\ g.ab = Top.ab
    BY <1>2, <2>2, <2>3, DeliverFacts, GotoOne
  <2>5. FrameOK(g, st, unread, ref, changed)
    BY <1>2, <2>1, <2>4, DeliverFacts DEF FrameOK, LiveOK, Answering
  <2>6. \A q : ~Dropped(q) /\ (Ending(q) => EndingIn(g, q))
    BY <1>2, <2>1, <2>4, DeliverFacts DEF EndingIn
  <2> QED BY <2>1, <2>2, <2>4, <2>5, <2>6, QuietOne DEF Walks
<1> QED BY <1>3, <1>4

\* Giving back the sequence number of a FIN keeps the window a window.
LEMMA FinReadFacts ==
  ASSUME IInv, NEW p \in Pcb
  PROVE  FinRead(p) \in [Pcb -> 0 .. Window]
<1>1. unread[p] \in Nat /\ unread[p] <= Window
  BY SameTypes
<1>2. (IF unread[p] > 0 THEN unread[p] - 1 ELSE 0) \in 0 .. Window
  BY <1>1, WindowAssumption
<1> QED BY <1>2, SameTypes DEF FinRead

\* The FIN is announced, kept with refused data, or absent.
LEMMA DeliverFinStep ==
  ASSUME IInv, DeliverFin
  PROVE  IInv'
<1>1. PICK p : p = Top.p
  OBVIOUS
<1>2. /\ stack /= <<>> /\ Top.at = "d.fin" /\ ~Top.dead
      /\ UNCHANGED <<st, active, tw, rx, fin, lag, changed, ref, fault>>
  BY DEF DeliverFin, At
<1>3. PICK a : a = IF Top.seg.fin /\ refused[p] = "none" THEN "eof" ELSE "d.out"
  OBVIOUS
<1>4. /\ Goto(a) /\ a \in Place
      /\ \/ ~Top.seg.fin /\ UNCHANGED <<refused, unread>>
         \/ /\ Top.seg.fin /\ refused[p] /= "none"
            /\ refused' = [refused EXCEPT ![p] = "dataFin"] /\ UNCHANGED unread
         \/ /\ Top.seg.fin /\ refused[p] = "none"
            /\ UNCHANGED refused /\ unread' = FinRead(p)
  BY <1>1, <1>3 DEF DeliverFin, Place, Callback, Inside
<1>5. /\ p \in Pcb /\ ~Top.ab /\ (Top.seg.fin => st[p] \in Late)
      /\ \A q : ~Dropped(q) /\ (Ending(q) <=> q = p /\ Top.seg.fin)
  BY <1>1, <1>2, DeliverFacts DEF EndingIn
<1>6. PICK g \in Frame : IsOne(stack', g) /\ g.at = a /\ g.p = p
                         /\ g.seg = Top.seg /\ g.dead = Top.dead /\ g.ab = Top.ab
  BY <1>1, <1>2, <1>4, DeliverFacts, GotoOne
<1>7. FrameOK(g, st', unread', ref', changed')
  <2>1. st[p] \in Late => st[p] \in Sync
    BY DEF Late, Sync
  <2> QED BY <1>2, <1>3, <1>5, <1>6, <2>1 DEF FrameOK, LiveOK, Given, Answering
<1>8. Shape(stack') /\ Frames'
  BY <1>3, <1>6, <1>7, OneRecord
<1>9. /\ stack' \in Seq(Frame) /\ stack' /= <<>> /\ stack'[1] = g
      /\ Ending(p)' <=> a = "eof" /\ Top.seg.fin
  BY <1>2, <1>3, <1>6, SegNext DEF EndingIn
<1>10. WalkOK'
  BY <1>3, <1>6, <1>9, NoWalk DEF Walks
<1>11. unread' \in [Pcb -> 0 .. Window]
  BY <1>4, <1>5, SameTypes, FinReadFacts
<1>12. refused' \in [Pcb -> {"none", "data", "dataFin"}]
  BY <1>4, SameTypes
<1>13. \A q \in Pcb : PcbOK(q)'
  <2> TAKE q \in Pcb
  <2>1. CASE q = p
    <3>1. PcbOK(p) /\ refused'[p] \in {refused[p], "dataFin"}
          /\ (refused'[p] /= refused[p] => Top.seg.fin /\ refused[p] /= "none")
      BY <1>4, <1>5, SameTypes
    <3> QED BY <1>2, <1>3, <1>5, <1>9, <2>1, <3>1 DEF PcbOK
  <2>2. CASE q /= p
    <3>1. refused'[q] = refused[q]
      BY <1>4, <2>2, SameTypes
    <3> QED BY <1>2, <1>5, <2>2, <3>1, SameTypes, PcbSame
  <2> QED BY <2>1, <2>2
<1> QED BY <1>2, <1>8, <1>9, <1>10, <1>11, <1>12, <1>13, SameTypes, QuietLists

\* tcp_output leaves a FIN that is not queued alone.
LEMMA OutputFacts ==
  ASSUME IInv, NEW p \in Pcb, NEW f \in AfterOutput(p), fin' = [fin EXCEPT ![p] = f]
  PROVE  /\ fin' \in [Pcb -> {"none", "unsent", "sent"}]
         /\ \A q \in Pcb : fin'[q] = "none" <=> fin[q] = "none"
<1>1. fin[p] \in {"none", "unsent", "sent"} /\ f \in {"none", "unsent", "sent"}
      /\ (f = "none" <=> fin[p] = "none")
  BY SameTypes DEF AfterOutput
<1> QED BY <1>1, SameTypes

\* The last tcp_output of tcp_input.
LEMMA DeliverDoneStep ==
  ASSUME IInv, DeliverDone
  PROVE  IInv'
<1>1. /\ stack /= <<>> /\ Top.at = "d.out" /\ ~Top.dead
      /\ UNCHANGED <<st, active, tw, rx, unread, refused, lag, changed, ref, fault>>
  BY DEF DeliverDone, At
<1>2. PICK p : p = Top.p
  OBVIOUS
<1>3. PICK f \in AfterOutput(p) : fin' = [fin EXCEPT ![p] = f]
  BY <1>2 DEF DeliverDone
<1>4. p \in Pcb /\ Below = <<>> /\ \A q : ~Ending(q) /\ ~Dropped(q)
  BY <1>1, <1>2, DeliverFacts DEF EndingIn
<1>5. stack' = <<>>
  BY <1>4 DEF DeliverDone, Return
<1>6. /\ fin' \in [Pcb -> {"none", "unsent", "sent"}]
      /\ \A q \in Pcb : fin'[q] = "none" <=> fin[q] = "none"
  BY <1>3, <1>4, OutputFacts
<1>7. \A q \in Pcb : PcbOK(q)'
  BY <1>1, <1>4, <1>6, SameTypes, PcbSame
<1> QED BY <1>1, <1>5, <1>6, <1>7, NoRecord, SameTypes, QuietLists

\* The record of tcp_alloc asks nothing of the pcbs.
LEMMA AllocRecord ==
  ASSUME NEW f \in Frame, f.at = "alloc"
  PROVE  FrameOK(f, st', unread', ref', changed') /\ FrameOK(f, st, unread, ref, changed)
  BY DEF FrameOK, Conn, Answering, Given

\* A SYN for a listening pcb asks for a new one.
LEMMA ListenInputStep ==
  ASSUME IInv, ListenInput
  PROVE  IInv'
<1> DEFINE s == [NoSeg EXCEPT !.k = "syn"]
<1>1. stack = <<>> /\ stack' = <<Rec("alloc", NoPcb, s, {})>>
      /\ UNCHANGED <<st, active, tw, conn, lag, changed, ref, fault>>
  BY DEF ListenInput
<1>2. Fields("alloc", NoPcb, s, {})
  BY DEF Fields, Place, Inside, AnySeg, Seg, NoSeg
<1> HIDE DEF s
<1>3. PICK f : f = Rec("alloc", NoPcb, s, {})
  OBVIOUS
<1>4. f \in Frame /\ f.at = "alloc"
  BY <1>2, <1>3, RecFrame, RecFields
<1>5. IsOne(stack', f)
  BY <1>1, <1>3, <1>4, OneFrame
<1>6. \A q : ~Ending(q) /\ ~Dropped(q)
  BY <1>1 DEF Ending, Dropped
<1> QED BY <1>1, <1>4, <1>5, <1>6, AllocRecord, QuietOne DEF Walks

\* tcp_alloc runs alone.
LEMMA AllocFacts ==
  ASSUME IInv, At("alloc")
  PROVE  /\ stack /= <<>> /\ Top \in Frame /\ Top.at = "alloc" /\ Below = <<>>
         /\ IsOne(stack, Top)
         /\ \A q : ~Ending(q) /\ ~Dropped(q)
  BY InsideFacts DEF At, Above, EndingIn

\* The pool has a pcb.
LEMMA AllocOkStep ==
  ASSUME IInv, NEW p \in Pcb, AllocOk(p)
  PROVE  IInv'
<1>1. /\ At("alloc") /\ st[p] = "FREE" /\ UNCHANGED <<tw, conn, lag, fault>>
  BY DEF AllocOk, Pool
<1>2. Below = <<>> /\ \A q : ~Ending(q) /\ ~Dropped(q)
  BY <1>1, AllocFacts
<1>3. stack' = <<>>
  BY <1>2 DEF AllocOk, Return
<1>4. CASE st' = [st EXCEPT ![p] = "SYN_RCVD"] /\ active' = active \cup {p}
           /\ changed' = TRUE /\ UNCHANGED ref
  <2>1. "SYN_RCVD" \in State /\ "SYN_RCVD" \in ActiveState /\ "FREE" \notin ActiveState
    BY DEF State, ActiveState
  <2>2. st' \in [Pcb -> State] /\ st'[p] = "SYN_RCVD" /\ \A q \in Pcb \ {p} : st'[q] = st[q]
    BY <1>4, <2>1, SameTypes
  <2>3. Lists'
    BY <1>1, <1>4, <2>1, <2>2, SameTypes DEF Lists
  <2>4. TypeOK'
    BY <1>1, <1>3, <1>4, <2>2, NoRecord, SameTypes DEF TypeOK, conn
  <2>5. \A q \in Pcb : PcbOK(q)'
    <3> TAKE q \in Pcb
    <3>1. CASE q = p
      BY <1>1, <1>2, <1>4, <2>2, <3>1, SameTypes DEF PcbOK, conn, Late, Finished
    <3>2. CASE q /= p
      BY <1>1, <1>2, <1>4, <2>2, <3>2, SameTypes, PcbSame DEF conn
    <3> QED BY <3>1, <3>2
  <2> QED BY <1>1, <1>3, <2>3, <2>4, <2>5, NoRecord, SameTypes DEF IInv
<1>5. CASE changed' = TRUE /\ UNCHANGED <<st, active, ref>>
  <2>1. \A q \in Pcb : PcbOK(q)'
    BY <1>1, <1>2, <1>5, SamePcbs DEF conn
  <2> QED BY <1>1, <1>3, <1>5, <2>1, NoRecord, SameTypes, QuietLists DEF conn
<1>6. CASE st' = [st EXCEPT ![p] = "CLOSED"] /\ ref' = ref \cup {p}
           /\ UNCHANGED <<active, changed>>
  <2>1. "CLOSED" \in State /\ "CLOSED" \notin ActiveState /\ "FREE" \notin ActiveState
    BY DEF State, ActiveState
  <2>2. st' \in [Pcb -> State] /\ st'[p] = "CLOSED" /\ \A q \in Pcb \ {p} : st'[q] = st[q]
    BY <1>6, <2>1, SameTypes
  <2>3. Lists'
    BY <1>1, <1>6, <2>1, <2>2, SameTypes DEF Lists
  <2>4. ref' \in SUBSET Pcb
    BY <1>6, SameTypes
  <2>5. TypeOK'
    BY <1>1, <1>3, <1>6, <2>2, <2>4, NoRecord, SameTypes DEF TypeOK, conn
  <2>6. \A q \in Pcb : PcbOK(q)'
    <3> TAKE q \in Pcb
    <3>1. CASE q = p
      <4>1. PcbOK(p) /\ p \in ref' /\ UNCHANGED <<rx, refused, fin>>
        BY <1>1, <1>6, SameTypes DEF conn
      <4> QED BY <1>1, <2>2, <3>1, <4>1 DEF PcbOK, Late, Finished
    <3>2. CASE q /= p
      <4>1. q \in ref' <=> q \in ref
        BY <1>6, <3>2
      <4> QED BY <1>1, <1>2, <2>2, <3>2, <4>1, SameTypes, PcbSame DEF conn
    <3> QED BY <3>1, <3>2
  <2> QED BY <1>1, <1>3, <2>3, <2>5, <2>6, NoRecord, SameTypes DEF IInv
<1> QED BY <1>4, <1>5, <1>6 DEF AllocOk

\* One in TIME_WAIT is taken, which nobody holds.
LEMMA AllocKillTimeWaitStep ==
  ASSUME IInv, NEW p \in Pcb, AllocKillTimeWait(p)
  PROVE  IInv'
<1>1. /\ At("alloc") /\ p \in tw /\ Release(p) /\ tw' = tw \ {p} /\ stack' = Freed(stack, p)
      /\ UNCHANGED <<active, changed, ref, fault>>
  BY DEF AllocKillTimeWait
<1>2. /\ Top \in Frame /\ Top.at = "alloc" /\ IsOne(stack, Top)
      /\ \A q : ~Ending(q) /\ ~Dropped(q)
  BY <1>1, AllocFacts
<1>3. st[p] = "TIME_WAIT" /\ active' = active \ {p} /\ p \notin ref
  <2>1. st[p] = "TIME_WAIT" /\ p \notin active
    BY <1>1, SameTypes, OffList
  <2>2. p \notin ref
    BY <1>2, <2>1, SameTypes DEF PcbOK
  <2> QED BY <1>1, <2>1, <2>2
<1>4. PICK g : g = FreedRecord(Top, p)
  OBVIOUS
<1>5. g \in Frame /\ g.at = "alloc"
  BY <1>2, <1>4, FreedRecordFields
<1>6. IsOne(stack', g)
  <2>1. stack \in Seq(Frame) /\ Len(stack) = 1 /\ stack[1] = Top
    BY <1>2 DEF IsOne
  <2>2. stack' \in Seq(Frame) /\ Len(stack') = 1 /\ stack'[1] = FreedRecord(stack[1], p)
    BY <1>1, <2>1, FreedFacts
  <2> QED BY <1>4, <2>1, <2>2 DEF IsOne
<1>7. Shape(stack') /\ Frames'
  BY <1>5, <1>6, AllocRecord, OneRecord
<1>8. stack' \in Seq(Frame) /\ WalkOK'
  BY <1>5, <1>6, SegNext, NoWalk DEF Walks
<1> QED BY <1>1, <1>2, <1>3, <1>7, <1>8, SameTypes, FreeStep

\* An active one is taken, behind its err callback.
LEMMA AllocKillActiveStep ==
  ASSUME IInv, NEW p \in Pcb, AllocKillActive(p)
  PROVE  IInv'
<1> DEFINE s == [stack EXCEPT ![Len(stack)].ab = TRUE]
           h == [Top EXCEPT !.ab = TRUE]
<1>1. At("alloc") /\ p \in active /\ AbortOn(p, s)
  BY DEF AllocKillActive
<1>2. /\ Top \in Frame /\ Top.at = "alloc" /\ IsOne(stack, Top)
      /\ \A q : ~Ending(q) /\ ~Dropped(q)
  BY <1>1, AllocFacts
<1>3. h \in Frame /\ h.at = "alloc"
  BY <1>2 DEF Frame
<1>4. s = [stack EXCEPT ![1] = h]
  BY <1>2 DEF IsOne
<1> HIDE DEF h, s
<1>5. s \in Seq(Frame) /\ Len(s) = 1 /\ s[1] = h
  BY <1>2, <1>3, <1>4, Replaced DEF IsOne
<1>6. PICK g : g = FreedRecord(h, p)
  OBVIOUS
<1>7. g \in Frame /\ g.at = "alloc"
  BY <1>3, <1>6, FreedRecordFields
<1>8. IsOne(Freed(s, p), g)
  BY <1>5, <1>6, FreedFacts DEF IsOne
<1>9. Freed(s, p) = <<g>>
  BY <1>7, <1>8 DEF IsOne
<1>10. "err" \in Place /\ p \in Pcb \cup {NoPcb}
  BY DEF Place, Callback
<1>11. PICK e \in Frame : e = Call("err", p) /\ e.at = "err"
  BY <1>10, CallFacts
<1>12. IsOne(stack', g) \/ IsTwo(stack', g, e)
  <2>1. stack' = <<g>> \/ stack' = <<g>> \o <<>> \/ stack' = <<g>> \o <<e>>
    BY <1>1, <1>9, <1>11, AbortLists DEF ErrCall
  <2> QED BY <1>7, <1>11, <2>1, OneFrame, TwoFrames, Joined
<1>13. FrameOK(g, st', unread', ref', changed') /\ FrameOK(e, st', unread', ref', changed')
  BY <1>7, <1>11 DEF FrameOK, Conn, Answering, Given
<1>14. Shape(stack') /\ Frames'
  BY <1>7, <1>11, <1>12, <1>13, OneRecord, TwoRecords DEF Above
<1>15. stack' \in Seq(Frame) /\ WalkOK'
  BY <1>7, <1>12, SegNext, TwoNext, NoWalk DEF Walks
<1>16. ref' \in SUBSET Pcb /\ p \notin ref' /\ \A q \in Pcb \ {p} : q \in ref' <=> q \in ref
  BY <1>1, AbortLists, SameTypes
<1> QED BY <1>1, <1>2, <1>14, <1>15, <1>16, AbortLists, FreeStep

\* There is none to take.
LEMMA AllocFailsStep ==
  ASSUME IInv, AllocFails
  PROVE  IInv'
<1>1. At("alloc") /\ UNCHANGED <<st, active, tw, conn, lag, changed, ref, fault>>
  BY DEF AllocFails
<1>2. stack' = <<>> /\ \A q : ~Ending(q) /\ ~Dropped(q)
  BY <1>1, AllocFacts DEF AllocFails, Return
<1> QED BY <1>1, <1>2, QuietEnd

-----------------------------------------------------------------------------
(* tcp_tmr. *)

\* A record that is not about a connection.
LEMMA IdleRecord ==
  ASSUME NEW f, f.at \in {"alloc", "fast", "slow", "spin", "err", "tw"}
  PROVE  FrameOK(f, st', unread', ref', changed') /\ FrameOK(f, st, unread, ref, changed)
  BY DEF FrameOK, Conn, Answering, Given

\* A timer between two pcbs runs alone; those not ahead were processed.
LEMMA WalkFacts ==
  ASSUME IInv, At("fast") \/ At("slow")
  PROVE  /\ stack /= <<>> /\ Top \in Frame /\ Top.at \in Walks /\ Below = <<>>
         /\ IsOne(stack, Top) /\ Top.rest \in SUBSET Pcb
         /\ \A q : ~Ending(q) /\ ~Dropped(q)
         /\ ~changed => /\ Top.rest \subseteq active
                        /\ \A q \in active : q \in Top.rest \/ lag[q] = 0
<1>1. stack /= <<>> /\ Top.at \in Walks
  BY DEF At, Walks
<1>2. /\ Top \in Frame /\ Below = <<>> /\ IsOne(stack, Top) /\ stack[1] = Top
      /\ \A q : ~Ending(q) /\ ~Dropped(q)
  BY <1>1, InsideFacts DEF Above, EndingIn, Walks
<1>3. WalkOK
  BY SameTypes
<1> QED BY <1>1, <1>2, <1>3, FrameFields DEF WalkOK

\* The counts behind the timer stay below CtrMod.
LEMMA TickFacts ==
  ASSUME IInv, Tick
  PROVE  lag' \in [Pcb -> 0 .. CtrMod - 1]
<1>1. \A p \in Pcb : (lag[p] + 1) % CtrMod \in 0 .. CtrMod - 1
  BY SameTypes, CtrAssumption
<1>2. 0 \in 0 .. CtrMod - 1
  BY CtrAssumption
<1> QED BY <1>1, <1>2 DEF Tick

\* Every active pcb is ahead of a walk that starts.
LEMMA StartWalkStep ==
  ASSUME IInv, NEW a \in Walks, StartWalk(a), \A q : ~Ending(q) /\ ~Dropped(q)
  PROVE  IInv'
<1>1. /\ stack' = <<Rec(a, NoPcb, NoSeg, active)>> /\ changed' = FALSE /\ Tick
      /\ UNCHANGED <<st, active, tw, conn, ref, fault>>
  BY DEF StartWalk
<1>2. Fields(a, NoPcb, NoSeg, active)
  BY SameTypes DEF Fields, Walks, Place, Inside, AnySeg, NoSeg
<1>3. PICK f : f = Rec(a, NoPcb, NoSeg, active)
  OBVIOUS
<1>4. f \in Frame /\ f.at = a /\ f.rest = active
  BY <1>2, <1>3, RecFrame, RecFields
<1>5. IsOne(stack', f)
  BY <1>1, <1>3, <1>4, OneFrame
<1>6. Shape(stack') /\ Frames'
  BY <1>4, <1>5, IdleRecord, OneRecord DEF Walks
<1>7. stack' \in Seq(Frame) /\ stack'[1] = f
  BY <1>5, SegNext
<1>8. WalkOK'
  BY <1>1, <1>4, <1>7 DEF WalkOK
<1>9. lag' \in [Pcb -> 0 .. CtrMod - 1]
  BY <1>1, TickFacts
<1>10. \A q \in Pcb : PcbOK(q)'
  BY <1>1, SamePcbs DEF conn
<1> QED BY <1>1, <1>6, <1>7, <1>8, <1>9, <1>10, SameTypes, QuietLists DEF conn

\* tcp_fasttmr starts.
LEMMA FastTmrStep ==
  ASSUME IInv, FastTmr
  PROVE  IInv'
<1>1. \A q : ~Ending(q) /\ ~Dropped(q)
  BY DEF FastTmr, Ending, Dropped
<1> QED BY <1>1, StartWalkStep DEF FastTmr, Walks

\* tcp_fasttmr ends, and tcp_slowtmr follows or not.
LEMMA FastEndStep ==
  ASSUME IInv, FastEnd
  PROVE  IInv'
<1>1. Below = <<>> /\ \A q : ~Ending(q) /\ ~Dropped(q)
  BY WalkFacts DEF FastEnd
<1>2. CASE Return(<<>>) /\ UNCHANGED <<st, active, tw, conn, lag, changed, ref, fault>>
  BY <1>1, <1>2, QuietEnd DEF Return
<1>3. CASE StartWalk("slow")
  BY <1>1, <1>3, StartWalkStep DEF Walks
<1> QED BY <1>2, <1>3 DEF FastEnd

\* The walk starts again at the head of the list.
LEMMA RestartStep ==
  ASSUME IInv, Restart
  PROVE  IInv'
<1> DEFINE f == [Top EXCEPT !.rest = active]
<1>1. /\ At("fast") \/ At("slow")
      /\ changed' = FALSE /\ stack' = [stack EXCEPT ![Len(stack)].rest = active]
      /\ UNCHANGED <<st, active, tw, conn, lag, ref, fault>>
  BY DEF Restart
<1>2. /\ Top \in Frame /\ Top.at \in Walks /\ IsOne(stack, Top)
      /\ \A q : ~Ending(q) /\ ~Dropped(q)
  BY <1>1, WalkFacts
<1>3. f \in Frame /\ f.at = Top.at /\ f.rest = active
  BY <1>2, SameTypes DEF Frame
<1>4. stack' = [stack EXCEPT ![1] = f] /\ stack \in Seq(Frame) /\ Len(stack) = 1
  BY <1>1, <1>2 DEF IsOne
<1> HIDE DEF f
<1>5. IsOne(stack', f)
  BY <1>3, <1>4, Replaced
<1>6. Shape(stack') /\ Frames'
  BY <1>2, <1>3, <1>5, IdleRecord, OneRecord DEF Walks
<1>7. stack' \in Seq(Frame) /\ stack'[1] = f
  BY <1>5, SegNext
<1>8. WalkOK'
  BY <1>1, <1>3, <1>7 DEF WalkOK
<1>9. \A q \in Pcb : PcbOK(q)'
  BY <1>1, <1>2, SamePcbs DEF conn
<1> QED BY <1>1, <1>6, <1>7, <1>8, <1>9, SameTypes, QuietLists DEF conn

\* A walk goes on behind p.
LEMMA PastFacts ==
  ASSUME IInv, At("fast") \/ At("slow"), NEW p \in Pcb, NEW f, f = Past(p)
  PROVE  f \in Frame /\ f.at = Top.at /\ f.at \in Walks /\ f.rest = Top.rest \ {p}
  BY WalkFacts DEF Past, Frame

\* ... when p was processed in this tick.
LEMMA Passed ==
  ASSUME IInv, At("fast") \/ At("slow"), ~changed, NEW p \in Pcb, NEW f, f = Past(p),
         stack' /= <<>>, stack'[1] = f,
         lag'[p] = 0, \A q \in Pcb \ {p} : lag'[q] = lag[q],
         active' = active
  PROVE  WalkOK'
<1>1. f.rest = Top.rest \ {p}
  BY PastFacts
<1>2. Top.rest \subseteq active /\ \A q \in active : q \in Top.rest \/ lag[q] = 0
  BY WalkFacts
<1>3. active \subseteq Pcb
  BY SameTypes
<1> QED BY <1>1, <1>2, <1>3 DEF WalkOK

\* A timer processes a pcb and goes on behind it.
LEMMA ProcessedStep ==
  ASSUME IInv, At("fast") \/ At("slow"), ~changed, NEW p \in Pcb,
         lag' = [lag EXCEPT ![p] = 0],
         NEW o \in AfterOutput(p), fin' = [fin EXCEPT ![p] = o],
         refused' = refused \/ refused' = [refused EXCEPT ![p] = "none"],
         UNCHANGED <<st, active, tw, rx, unread, changed, ref, fault>>,
         NEW f, f = Past(p), NEW g \in Frame,
         IsOne(stack', f) \/ IsTwo(stack', f, g),
         IsTwo(stack', f, g) => /\ g.at \in Above
                                /\ g.at \in {"rrecv", "reof"} => f.at = "fast"
                                /\ FrameOK(g, st, unread, ref, changed)
  PROVE  IInv'
<1>1. f \in Frame /\ f.at \in Walks
  BY PastFacts
<1>2. FrameOK(f, st', unread', ref', changed')
  BY <1>1, IdleRecord DEF Walks
<1>3. Shape(stack') /\ Frames'
  <2>1. CASE IsOne(stack', f)
    BY <1>1, <1>2, <2>1, OneRecord DEF Walks
  <2>2. CASE IsTwo(stack', f, g)
    <3>1. FrameOK(g, st', unread', ref', changed')
      BY <2>2
    <3> QED BY <1>1, <1>2, <2>2, <3>1, TwoRecords DEF Walks
  <2> QED BY <2>1, <2>2
<1>4. stack' \in Seq(Frame) /\ stack' /= <<>> /\ stack'[1] = f
  BY SegNext, TwoNext
<1>5. 0 \in 0 .. CtrMod - 1
  BY CtrAssumption
<1>6. lag' \in [Pcb -> 0 .. CtrMod - 1] /\ lag'[p] = 0
      /\ \A q \in Pcb \ {p} : lag'[q] = lag[q]
  BY <1>5, SameTypes
<1>7. WalkOK'
  BY <1>4, <1>6, Passed
<1>8. /\ fin' \in [Pcb -> {"none", "unsent", "sent"}]
      /\ \A q \in Pcb : fin'[q] = "none" <=> fin[q] = "none"
  BY OutputFacts
<1>9. /\ refused' \in [Pcb -> {"none", "data", "dataFin"}]
      /\ \A q \in Pcb : refused'[q] \in {"none", refused[q]}
  BY SameTypes
<1>10. \A q \in Pcb : PcbOK(q)'
  <2> TAKE q \in Pcb
  <2>1. PcbOK(q) /\ ~Ending(q) /\ ~Dropped(q)
    BY SameTypes, WalkFacts
  <2> QED BY <1>8, <1>9, <2>1 DEF PcbOK
<1> QED BY <1>3, <1>4, <1>6, <1>7, <1>8, <1>9, <1>10, SameTypes, QuietLists

\* tcp_fasttmr comes to a pcb.
LEMMA FastVisitStep ==
  ASSUME IInv, NEW p \in Pcb, FastVisit(p)
  PROVE  IInv'
<1>1. At("fast") /\ ~changed /\ p \in Top.rest
  BY DEF FastVisit
<1>2. /\ p \in active /\ Top.at = "fast" /\ Below = <<>> /\ IsOne(stack, Top)
      /\ \A q : ~Ending(q) /\ ~Dropped(q)
  BY <1>1, WalkFacts DEF At
<1>3. CASE lag[p] = 0
  <2>1. Goto("spin") /\ UNCHANGED <<st, active, tw, conn, lag, changed, ref, fault>>
    BY <1>2, <1>3 DEF FastVisit
  <2>2. "spin" \in Place
    BY DEF Place, Inside
  <2>3. PICK g \in Frame : IsOne(stack', g) /\ g.at = "spin"
    BY <1>2, <2>1, <2>2, GotoOne
  <2> QED BY <1>2, <2>1, <2>3, IdleRecord, QuietOne DEF Walks
<1>4. CASE lag[p] /= 0
  <2> DEFINE k == Kept(p)
  <2>1. /\ lag' = [lag EXCEPT ![p] = 0]
        /\ \E o \in AfterOutput(p) : fin' = [fin EXCEPT ![p] = o]
        /\ refused' = [refused EXCEPT ![p] = "none"]
        /\ stack' = <<>> \o (<<Past(p)>> \o IF refused[p] = "none" THEN <<>>
                                         ELSE <<Rec("rrecv", p, k, {})>>)
        /\ UNCHANGED <<st, active, tw, rx, unread, changed, ref, fault>>
    BY <1>2, <1>4 DEF FastVisit, Return
  <2>2. PICK o \in AfterOutput(p) : fin' = [fin EXCEPT ![p] = o]
    BY <2>1
  <2>3. PICK f : f = Past(p)
    OBVIOUS
  <2>4. f \in Frame /\ f.at = "fast"
    BY <1>1, <1>2, <2>3, PastFacts
  <2>5. PICK g : g = Rec("rrecv", p, k, {})
    OBVIOUS
  <2>6. Fields("rrecv", p, k, {}) /\ k.data /\ ~k.sent /\ (k.fin <=> refused[p] = "dataFin")
    BY KeptFacts DEF Fields, Place, Callback
  <2> HIDE DEF k
  <2>7. g \in Frame /\ g.at = "rrecv" /\ g.p = p /\ g.seg = k /\ ~g.dead /\ ~g.ab
    BY <2>5, <2>6, RecFrame, RecFields
  <2>8. refused[p] /= "none" => FrameOK(g, st, unread, ref, changed)
    <3> SUFFICES ASSUME refused[p] /= "none" PROVE FrameOK(g, st, unread, ref, changed)
      OBVIOUS
    <3>1. PcbOK(p)
      BY SameTypes
    <3>2. st[p] \in Sync /\ (k.fin => st[p] \in Late)
      BY <2>6, <3>1 DEF PcbOK, Sync
    <3> QED BY <2>6, <2>7, <3>2 DEF FrameOK, LiveOK
  <2>9. \/ refused[p] = "none" /\ IsOne(stack', f)
        \/ refused[p] /= "none" /\ IsTwo(stack', f, g)
    <3>1. CASE refused[p] = "none"
      <4>1. stack' = <<>> \o (<<f>> \o <<>>)
        BY <2>1, <2>3, <3>1
      <4> QED BY <2>4, <3>1, <4>1, Joined, OneFrame
    <3>2. CASE refused[p] /= "none"
      <4>1. stack' = <<>> \o (<<f>> \o <<g>>)
        BY <2>1, <2>3, <2>5, <3>2
      <4>2. stack' = <<f>> \o <<g>>
        BY <2>4, <2>7, <4>1
      <4> QED BY <2>4, <2>7, <3>2, <4>2, TwoFrames
    <3> QED BY <3>1, <3>2
  <2>10. IsTwo(stack', f, g) => refused[p] /= "none"
    BY <2>9 DEF IsOne, IsTwo
  <2> QED BY <1>1, <2>1, <2>2, <2>3, <2>4, <2>7, <2>8, <2>9, <2>10, ProcessedStep DEF Above
<1> QED BY <1>3, <1>4

\* tcp_slowtmr comes to a pcb, which it may give up.
LEMMA SlowVisitStep ==
  ASSUME IInv, NEW p \in Pcb, SlowVisit(p)
  PROVE  IInv'
<1>1. At("slow") /\ ~changed /\ p \in Top.rest
  BY DEF SlowVisit
<1>2. /\ p \in active /\ Top.at = "slow" /\ Below = <<>> /\ IsOne(stack, Top) /\ Top \in Frame
      /\ Top.rest \subseteq active /\ \A q \in active : q \in Top.rest \/ lag[q] = 0
      /\ \A q : ~Ending(q) /\ ~Dropped(q)
  BY <1>1, WalkFacts DEF At
<1>3. PICK f : f = Past(p)
  OBVIOUS
<1>4. f \in Frame /\ f.at = "slow" /\ f.rest = Top.rest \ {p}
  BY <1>1, <1>2, <1>3, PastFacts
<1>5. \A s : Return(<<Past(p)>> \o s) <=> stack' = <<>> \o (<<f>> \o s)
  BY <1>2, <1>3 DEF Return
<1>6. "err" \in Place /\ "poll" \in Place /\ p \in Pcb \cup {NoPcb}
  BY DEF Place, Callback
<1>7. CASE lag[p] = 0
  <2>1. stack' = <<>> \o <<f>> /\ UNCHANGED <<st, active, tw, conn, lag, changed, ref, fault>>
    BY <1>2, <1>3, <1>7 DEF SlowVisit, Return
  <2>2. IsOne(stack', f)
    BY <1>4, <2>1, Joined, OneFrame
  <2>3. Shape(stack') /\ Frames'
    BY <1>4, <2>2, IdleRecord, OneRecord
  <2>4. stack' \in Seq(Frame) /\ stack' /= <<>> /\ stack'[1] = f
    BY <2>2, SegNext
  <2>5. WalkOK'
    BY <1>1, <1>3, <1>7, <2>1, <2>4, Passed DEF conn
  <2> QED BY <1>2, <2>1, <2>3, <2>4, <2>5, Quiet
<1>8. CASE /\ Release(p) /\ active' = active \ {p} /\ ref' = ref \ {p}
           /\ Return(<<Past(p)>> \o ErrCall(p))
           /\ UNCHANGED <<tw, changed, fault>>
  <2>1. PICK e \in Frame : e = Call("err", p) /\ e.at = "err"
    BY <1>6, CallFacts
  <2>2. stack' = <<>> \o (<<f>> \o <<>>) \/ stack' = <<>> \o (<<f>> \o <<e>>)
    BY <1>5, <1>8, <2>1 DEF ErrCall
  <2>3. IsOne(stack', f) \/ IsTwo(stack', f, e)
    <3>1. <<>> \o (<<f>> \o <<e>>) = <<f>> \o <<e>>
      BY <1>4, <2>1
    <3> QED BY <1>4, <2>1, <2>2, <3>1, Joined, OneFrame, TwoFrames
  <2>4. Shape(stack') /\ Frames'
    BY <1>4, <2>1, <2>3, IdleRecord, OneRecord, TwoRecords DEF Above
  <2>5. stack' \in Seq(Frame) /\ stack' /= <<>> /\ stack'[1] = f
    BY <2>3, SegNext, TwoNext
  <2>6. \A q \in active' : q \in Pcb \ {p}
    BY <1>8, SameTypes
  <2>7. \A q \in Pcb \ {p} : lag'[q] = lag[q]
    BY <1>8, SameTypes DEF Release
  <2>8. WalkOK'
    BY <1>2, <1>4, <1>8, <2>5, <2>6, <2>7 DEF WalkOK
  <2>9. tw' = tw \ {p}
    BY <1>2, <1>8, SameTypes, OffList
  <2>10. ref' \in SUBSET Pcb /\ p \notin ref' /\ \A q \in Pcb \ {p} : q \in ref' <=> q \in ref
    BY <1>8, SameTypes
  <2> QED BY <1>2, <1>8, <2>4, <2>5, <2>8, <2>9, <2>10, SameTypes, FreeStep
<1>9. CASE /\ lag[p] /= 0
           /\ lag' = [lag EXCEPT ![p] = 0]
           /\ \E o \in AfterOutput(p) : fin' = [fin EXCEPT ![p] = o]
           /\ \E poll \in BOOLEAN :
                Return(<<Past(p)>> \o IF poll /\ st[p] /= "SYN_RCVD"
                                      THEN <<Call("poll", p)>> ELSE <<>>)
           /\ UNCHANGED <<st, active, tw, rx, unread, refused, changed, ref, fault>>
  <2>1. PICK g \in Frame : g = Call("poll", p) /\ g.at = "poll" /\ g.p = p /\ ~g.dead /\ ~g.ab
    BY <1>6, CallFacts
  <2>2. stack' = <<>> \o (<<f>> \o <<>>) \/ stack' = <<>> \o (<<f>> \o <<g>>)
    BY <1>5, <1>9, <2>1
  <2>3. IsOne(stack', f) \/ IsTwo(stack', f, g)
    <3>1. <<>> \o (<<f>> \o <<g>>) = <<f>> \o <<g>>
      BY <1>4, <2>1
    <3> QED BY <1>4, <2>1, <2>2, <3>1, Joined, OneFrame, TwoFrames
  <2>4. FrameOK(g, st, unread, ref, changed)
    <3>1. st[p] \in ActiveState
      BY <1>2, SameTypes DEF Lists
    <3> QED BY <2>1, <3>1 DEF FrameOK, Answering
  <2>5. PICK o \in AfterOutput(p) : fin' = [fin EXCEPT ![p] = o]
    BY <1>9
  <2> QED BY <1>1, <1>3, <1>9, <2>1, <2>3, <2>4, <2>5, ProcessedStep DEF Above
<1> QED
  <2>1. p \in active
    BY <1>2
  <2>2. CASE lag[p] = 0
    BY <1>7, <2>2
  <2>3. CASE lag[p] /= 0
    BY <1>8, <1>9, <2>1, <2>3 DEF SlowVisit
  <2> QED BY <2>2, <2>3

\* tcp_slowtmr frees those that waited long enough.
LEMMA SlowEndStep ==
  ASSUME IInv, SlowEnd
  PROVE  IInv'
<1>1. At("slow") /\ UNCHANGED <<active, changed, ref, fault>>
  BY DEF SlowEnd
<1>2. Below = <<>> /\ \A q : ~Ending(q) /\ ~Dropped(q)
  BY <1>1, WalkFacts
<1>3. stack' = <<>>
  BY <1>2 DEF SlowEnd, Return
<1>4. PICK old \in SUBSET tw :
        /\ tw' = tw \ old
        /\ st' = [p \in Pcb |-> IF p \in old THEN "FREE" ELSE st[p]]
        /\ rx' = rx \ old
        /\ unread' = [p \in Pcb |-> IF p \in old THEN 0 ELSE unread[p]]
        /\ refused' = [p \in Pcb |-> IF p \in old THEN "none" ELSE refused[p]]
        /\ fin' = [p \in Pcb |-> IF p \in old THEN "none" ELSE fin[p]]
        /\ lag' = [p \in Pcb |-> IF p \in old THEN 0 ELSE lag[p]]
  BY DEF SlowEnd
<1>5. "FREE" \in State /\ "FREE" \notin ActiveState /\ "TIME_WAIT" \notin ActiveState
      /\ 0 \in 0 .. Window /\ 0 \in 0 .. CtrMod - 1
  BY WindowAssumption, CtrAssumption DEF State, ActiveState
<1>6. /\ st' \in [Pcb -> State] /\ tw' \in SUBSET Pcb /\ rx' \in SUBSET Pcb
  BY <1>4, <1>5, SameTypes
<1>7. unread' \in [Pcb -> 0 .. Window] /\ lag' \in [Pcb -> 0 .. CtrMod - 1]
  BY <1>4, <1>5, SameTypes
<1>8. /\ refused' \in [Pcb -> {"none", "data", "dataFin"}]
      /\ fin' \in [Pcb -> {"none", "unsent", "sent"}]
  BY <1>4, SameTypes
<1>9. TypeOK'
  BY <1>1, <1>3, <1>6, <1>7, <1>8, NoRecord, SameTypes DEF TypeOK
<1>10. \A q \in old : st[q] = "TIME_WAIT" /\ q \in Pcb
  BY SameTypes DEF Lists
<1>11. Lists'
  BY <1>1, <1>4, <1>5, <1>10, SameTypes DEF Lists
<1>12. \A q \in Pcb : PcbOK(q)'
  <2> TAKE q \in Pcb
  <2>1. CASE q \in old
    <3>1. q \notin ref
      BY <1>2, <1>10, <2>1, SameTypes DEF PcbOK
    <3> QED BY <1>1, <1>4, <2>1, <3>1, PcbFree
  <2>2. CASE q \notin old
    BY <1>1, <1>2, <1>4, <2>2, SameTypes, PcbSame
  <2> QED BY <2>1, <2>2
<1> QED BY <1>1, <1>3, <1>9, <1>11, <1>12, NoRecord, SameTypes DEF IInv

\* A step that changes nothing.
LEMMA StutterStep ==
  ASSUME IInv, UNCHANGED vars
  PROVE  IInv'
<1>1. /\ UNCHANGED <<st, active, tw, rx, unread, refused, fin>>
      /\ UNCHANGED <<lag, changed, stack, ref, fault>>
  BY DEF vars
<1>2. TypeOK' /\ Lists' /\ ~fault'
  BY <1>1, SameTypes DEF TypeOK, Lists
<1>3. (\A q \in Pcb : PcbOK(q)') /\ Shape(stack') /\ Frames' /\ WalkOK'
  BY <1>1, SameTypes DEF PcbOK, Ending, Dropped, Frames, WalkOK
<1> QED BY <1>2, <1>3 DEF IInv

-----------------------------------------------------------------------------
(* A callback returns. *)

\* What a well-behaved callback returns says whether it called tcp_abort.
LEMMA ResultFacts ==
  ASSUME IInv, stack /= <<>>, Top.at \in Answering,
         FrameOK(Top, st, unread, ref, changed), NEW r \in Results,
         WellBehaved \/ r = "OK"
  PROVE  /\ r \in {"OK", "MEM", "ABRT"}
         /\ r = "ABRT" <=> Top.dead
         /\ r = "MEM" /\ Top.at /= "accept" =>
              st[Top.p] \in {"ESTABLISHED", "CLOSE_WAIT"}
<1>1. Top.dead <=> Top.ab
  BY DEF FrameOK
<1>2. r \in {"OK", "MEM", "ABRT"} /\ (r = "ABRT" <=> Top.ab)
  BY DEF Results
<1>3. r = "MEM" => "refuseLate" \notin CallbackOps
  BY DEF WellBehaved
<1>4. r = "MEM" => MayRefuse
  BY DEF Results
<1>5. r = "MEM" /\ Top.at /= "accept" => st[Top.p] \in {"ESTABLISHED", "CLOSE_WAIT"}
  BY <1>3, <1>4 DEF MayRefuse, At
<1> QED BY <1>1, <1>2, <1>5

\* A callback of tcp_input.
LEMMA AnswerFacts ==
  ASSUME IInv, stack /= <<>>,
         Top.at \in {"accept", "connected", "sent", "recv", "eof"}, NEW r \in Results,
         WellBehaved \/ r = "OK"
  PROVE  /\ IsOne(stack, Top) /\ Top \in Frame /\ Below = <<>> /\ stack[1] = Top
         /\ Top.p \in Pcb /\ Top.seg \in AnySeg
         /\ r \in {"OK", "MEM", "ABRT"} /\ (r = "ABRT" <=> Top.dead)
         /\ r = "MEM" /\ Top.at /= "accept" =>
              st[Top.p] \in {"ESTABLISHED", "CLOSE_WAIT"}
         /\ ~Top.dead => LiveOK(Top, st, unread, ref) /\ ~Top.ab
         /\ \A q : ~Dropped(q) /\ (Ending(q) <=> EndingIn(Top, q))
<1>1. /\ IsOne(stack, Top) /\ Top \in Frame /\ Below = <<>> /\ stack[1] = Top
      /\ FrameOK(Top, st, unread, ref, changed)
      /\ \A q : ~Dropped(q) /\ (Ending(q) <=> EndingIn(Top, q))
  BY InsideFacts DEF Above
<1>2. Top.at \in Answering /\ Top.at \in Conn \ {"poll"}
  BY DEF Answering, Conn
<1>3. Top.p \in Pcb /\ (~Top.dead => LiveOK(Top, st, unread, ref) /\ ~Top.ab)
  BY <1>1, <1>2 DEF FrameOK
<1> QED BY <1>1, <1>2, <1>3, ResultFacts, FrameFields

\* With that result the caller goes on exactly when its pcb is alive.
LEMMA LeaveFacts ==
  ASSUME NEW r, NEW a, Leave(r, a), r = "ABRT" <=> Top.dead, Below = <<>>
  PROVE  /\ UNCHANGED fault
         /\ Top.dead => stack' = <<>>
         /\ ~Top.dead => Goto(a)
  BY DEF Leave, Continue, Return

\* The callback of tcp_input is left for a.
LEMMA AnswerStep ==
  ASSUME IInv, stack /= <<>>,
         Top.at \in {"accept", "connected", "sent", "eof"}, NEW r \in Results,
         WellBehaved \/ r = "OK",
         NEW a \in {"d.sent", "d.recv", "d.out"}, Leave(r, a),
         UNCHANGED <<st, active, tw, conn, lag, changed, ref>>,
         Top.at = "accept" => Top.dead,
         Top.at = "sent" => a = "d.recv",
         Top.at \in {"connected", "eof"} => a = "d.out",
         Top.at = "eof" => Top.p \notin ref
  PROVE  IInv'
<1>1. /\ IsOne(stack, Top) /\ Below = <<>> /\ (r = "ABRT" <=> Top.dead)
      /\ Top.p \in Pcb
      /\ ~Top.dead => LiveOK(Top, st, unread, ref) /\ ~Top.ab
      /\ \A q : ~Dropped(q) /\ (Ending(q) <=> EndingIn(Top, q))
  BY AnswerFacts
<1>2. UNCHANGED fault /\ (Top.dead => stack' = <<>>) /\ (~Top.dead => Goto(a))
  BY <1>1, LeaveFacts
<1>3. CASE Top.dead
  <2>1. \A q : ~Dropped(q) /\ ~Ending(q)
    BY <1>1, <1>3 DEF EndingIn
  <2> QED BY <1>2, <1>3, <2>1, QuietEnd
<1>4. CASE ~Top.dead
  <2>1. a \in Place
    BY DEF Place, Inside
  <2>2. PICK g \in Frame : IsOne(stack', g) /\ g.at = a /\ g.p = Top.p
                           /\ g.seg = Top.seg /\ g.dead = Top.dead /\ g.ab = Top.ab
    BY <1>1, <1>2, <1>4, <2>1, GotoOne
  <2>3. FrameOK(g, st, unread, ref, changed)
    BY <1>1, <1>4, <2>2 DEF FrameOK, LiveOK, Answering, Given
  <2>4. \A q : ~Dropped(q) /\ (Ending(q) /\ q \in ref => EndingIn(g, q))
    BY <1>1, <1>4, <2>2 DEF EndingIn
  <2> QED BY <1>2, <2>2, <2>3, <2>4, QuietOne DEF Walks
<1> QED BY <1>3, <1>4

\* The connected callback returns.
LEMMA ConnectedReturnsStep ==
  ASSUME IInv, NEW r \in Results, WellBehaved \/ r = "OK", ConnectedReturns(r)
  PROVE  IInv'
<1>1. stack /= <<>> /\ Top.at = "connected" /\ Leave(r, "d.out")
      /\ UNCHANGED <<st, active, tw, conn, lag, changed, ref>>
  BY DEF ConnectedReturns, At
<1> QED BY <1>1, AnswerStep

\* The sent callback returns.
LEMMA SentReturnsStep ==
  ASSUME IInv, NEW r \in Results, WellBehaved \/ r = "OK", SentReturns(r)
  PROVE  IInv'
<1>1. stack /= <<>> /\ Top.at = "sent" /\ Leave(r, "d.recv")
      /\ UNCHANGED <<st, active, tw, conn, lag, changed, ref>>
  BY DEF SentReturns, At
<1> QED BY <1>1, AnswerStep

\* The recv callback returns that was told of the end.
LEMMA EofReturnsStep ==
  ASSUME IInv, WellBehaved, NEW r \in Results, EofReturns(r), MayReturn
  PROVE  IInv'
<1>1. stack /= <<>> /\ Top.at = "eof" /\ Leave(r, "d.out")
      /\ UNCHANGED <<st, active, tw, conn, lag, changed, ref>>
  BY DEF EofReturns, At
<1>2. Top.p \notin ref
  BY <1>1 DEF MayReturn
<1> QED BY <1>1, <1>2, AnswerStep

\* The accept callback returns, and the segment is received or the pcb aborted.
LEMMA AcceptReturnsStep ==
  ASSUME IInv, NEW r \in Results, WellBehaved \/ r = "OK", AcceptReturns(r)
  PROVE  IInv'
<1>1. stack /= <<>> /\ Top.at = "accept"
  BY DEF AcceptReturns, At
<1>2. PICK p, s : p = Top.p /\ s = Top.seg
  OBVIOUS
<1>3. /\ Below = <<>> /\ p \in Pcb /\ s \in AnySeg
      /\ r \in {"OK", "MEM", "ABRT"} /\ (r = "ABRT" <=> Top.dead)
      /\ ~Top.dead => LiveOK(Top, st, unread, ref)
      /\ \A q : ~Dropped(q) /\ ~Ending(q)
  BY <1>1, <1>2, AnswerFacts DEF EndingIn
<1>4. CASE r = "OK"
  <2>1. /\ Receive(p, s)
        /\ ToState(p, IF Got(p, s).fin THEN "CLOSE_WAIT" ELSE st[p])
    BY <1>2, <1>3, <1>4 DEF AcceptReturns
  <2>2. ~Top.dead /\ st[p] = "ESTABLISHED"
    BY <1>1, <1>2, <1>3, <1>4 DEF LiveOK
  <2>3. PICK t \in ActiveState : t = IF Got(p, s).fin THEN "CLOSE_WAIT" ELSE st[p]
    BY <2>2 DEF ActiveState
  <2>4. st[p] \in ActiveState
    BY <2>2 DEF ActiveState
  <2>5. /\ st' \in [Pcb -> State] /\ active' \in SUBSET Pcb /\ tw' \in SUBSET Pcb
        /\ refused' \in [Pcb -> {"none", "data", "dataFin"}] /\ changed' \in BOOLEAN
        /\ Lists'
        /\ st'[p] = t /\ refused' = refused
        /\ \A q \in Pcb \ {p} : st'[q] = st[q] /\ refused'[q] = refused[q]
    BY <1>3, <2>1, <2>3, <2>4, ToStateFacts
  <2>6. t \in {"ESTABLISHED", "CLOSE_WAIT"} /\ (Got(p, s).fin => t = "CLOSE_WAIT")
    BY <2>2, <2>3
  <2>7. UNCHANGED <<rx, fin, ref>>
    BY <2>1 DEF Receive
  <2>8. PcbOK(p)'
    <3>1. PcbOK(p)
      BY <1>3, SameTypes
    <3> QED BY <1>3, <2>2, <2>5, <2>6, <2>7, <3>1 DEF PcbOK, Late, Finished
  <2> QED BY <1>1, <1>2, <1>3, <2>1, <2>2, <2>5, <2>6, <2>8, ReceiveStep DEF Sync, Late
<1>5. CASE r = "MEM"
  <2>1. AbortOn(p, <<>>)
    BY <1>2, <1>3, <1>5 DEF AcceptReturns
  <2> QED BY <1>3, <2>1, AbortLone
<1>6. CASE r = "ABRT"
  <2>1. Leave(r, "d.sent") /\ UNCHANGED <<st, active, tw, conn, lag, changed, ref>>
    BY <1>3, <1>6 DEF AcceptReturns
  <2> QED BY <1>1, <1>3, <1>6, <2>1, AnswerStep
<1> QED BY <1>3, <1>4, <1>5, <1>6

\* The recv callback returns, and its data is taken or kept.
LEMMA RecvReturnsStep ==
  ASSUME IInv, NEW r \in Results, WellBehaved \/ r = "OK", RecvReturns(r)
  PROVE  IInv'
<1>1. /\ stack /= <<>> /\ Top.at = "recv" /\ Leave(r, "d.fin")
      /\ UNCHANGED <<st, active, tw, rx, unread, fin, lag, changed, ref>>
  BY DEF RecvReturns, At
<1>2. PICK p : p = Top.p
  OBVIOUS
<1>3. /\ IsOne(stack, Top) /\ Below = <<>> /\ p \in Pcb
      /\ (r = "ABRT" <=> Top.dead)
      /\ r = "MEM" => st[p] \in {"ESTABLISHED", "CLOSE_WAIT"}
      /\ ~Top.dead => LiveOK(Top, st, unread, ref) /\ ~Top.ab
      /\ \A q : ~Dropped(q) /\ (Ending(q) <=> EndingIn(Top, q))
  BY <1>1, <1>2, AnswerFacts
<1>4. UNCHANGED fault /\ (Top.dead => stack' = <<>>) /\ (~Top.dead => Goto("d.fin"))
  BY <1>1, <1>3, LeaveFacts
<1>5. refused' = [refused EXCEPT ![p] = IF r = "MEM" /\ ~Top.dead THEN "data" ELSE refused[p]]
  BY <1>2, <1>3, SameTypes DEF RecvReturns
<1>6. refused' \in [Pcb -> {"none", "data", "dataFin"}]
  BY <1>3, <1>5, SameTypes
<1>7. \A q \in Pcb :
        \/ refused'[q] = refused[q]
        \/ q = p /\ refused'[q] = "data" /\ st[q] \in {"ESTABLISHED", "CLOSE_WAIT"}
  <2> TAKE q \in Pcb
  <2>1. CASE q = p /\ r = "MEM" /\ ~Top.dead
    BY <1>3, <1>5, <2>1, SameTypes
  <2>2. CASE ~(q = p /\ r = "MEM" /\ ~Top.dead)
    BY <1>3, <1>5, <2>2, SameTypes
  <2> QED BY <2>1, <2>2
<1>8. /\ stack' \in Seq(Frame) /\ Shape(stack') /\ Frames' /\ WalkOK'
      /\ \A q : Ending(q) => Ending(q)'
  <2>1. CASE Top.dead
    <3>1. \A q : ~Ending(q)
      BY <1>3, <2>1 DEF EndingIn
    <3> QED BY <1>4, <2>1, <3>1, NoRecord
  <2>2. CASE ~Top.dead
    <3>1. "d.fin" \in Place
      BY DEF Place, Inside
    <3>2. PICK g \in Frame : IsOne(stack', g) /\ g.at = "d.fin" /\ g.p = Top.p
                             /\ g.seg = Top.seg /\ g.dead = Top.dead /\ g.ab = Top.ab
      BY <1>3, <1>4, <2>2, <3>1, GotoOne
    <3>3. FrameOK(g, st', unread', ref', changed')
      BY <1>1, <1>2, <1>3, <2>2, <3>2 DEF FrameOK, LiveOK, Answering, Given
    <3>4. Shape(stack') /\ Frames'
      BY <3>2, <3>3, OneRecord
    <3>5. /\ stack' \in Seq(Frame) /\ stack' /= <<>> /\ stack'[1] = g
          /\ \A q : Ending(q)' <=> EndingIn(g, q)
      BY <3>2, SegNext
    <3>6. \A q : Ending(q) => Ending(q)'
      BY <1>1, <1>3, <3>2, <3>5 DEF EndingIn
    <3>7. WalkOK'
      BY <3>2, <3>5, NoWalk DEF Walks
    <3> QED BY <3>4, <3>5, <3>6, <3>7
  <2> QED BY <2>1, <2>2
<1>9. \A q \in Pcb : PcbOK(q)'
  <2> TAKE q \in Pcb
  <2>1. PcbOK(q) /\ ~Dropped(q)
    BY <1>3, SameTypes
  <2> QED BY <1>1, <1>7, <1>8, <2>1 DEF PcbOK
<1> QED BY <1>1, <1>4, <1>6, <1>8, <1>9, SameTypes, QuietLists

\* A callback above a function of the stack that called it.
LEMMA AboveFacts ==
  ASSUME IInv, stack /= <<>>, Top.at \in {"poll", "rrecv", "reof"}
  PROVE  /\ IsTwo(stack, stack[1], Top) /\ stack[1] \in Frame /\ Top \in Frame
         /\ IsOne(Below, stack[1]) /\ Caller = stack[1].at
         /\ FrameOK(stack[1], st, unread, ref, changed)
         /\ FrameOK(Top, st, unread, ref, changed)
         /\ stack[1].at \notin {"rrecv", "reof", "poll"}
         /\ Top.at \in {"rrecv", "reof"} => stack[1].at \in {"process", "fast"}
         /\ stack[1].at = "process" => /\ Top.at \in {"rrecv", "reof"} /\ Top.p = stack[1].p
                                       /\ (Top.dead <=> stack[1].dead)
         /\ Len(stack) = 2
<1>1. stack \in Seq(Frame) /\ Shape(stack) /\ Frames
  BY SameTypes
<1>2. /\ Len(stack) \in Nat \ {0} /\ DOMAIN stack = 1 .. Len(stack)
      /\ Top \in Frame /\ Top = stack[Len(stack)]
      /\ Below \in Seq(Frame) /\ Len(Below) = Len(stack) - 1
      /\ \A i \in 1 .. Len(stack) - 1 : Below[i] = stack[i]
  BY <1>1, StackFacts DEF Top
<1>3. Len(stack) /= 1 /\ ~(Len(stack) > 2)
  BY <1>1, <1>2 DEF Shape
<1>4. Len(stack) = 2
  BY <1>2, <1>3
<1>5. Top = stack[2] /\ stack[1] \in Frame
  BY <1>1, <1>2, <1>4, SeqElement
<1>6. IsTwo(stack, stack[1], Top) /\ IsOne(Below, stack[1])
  BY <1>1, <1>2, <1>4, <1>5 DEF IsTwo, IsOne
<1>7. Caller = stack[1].at
  <2>1. Below[1] = stack[1] /\ Len(Below) = 1
    BY <1>2, <1>4
  <2>2. Below /= <<>>
    BY <2>1
  <2>3. Below[Len(Below)] = stack[1]
    BY <2>1
  <2> QED BY <2>2, <2>3 DEF Caller
<1>8. FrameOK(stack[1], st, unread, ref, changed) /\ FrameOK(Top, st, unread, ref, changed)
  BY <1>1, <1>2, <1>4, <1>5 DEF Frames
<1>9. /\ stack[1].at \notin {"rrecv", "reof", "poll"}
      /\ Top.at \in {"rrecv", "reof"} => stack[1].at \in {"process", "fast"}
      /\ stack[1].at = "process" => /\ Top.at \in {"rrecv", "reof"} /\ Top.p = stack[1].p
                                    /\ (Top.dead <=> stack[1].dead)
  BY <1>1, <1>2, <1>4, <1>5 DEF Shape
<1> QED BY <1>2, <1>4, <1>5, <1>6, <1>7, <1>8, <1>9

\* The walk at the bottom of the stack is where it was.
LEMMA SameWalk ==
  ASSUME IInv, stack /= <<>>, stack'[1] = stack[1], UNCHANGED <<active, lag, changed>>
  PROVE  WalkOK'
  BY SameTypes DEF WalkOK

\* Nothing put on top of a stack.
LEMMA Popped ==
  ASSUME NEW s \in Seq(Frame)
  PROVE  s \o <<>> = s
  OBVIOUS

\* The caller goes on where it was.
LEMMA BackToCaller ==
  ASSUME IInv, stack /= <<>>, Top.at \in {"poll", "rrecv", "reof"},
         Return(<<>>), UNCHANGED <<st, active, ref, lag, changed>>,
         unread' = unread
  PROVE  /\ stack' \in Seq(Frame) /\ Shape(stack') /\ Frames' /\ WalkOK'
         /\ \A q : (Ending(q)' <=> Ending(q)) /\ (Dropped(q)' <=> Dropped(q))
<1>1. /\ IsOne(Below, stack[1])
      /\ FrameOK(stack[1], st, unread, ref, changed)
      /\ stack[1].at \notin {"rrecv", "reof", "poll"}
  BY AboveFacts
<1>2. PICK f : f = stack[1]
  OBVIOUS
<1>3. stack' = Below
  BY <1>1, Popped DEF Return, IsOne
<1>4. IsOne(stack', f)
  BY <1>1, <1>2, <1>3
<1>5. FrameOK(f, st', unread', ref', changed')
  BY <1>1, <1>2
<1>6. Shape(stack') /\ Frames'
  BY <1>1, <1>2, <1>4, <1>5, OneRecord
<1>7. stack' \in Seq(Frame) /\ stack' /= <<>> /\ stack'[1] = stack[1]
  BY <1>2, <1>4, SegNext
<1>8. WalkOK'
  BY <1>7, SameWalk
<1>9. \A q : (Ending(q)' <=> Ending(q)) /\ (Dropped(q)' <=> Dropped(q))
  BY <1>7 DEF Ending, Dropped
<1> QED BY <1>6, <1>7, <1>8, <1>9

\* The poll callback returns to tcp_slowtmr.
LEMMA PollReturnsStep ==
  ASSUME IInv, NEW r, PollReturns(r)
  PROVE  IInv'
<1>1. /\ stack /= <<>> /\ Top.at = "poll" /\ Return(<<>>)
      /\ UNCHANGED <<st, active, tw, rx, unread, refused, lag, changed, ref>>
  BY DEF PollReturns, At
<1>2. PICK p : p = Top.p
  OBVIOUS
<1>3. p \in Pcb /\ (Top.dead => changed)
  BY <1>1, <1>2, AboveFacts DEF FrameOK, Conn
<1>4. /\ stack' \in Seq(Frame) /\ Shape(stack') /\ Frames' /\ WalkOK'
      /\ \A q : (Ending(q)' <=> Ending(q)) /\ (Dropped(q)' <=> Dropped(q))
  BY <1>1, BackToCaller
<1>5. \/ UNCHANGED <<fin, fault>>
      \/ UNCHANGED fault /\ \E f \in AfterOutput(p) : fin' = [fin EXCEPT ![p] = f]
  <2>1. CASE changed \/ r /= "OK"
    BY <2>1 DEF PollReturns
  <2>2. CASE ~(changed \/ r /= "OK")
    <3>1. fault' = (fault \/ Top.dead) /\ \E f \in AfterOutput(p) : fin' = [fin EXCEPT ![p] = f]
      BY <1>2, <2>2 DEF PollReturns
    <3>2. ~Top.dead
      BY <1>3, <2>2
    <3> QED BY <3>1, <3>2, SameTypes
  <2> QED BY <2>1, <2>2
<1>6. /\ fin' \in [Pcb -> {"none", "unsent", "sent"}]
      /\ \A q \in Pcb : fin'[q] = "none" <=> fin[q] = "none"
      /\ UNCHANGED fault
  BY <1>3, <1>5, SameTypes, OutputFacts
<1>7. \A q \in Pcb : PcbOK(q)'
  BY <1>1, <1>4, <1>6, SameTypes, PcbSame
<1> QED BY <1>1, <1>4, <1>6, <1>7, SameTypes, QuietLists

\* The err callback returns to whatever freed the pcb.
LEMMA ErrReturnsStep ==
  ASSUME IInv, ErrReturns
  PROVE  IInv'
<1>1. /\ stack /= <<>> /\ Top.at = "err" /\ Return(<<>>)
      /\ fault' = (fault \/ (Caller = "drop" /\ Below[Len(Below)].dead))
      /\ UNCHANGED <<st, active, tw, conn, lag, changed, ref>>
  BY DEF ErrReturns, At
<1>2. stack \in Seq(Frame) /\ Shape(stack) /\ Frames
  BY SameTypes
<1>3. /\ Len(stack) \in Nat \ {0} /\ DOMAIN stack = 1 .. Len(stack)
      /\ Top = stack[Len(stack)]
      /\ Below \in Seq(Frame) /\ Len(Below) = Len(stack) - 1
      /\ \A i \in 1 .. Len(stack) - 1 : Below[i] = stack[i]
  BY <1>1, <1>2, StackFacts DEF Top
<1>4. stack' = Below
  BY <1>1, <1>3, Popped DEF Return
<1>5. UNCHANGED fault
  <2>1. SUFFICES ASSUME Caller = "drop", Below[Len(Below)].dead PROVE FALSE
    BY <1>1, SameTypes
  <2>2. Below /= <<>> /\ Below[Len(Below)].at = "drop"
    BY <2>1 DEF Caller
  <2>3. Len(stack) - 1 \in 1 .. Len(stack) - 1
    BY <1>3, <2>2
  <2>4. stack[Len(stack) - 1].at = "drop" /\ stack[Len(stack) - 1].dead
    BY <1>3, <2>1, <2>2, <2>3
  <2>5. FrameOK(stack[Len(stack) - 1], st, unread, ref, changed)
    BY <1>2, <1>3, <2>3 DEF Frames
  <2> QED BY <2>4, <2>5 DEF FrameOK
<1>6. CASE Len(stack) = 1
  <2>1. stack' = <<>>
    BY <1>3, <1>4, <1>6
  <2>2. \A q : ~Ending(q) /\ ~Dropped(q)
    BY <1>1, <1>3, <1>6 DEF Ending, Dropped, EndingIn
  <2> QED BY <1>1, <1>5, <2>1, <2>2, QuietEnd
<1>7. CASE Len(stack) > 1
  <2>1. /\ stack' \in Seq(Frame) /\ DOMAIN stack' = 1 .. Len(stack) - 1
        /\ Len(stack') = Len(stack) - 1
        /\ \A i \in DOMAIN stack' : stack'[i] = stack[i] /\ i \in DOMAIN stack
    <3>1. Below \in Seq(Frame) /\ Len(Below) = Len(stack) - 1 /\ DOMAIN Below = 1 .. Len(stack) - 1
      BY <1>1, <1>2, StackFacts
    <3>2. stack' \in Seq(Frame) /\ Len(stack') = Len(stack) - 1 /\ DOMAIN stack' = 1 .. Len(stack) - 1
      BY <1>4, <3>1
    <3>3. \A i \in 1 .. Len(stack) - 1 : stack'[i] = stack[i]
      BY <1>3, <1>4
    <3>4. \A i \in 1 .. Len(stack) - 1 : i \in DOMAIN stack
      BY <1>3
    <3> QED BY <3>2, <3>3, <3>4
  <2>2. stack' /= <<>> /\ stack'[1] = stack[1]
    BY <1>7, <1>3, <2>1
  <2>3. Frames'
    <3> SUFFICES ASSUME NEW i \in DOMAIN stack'
                 PROVE  FrameOK(stack'[i], st', unread', ref', changed')
      BY DEF Frames
    <3>1. FrameOK(stack[i], st, unread, ref, changed)
      BY <1>2, <2>1 DEF Frames
    <3> QED BY <1>1, <2>1, <3>1 DEF conn
  <2>4. Shape(stack')
    <3>1. \A i \in DOMAIN stack' :
            /\ i = 1 => stack'[i].at \notin {"rrecv", "reof", "poll"}
            /\ i > 1 => stack'[i].at \in Above
            /\ i > 2 => stack'[i].at = "err"
      BY <1>2, <2>1 DEF Shape
    <3>2. Len(stack') > 1 => Len(stack) > 1 /\ stack'[2] = stack[2]
      BY <1>3, <2>1
    <3> QED BY <1>2, <2>2, <3>1, <3>2 DEF Shape
  <2>5. WalkOK'
    BY <1>1, <2>2, SameWalk
  <2>6. \A q : (Ending(q)' <=> Ending(q)) /\ (Dropped(q)' <=> Dropped(q))
    BY <1>1, <2>2 DEF Ending, Dropped
  <2> QED BY <1>1, <1>5, <2>1, <2>3, <2>4, <2>5, <2>6, Quiet
<1> QED BY <1>3, <1>6, <1>7

\* tcp_process_refused_data returns.
LEMMA RedeliveredFacts ==
  ASSUME IInv, WellBehaved, NEW r \in Results, stack /= <<>>, Top.at \in {"rrecv", "reof"},
         Redelivered(r), UNCHANGED <<st, active, ref, lag, changed, unread>>
  PROVE  /\ UNCHANGED fault
         /\ stack' \in Seq(Frame) /\ Shape(stack') /\ Frames' /\ WalkOK'
         /\ \A q : ~Ending(q) /\ ~Dropped(q)
         /\ \A q : ~Ending(q)' /\ ~Dropped(q)'
<1>1. /\ IsOne(Below, stack[1]) /\ Caller = stack[1].at /\ stack[1].at \in {"process", "fast"}
      /\ FrameOK(Top, st, unread, ref, changed)
  BY AboveFacts
<1>2. r = "ABRT" <=> Top.dead
  BY <1>1, ResultFacts DEF Answering
<1>3. \A q : ~Ending(q) /\ ~Dropped(q)
  BY <1>1 DEF Ending, EndingIn, Dropped
<1>4. CASE Caller = "process" /\ (r = "ABRT" \/ Top.dead)
  <2>1. stack' = SubSeq(Below, 1, Len(Below) - 1) /\ fault' = (fault \/ r /= "ABRT")
    BY <1>4 DEF Redelivered
  <2>2. stack' = <<>>
    BY <1>1, <2>1 DEF IsOne
  <2>3. UNCHANGED fault
    BY <1>2, <1>4, <2>1, SameTypes
  <2> QED BY <1>3, <2>2, <2>3, NoRecord DEF Ending, Dropped
<1>5. CASE ~(Caller = "process" /\ (r = "ABRT" \/ Top.dead))
  <2>1. Return(<<>>) /\ UNCHANGED fault
    BY <1>5 DEF Redelivered
  <2> QED BY <1>3, <2>1, BackToCaller
<1> QED BY <1>4, <1>5

\* The end behind refused data was announced.
LEMMA ReofReturnsStep ==
  ASSUME IInv, WellBehaved, NEW r \in Results, ReofReturns(r)
  PROVE  IInv'
<1>1. /\ stack /= <<>> /\ Top.at = "reof" /\ Redelivered(r)
      /\ UNCHANGED <<st, active, tw, conn, lag, changed, ref>>
  BY DEF ReofReturns, At
<1>2. /\ UNCHANGED fault
      /\ stack' \in Seq(Frame) /\ Shape(stack') /\ Frames' /\ WalkOK'
      /\ \A q : ~Ending(q) /\ ~Dropped(q)
  BY <1>1, RedeliveredFacts DEF conn
<1> QED BY <1>1, <1>2, Quiet

\* The upper one of two records replaced.
LEMMA ReplacedTop ==
  ASSUME NEW s \in Seq(Frame), Len(s) = 2, NEW f, s[1] = f, NEW g \in Frame
  PROVE  IsTwo([s EXCEPT ![2] = g], f, g)
<1>1. [s EXCEPT ![2] = g] \in Seq(Frame)
  <2>1. 2 \in 1 .. Len(s)
    OBVIOUS
  <2> QED BY <2>1, ExceptSeq
<1>2. Len([s EXCEPT ![2] = g]) = 2
  OBVIOUS
<1>3. [s EXCEPT ![2] = g][1] = f /\ [s EXCEPT ![2] = g][2] = g
  OBVIOUS
<1> QED BY <1>1, <1>2, <1>3 DEF IsTwo

\* Refused data was delivered again, and is taken or kept again.
LEMMA RrecvReturnsStep ==
  ASSUME IInv, WellBehaved, NEW r \in Results, RrecvReturns(r)
  PROVE  IInv'
<1>1. /\ stack /= <<>> /\ Top.at = "rrecv"
      /\ UNCHANGED <<st, active, tw, rx, fin, lag, changed, ref>>
  BY DEF RrecvReturns, At
<1>2. PICK p, f : p = Top.p /\ f = stack[1]
  OBVIOUS
<1>3. /\ IsTwo(stack, f, Top) /\ f \in Frame /\ Top \in Frame /\ Len(stack) = 2
      /\ f.at \in {"process", "fast"}
      /\ f.at = "process" => p = f.p /\ (Top.dead <=> f.dead)
      /\ FrameOK(f, st, unread, ref, changed) /\ FrameOK(Top, st, unread, ref, changed)
  BY <1>1, <1>2, AboveFacts
<1>4. /\ p \in Pcb /\ (r = "ABRT" <=> Top.dead)
      /\ r = "MEM" => st[p] \in {"ESTABLISHED", "CLOSE_WAIT"}
      /\ ~Top.dead => LiveOK(Top, st, unread, ref)
  <2>1. (r = "ABRT" <=> Top.dead) /\ (r = "MEM" => st[p] \in {"ESTABLISHED", "CLOSE_WAIT"})
    BY <1>1, <1>2, <1>3, ResultFacts DEF Answering
  <2> QED BY <1>1, <1>2, <1>3, <2>1 DEF FrameOK, Conn, Answering
<1>5. CASE r = "OK" /\ Top.seg.fin
  <2>1. ~Top.dead
    BY <1>4, <1>5
  <2>2. Goto("reof") /\ UNCHANGED <<refused, fault>> /\ unread' = FinRead(p)
    BY <1>2, <1>5, <2>1 DEF RrecvReturns, Continue
  <2>3. PICK g : g = [Top EXCEPT !.at = "reof"]
    OBVIOUS
  <2>4. /\ g \in Frame /\ g.at = "reof" /\ g.p = p /\ g.seg = Top.seg
        /\ g.dead = Top.dead /\ g.ab = Top.ab
    BY <1>2, <1>3, <2>3, FrameGoto DEF Place, Callback
  <2>5. IsTwo(stack', f, g)
    <3>1. stack \in Seq(Frame) /\ stack[1] = f /\ stack[2] = Top
      BY <1>3 DEF IsTwo
    <3>2. stack' = [stack EXCEPT ![2] = g]
      BY <1>3, <2>2, <2>3, <3>1 DEF Goto
    <3> QED BY <1>3, <2>4, <3>1, <3>2, ReplacedTop
  <2>6. unread' \in [Pcb -> 0 .. Window] /\ \A q \in Pcb : unread'[q] <= unread[q]
    <3>1. \A q \in Pcb : unread[q] \in Nat
      BY SameTypes
    <3> QED BY <1>4, <2>2, <3>1, SameTypes, FinReadFacts DEF FinRead
  <2>7. FrameOK(g, st', unread', ref', changed')
    <3>1. g.seg.sent \/ g.seg.data => st[p] \in Sync
      BY <1>1, <1>2, <1>4, <2>1, <2>4 DEF LiveOK, Given
    <3>2. st[p] \in Sync /\ (g.seg.fin => st[p] \in Late) /\ g.seg.fin /\ ~g.ab
      BY <1>1, <1>2, <1>4, <1>5, <2>1, <2>4 DEF LiveOK, Answering, Given
    <3> QED BY <1>1, <1>4, <2>1, <2>4, <3>2 DEF FrameOK, LiveOK
  <2>8. FrameOK(f, st', unread', ref', changed')
    <3>1. f.at \in Conn => f.p \in Pcb
      BY <1>3 DEF FrameOK
    <3>2. f.at \in Conn => unread[f.p] \in Nat /\ unread'[f.p] \in Nat /\ unread'[f.p] <= unread[f.p]
      BY <2>6, <3>1, SameTypes
    <3>3. changed \in BOOLEAN /\ changed' \in BOOLEAN
      BY <1>1, SameTypes
    <3>4. UNCHANGED <<st, ref, changed>>
      BY <1>1
    <3> QED BY <1>3, <3>2, <3>3, <3>4, FrameStays
  <2>9. Shape(stack') /\ Frames'
    BY <1>3, <2>4, <2>5, <2>7, <2>8, TwoRecords DEF Above
  <2>10. stack' \in Seq(Frame) /\ stack' /= <<>> /\ stack'[1] = stack[1]
    BY <1>2, <2>5, TwoNext
  <2>11. WalkOK'
    BY <1>1, <2>10, SameWalk
  <2>12. \A q \in Pcb : PcbOK(q)'
    <3>1. \A q : (Ending(q)' <=> Ending(q)) /\ (Dropped(q)' <=> Dropped(q))
      BY <1>1, <2>10 DEF Ending, Dropped
    <3> QED BY <1>1, <2>2, <3>1, SamePcbs
  <2> QED BY <1>1, <2>2, <2>6, <2>9, <2>10, <2>11, <2>12, SameTypes, QuietLists
<1>6. CASE ~(r = "OK" /\ Top.seg.fin)
  <2>1. /\ Redelivered(r) /\ UNCHANGED unread
        /\ refused' = [refused EXCEPT ![p] = IF r /= "MEM" \/ Top.dead THEN refused[p]
                                             ELSE IF Top.seg.fin THEN "dataFin" ELSE "data"]
    BY <1>2, <1>4, <1>6, SameTypes DEF RrecvReturns
  <2>2. /\ UNCHANGED fault
        /\ stack' \in Seq(Frame) /\ Shape(stack') /\ Frames' /\ WalkOK'
        /\ \A q : ~Ending(q) /\ ~Dropped(q)
    BY <1>1, <2>1, RedeliveredFacts
  <2>3. refused' \in [Pcb -> {"none", "data", "dataFin"}]
    BY <1>4, <2>1, SameTypes
  <2>4. \A q \in Pcb : PcbOK(q)'
    <3> TAKE q \in Pcb
    <3>1. PcbOK(q)
      BY SameTypes
    <3>2. CASE q = p /\ r = "MEM" /\ ~Top.dead
      <4>1. /\ st[p] \in {"ESTABLISHED", "CLOSE_WAIT"}
            /\ refused'[p] = IF Top.seg.fin THEN "dataFin" ELSE "data"
            /\ Top.seg.fin => st[p] \in Late
        BY <1>1, <1>2, <1>4, <2>1, <3>2, SameTypes DEF LiveOK, Given
      <4> QED BY <1>1, <2>2, <3>1, <3>2, <4>1 DEF PcbOK
    <3>3. CASE ~(q = p /\ r = "MEM" /\ ~Top.dead)
      <4>1. refused'[q] = refused[q]
        BY <1>4, <2>1, <3>3, SameTypes
      <4> QED BY <1>1, <2>2, <3>1, <4>1, PcbSame
    <3> QED BY <3>2, <3>3
  <2> QED BY <1>1, <2>1, <2>2, <2>3, <2>4, SameTypes, QuietLists
<1> QED BY <1>5, <1>6

-----------------------------------------------------------------------------
(* What the application does. *)

\* tcp_new, from the main loop.
LEMMA UserNewStep ==
  ASSUME IInv, WellBehaved, UserNew
  PROVE  IInv'
<1>1. stack = <<>>
  BY DEF UserNew, Does, WellBehaved
<1>2. "alloc" \in Place
  BY DEF Place, Inside
<1>3. PICK f \in Frame : f = Call("alloc", NoPcb) /\ f.at = "alloc"
  BY <1>2, CallFacts
<1>4. /\ stack' = Append(<<>>, f)
      /\ UNCHANGED <<st, active, tw, conn, lag, changed, ref, fault>>
  BY <1>1, <1>3 DEF UserNew, New
<1>5. Append(<<>>, f) = <<f>>
  OBVIOUS
<1>6. IsOne(stack', f)
  BY <1>3, <1>4, <1>5, OneFrame
<1>7. FrameOK(f, st, unread, ref, changed)
  BY <1>3, AllocRecord
<1>8. \A q : ~Ending(q) /\ ~Dropped(q)
  BY <1>1 DEF Ending, Dropped
<1> QED BY <1>3, <1>4, <1>6, <1>7, <1>8, QuietOne DEF Walks

\* A record of a pcb the application holds: what tcp_process waits for has
\* been announced by a callback of its own.
LEMMA HeldFacts ==
  ASSUME IInv, InApp, NEW p \in ref, NEW i \in DOMAIN stack, stack[i].p = p
  PROVE  /\ stack[i] \in Frame /\ FrameOK(stack[i], st, unread, ref, changed)
         /\ stack[i].at /= "drop"
         /\ stack[i].at = "process" =>
              /\ 2 \in DOMAIN stack /\ stack[2] \in Frame
              /\ stack[2].p = p /\ stack[2].at \in {"rrecv", "reof"}
              /\ (stack[2].dead <=> stack[i].dead)
              /\ FrameOK(stack[2], st, unread, ref, changed)
<1>1. stack \in Seq(Frame) /\ Shape(stack) /\ Frames
  BY SameTypes
<1>2. /\ Len(stack) \in Nat /\ DOMAIN stack = 1 .. Len(stack) /\ stack /= <<>>
      /\ \A j \in DOMAIN stack : stack[j] \in Frame
  BY <1>1
<1>3. stack[i] \in Frame /\ FrameOK(stack[i], st, unread, ref, changed)
  BY <1>1, <1>2 DEF Frames
<1>4. stack[i].at /= "drop"
  BY <1>3 DEF FrameOK, LiveOK, Conn
<1>5. ASSUME stack[i].at = "process"
      PROVE  /\ 2 \in DOMAIN stack /\ stack[2] \in Frame
             /\ stack[2].p = p /\ stack[2].at \in {"rrecv", "reof"}
             /\ (stack[2].dead <=> stack[i].dead)
             /\ FrameOK(stack[2], st, unread, ref, changed)
  <2>1. i = 1
    BY <1>1, <1>2, <1>5 DEF Shape, Above
  <2>2. Len(stack) /= 1
    BY <1>2, <1>5, <2>1 DEF InApp, Top, Callback
  <2>3. Len(stack) > 1 /\ 2 \in DOMAIN stack
    BY <1>2, <2>1, <2>2
  <2> QED BY <1>1, <1>2, <1>5, <2>1, <2>3 DEF Shape, Frames
<1> QED BY <1>3, <1>4, <1>5

\* The application does something to p that frees no record.
LEMMA SameStack ==
  ASSUME IInv, NEW p \in Pcb, UNCHANGED <<stack, fault, lag>>,
         st' \in [Pcb -> State], active' \in SUBSET Pcb, tw' \in SUBSET Pcb,
         rx' \in SUBSET Pcb, ref' \in SUBSET Pcb,
         unread' \in [Pcb -> 0 .. Window],
         refused' \in [Pcb -> {"none", "data", "dataFin"}],
         fin' \in [Pcb -> {"none", "unsent", "sent"}],
         changed' \in BOOLEAN, changed => changed', changed' \/ active' = active,
         Lists', ref' \subseteq ref,
         \A q \in Pcb : unread'[q] <= unread[q],
         \A q \in Pcb \ {p} : /\ st'[q] = st[q] /\ refused'[q] = refused[q]
                              /\ fin'[q] = fin[q]
                              /\ (q \in rx' <=> q \in rx) /\ (q \in ref' <=> q \in ref),
         \A i \in DOMAIN stack : stack[i].p = p /\ stack[i].at \in Conn =>
           \/ st'[p] = st[p]
           \/ /\ stack[i].at = "poll" => st'[p] \in ActiveState \/ changed'
              /\ st[p] \in Sync => st'[p] \in Sync
              /\ st[p] \in Late => st'[p] \in Late
              /\ stack[i].at \in {"drop", "accept"} => stack[i].dead
              /\ stack[i].at = "process" => /\ st'[p] \in ActiveState
                                            /\ st'[p] \in Roomy => st[p] \in Roomy
           \/ (stack[i].dead /\ stack[i].at /= "poll"),
         (Ending(p)' <=> Ending(p)) /\ (Dropped(p)' <=> Dropped(p)) => PcbOK(p)'
  PROVE  IInv'
<1>1. stack \in Seq(Frame) /\ Shape(stack) /\ Frames /\ changed \in BOOLEAN
  BY SameTypes
<1>2. Frames'
  <2> SUFFICES ASSUME NEW i \in DOMAIN stack
               PROVE  FrameOK(stack[i], st', unread', ref', changed')
    BY DEF Frames
  <2>1. PICK f : f = stack[i]
    OBVIOUS
  <2>2. f \in Frame /\ FrameOK(f, st, unread, ref, changed)
    BY <1>1, <2>1 DEF Frames
  <2>3. f.at \in Conn => f.p \in Pcb
    BY <2>2 DEF FrameOK
  <2>4. f.at \in Conn => /\ unread[f.p] \in Nat /\ unread'[f.p] \in Nat
                         /\ unread'[f.p] <= unread[f.p]
    <3>1. unread \in [Pcb -> 0 .. Window]
      BY SameTypes
    <3> QED BY <2>3, <3>1
  <2>5. CASE f.p = p
    BY <1>1, <2>1, <2>2, <2>4, <2>5, FrameStays
  <2>6. CASE f.p /= p
    <3>1. f.at \in Conn => st'[f.p] = st[f.p]
      BY <2>3, <2>6
    <3>2. f.p \in ref' => f.p \in ref
      OBVIOUS
    <3> QED BY <1>1, <2>1, <2>2, <2>4, <3>1, <3>2, FrameStays
  <2> QED BY <2>1, <2>5, <2>6
<1>3. \A q : (Ending(q)' <=> Ending(q)) /\ (Dropped(q)' <=> Dropped(q))
  BY DEF Ending, Dropped
<1>4. \A q \in Pcb : PcbOK(q)'
  BY <1>3, SameTypes, PcbSame
<1>5. WalkOK'
  BY SameTypes DEF WalkOK
<1>6. TypeOK' /\ Shape(stack') /\ ~fault'
  BY SameTypes DEF TypeOK
<1> QED BY <1>2, <1>4, <1>5, <1>6 DEF IInv

\* The application holds p and what it does leaves the state of p alone.
LEMMA SameState ==
  ASSUME IInv, NEW p \in Pcb, UNCHANGED <<st, active, tw, lag, changed, stack, fault>>,
         rx' \in SUBSET Pcb, ref' \in SUBSET Pcb,
         unread' \in [Pcb -> 0 .. Window],
         refused' \in [Pcb -> {"none", "data", "dataFin"}],
         fin' \in [Pcb -> {"none", "unsent", "sent"}],
         ref' \subseteq ref,
         \A q \in Pcb : unread'[q] <= unread[q],
         \A q \in Pcb \ {p} : /\ refused'[q] = refused[q]
                              /\ fin'[q] = fin[q]
                              /\ (q \in rx' <=> q \in rx) /\ (q \in ref' <=> q \in ref),
         (Ending(p)' <=> Ending(p)) /\ (Dropped(p)' <=> Dropped(p)) => PcbOK(p)'
  PROVE  IInv'
<1>1. Lists'
  BY SameTypes DEF Lists
<1>2. st'[p] = st[p]
  OBVIOUS
<1> QED BY <1>1, <1>2, SameTypes, SameStack

\* tcp_connect
LEMMA UserConnectStep ==
  ASSUME IInv, NEW p \in ref, InApp, UserConnect(p)
  PROVE  IInv'
<1>1. /\ st[p] = "CLOSED" /\ p \in Pcb
      /\ st' = [st EXCEPT ![p] = "SYN_SENT"] /\ active' = active \cup {p} /\ changed' = TRUE
      /\ UNCHANGED <<tw, rx, unread, refused, fin, lag, stack, ref, fault>>
  BY SameTypes DEF UserConnect, Connect, conn
<1>2. "SYN_SENT" \in ActiveState /\ "SYN_SENT" \in State
  BY DEF ActiveState, State
<1>3. /\ st' \in [Pcb -> State] /\ st'[p] = "SYN_SENT"
      /\ \A q \in Pcb \ {p} : st'[q] = st[q]
  BY <1>1, <1>2, SameTypes
<1>4. Lists'
  BY <1>1, <1>2, <1>3, SameTypes DEF Lists
<1>5. \A i \in DOMAIN stack : stack[i].p = p /\ stack[i].at \in Conn =>
        stack[i].dead \/ stack[i].at = "poll" \/ stack[i].at \notin {"drop", "accept", "process"}
  <2> TAKE i \in DOMAIN stack
  <2>1. st[p] \notin ActiveState /\ st[p] /= "ESTABLISHED"
    BY <1>1 DEF ActiveState
  <2> QED BY <2>1, HeldFacts DEF FrameOK, LiveOK
<1>6. st[p] \notin Sync /\ st[p] \notin Late /\ st[p] \notin Roomy
  BY <1>1 DEF Sync, Late, Roomy
<1>7. \A i \in DOMAIN stack : stack[i].p = p /\ stack[i].at \in Conn =>
        \/ /\ stack[i].at = "poll" => st'[p] \in ActiveState \/ changed'
           /\ st[p] \in Sync => st'[p] \in Sync
           /\ st[p] \in Late => st'[p] \in Late
           /\ stack[i].at \in {"drop", "accept"} => stack[i].dead
           /\ stack[i].at = "process" => /\ st'[p] \in ActiveState
                                         /\ st'[p] \in Roomy => st[p] \in Roomy
        \/ (stack[i].dead /\ stack[i].at /= "poll")
  BY <1>1, <1>2, <1>3, <1>5, <1>6
<1>8. PcbOK(p)'
  <2>1. PcbOK(p)
    BY <1>1, SameTypes
  <2> QED BY <1>1, <1>3, <2>1 DEF PcbOK, Finished, Late
<1>9. \A q \in Pcb : unread'[q] <= unread[q]
  <2>1. \A q \in Pcb : unread[q] \in Nat
    BY SameTypes
  <2> QED BY <1>1, <2>1
<1>10. active' \in SUBSET Pcb /\ changed' \in BOOLEAN
  BY <1>1, SameTypes
<1> QED BY <1>1, <1>3, <1>4, <1>7, <1>8, <1>9, <1>10, SameTypes, SameStack

\* tcp_send_fin does not disturb a callback: that of accept is not closed in.
LEMMA SendFinStep ==
  ASSUME IInv, NEW p \in ref, InApp, ~During({"accept"}, p),
         st[p] \in CanSendFin, SendFin(p),
         UNCHANGED <<active, tw, unread, refused, lag, changed, stack, fault>>,
         rx' \in {rx, rx \cup {p}}, ref' \in {ref, ref \ {p}},
         p \in rx' => p \notin ref'
  PROVE  IInv'
<1>1. p \in Pcb /\ PcbOK(p)
  BY SameTypes
<1>2. st[p] \in {"ESTABLISHED", "CLOSE_WAIT"}
  BY <1>1 DEF PcbOK, CanSendFin
<1>3. PICK s : s = IF st[p] = "CLOSE_WAIT" THEN "LAST_ACK" ELSE "FIN_WAIT_1"
  OBVIOUS
<1>4. PICK f \in {"unsent", "sent"} : fin' = [fin EXCEPT ![p] = f]
  BY DEF SendFin
<1>5. s \in ActiveState /\ s \in State /\ st[p] \in ActiveState /\ s \in Sync
      /\ (st[p] \in Late => s \in Late) /\ (s \in Roomy => st[p] \in Roomy)
  BY <1>2, <1>3 DEF ActiveState, State, Sync, Late, Roomy
<1>6. /\ st' \in [Pcb -> State] /\ st'[p] = s
      /\ \A q \in Pcb \ {p} : st'[q] = st[q]
  BY <1>1, <1>3, <1>5, SameTypes DEF SendFin
<1>7. /\ fin' \in [Pcb -> {"none", "unsent", "sent"}] /\ fin'[p] /= "none"
      /\ \A q \in Pcb \ {p} : fin'[q] = fin[q]
  BY <1>1, <1>4, SameTypes
<1>8. Lists'
  BY <1>1, <1>5, <1>6, SameTypes, ListsKept
<1>9. \A i \in DOMAIN stack : stack[i].p = p /\ stack[i].at \in Conn =>
        /\ stack[i].at = "poll" => st'[p] \in ActiveState \/ changed'
        /\ st[p] \in Sync => st'[p] \in Sync
        /\ st[p] \in Late => st'[p] \in Late
        /\ stack[i].at \in {"drop", "accept"} => stack[i].dead
        /\ stack[i].at = "process" => /\ st'[p] \in ActiveState
                                      /\ st'[p] \in Roomy => st[p] \in Roomy
  <2> TAKE i \in DOMAIN stack
  <2>1. stack[i].p = p => stack[i].at \notin {"drop", "accept"}
    BY HeldFacts DEF During
  <2> QED BY <1>5, <1>6, <2>1
<1>10. PcbOK(p)'
  BY <1>1, <1>2, <1>3, <1>6, <1>7 DEF PcbOK, Finished, Late
<1>11. \A q \in Pcb : unread'[q] <= unread[q]
  <2>1. \A q \in Pcb : unread[q] \in Nat
    BY SameTypes
  <2> QED BY <2>1
<1>12. /\ rx' \in SUBSET Pcb /\ ref' \in SUBSET Pcb /\ ref' \subseteq ref
       /\ \A q \in Pcb \ {p} : (q \in rx' <=> q \in rx) /\ (q \in ref' <=> q \in ref)
  BY <1>1, SameTypes
<1> QED BY <1>1, <1>6, <1>7, <1>8, <1>9, <1>10, <1>11, <1>12, SameTypes, SameStack

\* tcp_shutdown of the sending side
LEMMA UserShutTxStep ==
  ASSUME IInv, NEW p \in ref, InApp, UserShutTx(p)
  PROVE  IInv'
<1>1. /\ ~During({"accept"}, p) /\ st[p] \in CanSendFin /\ SendFin(p)
      /\ ref' = IF p \in rx THEN ref \ {p} ELSE ref
      /\ UNCHANGED <<active, tw, rx, unread, refused, lag, changed, stack, fault>>
  BY DEF UserShutTx, ShutTx
<1>2. rx' \in {rx, rx \cup {p}} /\ ref' \in {ref, ref \ {p}} /\ (p \in rx' => p \notin ref')
  BY <1>1
<1> QED BY <1>1, <1>2, SendFinStep

\* ... and of the receiving side
LEMMA UserShutRxStep ==
  ASSUME IInv, NEW p \in ref, InApp, UserShutRx(p)
  PROVE  IInv'
<1>1. /\ rx' = rx \cup {p} /\ refused' = [refused EXCEPT ![p] = "none"]
      /\ ref' = IF fin[p] /= "none" THEN ref \ {p} ELSE ref
      /\ UNCHANGED <<st, active, tw, unread, fin, lag, changed, stack, fault>>
  BY DEF UserShutRx, ShutRx
<1>2. p \in Pcb /\ PcbOK(p)
  BY SameTypes
<1>3. /\ refused' \in [Pcb -> {"none", "data", "dataFin"}] /\ refused'[p] = "none"
      /\ \A q \in Pcb \ {p} : refused'[q] = refused[q]
  BY <1>1, <1>2, SameTypes
<1>4. (Ending(p)' <=> Ending(p)) /\ (Dropped(p)' <=> Dropped(p)) => PcbOK(p)'
  BY <1>1, <1>2, <1>3 DEF PcbOK, Finished
<1>5. \A q \in Pcb : unread'[q] <= unread[q]
  <2>1. \A q \in Pcb : unread[q] \in Nat
    BY SameTypes
  <2> QED BY <1>1, <2>1
<1>6. /\ rx' \in SUBSET Pcb /\ ref' \in SUBSET Pcb /\ ref' \subseteq ref
      /\ \A q \in Pcb \ {p} : (q \in rx' <=> q \in rx) /\ (q \in ref' <=> q \in ref)
  BY <1>1, <1>2, SameTypes
<1> QED BY <1>1, <1>2, <1>3, <1>4, <1>5, <1>6, SameTypes, SameState

\* tcp_recved
LEMMA UserRecvedStep ==
  ASSUME IInv, NEW p \in ref, InApp, UserRecved(p)
  PROVE  IInv'
<1>1. /\ unread[p] > 0 /\ unread' = [unread EXCEPT ![p] = @ - 1]
      /\ UNCHANGED <<st, active, tw, rx, refused, lag, changed, stack, ref, fault>>
  BY DEF UserRecved, Recved
<1>2. PICK f \in {fin[p]} \cup Output(p) : fin' = [fin EXCEPT ![p] = f]
  BY DEF UserRecved, Recved
<1>3. p \in Pcb /\ PcbOK(p)
  BY SameTypes
<1>4. \A q \in Pcb : unread[q] \in 0 .. Window
  BY SameTypes
<1>5. /\ unread[p] - 1 \in 0 .. Window /\ unread[p] - 1 <= unread[p]
      /\ \A q \in Pcb : unread[q] <= unread[q]
  BY <1>1, <1>3, <1>4, WindowAssumption
<1>6. unread' \in [Pcb -> 0 .. Window] /\ \A q \in Pcb : unread'[q] <= unread[q]
  BY <1>1, <1>3, <1>5, SameTypes
<1>7. fin[p] \in {"none", "unsent", "sent"} /\ f \in {"none", "unsent", "sent"}
      /\ (f = "none" <=> fin[p] = "none")
  BY <1>3, SameTypes DEF Output, AfterOutput
<1>8. /\ fin' \in [Pcb -> {"none", "unsent", "sent"}]
      /\ fin'[p] = "none" <=> fin[p] = "none"
      /\ \A q \in Pcb \ {p} : fin'[q] = fin[q]
  BY <1>2, <1>3, <1>7, SameTypes
<1>9. (Ending(p)' <=> Ending(p)) /\ (Dropped(p)' <=> Dropped(p)) => PcbOK(p)'
  BY <1>1, <1>3, <1>8, PcbSame
<1>10. ref' \subseteq ref
  BY <1>1
<1> QED BY <1>1, <1>3, <1>6, <1>8, <1>9, <1>10, SameTypes, SameState

-----------------------------------------------------------------------------
(* The application frees a pcb: whatever function of the stack waits for    *)
(* its callback holds a dead record.                                        *)

Marked(f, g, p) ==
  /\ g \in Frame /\ g.at = f.at /\ g.p = f.p /\ g.rest = f.rest
  /\ f.p /= p => g = f
  /\ f.p = p => g.dead /\ (f.at \in Answering => g.ab)

\* The length of a stack.
LEMMA Lengths ==
  ASSUME NEW s \in Seq(Frame)
  PROVE  /\ Len(s) \in Nat /\ DOMAIN s = 1 .. Len(s)
         /\ s = <<>> <=> Len(s) = 0
         /\ s /= <<>> => 1 \in DOMAIN s
  OBVIOUS

\* The application frees p, and every record of p is marked.
LEMMA FreeInApp ==
  ASSUME IInv, InApp, NEW p \in Pcb, Release(p),
         \A i \in DOMAIN stack : stack[i].p = p => stack[i].at /= "drop",
         active' = active \ {p}, tw' = tw \ {p}, ref' = ref \ {p},
         changed' \in BOOLEAN, changed => changed', changed' \/ p \notin active,
         UNCHANGED fault,
         stack' \in Seq(Frame), Len(stack') \in {Len(stack), Len(stack) + 1},
         \A i \in DOMAIN stack : Marked(stack[i], stack'[i], p),
         Len(stack') = Len(stack) + 1 => stack'[Len(stack) + 1].at = "err",
         \A i \in DOMAIN stack : stack[i].p = p /\ stack[i].at = "poll" => changed'
  PROVE  IInv'
<1>1. stack \in Seq(Frame) /\ Shape(stack) /\ Frames /\ changed \in BOOLEAN /\ p \in Pcb
  BY SameTypes
<1>2. /\ Len(stack) \in Nat /\ DOMAIN stack = 1 .. Len(stack)
      /\ \A j \in DOMAIN stack : stack[j] \in Frame
  BY <1>1
<1>3. Len(stack') \in Nat /\ DOMAIN stack' = 1 .. Len(stack')
  OBVIOUS
<1>4. \A i \in DOMAIN stack' : i \in DOMAIN stack \/ (i = Len(stack) + 1 /\ stack'[i].at = "err")
  <2>1. PICK m, n : m = Len(stack) /\ n = Len(stack')
    OBVIOUS
  <2>2. m \in Nat /\ (n = m \/ n = m + 1) /\ DOMAIN stack = 1 .. m /\ DOMAIN stack' = 1 .. n
    BY <1>2, <1>3, <2>1
  <2>3. n = m + 1 => stack'[m + 1].at = "err"
    BY <2>1
  <2>4. \A i \in 1 .. n : i \in 1 .. m \/ (i = m + 1 /\ n = m + 1)
    BY <2>2
  <2> QED BY <2>1, <2>2, <2>3, <2>4
<1>5. Frames'
  <2> SUFFICES ASSUME NEW i \in DOMAIN stack'
               PROVE  FrameOK(stack'[i], st', unread', ref', changed')
    BY DEF Frames
  <2>1. CASE stack'[i].at = "err"
    <3>1. PICK g : g = stack'[i]
      OBVIOUS
    <3>2. FrameOK(g, st', unread', ref', changed')
      <4>1. g.at = "err"
        BY <2>1, <3>1
      <4> QED BY <4>1 DEF FrameOK, Conn, Answering, Given
    <3> QED BY <3>1, <3>2
  <2>2. CASE i \in DOMAIN stack
    <3>1. PICK f, g : f = stack[i] /\ g = stack'[i]
      OBVIOUS
    <3>2. f \in Frame /\ FrameOK(f, st, unread, ref, changed) /\ Marked(f, g, p)
      BY <1>1, <1>2, <2>2, <3>1 DEF Frames
    <3>3. CASE f.p = p
      <4>1. f.at /= "drop" /\ (f.at = "poll" => changed')
        BY <2>2, <3>1, <3>3
      <4>2. FrameOK(g, st', unread', ref', changed')
        BY <3>2, <3>3, <4>1, FrameDies DEF Marked
      <4> QED BY <3>1, <4>2
    <3>4. CASE f.p /= p
      <4>1. g = f /\ (f.p \in ref' => f.p \in ref)
        BY <3>2, <3>4 DEF Marked
      <4>2. f.at \in Conn => f.p \in Pcb \ {p}
        BY <3>2, <3>4 DEF FrameOK
      <4>3. unread \in [Pcb -> 0 .. Window]
        BY SameTypes
      <4>4. f.at \in Conn => /\ unread[f.p] \in Nat /\ unread'[f.p] \in Nat
                             /\ unread'[f.p] <= unread[f.p]
                             /\ st'[f.p] = st[f.p]
        BY <1>1, <4>2, <4>3, SameTypes, ReleaseFacts
      <4>5. FrameOK(f, st', unread', ref', changed')
        BY <1>1, <3>2, <4>1, <4>4, FrameStays
      <4> QED BY <3>1, <4>1, <4>5
    <3> QED BY <3>3, <3>4
  <2> QED BY <1>4, <2>1, <2>2
<1>6. Shape(stack')
  <2>1. \A i \in DOMAIN stack : /\ stack'[i].at = stack[i].at /\ stack'[i].p = stack[i].p
                                /\ stack[i].p /= p => stack'[i] = stack[i]
                                /\ stack[i].p = p => stack'[i].dead
    BY DEF Marked
  <2>2. \A i \in DOMAIN stack' :
          /\ i = 1 => stack'[i].at \notin {"rrecv", "reof", "poll"}
          /\ i > 1 => stack'[i].at \in Above
          /\ i > 2 => stack'[i].at = "err"
    BY <1>1, <1>2, <1>4, <2>1 DEF Shape, Above
  <2>3. ASSUME Len(stack') > 1, 2 \in DOMAIN stack
        PROVE  /\ stack'[2].at \in {"rrecv", "reof"} => stack'[1].at \in {"process", "fast"}
               /\ stack'[1].at = "process" =>
                    /\ stack'[2].at \in {"rrecv", "reof"} /\ stack'[2].p = stack'[1].p
                    /\ (stack'[2].dead <=> stack'[1].dead)
    <3>1. Len(stack) > 1 /\ 1 \in DOMAIN stack
      BY <1>2, <2>3
    <3> QED BY <1>1, <2>1, <2>3, <3>1 DEF Shape
  <2>4. ASSUME Len(stack') > 1, 2 \notin DOMAIN stack
        PROVE  stack'[2].at = "err" /\ stack'[1].at /= "process"
    <3>1. Len(stack) = 1 /\ Len(stack') = 2
      <4>1. PICK m, n : m = Len(stack) /\ n = Len(stack')
        OBVIOUS
      <4>2. m \in Nat /\ (n = m \/ n = m + 1) /\ n > 1 /\ 2 \notin 1 .. m
        BY <1>2, <2>4, <4>1
      <4>3. m = 1 /\ n = 2
        BY <4>2
      <4> QED BY <4>1, <4>3
    <3>3. stack /= <<>> /\ 1 \in DOMAIN stack
      <4>1. stack \in Seq(Frame)
        BY <1>1
      <4>2. (stack = <<>> <=> Len(stack) = 0) /\ (stack /= <<>> => 1 \in DOMAIN stack)
        BY ONLY <4>1, Lengths
      <4>3. Len(stack) = 1
        BY <3>1
      <4> QED BY ONLY <4>2, <4>3
    <3>4. stack'[2].at = "err"
      BY <3>1
    <3>2. stack[1].at \in Callback
      BY <3>1, <3>3 DEF InApp, Top
    <3> QED BY <2>1, <3>2, <3>3, <3>4 DEF Callback, Inside
  <2> QED BY <2>2, <2>3, <2>4 DEF Shape
<1>7. ASSUME stack' /= <<>>, stack'[1].at /= "err"
      PROVE  /\ stack /= <<>> /\ 1 \in DOMAIN stack
             /\ stack'[1].at = stack[1].at /\ stack'[1].rest = stack[1].rest
  <2>1. 1 \in DOMAIN stack'
    BY <1>7, Lengths
  <2>2. 1 \in DOMAIN stack
    BY <1>4, <1>7, <2>1
  <2>3. stack /= <<>>
    BY <1>2, <2>2
  <2> QED BY <2>2, <2>3 DEF Marked
<1>8. WalkOK'
  <2> SUFFICES ASSUME stack' /= <<>>, stack'[1].at \in Walks, ~changed'
               PROVE  /\ stack'[1].rest \subseteq active'
                      /\ \A q \in active' : q \in stack'[1].rest \/ lag'[q] = 0
    BY DEF WalkOK
  <2>1. /\ stack /= <<>> /\ stack'[1].at = stack[1].at /\ stack'[1].rest = stack[1].rest
    BY <1>7 DEF Walks
  <2>2. active' = active /\ ~changed /\ p \notin active
    OBVIOUS
  <2>3. \A q \in active : lag'[q] = lag[q]
    BY <1>1, <2>2, SameTypes, ReleaseFacts
  <2> QED BY <2>1, <2>2, <2>3, SameTypes DEF WalkOK
<1>9. \A q \in Pcb \ {p} : (Ending(q) => Ending(q)') /\ (Dropped(q) => Dropped(q)')
  <2> TAKE q \in Pcb \ {p}
  <2>1. ASSUME stack /= <<>>, stack[1].p = q
        PROVE  stack' /= <<>> /\ stack'[1] = stack[1]
    <3>1. 1 \in DOMAIN stack
      BY <1>2, <2>1
    <3>2. stack' /= <<>>
      <4>1. PICK m, n : m = Len(stack) /\ n = Len(stack')
        OBVIOUS
      <4>2. m \in Nat \ {0} /\ (n = m \/ n = m + 1)
        BY <1>1, <2>1, <4>1, Lengths
      <4> QED BY <4>1, <4>2, Lengths
    <3> QED BY <2>1, <3>1, <3>2 DEF Marked
  <2> QED BY <2>1 DEF Ending, EndingIn, Dropped
<1>10. /\ ref' \in SUBSET Pcb /\ p \notin ref'
       /\ \A q \in Pcb \ {p} : q \in ref' <=> q \in ref
  BY SameTypes
<1> QED BY <1>1, <1>5, <1>6, <1>8, <1>9, <1>10, FreeStep

\* The record of another pcb is not changed.
LEMMA FreedOther ==
  ASSUME NEW f \in Frame, NEW p, f.p /= p
  PROVE  FreedRecord(f, p) = f
<1>1. f.dead \in BOOLEAN
  BY FrameFields
<1>2. (f.dead \/ f.p = p) = f.dead
  BY <1>1
<1> QED BY <1>2 DEF FreedRecord, Frame

\* One more record on a stack.
LEMMA Pushed ==
  ASSUME NEW t \in Seq(Frame), NEW e \in Frame
  PROVE  /\ t \o <<e>> \in Seq(Frame) /\ Len(t \o <<e>>) = Len(t) + 1
         /\ \A i \in 1 .. Len(t) : (t \o <<e>>)[i] = t[i]
         /\ (t \o <<e>>)[Len(t) + 1] = e
<1>1. <<e>> \in Seq(Frame) /\ Len(<<e>>) = 1 /\ <<e>>[1] = e
  OBVIOUS
<1>2. Len(t) \in Nat
  OBVIOUS
<1> QED BY <1>1, <1>2

\* memp_free of p, and possibly an err callback on top.
LEMMA FreedMarked ==
  ASSUME IInv, NEW p \in Pcb, NEW s \in Seq(Frame), Len(s) = Len(stack),
         \A i \in DOMAIN stack : /\ s[i].at = stack[i].at /\ s[i].p = stack[i].p
                                 /\ s[i].rest = stack[i].rest
                                 /\ stack[i].p /= p => s[i] = stack[i]
                                 /\ stack[i].p = p /\ stack[i].at \in Answering => s[i].ab,
         stack' = Freed(s, p) \/ stack' = Freed(s, p) \o ErrCall(p)
  PROVE  /\ stack' \in Seq(Frame) /\ Len(stack') \in {Len(stack), Len(stack) + 1}
         /\ \A i \in DOMAIN stack : Marked(stack[i], stack'[i], p)
         /\ Len(stack') = Len(stack) + 1 => /\ stack'[Len(stack) + 1].at = "err"
                                           /\ stack'[Len(stack) + 1].p = p
         /\ stack' = Freed(s, p) \o <<Call("err", p)>> => Len(stack') = Len(stack) + 1
<1>1. stack \in Seq(Frame) /\ p \in Pcb
  BY SameTypes
<1>2. Len(stack) \in Nat /\ DOMAIN stack = 1 .. Len(stack) /\ DOMAIN s = 1 .. Len(stack)
  BY <1>1
<1>3. PICK t : t = Freed(s, p)
  OBVIOUS
<1>4. t \in Seq(Frame) /\ Len(t) = Len(stack)
      /\ \A i \in 1 .. Len(stack) : t[i] = FreedRecord(s[i], p)
  BY <1>3, FreedFacts
<1>5. \A i \in DOMAIN stack : Marked(stack[i], t[i], p)
  <2> TAKE i \in DOMAIN stack
  <2>1. PICK f : f = s[i]
    OBVIOUS
  <2>2. f \in Frame /\ t[i] = FreedRecord(f, p)
    BY <1>2, <1>4, <2>1, SeqElement
  <2>3. /\ t[i] \in Frame /\ t[i].at = f.at /\ t[i].p = f.p /\ t[i].rest = f.rest
        /\ t[i].ab = f.ab /\ (t[i].dead <=> f.dead \/ f.p = p)
    BY <2>2, FreedRecordFields
  <2>4. stack[i].p /= p => t[i] = stack[i]
    BY <2>1, <2>2, FreedOther
  <2> QED BY <2>1, <2>3, <2>4 DEF Marked
<1>10. stack' = t \o <<Call("err", p)>> => Len(stack') = Len(stack) + 1
  <2>1. "err" \in Place
    BY DEF Place, Callback
  <2>2. PICK e \in Frame : e = Call("err", p)
    BY <1>1, <2>1, CallFacts
  <2>3. Len(t \o <<e>>) = Len(t) + 1
    BY <1>4, <2>2, Pushed
  <2> QED BY <1>4, <2>2, <2>3
<1>6. CASE stack' = t
  <2>1. Len(stack') = Len(stack) /\ stack' \in Seq(Frame)
    BY <1>4, <1>6
  <2>2. Len(stack') /= Len(stack) + 1
    <3>1. \A n \in Nat : n /= n + 1
      OBVIOUS
    <3>2. Len(stack) \in Nat /\ Len(stack') = Len(stack)
      BY <1>2, <2>1
    <3> QED BY <3>1, <3>2
  <2>3. \A i \in DOMAIN stack : Marked(stack[i], stack'[i], p)
    BY <1>5, <1>6
  <2> QED BY <1>3, <1>10, <2>1, <2>2, <2>3
<1>7. CASE stack' = t \o <<>>
  <2>1. t \o <<>> = t
    BY <1>4
  <2> QED BY <1>6, <1>7, <2>1
<1>8. CASE stack' = t \o <<Call("err", p)>>
  <2>1. "err" \in Place
    BY DEF Place, Callback
  <2>2. PICK e \in Frame : e = Call("err", p) /\ e.at = "err" /\ e.p = p
    BY <1>1, <2>1, CallFacts
  <2>3. stack' = t \o <<e>>
    BY <1>8, <2>2
  <2>4. /\ stack' \in Seq(Frame) /\ Len(stack') = Len(stack) + 1
        /\ \A i \in 1 .. Len(stack) : stack'[i] = t[i]
        /\ stack'[Len(stack) + 1] = e
    <3>1. PICK u : u = t \o <<e>>
      OBVIOUS
    <3>2. /\ u \in Seq(Frame) /\ Len(u) = Len(t) + 1
          /\ \A i \in 1 .. Len(t) : u[i] = t[i]
          /\ u[Len(t) + 1] = e
      BY <1>4, <3>1, Pushed
    <3>3. stack' = u
      BY <2>3, <3>1
    <3> QED BY <1>4, <3>2, <3>3
  <2> QED BY <1>2, <1>5, <2>2, <2>4
<1> QED BY <1>3, <1>6, <1>7, <1>8 DEF ErrCall

\* The RST branch of tcp_close_shutdown.
LEMMA CloseUnreadStep ==
  ASSUME IInv, WellBehaved, NEW p \in ref, InApp, MayClose(p),
         st[p] \in {"ESTABLISHED", "CLOSE_WAIT"}, NotAllRead(p), CloseUnread(p)
  PROVE  IInv'
<1>1. p \in Pcb /\ PcbOK(p) /\ ref' = ref \ {p} /\ UNCHANGED fault
  BY SameTypes DEF CloseUnread
<1>2. ~During({"accept"}, p) /\ ~During({"rrecv"}, p)
  BY DEF MayClose, WellBehaved
<1>3. CASE st[p] = "ESTABLISHED"
  <2>1. ToTimeWait(p) /\ rx' = rx \cup {p} /\ UNCHANGED <<unread, fin, lag, stack>>
    BY <1>3 DEF CloseUnread
  <2>2. /\ st' \in [Pcb -> State] /\ active' \in SUBSET Pcb /\ tw' \in SUBSET Pcb
        /\ refused' \in [Pcb -> {"none", "data", "dataFin"}] /\ changed' \in BOOLEAN
        /\ changed' /\ Lists'
        /\ st'[p] = "TIME_WAIT" /\ refused'[p] = "none"
        /\ \A q \in Pcb \ {p} : st'[q] = st[q] /\ refused'[q] = refused[q]
    BY <1>1, <2>1, ToTimeWaitFacts
  <2>3. st[p] \notin Late /\ st'[p] \in Sync
    BY <1>3, <2>2 DEF Late, Sync
  <2>4. \A i \in DOMAIN stack : stack[i].p = p /\ stack[i].at \in Conn =>
          \/ /\ stack[i].at = "poll" => st'[p] \in ActiveState \/ changed'
             /\ st[p] \in Sync => st'[p] \in Sync
             /\ st[p] \in Late => st'[p] \in Late
             /\ stack[i].at \in {"drop", "accept"} => stack[i].dead
             /\ stack[i].at = "process" => /\ st'[p] \in ActiveState
                                           /\ st'[p] \in Roomy => st[p] \in Roomy
          \/ (stack[i].dead /\ stack[i].at /= "poll")
    <3> SUFFICES ASSUME NEW i \in DOMAIN stack, stack[i].p = p
                 PROVE  /\ stack[i].at \notin {"drop", "accept"}
                        /\ stack[i].at = "process" => stack[i].dead
      BY <2>2, <2>3
    <3>1. stack[i].at \notin {"drop", "accept"}
      BY <1>2, HeldFacts DEF During
    <3>2. ASSUME stack[i].at = "process", ~stack[i].dead
          PROVE  FALSE
      <4>1. /\ 2 \in DOMAIN stack /\ stack[2].p = p /\ stack[2].at \in {"rrecv", "reof"}
            /\ ~stack[2].dead /\ FrameOK(stack[2], st, unread, ref, changed)
        BY <3>2, HeldFacts
      <4>2. stack[2].at = "reof"
        BY <1>2, <4>1 DEF During
      <4>3. LiveOK(stack[2], st, unread, ref)
        BY <4>1, <4>2 DEF FrameOK, Conn, Answering
      <4>4. st[p] \in Late
        BY <4>1, <4>2, <4>3 DEF LiveOK, Given
      <4> QED BY <2>3, <4>4
    <3> QED BY <3>1, <3>2
  <2>5. \A q \in Pcb : unread'[q] <= unread[q]
    <3>1. \A q \in Pcb : unread[q] \in Nat
      BY SameTypes
    <3> QED BY <2>1, <3>1
  <2>6. /\ rx' \in SUBSET Pcb /\ ref' \in SUBSET Pcb /\ ref' \subseteq ref
        /\ \A q \in Pcb \ {p} : (q \in rx' <=> q \in rx) /\ (q \in ref' <=> q \in ref)
    BY <1>1, <2>1, SameTypes
  <2>7. PcbOK(p)'
    BY <1>1, <1>3, <2>1, <2>2 DEF PcbOK, Finished
  <2>8. UNCHANGED <<stack, fault, lag>> /\ unread' \in [Pcb -> 0 .. Window]
        /\ fin' \in [Pcb -> {"none", "unsent", "sent"}] /\ UNCHANGED fin
    BY <1>1, <2>1, SameTypes
  <2>9. /\ changed => changed'
        /\ changed' \/ active' = active
        /\ \A q \in Pcb \ {p} : /\ st'[q] = st[q] /\ refused'[q] = refused[q]
                                 /\ fin'[q] = fin[q]
                                 /\ (q \in rx' <=> q \in rx) /\ (q \in ref' <=> q \in ref)
    BY <2>2, <2>6, <2>8
  <2> QED BY <1>1, <2>2, <2>4, <2>5, <2>6, <2>7, <2>8, <2>9, SameStack
<1>4. CASE st[p] = "CLOSE_WAIT"
  <2>1. /\ Release(p) /\ active' = active \ {p} /\ changed' = TRUE
        /\ stack' = Freed(stack, p) /\ UNCHANGED tw
    BY <1>4 DEF CloseUnread
  <2>2. tw' = tw \ {p}
    BY <1>1, <1>4, <2>1, SameTypes, OffList
  <2>3. ~During(Callback \ {"poll"}, p)
    BY <1>4 DEF MayClose, WellBehaved
  <2>4. \A i \in DOMAIN stack : stack[i].p = p => stack[i].at \notin Answering
    BY <2>3 DEF During, Callback, Answering
  <2>5. /\ stack' \in Seq(Frame) /\ Len(stack') \in {Len(stack), Len(stack) + 1}
        /\ \A i \in DOMAIN stack : Marked(stack[i], stack'[i], p)
        /\ Len(stack') = Len(stack) + 1 => stack'[Len(stack) + 1].at = "err"
    BY <1>1, <2>1, <2>4, SameTypes, FreedMarked
  <2>6. changed' \in BOOLEAN
    BY <2>1
  <2>7. \A i \in DOMAIN stack : stack[i].p = p => stack[i].at /= "drop"
    BY HeldFacts
  <2> QED BY <1>1, <2>1, <2>2, <2>5, <2>6, <2>7, FreeInApp
<1> QED BY <1>3, <1>4

\* tcp_close of a pcb without a connection.
LEMMA CloseUnusedStep ==
  ASSUME IInv, NEW p \in ref, InApp, st[p] \in {"CLOSED", "SYN_SENT"},
         Release(p), active' = active \ {p},
         changed' = IF st[p] = "SYN_SENT" THEN TRUE ELSE changed,
         stack' = Freed(stack, p), ref' = ref \ {p}, UNCHANGED <<tw, fault>>
  PROVE  IInv'
<1>1. p \in Pcb /\ changed \in BOOLEAN
  BY SameTypes
<1>2. tw' = tw \ {p} /\ (p \in active => st[p] = "SYN_SENT")
  BY <1>1, SameTypes, OffList DEF ActiveState
<1>3. changed' \in BOOLEAN /\ (changed => changed') /\ (changed' \/ p \notin active)
  BY <1>1, <1>2
<1>4. st[p] \notin Sync /\ (st[p] \in ActiveState => st[p] = "SYN_SENT")
  BY DEF Sync, ActiveState
<1>5. \A i \in DOMAIN stack : stack[i].p = p =>
        /\ stack[i].at \in Answering => stack[i].ab
        /\ stack[i].at = "poll" => changed'
  <2> SUFFICES ASSUME NEW i \in DOMAIN stack, stack[i].p = p
               PROVE  /\ stack[i].at \in Answering => stack[i].ab
                      /\ stack[i].at = "poll" => changed'
    OBVIOUS
  <2>1. FrameOK(stack[i], st, unread, ref, changed)
    BY HeldFacts
  <2>2. stack[i].at \in Answering => stack[i].ab
    BY <1>4, <2>1 DEF FrameOK, LiveOK, Conn, Answering
  <2>3. stack[i].at = "poll" => changed'
    BY <1>3, <1>4, <2>1 DEF FrameOK
  <2> QED BY <2>2, <2>3
<1>6. /\ stack' \in Seq(Frame) /\ Len(stack') \in {Len(stack), Len(stack) + 1}
      /\ \A i \in DOMAIN stack : Marked(stack[i], stack'[i], p)
      /\ Len(stack') = Len(stack) + 1 => stack'[Len(stack) + 1].at = "err"
  BY <1>1, <1>5, SameTypes, FreedMarked
<1>7. \A i \in DOMAIN stack : stack[i].p = p => stack[i].at /= "drop"
  BY HeldFacts
<1> QED BY <1>1, <1>2, <1>3, <1>5, <1>6, <1>7, FreeInApp

\* tcp_close when the RST branch is not taken
LEMMA CloseStep ==
  ASSUME IInv, NEW p \in ref, InApp, ~During({"accept"}, p), Close(p),
         ~(st[p] \in {"ESTABLISHED", "CLOSE_WAIT"} /\ NotAllRead(p))
  PROVE  IInv'
<1>1. p \in Pcb /\ PcbOK(p)
  BY SameTypes
<1>2. CASE /\ st[p] \in {"CLOSED", "SYN_SENT"}
           /\ Release(p)
           /\ active' = active \ {p}
           /\ changed' = IF st[p] = "SYN_SENT" THEN TRUE ELSE changed
           /\ stack' = Freed(stack, p)
           /\ ref' = ref \ {p}
           /\ UNCHANGED <<tw, fault>>
  BY <1>2, CloseUnusedStep
<1>3. CASE /\ st[p] \in CanSendFin /\ SendFin(p) /\ rx' = rx \cup {p} /\ ref' = ref \ {p}
           /\ UNCHANGED <<active, tw, unread, refused, lag, changed, stack, fault>>
  BY <1>3, SendFinStep
<1>4. CASE /\ rx' = rx \cup {p}
           /\ \/ st[p] \in CanSendFin /\ ref' = ref
              \/ /\ st[p] \notin CanSendFin \cup {"FREE", "CLOSED", "SYN_SENT"}
                 /\ ref' = ref \ {p}
           /\ UNCHANGED <<st, active, tw, unread, refused, fin, lag, changed, stack, fault>>
  <2>1. (Ending(p)' <=> Ending(p)) /\ (Dropped(p)' <=> Dropped(p)) => PcbOK(p)'
    BY <1>1, <1>4 DEF PcbOK, CanSendFin, Finished
  <2>2. \A q \in Pcb : unread'[q] <= unread[q]
    <3>1. \A q \in Pcb : unread[q] \in Nat
      BY SameTypes
    <3> QED BY <1>4, <3>1
  <2>3. /\ rx' \in SUBSET Pcb /\ ref' \in SUBSET Pcb /\ ref' \subseteq ref
        /\ \A q \in Pcb \ {p} : (q \in rx' <=> q \in rx) /\ (q \in ref' <=> q \in ref)
    BY <1>1, <1>4, SameTypes
  <2> QED BY <1>1, <1>4, <2>1, <2>2, <2>3, SameTypes, SameState
<1> QED BY <1>1, <1>2, <1>3, <1>4 DEF Close

LEMMA UserCloseStep ==
  ASSUME IInv, WellBehaved, NEW p \in ref, InApp, UserClose(p)
  PROVE  IInv'
<1>1. MayClose(p) /\ Close(p)
  BY DEF UserClose
<1>2. CASE st[p] \in {"ESTABLISHED", "CLOSE_WAIT"} /\ NotAllRead(p) /\ CloseUnread(p)
  BY <1>1, <1>2, CloseUnreadStep
<1>3. CASE ~(st[p] \in {"ESTABLISHED", "CLOSE_WAIT"} /\ NotAllRead(p))
  <2>1. ~During({"accept"}, p)
    BY <1>1 DEF MayClose, WellBehaved
  <2> QED BY <1>1, <1>3, <2>1, CloseStep
<1>4. CASE /\ st[p] \in {"ESTABLISHED", "CLOSE_WAIT"} /\ NotAllRead(p)
           /\ ~CloseUnread(p)
  BY <1>1, <1>4 DEF Close, CanSendFin
<1> QED BY <1>2, <1>3, <1>4

\* tcp_abort
LEMMA AbortStack ==
  ASSUME IInv, NEW p \in Pcb, Abort(p)
  PROVE  /\ Release(p) /\ ref' = ref \ {p} /\ UNCHANGED fault
         /\ active' = active \ {p} /\ tw' = tw \ {p}
         /\ changed' \in BOOLEAN /\ (changed => changed')
         /\ st[p] = "TIME_WAIT" \/ changed'
         /\ stack' \in Seq(Frame) /\ Len(stack') \in {Len(stack), Len(stack) + 1}
         /\ \A i \in DOMAIN stack : Marked(stack[i], stack'[i], p)
         /\ Len(stack') = Len(stack) + 1 => /\ stack'[Len(stack) + 1].at = "err"
                                           /\ stack'[Len(stack) + 1].p = p
         /\ st[p] \notin {"TIME_WAIT", "SYN_RCVD"} => Len(stack') = Len(stack) + 1
<1>1. p \in Pcb /\ stack \in Seq(Frame) /\ changed \in BOOLEAN
  BY SameTypes
<1>2. PICK s : s = [i \in DOMAIN stack |->
                     [stack[i] EXCEPT !.ab = @ \/ (stack[i].at \in Callback /\ stack[i].p = p)]]
  OBVIOUS
<1>3. AbortOn(p, s)
  BY <1>2 DEF Abort
<1>4. /\ Release(p) /\ ref' = ref \ {p} /\ UNCHANGED fault
      /\ active' = active \ {p} /\ tw' = tw \ {p}
      /\ changed' \in BOOLEAN /\ (changed => changed')
      /\ \/ st[p] = "TIME_WAIT" /\ stack' = Freed(s, p) /\ changed' = changed
         \/ st[p] /= "TIME_WAIT" /\ stack' = Freed(s, p) \o ErrCall(p) /\ changed'
  BY <1>1, <1>3, AbortLists
<1>5. \A i \in DOMAIN stack :
        /\ s[i] \in Frame
        /\ s[i].at = stack[i].at /\ s[i].p = stack[i].p /\ s[i].rest = stack[i].rest
        /\ stack[i].p /= p => s[i] = stack[i]
        /\ stack[i].p = p /\ stack[i].at \in Answering => s[i].ab
  <2> TAKE i \in DOMAIN stack
  <2>1. PICK f, b : f = stack[i] /\ b = (f.ab \/ (f.at \in Callback /\ f.p = p))
    OBVIOUS
  <2>2. f \in Frame /\ f.ab \in BOOLEAN /\ b \in BOOLEAN
    BY <1>1, <2>1, SeqElement, FrameFields
  <2>3. s[i] = [f EXCEPT !.ab = b]
    BY <1>2, <2>1
  <2>4. /\ [f EXCEPT !.ab = b] \in Frame /\ [f EXCEPT !.ab = b].at = f.at
        /\ [f EXCEPT !.ab = b].p = f.p /\ [f EXCEPT !.ab = b].rest = f.rest
        /\ [f EXCEPT !.ab = b].ab = b
        /\ b = f.ab => [f EXCEPT !.ab = b] = f
    BY <2>2 DEF Frame
  <2>5. f.p /= p => b = f.ab
    BY <2>1, <2>2
  <2>6. f.p = p /\ f.at \in Answering => b
    BY <2>1 DEF Answering, Callback
  <2> QED BY <2>1, <2>3, <2>4, <2>5, <2>6
<1>6. s \in Seq(Frame) /\ Len(s) = Len(stack)
  <2>1. Len(stack) \in Nat /\ DOMAIN stack = 1 .. Len(stack)
    BY <1>1
  <2>2. s \in [1 .. Len(stack) -> Frame]
    BY <1>2, <1>5, <2>1
  <2> QED BY <2>1, <2>2
<1>7. /\ stack' \in Seq(Frame) /\ Len(stack') \in {Len(stack), Len(stack) + 1}
      /\ \A i \in DOMAIN stack : Marked(stack[i], stack'[i], p)
      /\ Len(stack') = Len(stack) + 1 => /\ stack'[Len(stack) + 1].at = "err"
                                        /\ stack'[Len(stack) + 1].p = p
      /\ stack' = Freed(s, p) \o <<Call("err", p)>> => Len(stack') = Len(stack) + 1
  BY <1>4, <1>5, <1>6, FreedMarked
<1>8. st[p] \notin {"TIME_WAIT", "SYN_RCVD"} => stack' = Freed(s, p) \o <<Call("err", p)>>
  BY <1>4 DEF ErrCall
<1> QED BY <1>4, <1>7, <1>8

\* ... keeps the invariant
LEMMA AbortStep ==
  ASSUME IInv, NEW p \in Pcb, InApp, Abort(p),
         \A i \in DOMAIN stack : stack[i].p = p => stack[i].at /= "drop"
  PROVE  IInv'
<1>1. p \in Pcb /\ stack \in Seq(Frame) /\ changed \in BOOLEAN
  BY SameTypes
<1>4. /\ Release(p) /\ ref' = ref \ {p} /\ UNCHANGED fault
      /\ active' = active \ {p} /\ tw' = tw \ {p}
      /\ changed' \in BOOLEAN /\ (changed => changed')
      /\ st[p] = "TIME_WAIT" \/ changed'
  BY AbortStack
<1>7. /\ stack' \in Seq(Frame) /\ Len(stack') \in {Len(stack), Len(stack) + 1}
      /\ \A i \in DOMAIN stack : Marked(stack[i], stack'[i], p)
      /\ Len(stack') = Len(stack) + 1 => stack'[Len(stack) + 1].at = "err"
  BY AbortStack
<1>8. "TIME_WAIT" \notin ActiveState
  BY DEF ActiveState
<1>9. changed' \/ p \notin active
  BY <1>1, <1>4, <1>8, SameTypes, OffList
<1>10. \A i \in DOMAIN stack : stack[i].p = p /\ stack[i].at = "poll" => changed'
  <2> SUFFICES ASSUME NEW i \in DOMAIN stack, stack[i].p = p, stack[i].at = "poll",
                      st[p] = "TIME_WAIT"
               PROVE  changed
    BY <1>4
  <2>1. FrameOK(stack[i], st, unread, ref, changed)
    BY SameTypes DEF Frames
  <2> QED BY <1>8, <2>1 DEF FrameOK
<1> QED BY <1>4, <1>7, <1>9, <1>10, FreeInApp

LEMMA UserAbortStep ==
  ASSUME IInv, NEW p \in ref, InApp, UserAbort(p)
  PROVE  IInv'
<1>1. p \in Pcb /\ \A i \in DOMAIN stack : stack[i].p = p => stack[i].at /= "drop"
  BY SameTypes, HeldFacts
<1> QED BY <1>1, AbortStep DEF UserAbort

-----------------------------------------------------------------------------
(* The invariant. *)

\* The pool is full, the lists are empty, no function is active.
LEMMA Initially ==
  ASSUME Init
  PROVE  IInv
<1>1. 0 \in 0 .. Window /\ 0 \in 0 .. CtrMod - 1
  BY WindowAssumption, CtrAssumption
<1>2. <<>> \in Seq(Frame) /\ Len(<<>>) = 0 /\ \A i \in DOMAIN <<>> : FALSE
  OBVIOUS
<1>3. TypeOK
  BY <1>1, <1>2 DEF Init, TypeOK, State
<1>4. Lists
  BY DEF Init, Lists, ActiveState
<1>5. \A p \in Pcb : PcbOK(p)
  BY DEF Init, PcbOK, Finished
<1>6. Shape(stack) /\ Frames /\ WalkOK
  BY <1>2 DEF Init, Shape, Frames, WalkOK
<1> QED BY <1>3, <1>4, <1>5, <1>6 DEF Init, IInv

\* The steps of the stack.
LEMMA StackStep ==
  ASSUME IInv, Stack
  PROVE  IInv'
<1>1. CASE Input
  BY <1>1, TcpInputStep, DropRefusedStep, ProcessRstStep, ProcessIgnoredStep,
     ProcessSynSentStep, ProcessSynRcvdStep, ProcessEstablishedStep, ProcessFinWait1Step,
     ProcessFinWait2Step, ProcessClosingStep, ProcessLastAckStep, DropStep,
     DeliverSentStep, DeliverRecvStep, DeliverFinStep, DeliverDoneStep, ListenInputStep
     DEF Input
<1>2. CASE Alloc
  BY <1>2, AllocOkStep, AllocKillTimeWaitStep, AllocKillActiveStep, AllocFailsStep DEF Alloc
<1>3. CASE Timer
  BY <1>3, FastTmrStep, FastVisitStep, FastEndStep, SlowVisitStep, SlowEndStep, RestartStep,
     StutterStep DEF Timer, Spin
<1> QED BY <1>1, <1>2, <1>3 DEF Stack

\* The steps of the application.
LEMMA UserStep ==
  ASSUME IInv, WellBehaved, User
  PROVE  IInv'
<1>1. CASE UserReturns
  <2>1. stack /= <<>> /\ MayReturn
    BY <1>1 DEF UserReturns
  <2>2. PICK r \in Results : Returns(r)
    BY <1>1 DEF UserReturns
  <2> QED BY <2>1, <2>2, ErrReturnsStep, PollReturnsStep, AcceptReturnsStep,
             ConnectedReturnsStep, SentReturnsStep, RecvReturnsStep, EofReturnsStep,
             RrecvReturnsStep, ReofReturnsStep DEF Returns
<1>2. CASE UserNew
  BY <1>2, UserNewStep
<1>3. ASSUME NEW p \in ref,
             \/ UserConnect(p) \/ UserClose(p) \/ UserAbort(p) \/ UserShutTx(p)
             \/ UserShutRx(p) \/ UserRecved(p)
      PROVE  IInv'
  <2>1. InApp
    BY <1>3 DEF UserConnect, UserClose, UserAbort, UserShutTx, UserShutRx, UserRecved, Does
  <2> QED BY <1>3, <2>1, UserConnectStep, UserCloseStep, UserAbortStep, UserShutTxStep,
             UserShutRxStep, UserRecvedStep
<1> QED BY <1>1, <1>2, <1>3 DEF User

\* Whatever the segments, the ticks and the pool make of the connections, and
\* whatever a well-behaved application does to them in callbacks: tcp_input,
\* tcp_alloc and the two timers keep every part of IInv.
THEOREM Inductive ==
  ASSUME WellBehaved
  PROVE  Spec => []IInv
<1>1. Init => IInv
  BY Initially
<1>2. IInv /\ [Next]_vars => IInv'
  BY StackStep, UserStep, StutterStep DEF Next
<1> QED BY <1>1, <1>2, PTL DEF Spec

\* A pcb is on tcp_active_pcbs or tcp_tw_pcbs exactly when its state says so,
\* whatever callbacks do to it between TCP_RMV and TCP_REG.
THEOREM ListsHold ==
  ASSUME WellBehaved
  PROVE  Spec => []ListsAgree
<1>1. IInv => ListsAgree
  BY DEF IInv, Lists, ListsAgree
<1> QED BY <1>1, Inductive, PTL

\* ERR_ABRT and tcp_active_pcbs_changed are enough: no function of the stack
\* uses a pcb again that a callback made it free, and none is freed twice.
THEOREM NoUseAfterFreeHolds ==
  ASSUME WellBehaved
  PROVE  Spec => []NoUseAfterFree
<1>1. IInv => NoUseAfterFree
  BY DEF IInv, NoUseAfterFree
<1> QED BY <1>1, Inductive, PTL

\* The err callback, tcp_close and tcp_shutdown tell the application in time:
\* every pcb it can still use is allocated.
THEOREM NoDanglingRefHolds ==
  ASSUME WellBehaved
  PROVE  Spec => []NoDanglingRef
<1>1. IInv => NoDanglingRef
  BY DEF IInv, TypeOK, PcbOK, NoDanglingRef
<1> QED BY <1>1, Inductive, PTL

\* tcp_close, tcp_abort and the accept callback leave no synchronised connection
\* to nobody.
THEOREM NoOrphanHolds ==
  ASSUME WellBehaved
  PROVE  Spec => []NoOrphan
<1>1. IInv => NoOrphan
  <2> SUFFICES ASSUME IInv, NEW p \in Pcb, st[p] \in {"ESTABLISHED", "CLOSE_WAIT"}, p \notin ref
               PROVE  \E i \in DOMAIN stack : stack[i].p = p
    BY DEF NoOrphan
  <2>1. Dropped(p)
    BY DEF IInv, PcbOK
  <2>2. 1 \in DOMAIN stack /\ stack[1].p = p
    BY <2>1, SameTypes, Lengths DEF Dropped
  <2> QED BY <2>2
<1> QED BY <1>1, Inductive, PTL

\* refused_data waits only on a pcb of tcp_active_pcbs, which tcp_fasttmr and
\* tcp_input will look at again; tcp_pcb_purge drops it everywhere else.
THEOREM RefusedHolds ==
  ASSUME WellBehaved
  PROVE  Spec => []RefusedOnActive
<1>1. IInv => RefusedOnActive
  BY DEF IInv, Lists, PcbOK, ActiveState, RefusedOnActive
<1> QED BY <1>1, Inductive, PTL

\* When a walk of tcp_fasttmr or tcp_slowtmr ends, every pcb on tcp_active_pcbs
\* has been processed in this tick: restarting the walk after a callback and
\* skipping by last_timer loses none.
THEOREM EveryPcbTickedHolds ==
  ASSUME WellBehaved
  PROVE  Spec => []EveryPcbTicked
<1>1. IInv => EveryPcbTicked
  <2> SUFFICES ASSUME IInv, At("fast") \/ At("slow"), Top.rest = {}, ~changed
               PROVE  \A p \in active : lag[p] = 0
    BY DEF EveryPcbTicked
  <2> QED BY WalkFacts
<1> QED BY <1>1, Inductive, PTL

-----------------------------------------------------------------------------
(* The server of app_tcp.c.  It takes a block of the heap for each            *)
(* connection, and it is not well behaved: app_tcp_recv without a pbuf calls  *)
(* tcp_close for a pcb whose data was never passed to tcp_recved, and returns *)
(* ERR_OK.  SInv holds in spite of that until a pcb is used after it was      *)
(* freed: IInv and ServerOK do, or the server stands behind that very         *)
(* tcp_close (Doomed).                                                        *)

\* What mem_free has still to be called for: a block, or the NULL of mem_calloc.
Own == {"used", "null"}
\* The states of the pcbs the server holds, and of all of its pcbs: it opens no
\* connection, and closes behind the FIN of the other end.
Serving == {"ESTABLISHED", "CLOSE_WAIT"}
ServerStates == Serving \cup {"FREE", "SYN_RCVD", "LAST_ACK"}

\* app_tcp_conn_err is called for p; app_tcp_accept is.
Told(p) == \E i \in DOMAIN stack : stack[i].at = "err" /\ stack[i].p = p
Accepting(p) == stack /= <<>> /\ stack[1].at = "accept" /\ stack[1].p = p

\* Each connection has its block and each block its connection, from
\* app_tcp_accept to app_tcp_recv without a pbuf or to app_tcp_conn_err.
Served(p) ==
  /\ st[p] \in ServerStates
  /\ refused[p] = "none"
  /\ p \in rx => st[p] \in {"CLOSE_WAIT", "LAST_ACK"}
  /\ buffer[p] \in Own => (p \in ref /\ st[p] \in Serving /\ ~Accepting(p)) \/ Told(p)
  /\ p \in ref => st[p] \in Serving /\ (p \in rx \/ Accepting(p) \/ buffer[p] \in Own)
  /\ Told(p) => p \notin ref

\* The functions of the stack the server can be called from, and that a pcb is
\* alive when its callback answers.
Calls ==
  /\ \A i \in DOMAIN stack :
       /\ stack[i].at \notin {"rrecv", "reof"}
       /\ stack[i].at \in Answering => ~stack[i].dead
       /\ stack[i].at = "alloc" => stack[i].seg.k = "syn"
       /\ stack[i].at = "recv" => stack[i].seg.data
  /\ Len(stack) > 1 => /\ stack[1].at \in {"drop", "alloc", "slow"}
                       /\ stack[2].at = "poll" => stack[1].at = "slow"

\* Data on its way to app_tcp_recv has a block to be copied to.
Copying == {"d.sent", "sent", "d.recv", "recv"}
CopyOK(f, B) == f.at \in Copying /\ ~f.dead /\ f.seg.data => B[f.p] \in Own
Copied == stack /= <<>> => CopyOK(stack[1], buffer)

ServerOK == Calls /\ Copied /\ \A p \in Pcb : Served(p)

\* app_tcp_recv has called tcp_close, which freed the pcb, and will return ERR_OK.
Doomed == ~fault /\ IsOne(stack, Top) /\ Top.at = "eof" /\ Top.dead /\ buffer[Top.p] \notin Own

\* The timers, and the loop tcp_fasttmr can be caught in.
Turning == Walks \cup {"spin"}
Off(s) == s = <<>> \/ s[1].at \notin Turning

BufferTypes == buffer \in [Pcb -> {"none", "used", "null", "freed", "gone"}]

SInv ==
  /\ BufferTypes
  /\ \A p \in Pcb : Served(p)
  /\ (IInv /\ ServerOK) \/ Doomed

\* The empty stack.
LEMMA ViewNone ==
  ASSUME stack' = <<>>
  PROVE  Calls' /\ Copied' /\ \A p : ~Told(p)' /\ ~Accepting(p)'
<1>1. Len(stack') = 0 /\ \A i \in DOMAIN stack' : FALSE
  OBVIOUS
<1> QED BY <1>1 DEF Calls, Copied, Told, Accepting

\* A stack of one record.
LEMMA ViewOne ==
  ASSUME NEW g, IsOne(stack', g), g.at \notin {"rrecv", "reof"},
         g.at \in Answering => ~g.dead, g.at = "alloc" => g.seg.k = "syn",
         g.at = "recv" => g.seg.data, CopyOK(g, buffer')
  PROVE  /\ Calls' /\ Copied'
         /\ \A p : Told(p)' <=> g.at = "err" /\ g.p = p
         /\ \A p : Accepting(p)' <=> g.at = "accept" /\ g.p = p
<1>1. /\ Len(stack') = 1 /\ stack' /= <<>> /\ stack'[1] = g
      /\ \A i \in DOMAIN stack' : i = 1 /\ stack'[i] = g
      /\ 1 \in DOMAIN stack'
  BY DEF IsOne
<1>2. Calls' /\ Copied'
  BY <1>1 DEF Calls, Copied
<1>3. \A p : Told(p)' <=> g.at = "err" /\ g.p = p
  BY <1>1 DEF Told
<1>4. \A p : Accepting(p)' <=> g.at = "accept" /\ g.p = p
  BY <1>1 DEF Accepting
<1> QED BY <1>2, <1>3, <1>4

\* A stack of two.
LEMMA ViewTwo ==
  ASSUME NEW f, NEW g, IsTwo(stack', f, g), f.at \in {"drop", "alloc", "slow"},
         f.at = "alloc" => f.seg.k = "syn", g.at \in {"err", "poll"},
         g.at = "poll" => f.at = "slow"
  PROVE  /\ Calls' /\ Copied'
         /\ \A p : Told(p)' <=> g.at = "err" /\ g.p = p
         /\ \A p : ~Accepting(p)'
<1>1. /\ Len(stack') = 2 /\ stack' /= <<>> /\ stack'[1] = f /\ stack'[2] = g
      /\ \A i \in DOMAIN stack' : (i = 1 /\ stack'[i] = f) \/ (i = 2 /\ stack'[i] = g)
      /\ 2 \in DOMAIN stack'
  BY DEF IsTwo
<1>2. Calls' /\ Copied'
  BY <1>1 DEF Calls, Copied, Answering, CopyOK, Copying
<1>3. \A p : Told(p)' <=> g.at = "err" /\ g.p = p
  BY <1>1 DEF Told
<1>4. \A p : ~Accepting(p)'
  BY <1>1 DEF Accepting
<1> QED BY <1>2, <1>3, <1>4

\* A pcb the step leaves alone.
LEMMA ServedSame ==
  ASSUME NEW p \in Pcb, Served(p), ~Told(p), ~Accepting(p), ~Told(p)', ~Accepting(p)',
         st'[p] = st[p], refused'[p] = refused[p], buffer'[p] = buffer[p],
         p \in rx' <=> p \in rx, p \in ref' <=> p \in ref
  PROVE  Served(p)'
  BY DEF Served

\* A pcb the server does not hold any more.
LEMMA ServedGone ==
  ASSUME NEW p \in Pcb, st'[p] \in ServerStates, refused'[p] = "none",
         p \in rx' => st'[p] \in {"CLOSE_WAIT", "LAST_ACK"},
         p \notin ref', buffer'[p] \in Own => Told(p)'
  PROVE  Served(p)'
  BY DEF Served

\* The same pcbs, another stack, without calls of the server but for answers.
LEMMA ServerQuiet ==
  ASSUME ServerOK, UNCHANGED <<st, rx, refused, ref, buffer>>,
         \A p \in Pcb : ~Told(p) /\ ~Accepting(p) /\ ~Told(p)' /\ ~Accepting(p)',
         Calls', Copied'
  PROVE  ServerOK'
<1>1. \A p \in Pcb : Served(p)'
  BY ServedSame DEF ServerOK
<1> QED BY <1>1 DEF ServerOK

\* ... of one record
LEMMA ServerOne ==
  ASSUME ServerOK, UNCHANGED <<st, rx, refused, ref, buffer>>,
         \A p \in Pcb : ~Told(p) /\ ~Accepting(p),
         NEW g, IsOne(stack', g), g.at \notin {"rrecv", "reof", "err", "accept"},
         g.at \in Answering => ~g.dead, g.at = "alloc" => g.seg.k = "syn",
         g.at = "recv" => g.seg.data, CopyOK(g, buffer')
  PROVE  ServerOK'
  BY ViewOne, ServerQuiet

\* ... of none
LEMMA ServerNone ==
  ASSUME ServerOK, UNCHANGED <<st, rx, refused, ref, buffer>>,
         \A p \in Pcb : ~Told(p) /\ ~Accepting(p), stack' = <<>>
  PROVE  ServerOK'
  BY ViewNone, ServerQuiet

\* While a function of the stack runs the server does not.
LEMMA NotCalled ==
  ASSUME IInv, stack = <<>> \/ Top.at \in Inside
  PROVE  \A p : ~Told(p) /\ ~Accepting(p)
<1>1. CASE stack = <<>>
  BY <1>1 DEF Told, Accepting
<1>2. CASE stack /= <<>> /\ Top.at \in Inside
  <2>1. IsOne(stack, Top) /\ stack[1] = Top
    BY <1>2, InsideFacts DEF Inside, Above
  <2>2. \A i \in DOMAIN stack : stack[i] = Top
    BY <2>1 DEF IsOne
  <2> QED BY <1>2, <2>1, <2>2 DEF Told, Accepting, Inside
<1> QED BY <1>1, <1>2

\* What holds while tcp_process looks at a segment for the server.
LEMMA ServerProcess ==
  ASSUME IInv, ServerOK, Processing
  PROVE  /\ IsOne(stack, Top) /\ Top \in Frame /\ Below = <<>> /\ stack[1] = Top
         /\ Len(stack) = 1 /\ Top.at = "process" /\ Top.p \in Pcb /\ Top.seg \in AnySeg
         /\ ~Top.dead /\ Served(Top.p)
         /\ st[Top.p] \in {"SYN_RCVD", "ESTABLISHED", "CLOSE_WAIT", "LAST_ACK"}
         /\ refused[Top.p] = "none"
         /\ st[Top.p] \in Serving => Top.p \in ref
         /\ \A q : ~Told(q) /\ ~Accepting(q)
<1>1. /\ IsOne(stack, Top) /\ Top \in Frame /\ Below = <<>> /\ stack[1] = Top
      /\ Len(stack) = 1 /\ Top.at = "process" /\ Top.p \in Pcb /\ Top.seg \in AnySeg
      /\ ~Top.dead /\ st[Top.p] \in ActiveState /\ PcbOK(Top.p)
      /\ \A q : ~Dropped(q)
  BY ProcessFacts
<1>2. Served(Top.p)
  BY <1>1 DEF ServerOK
<1>3. \A q : ~Told(q) /\ ~Accepting(q)
  BY <1>1, NotCalled DEF Inside
<1>4. st[Top.p] \in Serving => Top.p \in ref
  BY <1>1 DEF PcbOK, Serving
<1> QED BY <1>1, <1>2, <1>3, <1>4 DEF Served, ServerStates, Serving, ActiveState

\* Nothing was refused: tcp_input goes to tcp_process at once.
LEMMA ServerTcpInput ==
  ASSUME IInv, ServerOK, UNCHANGED buffer, NEW p \in Pcb, NEW s \in Seg, TcpInput(p, s)
  PROVE  ServerOK'
<1>1. refused[p] = "none"
  BY DEF ServerOK, Served
<1>2. /\ stack = <<>> /\ stack' = <<Rec("process", p, s, {})>>
      /\ UNCHANGED <<st, rx, refused, ref>>
  BY <1>1 DEF TcpInput
<1>3. Fields("process", p, s, {})
  BY DEF Fields, Place, Inside, AnySeg
<1>4. PICK f : f = Rec("process", p, s, {})
  OBVIOUS
<1>5. f \in Frame /\ f.at = "process"
  BY <1>3, <1>4, RecFrame, RecFields
<1>6. IsOne(stack', f)
  BY <1>2, <1>4, <1>5, OneFrame
<1> QED BY <1>2, <1>5, <1>6, NotCalled, ServerOne DEF Answering, CopyOK, Copying

\* Nothing is refused now.
LEMMA ServerDropRefused ==
  ASSUME IInv, ServerOK, UNCHANGED buffer, DropRefused
  PROVE  ServerOK'
  BY ServerProcess DEF DropRefused, StillRefused

\* TF_RESET and TF_CLOSED: the server is told of a pcb it holds.
LEMMA ServerKill ==
  ASSUME IInv, ServerOK, UNCHANGED buffer, Processing, NEW told \in BOOLEAN,
         Kill(Top.p, told), told \/ st[Top.p] = "LAST_ACK"
  PROVE  ServerOK' /\ Off(stack')
<1> DEFINE f == [Top EXCEPT !.at = "drop"]
<1>8. PICK p : p = Top.p
  OBVIOUS
<1>1. /\ Top \in Frame /\ Below = <<>> /\ p \in Pcb /\ Served(p)
      /\ st[p] \in {"SYN_RCVD", "ESTABLISHED", "CLOSE_WAIT", "LAST_ACK"}
      /\ \A q : ~Told(q) /\ ~Accepting(q)
  BY <1>8, ServerProcess
<1>2. f \in Frame /\ f.at = "drop"
  BY <1>1, FrameGoto DEF Place, Inside
<1>3. PICK e \in Frame : e = Call("err", p) /\ e.at = "err" /\ e.p = p
  <2>1. "err" \in Place /\ p \in Pcb \cup {NoPcb}
    BY <1>1 DEF Place, Callback
  <2> QED BY <2>1, CallFacts
<1>4. /\ UNCHANGED <<st, rx, refused>>
      /\ ref' = IF told THEN ref \ {p} ELSE ref
  BY <1>8 DEF Kill, conn
<1>5. \/ IsOne(stack', f) /\ (~told \/ st[p] = "SYN_RCVD")
      \/ IsTwo(stack', f, e)
  <2>1. \/ stack' = <<>> \o <<f>> \o <<>> /\ (~told \/ st[p] = "SYN_RCVD")
        \/ stack' = <<>> \o <<f>> \o <<e>>
    BY <1>1, <1>3, <1>8 DEF Kill, ErrCall
  <2> HIDE DEF f
  <2>2. <<>> \o <<f>> = <<f>> /\ <<f>> \o <<>> = <<f>>
    BY <1>2, <1>3, Joined
  <2> QED BY <1>2, <1>3, <2>1, <2>2, OneFrame, TwoFrames
<1> HIDE DEF f
<1>6. /\ Calls' /\ Copied' /\ \A q : ~Accepting(q)'
      /\ \A q : Told(q)' => q = p
      /\ Told(p)' \/ ~told \/ st[p] = "SYN_RCVD"
  <2>1. CASE IsOne(stack', f) /\ (~told \/ st[p] = "SYN_RCVD")
    BY <1>2, <2>1, ViewOne DEF Answering, CopyOK, Copying
  <2>2. CASE IsTwo(stack', f, e)
    BY <1>2, <1>3, <2>2, ViewTwo
  <2> QED BY <1>5, <2>1, <2>2
<1>7. \A q \in Pcb : Served(q)'
  <2> TAKE q \in Pcb
  <2>1. Served(q)
    BY DEF ServerOK
  <2>2. CASE q = p
    <3>1. st[p] \in Serving => told
      BY <1>8 DEF Serving
    <3>2. p \notin ref'
      BY <1>1, <1>4, <1>8 DEF Served, Serving
    <3>3. buffer[p] \in Own => st[p] \in Serving
      BY <1>1 DEF Served
    <3>4. buffer'[p] \in Own => Told(p)'
      BY <1>6, <3>1, <3>3 DEF Serving
    <3> QED BY <1>4, <2>1, <2>2, <3>2, <3>4, ServedGone DEF Served
  <2>3. CASE q /= p
    BY <1>1, <1>4, <1>6, <2>1, <2>3, ServedSame
  <2> QED BY <2>2, <2>3
<1>9. Off(stack')
  BY <1>2, <1>5 DEF Off, Turning, Walks, IsOne, IsTwo
<1> QED BY <1>6, <1>7, <1>9 DEF ServerOK

\* A reset.
LEMMA ServerProcessRst ==
  ASSUME IInv, ServerOK, UNCHANGED buffer, ProcessRst
  PROVE  ServerOK'
  BY ServerKill DEF ProcessRst

\* What tcp_process passes over brings no data.
LEMMA ServerProcessIgnored ==
  ASSUME IInv, ServerOK, UNCHANGED buffer, ProcessIgnored
  PROVE  ServerOK'
<1> DEFINE p == Top.p
           s == Got(p, Top.seg)
<1>1. /\ Processing /\ (Top.seg.k = "syn" \/ st[p] = "TIME_WAIT")
      /\ UNCHANGED <<st, rx, refused, ref>>
  BY DEF ProcessIgnored, conn
<1>2. s \in AnySeg /\ ~s.data
  BY <1>1, ServerProcess, GotFacts, SegFields
<1>3. Moved("d.sent", s)
  BY ServerProcess, <1>1 DEF ProcessIgnored, Moved
<1> HIDE DEF s
<1>4. "d.sent" \in Place
  BY DEF Place, Inside
<1>5. PICK g \in Frame : IsOne(stack', g) /\ g.at = "d.sent" /\ g.seg = s
  BY <1>1, <1>2, <1>3, <1>4, ServerProcess, GotoSeg
<1> QED BY <1>1, <1>2, <1>5, ServerProcess, ServerOne DEF Answering, CopyOK

\* The server is told of a new connection: app_tcp_accept.
LEMMA ServerProcessSynRcvd ==
  ASSUME IInv, ServerOK, UNCHANGED buffer, ProcessSynRcvd
  PROVE  ServerOK'
<1>1. PICK p : p = Top.p
  OBVIOUS
<1>2. Processing /\ st[p] = "SYN_RCVD" /\ UNCHANGED <<rx, refused>>
  BY <1>1 DEF ProcessSynRcvd, conn
<1>3. /\ IsOne(stack, Top) /\ p \in Pcb /\ ~Top.dead
      /\ \A q : ~Told(q) /\ ~Accepting(q)
  BY <1>1, <1>2, ServerProcess
<1>4. CASE Top.seg.ack
  <2>1. /\ st' = [st EXCEPT ![p] = "ESTABLISHED"] /\ Goto("accept") /\ ref' = ref \cup {p}
    BY <1>1, <1>4 DEF ProcessSynRcvd
  <2>2. PICK g \in Frame : IsOne(stack', g) /\ g.at = "accept" /\ g.p = p /\ g.dead = Top.dead
    BY <1>1, <1>3, <2>1, GotoOne DEF Place, Callback
  <2>3. Calls' /\ Copied' /\ \A q : ~Told(q)' /\ (Accepting(q)' <=> q = p)
    BY <1>3, <2>2, ViewOne DEF CopyOK, Copying
  <2>4. \A q \in Pcb : Served(q)'
    <3> TAKE q \in Pcb
    <3>1. Served(q)
      BY DEF ServerOK
    <3>2. CASE q = p
      <4>1. st'[p] = "ESTABLISHED" /\ p \in ref' /\ p \notin rx'
        BY <1>2, <2>1, <3>1, <3>2, SameTypes DEF Served
      <4>2. buffer'[p] \notin Own
        BY <1>2, <1>3, <3>1, <3>2 DEF Served, Serving
      <4> QED BY <1>2, <2>3, <3>1, <3>2, <4>1, <4>2 DEF Served, ServerStates, Serving
    <3>3. CASE q /= p
      <4>1. st'[q] = st[q] /\ (q \in ref' <=> q \in ref)
        BY <2>1, <3>3, SameTypes
      <4> QED BY <1>2, <1>3, <2>3, <3>1, <3>3, <4>1, ServedSame
    <3> QED BY <3>2, <3>3
  <2> QED BY <2>3, <2>4 DEF ServerOK
<1>5. CASE ~Top.seg.ack
  <2>1. Goto("d.out") /\ UNCHANGED <<st, ref>>
    BY <1>5 DEF ProcessSynRcvd
  <2>2. PICK g \in Frame : IsOne(stack', g) /\ g.at = "d.out"
    BY <1>3, <2>1, GotoOne DEF Place, Inside
  <2> QED BY <1>2, <1>3, <2>1, <2>2, ServerOne DEF Answering, CopyOK, Copying
<1> QED BY <1>4, <1>5

\* tcp_receive for a pcb of the server: data is taken while there is a block.
LEMMA ServerReceive ==
  ASSUME ServerOK, IsOne(stack, Top), NEW p \in Pcb, NEW s \in AnySeg, p = Top.p, s = Top.seg,
         Len(stack) = 1, st \in [Pcb -> State], buffer \in [Pcb -> {"none", "used", "null", "freed", "gone"}],
         \A q \in Pcb \ {p} : ~Told(q) /\ ~Accepting(q),
         st[p] \in {"ESTABLISHED", "CLOSE_WAIT", "LAST_ACK"},
         Receive(p, s), ToState(p, IF Got(p, s).fin THEN "CLOSE_WAIT" ELSE st[p]),
         st[p] \in Serving => p \in ref,
         st[p] = "ESTABLISHED" => buffer'[p] \in Own,
         buffer'[p] \in Own => st[p] \in Serving,
         p \in ref => p \in rx \/ buffer'[p] \in Own,
         \A q \in Pcb \ {p} : buffer'[q] = buffer[q]
  PROVE  ServerOK'
<1> DEFINE t == Got(p, s)
<1>1. /\ t \in AnySeg /\ (t.fin => st[p] = "ESTABLISHED") /\ (t.data => st[p] = "ESTABLISHED")
  BY GotFacts DEF Receiving
<1>2. Moved("d.sent", t)
  BY DEF Receive, Moved
<1>3. /\ UNCHANGED <<rx, ref, refused>>
      /\ st' = [st EXCEPT ![p] = IF t.fin THEN "CLOSE_WAIT" ELSE st[p]]
  BY DEF Receive, ToState
<1> HIDE DEF t
<1>4. "d.sent" \in Place
  BY DEF Place, Inside
<1>5. PICK g \in Frame : IsOne(stack', g) /\ g.at = "d.sent" /\ g.p = p /\ g.seg = t
  BY <1>1, <1>2, <1>4, GotoSeg
<1>6. Calls' /\ Copied' /\ \A q : ~Told(q)' /\ ~Accepting(q)'
  BY <1>1, <1>5, ViewOne DEF Answering, CopyOK
<1>7. /\ st'[p] \in {st[p], "CLOSE_WAIT"} /\ (st[p] \notin Serving => st'[p] = st[p])
      /\ (st'[p] /= st[p] => st[p] = "ESTABLISHED")
      /\ \A q \in Pcb \ {p} : st'[q] = st[q]
  BY <1>1, <1>3 DEF Serving
<1>8. \A q \in Pcb : Served(q)'
  <2> TAKE q \in Pcb
  <2>1. Served(q)
    BY DEF ServerOK
  <2>2. CASE q = p
    BY <1>3, <1>6, <1>7, <2>1, <2>2 DEF Served, ServerStates, Serving
  <2>3. CASE q /= p
    BY <1>3, <1>6, <1>7, <2>1, <2>3, ServedSame
  <2> QED BY <2>2, <2>3
<1> QED BY <1>6, <1>8 DEF ServerOK

\* ESTABLISHED and CLOSE_WAIT.
LEMMA ServerProcessEstablished ==
  ASSUME IInv, BufferTypes, ServerOK, UNCHANGED buffer, ProcessEstablished
  PROVE  ServerOK'
<1>1. PICK p, s : p = Top.p /\ s = Top.seg
  OBVIOUS
<1>2. /\ Processing /\ st[p] \in {"ESTABLISHED", "CLOSE_WAIT"}
      /\ Receive(p, s) /\ ToState(p, IF Got(p, s).fin THEN "CLOSE_WAIT" ELSE st[p])
  BY <1>1 DEF ProcessEstablished
<1>3. /\ IsOne(stack, Top) /\ Len(stack) = 1 /\ p \in Pcb /\ s \in AnySeg /\ Served(p) /\ p \in ref
      /\ \A q : ~Told(q) /\ ~Accepting(q)
  BY <1>1, <1>2, ServerProcess DEF Serving
<1>4. /\ st[p] = "ESTABLISHED" => buffer'[p] \in Own
      /\ buffer'[p] \in Own => st[p] \in Serving
      /\ p \in rx \/ buffer'[p] \in Own
  BY <1>2, <1>3 DEF Served
<1> QED BY <1>1, <1>2, <1>3, <1>4, SameTypes, ServerReceive DEF BufferTypes

\* LAST_ACK: the server has forgotten the pcb, and has no block for it.
LEMMA ServerProcessLastAck ==
  ASSUME IInv, BufferTypes, ServerOK, UNCHANGED buffer, ProcessLastAck
  PROVE  ServerOK'
<1>1. PICK p, s : p = Top.p /\ s = Top.seg
  OBVIOUS
<1>2. Processing /\ st[p] = "LAST_ACK"
  BY <1>1 DEF ProcessLastAck
<1>3. /\ IsOne(stack, Top) /\ Len(stack) = 1 /\ p \in Pcb /\ s \in AnySeg /\ Served(p)
      /\ \A q : ~Told(q) /\ ~Accepting(q)
  BY <1>1, <1>2, ServerProcess
<1>4. CASE Top.seg.ack
  <2>1. Kill(Top.p, Top.p \notin rx)
    BY <1>4 DEF ProcessLastAck
  <2> QED BY <1>1, <1>2, <2>1, ServerKill
<1>5. CASE ~Top.seg.ack
  <2>1. Receive(p, s) /\ ToState(p, "LAST_ACK")
    BY <1>1, <1>5 DEF ProcessLastAck
  <2>2. ~Got(p, s).fin
    BY <1>2, <1>3, GotFacts DEF Receiving
  <2>3. ToState(p, IF Got(p, s).fin THEN "CLOSE_WAIT" ELSE st[p])
    BY <1>2, <2>1, <2>2
  <2>4. p \notin ref /\ buffer[p] \notin Own
    BY <1>2, <1>3 DEF Served, Serving
  <2> QED BY <1>1, <1>2, <1>3, <2>1, <2>3, <2>4, SameTypes, ServerReceive DEF BufferTypes, Serving
<1> QED BY <1>4, <1>5

\* The stack frees a pcb, and tells the server if it holds it.
LEMMA ServerFrees ==
  ASSUME ServerOK, UNCHANGED buffer, NEW p \in Pcb, Release(p), IInv,
         p \notin ref', \A q \in Pcb \ {p} : q \in ref' <=> q \in ref,
         \A q : ~Told(q) /\ ~Accepting(q),
         Calls', Copied', \A q : ~Accepting(q)' /\ (Told(q)' => q = p),
         Told(p)' \/ st[p] \notin Serving \/ p \notin ref
  PROVE  ServerOK'
<1>1. \A q \in Pcb : Served(q)'
  <2> TAKE q \in Pcb
  <2>1. Served(q)
    BY DEF ServerOK
  <2>2. CASE q = p
    <3>1. st'[p] = "FREE" /\ refused'[p] = "none" /\ p \notin rx'
      BY SameTypes DEF Release
    <3>2. buffer'[p] \in Own => Told(p)'
      BY <2>1, <2>2 DEF Served
    <3> QED BY <2>2, <3>1, <3>2, ServedGone DEF ServerStates
  <2>3. CASE q /= p
    <3>1. st'[q] = st[q] /\ refused'[q] = refused[q] /\ (q \in rx' <=> q \in rx)
      BY <2>3, SameTypes DEF Release
    <3> QED BY <2>1, <2>3, <3>1, ServedSame
  <2> QED BY <2>2, <2>3
<1> QED BY <1>1 DEF ServerOK

\* Nobody holds a pcb that is removed behind its err callback.
LEMMA ServerDrop ==
  ASSUME IInv, ServerOK, UNCHANGED buffer, Drop
  PROVE  ServerOK'
<1>1. PICK p : p = Top.p
  OBVIOUS
<1>2. /\ stack /= <<>> /\ Top.at = "drop" /\ ~Top.dead
      /\ Release(p) /\ stack' = Freed(Below, p) /\ UNCHANGED ref
  BY <1>1 DEF Drop, At
<1>3. /\ Below = <<>> /\ FrameOK(Top, st, unread, ref, changed)
      /\ \A q : ~Told(q) /\ ~Accepting(q)
  BY <1>2, InsideFacts, NotCalled DEF Above, Inside
<1>4. p \in Pcb /\ p \notin ref
  BY <1>1, <1>2, <1>3 DEF FrameOK, LiveOK, Conn
<1>5. stack' = <<>>
  BY <1>2, <1>3, FreedNone
<1> QED BY <1>2, <1>3, <1>4, <1>5, ViewNone, ServerFrees

\* tcp_input calls the server for what was acknowledged and for what came.
LEMMA ServerDeliverSent ==
  ASSUME IInv, ServerOK, UNCHANGED buffer, DeliverSent
  PROVE  ServerOK'
<1>1. PICK a : a = IF Top.seg.sent THEN "sent" ELSE "d.recv"
  OBVIOUS
<1>2. /\ stack /= <<>> /\ Top.at = "d.sent" /\ ~Top.dead /\ Goto(a)
      /\ UNCHANGED <<st, rx, refused, ref>>
  BY <1>1 DEF DeliverSent, At, conn
<1>3. a \in Place
  BY <1>1 DEF Place, Callback, Inside
<1>4. PICK g \in Frame : IsOne(stack', g) /\ g.at = a /\ g.p = Top.p
                         /\ g.seg = Top.seg /\ g.dead = Top.dead
  BY <1>2, <1>3, DeliverFacts, GotoOne
<1>5. CopyOK(g, buffer')
  BY <1>2, <1>4, InsideFacts DEF ServerOK, Copied, CopyOK, Copying, Above
<1> QED BY <1>1, <1>2, <1>4, <1>5, NotCalled, ServerOne DEF Inside

\* ... with a block, or the receiver is closed and the connection aborted.
LEMMA ServerDeliverRecv ==
  ASSUME IInv, ServerOK, UNCHANGED buffer, DeliverRecv
  PROVE  ServerOK' /\ Off(stack')
<1>1. PICK p : p = Top.p
  OBVIOUS
<1>2. stack /= <<>> /\ Top.at = "d.recv" /\ ~Top.dead
  BY DEF DeliverRecv, At
<1>3. \A q : ~Told(q) /\ ~Accepting(q)
  BY <1>2, NotCalled DEF Inside
<1>4. CASE Top.seg.data /\ p \in rx
  <2>1. AbortOn(p, <<>>) /\ p \in Pcb
    BY <1>1, <1>2, <1>4, DeliverFacts DEF DeliverRecv
  <2>2. /\ Release(p) /\ ref' = ref \ {p}
        /\ stack' = Freed(<<>>, p) \/ stack' = Freed(<<>>, p) \o ErrCall(p)
        /\ st[p] /= "TIME_WAIT" => stack' = Freed(<<>>, p) \o ErrCall(p)
    BY <2>1, AbortLists
  <2>3. PICK e \in Frame : e = Call("err", p) /\ e.at = "err" /\ e.p = p
    <3>1. "err" \in Place /\ p \in Pcb \cup {NoPcb}
      BY <2>1 DEF Place, Callback
    <3> QED BY <3>1, CallFacts
  <2>4. stack' = <<>> \/ stack' = <<e>>
    BY <2>2, <2>3, FreedNone, Joined DEF ErrCall
  <2>5. st[p] \in Serving => stack' = <<e>>
    BY <2>2, <2>3, FreedNone, Joined DEF ErrCall, Serving
  <2>6. CASE stack' = <<>>
    <3>1. st[p] \notin Serving
      BY <2>5, <2>6
    <3>2. ServerOK'
      BY <1>3, <2>1, <2>2, <2>6, <3>1, ViewNone, ServerFrees, SameTypes
    <3> QED BY <2>6, <3>2 DEF Off
  <2>7. CASE stack' = <<e>>
    <3>1. IsOne(stack', e)
      BY <2>3, <2>7, OneFrame
    <3>2. Calls' /\ Copied' /\ \A q : (Told(q)' <=> q = p) /\ ~Accepting(q)'
      BY <2>3, <3>1, ViewOne DEF Answering, CopyOK, Copying
    <3>3. ServerOK'
      BY <1>3, <2>1, <2>2, <3>2, ServerFrees, SameTypes
    <3> QED BY <2>3, <3>1, <3>3 DEF Off, Turning, Walks, IsOne
  <2> QED BY <2>4, <2>6, <2>7
<1>5. CASE ~(Top.seg.data /\ p \in rx)
  <2>1. PICK a : a = IF Top.seg.data THEN "recv" ELSE "d.fin"
    OBVIOUS
  <2>2. Goto(a) /\ UNCHANGED <<st, rx, refused, ref>>
    BY <1>1, <1>5, <2>1 DEF DeliverRecv, conn
  <2>3. a \in Place
    BY <2>1 DEF Place, Callback, Inside
  <2>4. PICK g \in Frame : IsOne(stack', g) /\ g.at = a /\ g.p = Top.p
                           /\ g.seg = Top.seg /\ g.dead = Top.dead
    BY <1>2, <2>2, <2>3, DeliverFacts, GotoOne
  <2>5. CopyOK(g, buffer')
    BY <1>2, <2>1, <2>4, InsideFacts DEF ServerOK, Copied, CopyOK, Copying, Above
  <2>6. ServerOK'
    BY <1>2, <1>3, <2>1, <2>2, <2>4, <2>5, ServerOne
  <2> QED BY <2>1, <2>4, <2>6 DEF Off, Turning, Walks, IsOne
<1> QED BY <1>4, <1>5

\* ... and for the end of the connection.
LEMMA ServerDeliverFin ==
  ASSUME IInv, ServerOK, UNCHANGED buffer, DeliverFin
  PROVE  ServerOK'
<1>1. /\ stack /= <<>> /\ Top.at = "d.fin" /\ ~Top.dead
      /\ UNCHANGED <<st, rx, ref>>
  BY DEF DeliverFin, At
<1>2. Top.p \in Pcb /\ IsOne(stack, Top) /\ refused[Top.p] = "none"
  BY <1>1, DeliverFacts DEF ServerOK, Served
<1>3. PICK a \in {"eof", "d.out"} : Goto(a) /\ UNCHANGED refused
  BY <1>2 DEF DeliverFin
<1>4. PICK g \in Frame : IsOne(stack', g) /\ g.at = a /\ g.dead = Top.dead
  BY <1>2, <1>3, GotoOne DEF Place, Callback, Inside
<1> QED BY <1>1, <1>3, <1>4, NotCalled, ServerOne DEF Inside, CopyOK, Copying

\* The last tcp_output of tcp_input.
LEMMA ServerDeliverDone ==
  ASSUME IInv, ServerOK, UNCHANGED buffer, DeliverDone
  PROVE  ServerOK'
<1>1. /\ stack /= <<>> /\ Top.at = "d.out" /\ ~Top.dead
      /\ UNCHANGED <<st, rx, refused, ref>>
  BY DEF DeliverDone, At
<1>2. stack' = <<>>
  BY <1>1, DeliverFacts DEF DeliverDone, Return
<1> QED BY <1>1, <1>2, NotCalled, ServerNone DEF Inside

\* A SYN for the listening pcb.
LEMMA ServerListenInput ==
  ASSUME IInv, ServerOK, UNCHANGED buffer, ListenInput
  PROVE  ServerOK'
<1> DEFINE s == [NoSeg EXCEPT !.k = "syn"]
<1>1. stack = <<>> /\ stack' = <<Rec("alloc", NoPcb, s, {})>>
      /\ UNCHANGED <<st, rx, refused, ref>>
  BY DEF ListenInput, conn
<1>2. Fields("alloc", NoPcb, s, {}) /\ s.k = "syn"
  BY DEF Fields, Place, Inside, AnySeg, Seg, NoSeg
<1> HIDE DEF s
<1>3. PICK f : f = Rec("alloc", NoPcb, s, {})
  OBVIOUS
<1>4. f \in Frame /\ f.at = "alloc" /\ f.seg = s
  BY <1>2, <1>3, RecFrame, RecFields
<1>5. IsOne(stack', f)
  BY <1>1, <1>3, <1>4, OneFrame
<1> QED BY <1>1, <1>2, <1>4, <1>5, NotCalled, ServerOne DEF Answering, CopyOK, Copying

\* tcp_alloc runs for the listening pcb.
LEMMA ServerAlloc ==
  ASSUME IInv, ServerOK, At("alloc")
  PROVE  /\ Top \in Frame /\ Top.at = "alloc" /\ Below = <<>> /\ IsOne(stack, Top) /\ ForListen
         /\ \A q : ~Told(q) /\ ~Accepting(q)
<1>1. /\ stack /= <<>> /\ Top \in Frame /\ Top.at = "alloc" /\ Below = <<>> /\ IsOne(stack, Top)
  BY AllocFacts
<1>2. 1 \in DOMAIN stack /\ stack[1] = Top
  BY <1>1 DEF IsOne
<1> QED BY <1>1, <1>2, NotCalled DEF ServerOK, Calls, ForListen, Inside

\* A new pcb, which the server learns of when it is connected.
LEMMA ServerAllocOk ==
  ASSUME IInv, ServerOK, UNCHANGED buffer, NEW p \in Pcb, AllocOk(p)
  PROVE  ServerOK'
<1>1. At("alloc") /\ st[p] = "FREE" /\ UNCHANGED <<rx, refused>>
  BY DEF AllocOk, Pool, conn
<1>2. Below = <<>> /\ ForListen /\ \A q : ~Told(q) /\ ~Accepting(q)
  BY <1>1, ServerAlloc
<1>3. stack' = <<>> /\ UNCHANGED ref
      /\ (st' = st \/ st' = [st EXCEPT ![p] = "SYN_RCVD"])
  BY <1>2 DEF AllocOk, Return
<1>4. CASE st' = st
  BY <1>1, <1>2, <1>3, <1>4, ServerNone
<1>5. CASE st' = [st EXCEPT ![p] = "SYN_RCVD"]
  <2>1. Calls' /\ Copied' /\ \A q : ~Told(q)' /\ ~Accepting(q)'
    BY <1>3, ViewNone
  <2>2. \A q \in Pcb : Served(q)'
    <3> TAKE q \in Pcb
    <3>1. Served(q)
      BY DEF ServerOK
    <3>2. CASE q = p
      <4>1. p \notin ref /\ p \notin rx /\ buffer[p] \notin Own
        BY <1>1, <1>2, <3>1, <3>2 DEF Served, Serving
      <4>2. st'[p] = "SYN_RCVD"
        BY <1>5, SameTypes
      <4> QED BY <1>1, <1>3, <3>1, <3>2, <4>1, <4>2, ServedGone DEF Served, ServerStates
    <3>3. CASE q /= p
      <4>1. st'[q] = st[q]
        BY <1>5, <3>3, SameTypes
      <4> QED BY <1>1, <1>2, <1>3, <2>1, <3>1, <4>1, ServedSame
    <3> QED BY <3>2, <3>3
  <2> QED BY <2>1, <2>2 DEF ServerOK
<1> QED BY <1>3, <1>4, <1>5

\* The server has no pcb in TIME_WAIT.
LEMMA NoTimeWait ==
  ASSUME IInv, ServerOK
  PROVE  tw = {}
<1>1. \A q \in Pcb : st[q] /= "TIME_WAIT"
  BY DEF ServerOK, Served, ServerStates, Serving
<1> QED BY <1>1, SameTypes DEF Lists

\* A connection is given up for the new one.
LEMMA ServerAllocKillActive ==
  ASSUME IInv, ServerOK, UNCHANGED buffer, NEW p \in Pcb, AllocKillActive(p)
  PROVE  ServerOK' /\ Off(stack')
<1> DEFINE s == [stack EXCEPT ![Len(stack)].ab = TRUE]
           h == [Top EXCEPT !.ab = TRUE]
<1>1. At("alloc") /\ p \in active /\ AbortOn(p, s)
  BY DEF AllocKillActive
<1>2. /\ Top \in Frame /\ Top.at = "alloc" /\ IsOne(stack, Top) /\ Top.seg.k = "syn"
      /\ \A q : ~Told(q) /\ ~Accepting(q)
  BY <1>1, ServerAlloc DEF ForListen
<1>3. h \in Frame /\ h.at = "alloc" /\ h.seg = Top.seg
  BY <1>2 DEF Frame
<1>4. s = [stack EXCEPT ![1] = h]
  BY <1>2 DEF IsOne
<1> HIDE DEF h, s
<1>5. s \in Seq(Frame) /\ Len(s) = 1 /\ s[1] = h
  BY <1>2, <1>3, <1>4, Replaced DEF IsOne
<1>6. PICK g : g = FreedRecord(h, p)
  OBVIOUS
<1>7. g \in Frame /\ g.at = "alloc" /\ g.seg.k = "syn"
  BY <1>2, <1>3, <1>6, FreedRecordFields
<1>8. IsOne(Freed(s, p), g)
  BY <1>5, <1>6, FreedFacts DEF IsOne
<1>9. Freed(s, p) = <<g>>
  BY <1>7, <1>8 DEF IsOne
<1>10. PICK e \in Frame : e = Call("err", p) /\ e.at = "err" /\ e.p = p
  <2>1. "err" \in Place /\ p \in Pcb \cup {NoPcb}
    BY DEF Place, Callback
  <2> QED BY <2>1, CallFacts
<1>11. /\ Release(p) /\ ref' = ref \ {p}
       /\ \/ st[p] \in {"TIME_WAIT", "SYN_RCVD"} /\ IsOne(stack', g)
          \/ IsTwo(stack', g, e)
  <2>1. /\ Release(p) /\ ref' = ref \ {p}
        /\ \/ st[p] = "TIME_WAIT" /\ stack' = <<g>>
           \/ st[p] /= "TIME_WAIT" /\ stack' = <<g>> \o ErrCall(p)
    BY <1>1, <1>9, AbortLists
  <2>2. \/ st[p] \in {"TIME_WAIT", "SYN_RCVD"} /\ (stack' = <<g>> \/ stack' = <<g>> \o <<>>)
        \/ stack' = <<g>> \o <<e>>
    BY <1>10, <2>1 DEF ErrCall
  <2> QED BY <1>7, <1>10, <2>1, <2>2, OneFrame, TwoFrames, Joined
<1>12. ASSUME st[p] \in {"TIME_WAIT", "SYN_RCVD"} /\ IsOne(stack', g)
       PROVE  ServerOK'
  <2>1. Calls' /\ Copied' /\ \A q : ~Told(q)' /\ ~Accepting(q)'
    BY <1>7, <1>12, ViewOne DEF Answering, CopyOK, Copying
  <2> QED BY <1>2, <1>11, <1>12, <2>1, SameTypes, ServerFrees DEF Serving
<1>13. ASSUME IsTwo(stack', g, e)
       PROVE  ServerOK'
  <2>1. Calls' /\ Copied' /\ \A q : (Told(q)' <=> q = p) /\ ~Accepting(q)'
    BY <1>7, <1>10, <1>13, ViewTwo
  <2> QED BY <1>2, <1>11, <2>1, SameTypes, ServerFrees
<1>14. Off(stack')
  BY <1>7, <1>11 DEF Off, Turning, Walks, IsOne, IsTwo
<1> QED BY <1>11, <1>12, <1>13, <1>14

\* There is none to take.
LEMMA ServerAllocFails ==
  ASSUME IInv, ServerOK, UNCHANGED buffer, AllocFails
  PROVE  ServerOK'
<1>1. At("alloc") /\ UNCHANGED <<st, rx, refused, ref>>
  BY DEF AllocFails, conn
<1>2. stack' = <<>> /\ \A q : ~Told(q) /\ ~Accepting(q)
  BY <1>1, ServerAlloc DEF AllocFails, Return
<1> QED BY <1>1, <1>2, ServerNone

\* A timer of the server's stack between two pcbs.
LEMMA ServerWalk ==
  ASSUME IInv, At("fast") \/ At("slow")
  PROVE  /\ Top \in Frame /\ Top.at \in Walks /\ Below = <<>> /\ IsOne(stack, Top)
         /\ \A q : ~Told(q) /\ ~Accepting(q)
<1>1. Top \in Frame /\ Top.at \in Walks /\ Below = <<>> /\ IsOne(stack, Top) /\ stack /= <<>>
  BY WalkFacts
<1> QED BY <1>1, NotCalled DEF Inside, Walks

\* A walk starts.
LEMMA ServerStartWalk ==
  ASSUME IInv, ServerOK, UNCHANGED buffer, NEW a \in Walks, StartWalk(a),
         \A q : ~Told(q) /\ ~Accepting(q)
  PROVE  ServerOK'
<1>1. /\ stack' = <<Rec(a, NoPcb, NoSeg, active)>> /\ UNCHANGED <<st, rx, refused, ref>>
  BY DEF StartWalk, conn
<1>2. Fields(a, NoPcb, NoSeg, active)
  BY SameTypes DEF Fields, Walks, Place, Inside, AnySeg, NoSeg
<1>3. PICK f : f = Rec(a, NoPcb, NoSeg, active)
  OBVIOUS
<1>4. f \in Frame /\ f.at \in Walks
  BY <1>2, <1>3, RecFrame, RecFields
<1>5. IsOne(stack', f)
  BY <1>1, <1>3, <1>4, OneFrame
<1> QED BY <1>1, <1>4, <1>5, ServerOne DEF Walks, Answering, CopyOK, Copying

\* tcp_fasttmr starts, and ends.
LEMMA ServerFastEnds ==
  ASSUME IInv, ServerOK, UNCHANGED buffer, FastTmr \/ FastEnd
  PROVE  ServerOK'
<1>1. CASE FastTmr
  BY <1>1, NotCalled, ServerStartWalk DEF FastTmr, Walks
<1>2. CASE FastEnd
  <2>1. Below = <<>> /\ \A q : ~Told(q) /\ ~Accepting(q)
    BY <1>2, ServerWalk DEF FastEnd
  <2>2. CASE Return(<<>>) /\ UNCHANGED <<st, active, tw, conn, lag, changed, ref, fault>>
    BY <2>1, <2>2, ServerNone DEF Return, conn
  <2>3. CASE StartWalk("slow")
    BY <2>1, <2>3, ServerStartWalk DEF Walks
  <2> QED BY <1>2, <2>2, <2>3 DEF FastEnd
<1> QED BY <1>1, <1>2

\* A walk starts again.
LEMMA ServerRestart ==
  ASSUME IInv, ServerOK, UNCHANGED buffer, Restart
  PROVE  ServerOK'
<1> DEFINE f == [Top EXCEPT !.rest = active]
<1>1. /\ At("fast") \/ At("slow")
      /\ stack' = [stack EXCEPT ![Len(stack)].rest = active]
      /\ UNCHANGED <<st, rx, refused, ref>>
  BY DEF Restart, conn
<1>2. /\ Top \in Frame /\ Top.at \in Walks /\ IsOne(stack, Top)
      /\ \A q : ~Told(q) /\ ~Accepting(q)
  BY <1>1, ServerWalk
<1>3. f \in Frame /\ f.at = Top.at
  BY <1>2, SameTypes DEF Frame
<1>4. stack' = [stack EXCEPT ![1] = f] /\ stack \in Seq(Frame) /\ Len(stack) = 1
  BY <1>1, <1>2 DEF IsOne
<1> HIDE DEF f
<1>5. IsOne(stack', f)
  BY <1>3, <1>4, Replaced
<1> QED BY <1>1, <1>2, <1>3, <1>5, ServerOne DEF Walks, Answering, CopyOK, Copying

\* tcp_fasttmr has nothing to deliver again.
LEMMA ServerFastVisit ==
  ASSUME IInv, ServerOK, UNCHANGED buffer, NEW p \in Pcb, FastVisit(p)
  PROVE  ServerOK'
<1>1. At("fast") /\ ~changed /\ p \in Top.rest
  BY DEF FastVisit
<1>2. /\ p \in active /\ Top.at = "fast" /\ Below = <<>> /\ IsOne(stack, Top)
      /\ refused[p] = "none"
      /\ \A q : ~Told(q) /\ ~Accepting(q)
  BY <1>1, WalkFacts, ServerWalk DEF At, ServerOK, Served
<1>3. CASE lag[p] = 0
  <2>1. Goto("spin") /\ UNCHANGED <<st, rx, refused, ref>>
    BY <1>2, <1>3 DEF FastVisit, conn
  <2>2. PICK g \in Frame : IsOne(stack', g) /\ g.at = "spin"
    BY <1>2, <2>1, GotoOne DEF Place, Inside
  <2> QED BY <1>2, <2>1, <2>2, ServerOne DEF Answering, CopyOK, Copying
<1>4. CASE lag[p] /= 0
  <2>1. /\ refused' = [refused EXCEPT ![p] = "none"]
        /\ stack' = <<>> \o (<<Past(p)>> \o <<>>)
        /\ UNCHANGED <<st, rx, ref>>
    BY <1>2, <1>4 DEF FastVisit, Return
  <2>2. PICK f : f = Past(p)
    OBVIOUS
  <2>3. f \in Frame /\ f.at = "fast"
    BY <1>1, <1>2, <2>2, PastFacts
  <2>4. IsOne(stack', f) /\ UNCHANGED refused
    BY <1>2, <2>1, <2>2, <2>3, Joined, OneFrame, SameTypes
  <2> QED BY <1>2, <2>1, <2>3, <2>4, ServerOne DEF Answering, CopyOK, Copying
<1> QED BY <1>3, <1>4

\* tcp_slowtmr gives a connection up, or calls app_tcp_poll.
LEMMA ServerSlowVisit ==
  ASSUME IInv, ServerOK, UNCHANGED buffer, NEW p \in Pcb, SlowVisit(p)
  PROVE  ServerOK'
<1>1. At("slow") /\ ~changed /\ p \in Top.rest
  BY DEF SlowVisit
<1>2. /\ p \in active /\ Top.at = "slow" /\ Below = <<>>
      /\ \A q : ~Told(q) /\ ~Accepting(q)
  BY <1>1, WalkFacts, ServerWalk DEF At
<1>3. PICK f : f = Past(p)
  OBVIOUS
<1>4. f \in Frame /\ f.at = "slow"
  BY <1>1, <1>2, <1>3, PastFacts
<1>5. \A s : Return(<<Past(p)>> \o s) <=> stack' = <<>> \o (<<f>> \o s)
  BY <1>2, <1>3 DEF Return
<1>6. "err" \in Place /\ "poll" \in Place /\ p \in Pcb \cup {NoPcb}
  BY DEF Place, Callback
<1>7. CASE lag[p] = 0
  <2>1. stack' = <<>> \o <<f>> /\ UNCHANGED <<st, rx, refused, ref>>
    BY <1>2, <1>3, <1>7 DEF SlowVisit, Return, conn
  <2>2. IsOne(stack', f)
    BY <1>4, <2>1, Joined, OneFrame
  <2> QED BY <1>2, <1>4, <2>1, <2>2, ServerOne DEF Answering, CopyOK, Copying
<1>8. CASE /\ Release(p) /\ ref' = ref \ {p}
           /\ Return(<<Past(p)>> \o ErrCall(p))
  <2>1. PICK e \in Frame : e = Call("err", p) /\ e.at = "err" /\ e.p = p
    BY <1>6, CallFacts
  <2>2. \/ stack' = <<>> \o (<<f>> \o <<>>) /\ st[p] = "SYN_RCVD"
        \/ stack' = <<>> \o (<<f>> \o <<e>>)
    BY <1>5, <1>8, <2>1 DEF ErrCall
  <2>3. <<>> \o (<<f>> \o <<e>>) = <<f>> \o <<e>>
    BY <1>4, <2>1
  <2>4. CASE stack' = <<>> \o (<<f>> \o <<>>) /\ st[p] = "SYN_RCVD"
    <3>1. IsOne(stack', f)
      BY <1>4, <2>4, Joined, OneFrame
    <3>2. Calls' /\ Copied' /\ \A q : ~Told(q)' /\ ~Accepting(q)'
      BY <1>4, <3>1, ViewOne DEF Answering, CopyOK, Copying
    <3> QED BY <1>2, <1>8, <2>4, <3>2, SameTypes, ServerFrees DEF Serving
  <2>5. CASE stack' = <<>> \o (<<f>> \o <<e>>)
    <3>1. IsTwo(stack', f, e)
      BY <1>4, <2>1, <2>3, <2>5, TwoFrames
    <3>2. Calls' /\ Copied' /\ \A q : (Told(q)' <=> q = p) /\ ~Accepting(q)'
      BY <1>4, <2>1, <3>1, ViewTwo
    <3> QED BY <1>2, <1>8, <3>2, SameTypes, ServerFrees
  <2> QED BY <2>2, <2>4, <2>5
<1>9. CASE /\ \E poll \in BOOLEAN :
                Return(<<Past(p)>> \o IF poll /\ st[p] /= "SYN_RCVD"
                                      THEN <<Call("poll", p)>> ELSE <<>>)
           /\ UNCHANGED <<st, rx, refused, ref>>
  <2>1. PICK g \in Frame : g = Call("poll", p) /\ g.at = "poll" /\ g.p = p
    BY <1>6, CallFacts
  <2>2. stack' = <<>> \o (<<f>> \o <<>>) \/ stack' = <<>> \o (<<f>> \o <<g>>)
    BY <1>5, <1>9, <2>1
  <2>3. <<>> \o (<<f>> \o <<g>>) = <<f>> \o <<g>>
    BY <1>4, <2>1
  <2>4. CASE stack' = <<>> \o (<<f>> \o <<>>)
    <3>1. IsOne(stack', f)
      BY <1>4, <2>4, Joined, OneFrame
    <3> QED BY <1>2, <1>4, <1>9, <3>1, ServerOne DEF Answering, CopyOK, Copying
  <2>5. CASE stack' = <<>> \o (<<f>> \o <<g>>)
    <3>1. IsTwo(stack', f, g)
      BY <1>4, <2>1, <2>3, <2>5, TwoFrames
    <3>2. Calls' /\ Copied' /\ \A q : ~Told(q)' /\ ~Accepting(q)'
      BY <1>4, <2>1, <3>1, ViewTwo
    <3> QED BY <1>2, <1>9, <3>2, ServerQuiet
  <2> QED BY <2>2, <2>4, <2>5
<1> QED
  <2>1. p \in active
    BY <1>2
  <2>2. CASE lag[p] = 0
    BY <1>7, <2>2
  <2>3. CASE lag[p] /= 0
    BY <1>8, <1>9, <2>1, <2>3 DEF SlowVisit
  <2> QED BY <2>2, <2>3

\* tcp_slowtmr ends; nothing waits in TIME_WAIT.
LEMMA ServerSlowEnd ==
  ASSUME IInv, ServerOK, UNCHANGED buffer, SlowEnd
  PROVE  ServerOK'
<1>1. At("slow") /\ UNCHANGED ref
  BY DEF SlowEnd
<1>2. stack' = <<>> /\ \A q : ~Told(q) /\ ~Accepting(q)
  BY <1>1, ServerWalk DEF SlowEnd, Return
<1>3. /\ st' = [p \in Pcb |-> st[p]] /\ rx' = rx /\ refused' = [p \in Pcb |-> refused[p]]
  BY NoTimeWait DEF SlowEnd
<1>4. UNCHANGED <<st, rx, refused>>
  BY <1>3, SameTypes
<1> QED BY <1>1, <1>2, <1>4, ServerNone

\* A step that changes nothing.
LEMMA ServerStutter ==
  ASSUME ServerOK, UNCHANGED <<st, rx, refused, ref, stack, buffer>>
  PROVE  ServerOK'
<1>1. Calls' /\ Copied'
  BY DEF ServerOK, Calls, Copied, CopyOK
<1>2. \A q \in Pcb : Served(q)'
  BY DEF ServerOK, Served, Told, Accepting
<1> QED BY <1>1, <1>2 DEF ServerOK

\* The steps of the stack.
LEMMA ServerStackStep ==
  ASSUME IInv, BufferTypes, ServerOK, UNCHANGED buffer, Stack
  PROVE  ServerOK'
<1>1. CASE Input
  <2>1. ASSUME \/ ProcessSynSent \/ ProcessFinWait1 \/ ProcessFinWait2 \/ ProcessClosing
        PROVE  FALSE
    <3>1. Processing /\ st[Top.p] \in {"SYN_SENT", "FIN_WAIT_1", "FIN_WAIT_2", "CLOSING"}
      BY <2>1 DEF ProcessSynSent, ProcessFinWait1, ProcessFinWait2, ProcessClosing
    <3> QED BY <3>1, ServerProcess
  <2> QED BY <1>1, <2>1, ServerTcpInput, ServerDropRefused, ServerProcessRst,
     ServerProcessIgnored, ServerProcessSynRcvd, ServerProcessEstablished,
     ServerProcessLastAck, ServerDrop, ServerDeliverSent, ServerDeliverRecv,
     ServerDeliverFin, ServerDeliverDone, ServerListenInput
     DEF Input
<1>2. CASE Alloc
  <2>1. ASSUME NEW p \in Pcb, AllocKillTimeWait(p)
        PROVE  FALSE
    BY <2>1, NoTimeWait DEF AllocKillTimeWait
  <2> QED BY <1>2, <2>1, ServerAllocOk, ServerAllocKillActive, ServerAllocFails DEF Alloc
<1>3. CASE Timer
  <2>1. ASSUME Spin
        PROVE  ServerOK'
    BY <2>1, ServerStutter DEF Spin, vars
  <2> QED BY <1>3, <2>1, ServerFastEnds, ServerFastVisit, ServerSlowVisit, ServerSlowEnd,
             ServerRestart DEF Timer
<1> QED BY <1>1, <1>2, <1>3 DEF Stack


\* A callback of tcp_input answers: its pcb is alive, and one the server holds.
LEMMA ServerAnswers ==
  ASSUME IInv, ServerOK, stack /= <<>>, Top.at \in {"accept", "sent", "recv", "eof"}
  PROVE  /\ IsOne(stack, Top) /\ Top \in Frame /\ Below = <<>> /\ stack[1] = Top
         /\ Len(stack) = 1 /\ Top.p \in Pcb /\ Top.seg \in AnySeg
         /\ ~Top.dead /\ LiveOK(Top, st, unread, ref) /\ "OK" \in Results
         /\ Served(Top.p)
         /\ \A q : ~Told(q) /\ ~Dropped(q) /\ (Accepting(q) <=> Top.at = "accept" /\ q = Top.p)
<1>1. /\ IsOne(stack, Top) /\ Top \in Frame /\ Below = <<>> /\ stack[1] = Top
      /\ FrameOK(Top, st, unread, ref, changed)
      /\ \A q : ~Dropped(q)
  BY InsideFacts DEF Above
<1>2. /\ Len(stack) = 1 /\ 1 \in DOMAIN stack /\ Top.at \in Answering /\ Top.at \in Conn \ {"poll"}
      /\ \A i \in DOMAIN stack : stack[i] = Top
  BY <1>1 DEF Answering, Conn, IsOne
<1>3. ~Top.dead
  BY <1>2 DEF ServerOK, Calls
<1>4. Top.p \in Pcb /\ LiveOK(Top, st, unread, ref)
  BY <1>1, <1>2, <1>3 DEF FrameOK
<1>5. "OK" \in Results
  BY <1>4 DEF LiveOK, Results
<1>6. Served(Top.p)
  BY <1>4 DEF ServerOK
<1>7. \A q : ~Told(q) /\ (Accepting(q) <=> Top.at = "accept" /\ q = Top.p)
  BY <1>1, <1>2 DEF Told, Accepting
<1> QED BY <1>1, <1>2, <1>3, <1>4, <1>5, <1>6, <1>7, FrameFields

\* app_tcp_accept gives the connection its block, or the NULL of mem_calloc.
LEMMA ServerAccept ==
  ASSUME IInv, BufferTypes, ServerOK, AppAccept
  PROVE  IInv' /\ ServerOK' /\ BufferTypes'
<1>1. stack /= <<>> /\ Top.at = "accept" /\ AcceptReturns("OK")
  BY DEF AppAccept, AcceptReturns, At
<1>2. PICK p, s : p = Top.p /\ s = Top.seg
  OBVIOUS
<1>3. /\ IsOne(stack, Top) /\ Len(stack) = 1 /\ p \in Pcb /\ s \in AnySeg /\ ~Top.dead
      /\ LiveOK(Top, st, unread, ref) /\ "OK" \in Results /\ PcbOK(p)
      /\ \A q : ~Told(q) /\ ~Dropped(q) /\ (Accepting(q) <=> q = p)
  BY <1>1, <1>2, ServerAnswers, SameTypes
<1>4. IInv'
  BY <1>1, <1>3, AcceptReturnsStep
<1>5. Receive(p, s) /\ ToState(p, IF Got(p, s).fin THEN "CLOSE_WAIT" ELSE st[p])
  BY <1>1, <1>2, <1>3 DEF AcceptReturns
<1>6. st[p] = "ESTABLISHED" /\ p \in ref
  BY <1>1, <1>2, <1>3 DEF LiveOK, PcbOK
<1>7. PICK b \in Own : buffer' = [buffer EXCEPT ![p] = b]
  BY <1>2 DEF AppAccept, Own
<1>8. BufferTypes' /\ buffer'[p] \in Own /\ \A q \in Pcb \ {p} : buffer'[q] = buffer[q]
  BY <1>3, <1>7 DEF BufferTypes, Own
<1>9. ServerOK'
  BY <1>2, <1>3, <1>5, <1>6, <1>8, SameTypes, ServerReceive DEF BufferTypes, Serving
<1> QED BY <1>4, <1>8, <1>9

\* tcp_sent(pcb, NULL)
LEMMA ServerSent ==
  ASSUME IInv, ServerOK, AppSent
  PROVE  IInv' /\ ServerOK'
<1>1. /\ stack /= <<>> /\ Top.at = "sent" /\ SentReturns("OK") /\ Leave("OK", "d.recv")
      /\ UNCHANGED <<st, rx, refused, ref, buffer>>
  BY DEF AppSent, SentReturns, At, appVars, conn
<1>2. /\ IsOne(stack, Top) /\ ~Top.dead /\ "OK" \in Results /\ stack[1] = Top
      /\ \A q : ~Told(q) /\ ~Accepting(q)
  BY <1>1, ServerAnswers
<1>3. IInv'
  BY <1>1, <1>2, SentReturnsStep
<1>4. Goto("d.recv")
  BY <1>1, <1>2 DEF Leave, Continue
<1>5. PICK g \in Frame : /\ IsOne(stack', g) /\ g.at = "d.recv" /\ g.p = Top.p
                         /\ g.seg = Top.seg /\ g.dead = Top.dead
  BY <1>2, <1>4, GotoOne DEF Place, Inside
<1>6. CopyOK(g, buffer')
  BY <1>1, <1>2, <1>5 DEF ServerOK, Copied, CopyOK, Copying
<1>7. ServerOK'
  BY <1>1, <1>2, <1>5, <1>6, ServerOne DEF Answering
<1> QED BY <1>3, <1>7

\* app_tcp_recv with a pbuf
LEMMA ServerRecv ==
  ASSUME IInv, ServerOK, AppRecv
  PROVE  IInv' /\ ServerOK'
<1>1. /\ stack /= <<>> /\ Top.at = "recv" /\ RecvReturns("OK") /\ Leave("OK", "d.fin")
      /\ UNCHANGED <<st, rx, ref, buffer>>
  BY DEF AppRecv, RecvReturns, At, appVars
<1>2. /\ IsOne(stack, Top) /\ ~Top.dead /\ "OK" \in Results /\ Top.p \in Pcb
      /\ \A q : ~Told(q) /\ ~Accepting(q)
  BY <1>1, ServerAnswers
<1>3. IInv'
  BY <1>1, <1>2, RecvReturnsStep
<1>4. Goto("d.fin")
  BY <1>1, <1>2 DEF Leave, Continue
<1>5. PICK g \in Frame : IsOne(stack', g) /\ g.at = "d.fin"
  BY <1>2, <1>4, GotoOne DEF Place, Inside
<1>6. refused' = refused
  <2>1. refused' = [refused EXCEPT ![Top.p] = refused[Top.p]]
    BY <1>1 DEF RecvReturns
  <2> QED BY <2>1, SameTypes
<1>7. ServerOK'
  BY <1>1, <1>2, <1>5, <1>6, ServerOne DEF Answering, CopyOK, Copying
<1> QED BY <1>3, <1>7


\* mem_free leaves no block, and the others alone.
LEMMA MemFreeFacts ==
  ASSUME BufferTypes, NEW p, MemFree(p)
  PROVE  /\ BufferTypes' /\ (p \in Pcb => buffer'[p] \notin Own)
         /\ \A q \in Pcb \ {p} : buffer'[q] = buffer[q]
<1>1. PICK b : b = CASE buffer[p] = "used" -> "freed" [] buffer[p] = "null" -> "gone"
                     [] OTHER -> buffer[p]
  OBVIOUS
<1>2. buffer' = [buffer EXCEPT ![p] = b]
  BY <1>1 DEF MemFree
<1>3. p \in Pcb => b \in {"none", "freed", "gone"}
  BY <1>1 DEF BufferTypes
<1> QED BY <1>2, <1>3 DEF BufferTypes, Own

\* app_tcp_conn_err returns to whatever freed the pcb.
LEMMA ServerErr ==
  ASSUME IInv, BufferTypes, ServerOK, AppErr
  PROVE  IInv' /\ ServerOK' /\ BufferTypes'
<1>1. PICK p : p = Top.p
  OBVIOUS
<1>2. /\ stack /= <<>> /\ Top.at = "err" /\ Return(<<>>) /\ MemFree(p)
      /\ UNCHANGED <<st, rx, refused, ref>>
  BY <1>1 DEF AppErr, ErrReturns, At, conn
<1>3. IInv'
  BY ErrReturnsStep DEF AppErr
<1>4. /\ BufferTypes' /\ (p \in Pcb => buffer'[p] \notin Own)
      /\ \A q \in Pcb \ {p} : buffer'[q] = buffer[q]
  BY <1>2, MemFreeFacts
<1>5. stack \in Seq(Frame) /\ Calls
  BY SameTypes DEF ServerOK
<1>6. /\ Len(stack) \in Nat \ {0} /\ DOMAIN stack = 1 .. Len(stack)
      /\ Top = stack[Len(stack)]
      /\ Below \in Seq(Frame) /\ Len(Below) = Len(stack) - 1 /\ DOMAIN Below = 1 .. Len(stack) - 1
      /\ \A i \in 1 .. Len(stack) - 1 : Below[i] = stack[i]
  BY <1>2, <1>5, StackFacts DEF Top
<1>7. stack' = Below
  BY <1>2, <1>6, Popped DEF Return
<1>8. /\ DOMAIN stack' = 1 .. Len(stack) - 1 /\ Len(stack') = Len(stack) - 1
      /\ \A i \in DOMAIN stack' : i \in DOMAIN stack /\ stack'[i] = stack[i]
      /\ stack' /= <<>> => Len(stack) > 1 /\ stack'[1] = stack[1]
  <2>1. PICK n \in Nat \ {0} : n = Len(stack)
    BY <1>6
  <2>2. PICK t : t = stack'
    OBVIOUS
  <2>3. /\ t \in Seq(Frame) /\ Len(t) = n - 1 /\ DOMAIN t = 1 .. n - 1
        /\ \A i \in 1 .. n - 1 : t[i] = stack[i]
    BY <1>6, <1>7, <2>1, <2>2
  <2>4. \A i \in 1 .. n - 1 : i \in DOMAIN stack
    BY <1>6, <2>1
  <2>5. t /= <<>> => n > 1 /\ t[1] = stack[1]
    <3>1. t /= <<>> => n - 1 /= 0
      BY <2>3
    <3>2. n - 1 /= 0 => n > 1 /\ 1 \in 1 .. n - 1
      OBVIOUS
    <3> QED BY <2>3, <3>1, <3>2
  <2> QED BY <2>1, <2>2, <2>3, <2>4, <2>5
<1>9. Len(stack) > 1 => stack[1].at \in {"drop", "alloc", "slow"}
  BY <1>5 DEF Calls
<1>10. Calls'
  <2>1. Len(stack') > 1 => Len(stack) > 1 /\ stack'[1] = stack[1] /\ stack'[2] = stack[2]
    BY <1>6, <1>8
  <2> QED BY <1>5, <1>8, <2>1 DEF Calls
<1>11. Copied'
  BY <1>8, <1>9 DEF Copied, CopyOK, Copying
<1>12. \A q : ~Accepting(q) /\ ~Accepting(q)'
  <2>1. stack[1].at /= "accept"
    BY <1>2, <1>6, <1>9
  <2> QED BY <1>8, <2>1 DEF Accepting
<1>13. Told(p) /\ \A q : (Told(q)' => Told(q)) /\ (q /= p /\ Told(q) => Told(q)')
  <2>1. Told(p)
    BY <1>1, <1>2, <1>6 DEF Told
  <2>2. \A q : Told(q)' => Told(q)
    BY <1>8 DEF Told
  <2>3. ASSUME NEW q, q /= p, Told(q)
        PROVE  Told(q)'
    <3>1. PICK i \in 1 .. Len(stack) : stack[i].at = "err" /\ stack[i].p = q
      BY <1>6, <2>3 DEF Told
    <3>2. i /= Len(stack)
      BY <1>1, <1>6, <2>3, <3>1
    <3>3. i \in 1 .. Len(stack) - 1
      <4>1. \A n \in Nat : i \in 1 .. n /\ i /= n => i \in 1 .. n - 1
        OBVIOUS
      <4> QED BY <1>6, <3>2, <4>1
    <3>4. i \in DOMAIN stack' /\ stack'[i] = stack[i]
      BY <1>8, <3>3
    <3> QED BY <3>1, <3>4 DEF Told
  <2> QED BY <2>1, <2>2, <2>3
<1>14. \A q \in Pcb : Served(q)'
  <2> TAKE q \in Pcb
  <2>1. Served(q)
    BY DEF ServerOK
  <2>2. CASE q = p
    BY <1>2, <1>4, <1>13, <2>1, <2>2, ServedGone DEF Served
  <2>3. CASE q /= p
    BY <1>2, <1>4, <1>12, <1>13, <2>1, <2>3 DEF Served
  <2> QED BY <2>2, <2>3
<1> QED BY <1>3, <1>4, <1>10, <1>11, <1>14 DEF ServerOK

\* What app_tcp_poll finds.
LEMMA ServerPoll ==
  ASSUME IInv, ServerOK, At("poll")
  PROVE  /\ IsTwo(stack, stack[1], Top) /\ stack[1] \in Frame /\ Top \in Frame
         /\ IsOne(Below, stack[1]) /\ stack[1].at = "slow" /\ Top.p \in Pcb
         /\ Top = stack[2]
         /\ \A q : ~Told(q) /\ ~Accepting(q)
<1>1. stack /= <<>> /\ Top.at = "poll"
  BY DEF At
<1>2. /\ IsTwo(stack, stack[1], Top) /\ stack[1] \in Frame /\ Top \in Frame
      /\ IsOne(Below, stack[1]) /\ FrameOK(Top, st, unread, ref, changed)
  BY <1>1, AboveFacts
<1>3. /\ Len(stack) = 2 /\ stack[2] = Top /\ DOMAIN stack = 1 .. 2
  BY <1>2 DEF IsTwo
<1>4. stack[1].at = "slow"
  BY <1>1, <1>3 DEF ServerOK, Calls
<1>5. \A i \in DOMAIN stack : stack[i].at \notin {"err", "accept"}
  BY <1>1, <1>3, <1>4
<1>6. \A q : ~Told(q) /\ ~Accepting(q)
  BY <1>4, <1>5 DEF Told, Accepting
<1>7. Top.p \in Pcb
  BY <1>1, <1>2 DEF FrameOK, Conn
<1> QED BY <1>2, <1>3, <1>4, <1>6, <1>7

\* app_tcp_poll returns ERR_OK to tcp_slowtmr.
LEMMA ServerPolled ==
  ASSUME IInv, ServerOK, AppPolled
  PROVE  IInv' /\ ServerOK'
<1>1. /\ At("poll") /\ PollReturns("OK") /\ Return(<<>>)
      /\ UNCHANGED <<st, rx, refused, ref, buffer>>
  BY DEF AppPolled, PollReturns, appVars
<1>2. IInv'
  BY <1>1, PollReturnsStep
<1>3. PICK f : f = stack[1]
  OBVIOUS
<1>4. /\ IsOne(Below, f) /\ f \in Frame /\ f.at = "slow"
      /\ \A q : ~Told(q) /\ ~Accepting(q)
  BY <1>1, <1>3, ServerPoll
<1>5. stack' = Below
  BY <1>1, <1>4, Popped DEF Return, IsOne
<1>6. IsOne(stack', f)
  BY <1>4, <1>5 DEF IsOne
<1>7. ServerOK'
  BY <1>1, <1>4, <1>6, ServerOne DEF Answering, CopyOK, Copying
<1> QED BY <1>2, <1>7

\* tcp_abort in app_tcp_poll: the server is told of it before that returns.
LEMMA ServerAborts ==
  ASSUME IInv, ServerOK, AppPoll
  PROVE  IInv' /\ ServerOK'
<1>1. PICK p : p = Top.p
  OBVIOUS
<1>2. At("poll") /\ Abort(p) /\ UNCHANGED buffer
  BY <1>1 DEF AppPoll, appVars
<1>3. /\ IsTwo(stack, stack[1], Top) /\ stack[1].at = "slow" /\ p \in Pcb
      /\ Top = stack[2] /\ Top.at = "poll"
      /\ \A q : ~Told(q) /\ ~Accepting(q)
  BY <1>1, <1>2, ServerPoll DEF At
<1>4. Len(stack) = 2 /\ DOMAIN stack = {1, 2} /\ stack[2].at = "poll"
  BY <1>3 DEF IsTwo
<1>5. IInv'
  <2>1. InApp
    BY <1>3 DEF InApp, Callback
  <2>2. \A i \in DOMAIN stack : stack[i].at /= "drop"
    BY <1>3, <1>4
  <2> QED BY <1>2, <1>3, <2>1, <2>2, AbortStep
<1>6. /\ Release(p) /\ ref' = ref \ {p}
      /\ stack' \in Seq(Frame) /\ Len(stack') \in {2, 3}
      /\ Marked(stack[1], stack'[1], p) /\ Marked(stack[2], stack'[2], p)
      /\ Len(stack') = 3 => stack'[3].at = "err" /\ stack'[3].p = p
      /\ st[p] \in Serving => Len(stack') = 3
  BY <1>2, <1>3, <1>4, AbortStack DEF Serving
<1>7. /\ stack'[1].at = "slow" /\ stack'[2].at = "poll" /\ DOMAIN stack' = 1 .. Len(stack')
      /\ stack' /= <<>>
  BY <1>3, <1>4, <1>6 DEF Marked
<1>8. \A i \in DOMAIN stack' : i = 1 \/ i = 2 \/ (i = 3 /\ Len(stack') = 3)
  BY <1>6, <1>7
<1>9. \A i \in DOMAIN stack' : /\ stack'[i].at \in {"slow", "poll", "err"}
                               /\ stack'[i].at = "err" => stack'[i].p = p
  BY <1>6, <1>7, <1>8
<1>10. Calls' /\ Copied'
  BY <1>7, <1>9 DEF Calls, Copied, Answering, CopyOK, Copying
<1>11. \A q : ~Accepting(q)' /\ (Told(q)' => q = p)
  BY <1>7, <1>9 DEF Accepting, Told
<1>12. Told(p)' \/ st[p] \notin Serving
  <2>1. Len(stack') = 3 => 3 \in DOMAIN stack'
    BY <1>7
  <2> QED BY <1>6, <2>1 DEF Told
<1>13. ServerOK'
  BY <1>2, <1>3, <1>6, <1>10, <1>11, <1>12, ServerFrees
<1> QED BY <1>5, <1>13


\* app_tcp_recv without a pbuf, when the FIN of the other end was received: the
\* server holds the pcb in CLOSE_WAIT and has a block for it.
LEMMA ServerEof ==
  ASSUME IInv, BufferTypes, ServerOK, At("eof"), NEW p \in Pcb, p = Top.p, buffer[p] \in Own
  PROVE  st[p] = "CLOSE_WAIT" /\ p \in ref /\ refused[p] = "none"
<1>1. /\ ~Top.dead /\ LiveOK(Top, st, unread, ref) /\ Served(p)
      /\ ~Told(p) /\ Top.at = "eof"
  BY ServerAnswers DEF At
<1>2. st[p] \in Late
  BY <1>1 DEF LiveOK, Given
<1>3. p \in ref /\ st[p] \in Serving /\ refused[p] = "none"
  BY <1>1 DEF Served
<1> QED BY <1>2, <1>3 DEF Late, Serving

\* mem_free and tcp_close in app_tcp_recv: the FIN is queued, or cannot be; or
\* the pcb is freed, because tcp_recved was never called for its data.
LEMMA ServerClose ==
  ASSUME IInv, BufferTypes, ServerOK, AppClose
  PROVE  SInv'
<1>1. PICK p : p = Top.p
  OBVIOUS
<1>2. /\ At("eof") /\ stack /= <<>> /\ Top.at = "eof" /\ buffer[p] \in Own /\ Close(p)
      /\ MemFree(p)
  BY <1>1 DEF AppClose, At, Own
<1>3. /\ IsOne(stack, Top) /\ p \in Pcb /\ Top \in Frame /\ stack[1] = Top
      /\ \A q : ~Told(q) /\ ~Accepting(q)
  BY <1>1, <1>2, ServerAnswers
<1>4. st[p] = "CLOSE_WAIT" /\ p \in ref /\ refused[p] = "none"
  BY <1>1, <1>2, <1>3, ServerEof
<1>5. /\ BufferTypes' /\ buffer'[p] \notin Own
      /\ \A q \in Pcb \ {p} : buffer'[q] = buffer[q]
  BY <1>2, <1>3, MemFreeFacts
<1>6. CASE NotAllRead(p) /\ CloseUnread(p)
  <2>1. /\ Release(p) /\ stack' = Freed(stack, p) /\ ref' = ref \ {p}
    BY <1>4, <1>6 DEF CloseUnread
  <2>2. stack \in Seq(Frame) /\ Len(stack) = 1
    BY <1>3 DEF IsOne
  <2>3. stack' \in Seq(Frame) /\ Len(stack') = 1 /\ stack'[1] = FreedRecord(Top, p)
    <3>1. PICK t : t = Freed(stack, p)
      OBVIOUS
    <3>2. t \in Seq(Frame) /\ Len(t) = 1 /\ t[1] = FreedRecord(stack[1], p)
      BY <2>2, <3>1, FreedFacts
    <3> QED BY <1>3, <2>1, <3>1, <3>2
  <2>4. PICK g : g = FreedRecord(Top, p)
    OBVIOUS
  <2>5. g.at = "eof" /\ g.p = p /\ g.dead
    BY <1>1, <1>2, <1>3, <2>4, FreedRecordFields
  <2>6. IsOne(stack', g)
    BY <2>3, <2>4 DEF IsOne
  <2>7. Doomed'
    <3>1. ~fault'
      BY <1>6, SameTypes DEF CloseUnread
    <3> QED BY <1>5, <2>5, <2>6, <3>1 DEF Doomed, IsOne, Top
  <2>8. \A q : ~Told(q)' /\ ~Accepting(q)'
    <3>1. \A i \in DOMAIN stack' : stack'[i] = g
      BY <2>6 DEF IsOne
    <3>2. stack'[1] = g
      BY <2>6 DEF IsOne
    <3> QED BY <2>5, <3>1, <3>2 DEF Told, Accepting
  <2>9. \A q \in Pcb : Served(q)'
    <3> TAKE q \in Pcb
    <3>1. Served(q)
      BY DEF ServerOK
    <3>2. CASE q = p
      <4>1. st'[p] = "FREE" /\ refused'[p] = "none" /\ p \notin rx' /\ p \notin ref'
        BY <1>3, <2>1, SameTypes DEF Release
      <4> QED BY <1>5, <3>2, <4>1, ServedGone DEF ServerStates
    <3>3. CASE q /= p
      <4>1. st'[q] = st[q] /\ refused'[q] = refused[q] /\ (q \in rx' <=> q \in rx)
        BY <2>1, <3>3, SameTypes DEF Release
      <4>2. q \in ref' <=> q \in ref
        BY <2>1, <3>3
      <4> QED BY <1>3, <1>5, <2>8, <3>1, <3>3, <4>1, <4>2, ServedSame
    <3> QED BY <3>2, <3>3
  <2> QED BY <1>5, <2>7, <2>9 DEF SInv
<1>7. CASE /\ ~NotAllRead(p) /\ rx' = rx \cup {p}
           /\ \/ SendFin(p) /\ ref' = ref \ {p}
              \/ UNCHANGED <<st, fin, ref>>
           /\ UNCHANGED <<active, tw, unread, refused, lag, changed, stack, fault>>
  <2>1. IInv'
    <3>1. InApp /\ ~During({"accept"}, p)
      <4>1. \A i \in DOMAIN stack : stack[i] = Top
        BY <1>3 DEF IsOne
      <4> QED BY <1>2, <4>1 DEF InApp, Callback, During
    <3> QED BY <1>2, <1>4, <1>7, <3>1, CloseStep
  <2>2. Calls' /\ Copied' /\ \A q : ~Told(q)' /\ ~Accepting(q)'
    <3>1. Calls'
      BY <1>7 DEF ServerOK, Calls
    <3>2. Copied'
      BY <1>2, <1>3, <1>7 DEF Copied, CopyOK, Copying
    <3>3. \A q : ~Told(q)' /\ ~Accepting(q)'
      BY <1>3, <1>7 DEF Told, Accepting
    <3> QED BY <3>1, <3>2, <3>3
  <2>3. \/ st' = [st EXCEPT ![p] = "LAST_ACK"] /\ ref' = ref \ {p}
        \/ UNCHANGED <<st, ref>>
    <3>1. CASE SendFin(p) /\ ref' = ref \ {p}
      <4>1. PICK t : t = IF st[p] = "CLOSE_WAIT" THEN "LAST_ACK" ELSE "FIN_WAIT_1"
        OBVIOUS
      <4>2. st' = [st EXCEPT ![p] = t] /\ t = "LAST_ACK"
        BY <1>4, <3>1, <4>1 DEF SendFin
      <4> QED BY <3>1, <4>2
    <3> QED BY <1>7, <3>1
  <2>4. \A q \in Pcb : Served(q)'
    <3> TAKE q \in Pcb
    <3>1. Served(q)
      BY DEF ServerOK
    <3>2. CASE q = p
      <4>1. CASE st' = [st EXCEPT ![p] = "LAST_ACK"] /\ ref' = ref \ {p}
        <5>1. st'[p] = "LAST_ACK" /\ p \notin ref' /\ refused'[p] = "none"
          BY <1>3, <1>4, <1>7, <4>1, SameTypes
        <5> QED BY <1>5, <3>2, <5>1, ServedGone DEF ServerStates
      <4>2. CASE UNCHANGED <<st, ref>>
        BY <1>4, <1>5, <1>7, <2>2, <3>2, <4>2 DEF Served, ServerStates, Serving
      <4> QED BY <2>3, <4>1, <4>2
    <3>3. CASE q /= p
      <4>1. st'[q] = st[q] /\ (q \in ref' <=> q \in ref) /\ (q \in rx' <=> q \in rx)
        BY <1>7, <2>3, <3>3, SameTypes
      <4> QED BY <1>3, <1>5, <1>7, <2>2, <3>1, <3>3, <4>1, ServedSame
    <3> QED BY <3>2, <3>3
  <2> QED BY <1>5, <2>1, <2>2, <2>4 DEF SInv, ServerOK
<1> QED
  <2>1. st[p] \notin {"CLOSED", "SYN_SENT"} /\ st[p] \in CanSendFin
    BY <1>4 DEF CanSendFin
  <2> QED BY <1>2, <1>6, <1>7, <2>1 DEF Close

\* app_tcp_recv returns ERR_OK; tcp_input goes on with the pcb, which is alive.
LEMMA ServerClosed ==
  ASSUME IInv, BufferTypes, ServerOK, AppClosed
  PROVE  IInv' /\ ServerOK'
<1>1. /\ stack /= <<>> /\ Top.at = "eof" /\ Leave("OK", "d.out")
      /\ UNCHANGED <<st, active, tw, conn, lag, changed, ref, buffer>>
  BY DEF AppClosed, EofReturns, At, appVars
<1>2. /\ IsOne(stack, Top) /\ ~Top.dead /\ Top.p \in Pcb
      /\ LiveOK(Top, st, unread, ref)
      /\ \A q : ~Told(q) /\ ~Accepting(q) /\ ~Dropped(q)
  BY <1>1, ServerAnswers
<1>3. Goto("d.out") /\ UNCHANGED fault
  BY <1>1, <1>2 DEF Leave, Continue
<1>4. PICK g \in Frame : IsOne(stack', g) /\ g.at = "d.out" /\ g.p = Top.p
                         /\ g.seg = Top.seg /\ g.dead = Top.dead /\ g.ab = Top.ab
  BY <1>2, <1>3, GotoOne DEF Place, Inside
<1>5. IInv'
  <2>1. FrameOK(g, st', unread', ref', changed')
    BY <1>1, <1>2, <1>4 DEF FrameOK, LiveOK, Answering, Given, conn
  <2>2. Shape(stack') /\ Frames'
    BY <1>4, <2>1, OneRecord
  <2>3. stack' \in Seq(Frame) /\ WalkOK'
    BY <1>4, SegNext, NoWalk DEF Walks
  <2>4. \A q \in Pcb : PcbOK(q)'
    <3> TAKE q \in Pcb
    <3>1. PcbOK(q) /\ Served(q)
      BY SameTypes DEF ServerOK
    <3>2. st[q] \notin {"CLOSING", "TIME_WAIT"}
      BY <3>1 DEF Served, ServerStates, Serving
    <3> QED BY <1>1, <1>2, <3>1, <3>2 DEF PcbOK, conn
  <2> QED BY <1>1, <1>3, <2>2, <2>3, <2>4, SameTypes, QuietLists DEF conn
<1>6. ServerOK'
  BY <1>1, <1>2, <1>4, ServerOne DEF Answering, CopyOK, Copying, conn
<1> QED BY <1>5, <1>6


\* What waits for a callback is not a function of the stack that runs.
LEMMA StackRuns ==
  ASSUME Stack
  PROVE  stack = <<>> \/ Top.at \in Inside
<1>1. CASE Input
  BY <1>1 DEF Input, TcpInput, DropRefused, ProcessRst, ProcessIgnored, ProcessSynSent,
     ProcessSynRcvd, ProcessEstablished, ProcessFinWait1, ProcessFinWait2, ProcessClosing,
     ProcessLastAck, Drop, DeliverSent, DeliverRecv, DeliverFin, DeliverDone, ListenInput,
     Processing, At, Inside
<1>2. CASE Alloc
  BY <1>2 DEF Alloc, AllocOk, AllocKillTimeWait, AllocKillActive, AllocFails, At, Inside
<1>3. CASE Timer
  BY <1>3 DEF Timer, FastTmr, FastVisit, FastEnd, SlowVisit, SlowEnd, Restart, Spin, At, Inside
<1> QED BY <1>1, <1>2, <1>3 DEF Stack

\* Behind the tcp_close that freed the pcb there is only the return of ERR_OK,
\* and tcp_input uses the pcb.
LEMMA DoomedStep ==
  ASSUME Doomed, AppNext
  PROVE  fault' /\ AppClosed /\ Top.dead
<1>1. /\ stack /= <<>> /\ Top.at = "eof" /\ Top.dead /\ buffer[Top.p] \notin Own
      /\ ~At("accept") /\ ~At("recv") /\ ~At("sent") /\ ~At("poll") /\ ~At("err")
  BY DEF Doomed, IsOne, At
<1>2. CASE Stack
  BY <1>1, <1>2, StackRuns DEF Inside
<1>3. CASE App
  <2>1. AppClosed
    <3>1. ~AppClose
      BY <1>1 DEF AppClose, Own
    <3> QED BY <1>1, <1>3, <3>1 DEF App, AppAccept, AppRecv, AppSent, AppPoll, AppPolled,
           AppErr, AcceptReturns, RecvReturns, SentReturns, ErrReturns
  <2>2. Leave("OK", "d.out")
    BY <2>1 DEF AppClosed, EofReturns
  <2> QED BY <1>1, <2>1, <2>2 DEF Leave, Continue
<1> QED BY <1>2, <1>3 DEF AppNext

\* Every step of the server and of the stack it uses.
LEMMA ServerStep ==
  ASSUME SInv, [AppNext]_<<vars, appVars>>
  PROVE  SInv' \/ (fault' /\ Doomed)
<1>1. CASE UNCHANGED <<vars, appVars>>
  <2>1. BufferTypes' /\ \A p \in Pcb : Served(p)'
    BY <1>1 DEF SInv, BufferTypes, vars, appVars, conn, Served, Told, Accepting
  <2>2. CASE IInv /\ ServerOK
    <3>1. IInv'
      BY <1>1, <2>2, StutterStep
    <3>2. ServerOK'
      BY <1>1, <2>2, ServerStutter DEF vars, appVars
    <3> QED BY <2>1, <3>1, <3>2 DEF SInv
  <2>3. CASE Doomed
    <3>1. Doomed'
      BY <1>1, <2>3 DEF Doomed, vars, appVars, Top
    <3> QED BY <2>1, <3>1 DEF SInv
  <2> QED BY <2>2, <2>3 DEF SInv
<1>2. CASE AppNext /\ Doomed
  BY <1>2, DoomedStep
<1>3. CASE AppNext /\ IInv /\ ServerOK
  <2>1. BufferTypes
    BY DEF SInv
  <2>2. IInv' /\ ServerOK' /\ BufferTypes' => SInv'
    BY DEF SInv, ServerOK
  <2>3. CASE Stack /\ UNCHANGED appVars
    <3>1. UNCHANGED buffer
      BY <2>3 DEF appVars
    <3>2. BufferTypes'
      BY <2>1, <3>1 DEF BufferTypes
    <3>3. IInv'
      BY <1>3, <2>3, StackStep
    <3>4. ServerOK'
      BY <1>3, <2>1, <2>3, <3>1, ServerStackStep
    <3> QED BY <2>2, <3>2, <3>3, <3>4
  <2>4. CASE AppRecv \/ AppSent \/ AppClosed \/ AppPoll \/ AppPolled
    <3>1. UNCHANGED buffer
      BY <2>4 DEF AppRecv, AppSent, AppClosed, AppPoll, AppPolled, appVars
    <3>2. BufferTypes'
      BY <2>1, <3>1 DEF BufferTypes
    <3>3. IInv' /\ ServerOK'
      BY <1>3, <2>1, <2>4, ServerRecv, ServerSent, ServerClosed, ServerAborts, ServerPolled
    <3> QED BY <2>2, <3>2, <3>3
  <2>5. CASE AppAccept
    BY <1>3, <2>1, <2>2, <2>5, ServerAccept
  <2>6. CASE AppErr
    BY <1>3, <2>1, <2>2, <2>6, ServerErr
  <2>7. CASE AppClose
    BY <1>3, <2>1, <2>7, ServerClose
  <2> QED BY <1>3, <2>3, <2>4, <2>5, <2>6, <2>7 DEF AppNext, App
<1> QED BY <1>1, <1>2, <1>3 DEF SInv

\* A freed pcb that was used stays one.
LEMMA FaultStays ==
  ASSUME fault, [AppNext]_<<vars, appVars>>
  PROVE  fault'
<1>1. \A r, a : Leave(r, a) => fault'
  BY DEF Leave, Continue
<1>2. CASE UNCHANGED <<vars, appVars>>
  BY <1>2 DEF vars
<1>3. CASE Input
  <2>1. CASE DeliverRecv
    BY <2>1 DEF DeliverRecv, AbortOn
  <2> QED BY <1>3, <2>1 DEF Input, TcpInput, DropRefused, ProcessRst, ProcessIgnored,
     ProcessSynSent, ProcessSynRcvd, ProcessEstablished, ProcessFinWait1, ProcessFinWait2,
     ProcessClosing, ProcessLastAck, Drop, DeliverSent, DeliverFin, DeliverDone,
     ListenInput, Kill, Receive
<1>4. CASE Alloc
  BY <1>4 DEF Alloc, AllocOk, AllocKillTimeWait, AllocKillActive, AllocFails, AbortOn
<1>5. CASE Timer
  BY <1>5 DEF Timer, FastTmr, FastVisit, FastEnd, SlowVisit, SlowEnd, Restart, Spin, StartWalk,
     UseFreed, vars
<1>6. CASE AppAccept
  BY <1>1, <1>6 DEF AppAccept, AcceptReturns, Receive, AbortOn
<1>7. CASE AppRecv \/ AppSent \/ AppClosed
  BY <1>1, <1>7 DEF AppRecv, AppSent, AppClosed, RecvReturns, SentReturns, EofReturns
<1>8. CASE AppClose
  BY <1>8 DEF AppClose, Close, CloseUnread
<1>9. CASE AppPoll
  BY <1>9 DEF AppPoll, Abort, AbortOn
<1>10. CASE AppPolled
  BY <1>10 DEF AppPolled, PollReturns
<1>11. CASE AppErr
  BY <1>11 DEF AppErr, ErrReturns
<1> QED BY <1>2, <1>3, <1>4, <1>5, <1>6, <1>7, <1>8, <1>9, <1>10, <1>11 DEF AppNext, App, Stack


\* The server starts with no connection and no block.
LEMMA ServerInitially ==
  ASSUME AppInit
  PROVE  SInv
<1>1. IInv
  BY Initially DEF AppInit
<1>2. /\ stack = <<>> /\ st = [p \in Pcb |-> "FREE"] /\ rx = {} /\ ref = {}
      /\ refused = [p \in Pcb |-> "none"] /\ buffer = [p \in Pcb |-> "none"]
  BY DEF AppInit, Init
<1>3. Calls /\ Copied /\ \A p : ~Told(p) /\ ~Accepting(p)
  <2>1. Len(stack) = 0 /\ \A i \in DOMAIN stack : FALSE
    BY <1>2
  <2> QED BY <1>2, <2>1 DEF Calls, Copied, Told, Accepting
<1>4. \A p \in Pcb : Served(p)
  BY <1>2, <1>3 DEF Served, ServerStates, Own
<1> QED BY <1>1, <1>2, <1>3, <1>4 DEF SInv, ServerOK, BufferTypes

\* The program keeps SInv until a freed pcb is used.
THEOREM ServerInvariant == AppSpec => [](fault \/ SInv)
<1>1. AppInit => fault \/ SInv
  BY ServerInitially
<1>2. (fault \/ SInv) /\ [AppNext]_<<vars, appVars>> => (fault \/ SInv)'
  BY ServerStep, FaultStays
<1> QED BY <1>1, <1>2, PTL DEF AppSpec

\* What app_tcp.c says of its blocks: mem_free is still to come for a block only
\* while the server holds its connection, open or closed by the other end, or
\* while app_tcp_conn_err is being called for it; app_tcp_accept never finds a
\* block in callback_arg that it would lose; and app_tcp_recv copies data only to a
\* block, or the NULL it tests for, that was not freed.
BlocksHeld ==
  /\ \A p \in Pcb : buffer[p] \in Own => (p \in ref /\ st[p] \in Serving) \/ Told(p)
  /\ At("accept") => buffer[Top.p] \notin Own
  /\ At("recv") => buffer[Top.p] \in Own

\* No block of app_tcp.c is lost, and none is written after mem_free, for any
\* number of connections, as long as no freed pcb was used: app_tcp_conn_err or
\* app_tcp_recv without a pbuf is reached for every connection app_tcp_accept
\* gave a block.
THEOREM ServerHoldsBlocks == AppSpec => [](~fault => BlocksHeld)
<1>1. SInv => BlocksHeld
  <2> SUFFICES ASSUME SInv PROVE BlocksHeld
    OBVIOUS
  <2>1. \A p \in Pcb : buffer[p] \in Own => (p \in ref /\ st[p] \in Serving) \/ Told(p)
    BY DEF SInv, Served
  <2>2. CASE Doomed
    <3>1. ~At("accept") /\ ~At("recv")
      BY <2>2 DEF Doomed, At
    <3> QED BY <2>1, <3>1 DEF BlocksHeld
  <2>3. CASE IInv /\ ServerOK
    <3>1. ASSUME At("accept")
          PROVE  buffer[Top.p] \notin Own
      <4>1. Served(Top.p) /\ ~Told(Top.p) /\ Accepting(Top.p)
        BY <2>3, <3>1, ServerAnswers DEF At
      <4> QED BY <4>1 DEF Served
    <3>2. ASSUME At("recv")
          PROVE  buffer[Top.p] \in Own
      <4>1. stack /= <<>> /\ stack[1] = Top /\ Top.at = "recv" /\ ~Top.dead /\ 1 \in DOMAIN stack
        BY <2>3, <3>2, ServerAnswers DEF At, IsOne
      <4>2. Top.seg.data
        BY <2>3, <4>1 DEF ServerOK, Calls
      <4> QED BY <2>3, <4>1, <4>2 DEF ServerOK, Copied, CopyOK, Copying
    <3> QED BY <2>1, <3>1, <3>2 DEF BlocksHeld
  <2> QED BY <2>2, <2>3 DEF SInv
<1> QED BY <1>1, ServerInvariant, PTL

\* The only way this program comes to use a freed pcb: tcp_close in app_tcp_recv
\* freed it, behind the FIN of the other end with data never passed to
\* tcp_recved, and app_tcp_recv returns ERR_OK, so that tcp_input goes on with it.
\* Neither app_tcp_poll's tcp_abort nor tcp_kill_prio, the timers or a reset in
\* the middle of a callback does.
THEOREM ServerFaultsInClose ==
  AppSpec => [][~fault /\ fault' => AppClosed /\ Top.dead]_<<vars, appVars>>
<1>1. (fault \/ SInv) /\ [AppNext]_<<vars, appVars>>
        => [~fault /\ fault' => AppClosed /\ Top.dead]_<<vars, appVars>>
  <2> SUFFICES ASSUME SInv, [AppNext]_<<vars, appVars>>, ~fault, fault'
               PROVE  AppClosed /\ Top.dead
    OBVIOUS
  <2>1. ~SInv'
    BY DEF SInv, IInv, Doomed
  <2>2. Doomed
    BY <2>1, ServerStep
  <2>3. AppNext
    BY DEF vars
  <2> QED BY <2>2, <2>3, DoomedStep
<1> QED BY <1>1, ServerInvariant, PTL DEF AppSpec


\* What keeps the server out of the endless loop of tcp_fasttmr: no callback
\* changes tcp_active_pcbs during its walk, so that it never meets a pcb twice,
\* and when no timer runs every pcb has been processed in the last tick.
LagOK ==
  /\ stack /= <<>> => stack[1].at /= "spin"
  /\ Off(stack) => \A p \in Pcb : lag[p] = 0
  /\ \A p \in Pcb \ active : lag[p] = 0
  /\ stack /= <<>> /\ stack[1].at = "fast" => ~changed /\ \A p \in stack[1].rest : lag[p] /= 0

\* No timer runs, nor will.
LEMMA LagOff ==
  ASSUME LagOK, Off(stack), Off(stack'), \A p \in Pcb : lag'[p] \in {lag[p], 0}
  PROVE  LagOK'
  BY DEF LagOK, Off, Turning, Walks

\* tcp_slowtmr runs.
LEMMA LagSlow ==
  ASSUME stack' /= <<>>, stack'[1].at = "slow", \A p \in Pcb \ active' : lag'[p] = 0
  PROVE  LagOK'
  BY DEF LagOK, Off, Turning, Walks

\* A record of its own is off when its place is.
LEMMA OffOne ==
  ASSUME NEW s, NEW g, IsOne(s, g), g.at \notin Turning
  PROVE  Off(s)
  BY DEF IsOne, Off

\* What memp_free does to the count.
LEMMA LagRelease ==
  ASSUME IInv, NEW p \in Pcb, Release(p)
  PROVE  \A q \in Pcb : lag'[q] \in {lag[q], 0} /\ (lag[q] = 0 => lag'[q] = 0) /\ lag'[p] = 0
  BY SameTypes DEF Release

\* tcp_input is no timer, and starts none.
LEMMA InputOff ==
  ASSUME IInv, ServerOK, UNCHANGED buffer, Input
  PROVE  Off(stack) /\ Off(stack')
<1>1. CASE \E p \in Pcb, s \in Seg : TcpInput(p, s)
  <2>1. PICK p \in Pcb, s \in Seg : TcpInput(p, s)
    BY <1>1
  <2>2. stack = <<>> /\ stack' = <<Rec("process", p, s, {})>>
    BY <2>1 DEF TcpInput, ServerOK, Served
  <2>3. Fields("process", p, s, {})
    BY DEF Fields, Place, Inside, AnySeg
  <2>4. PICK f : f = Rec("process", p, s, {})
    OBVIOUS
  <2>5. f \in Frame /\ f.at = "process"
    BY <2>3, <2>4, RecFrame, RecFields
  <2> QED BY <2>2, <2>4, <2>5, OneFrame, OffOne DEF Off, Turning, Walks
<1>2. CASE ListenInput
  <2>1. PICK n : n = [NoSeg EXCEPT !.k = "syn"]
    OBVIOUS
  <2>2. stack = <<>> /\ stack' = <<Rec("alloc", NoPcb, n, {})>>
    BY <1>2, <2>1 DEF ListenInput
  <2>3. PICK f : f = Rec("alloc", NoPcb, n, {})
    OBVIOUS
  <2>4. stack'[1].at = "alloc"
    BY <2>2, <2>3, RecFields
  <2> QED BY <2>2, <2>4 DEF Off, Turning, Walks
<1>3. ASSUME stack /= <<>>, Top.at \in {"process", "drop", "d.sent", "d.recv", "d.fin", "d.out"}
      PROVE  Off(stack) /\ IsOne(stack, Top) /\ Below = <<>>
  BY <1>3, InsideFacts, OffOne DEF Above, Turning, Walks
<1>4. ASSUME IsOne(stack, Top), Below = <<>>,
             NEW a \in {"accept", "d.out", "sent", "d.recv", "recv", "d.fin", "eof"}, Goto(a)
      PROVE  Off(stack')
  <2>1. a \in Place
    BY DEF Place, Callback, Inside
  <2>2. PICK g \in Frame : IsOne(stack', g) /\ g.at = a
    BY <1>4, <2>1, GotoOne
  <2> QED BY <2>2, OffOne DEF Turning, Walks
<1>5. ASSUME IsOne(stack, Top), NEW s \in AnySeg, Moved("d.sent", s)
      PROVE  Off(stack')
  <2>1. "d.sent" \in Place
    BY DEF Place, Inside
  <2>2. PICK g \in Frame : IsOne(stack', g) /\ g.at = "d.sent"
    BY <1>5, <2>1, GotoSeg
  <2> QED BY <2>2, OffOne DEF Turning, Walks
<1>6. ASSUME Below = <<>>, Return(<<>>)
      PROVE  Off(stack')
  BY <1>6 DEF Return, Off
<1>7. CASE Processing /\ (ProcessRst \/ ProcessIgnored \/ ProcessSynRcvd \/ ProcessEstablished
                          \/ ProcessLastAck \/ DropRefused)
  <2>1. Off(stack) /\ IsOne(stack, Top) /\ Below = <<>>
    BY <1>3, <1>7 DEF Processing, At
  <2>2. PICK p, s : p = Top.p /\ s = Top.seg
    OBVIOUS
  <2>3. s \in AnySeg /\ Got(p, s) \in AnySeg
    BY <1>7, <2>2, ServerProcess, GotFacts
  <2>4. CASE ProcessRst
    BY <1>7, <2>1, <2>4, ServerKill DEF ProcessRst
  <2>5. CASE ProcessIgnored
    <3>1. Moved("d.sent", Got(p, s))
      BY <1>7, <2>2, <2>5, ServerProcess DEF ProcessIgnored, Moved
    <3> QED BY <1>5, <2>1, <2>3, <3>1
  <2>6. CASE ProcessSynRcvd
    BY <1>4, <2>1, <2>6 DEF ProcessSynRcvd
  <2>7. CASE ProcessEstablished \/ (ProcessLastAck /\ ~Top.seg.ack)
    <3>1. Receive(p, s)
      BY <2>2, <2>7 DEF ProcessEstablished, ProcessLastAck
    <3>2. Moved("d.sent", Got(p, s))
      BY <3>1 DEF Receive, Moved
    <3> QED BY <1>5, <2>1, <2>3, <3>2
  <2>8. CASE ProcessLastAck /\ Top.seg.ack
    <3>1. Kill(Top.p, Top.p \notin rx) /\ st[Top.p] = "LAST_ACK"
      BY <2>8 DEF ProcessLastAck
    <3> QED BY <1>7, <2>1, <3>1, ServerKill
  <2>9. CASE DropRefused
    BY <1>6, <2>1, <2>9 DEF DropRefused
  <2> QED BY <1>7, <2>4, <2>5, <2>6, <2>7, <2>8, <2>9
<1>8. CASE ProcessSynSent \/ ProcessFinWait1 \/ ProcessFinWait2 \/ ProcessClosing
  <2>1. Processing /\ st[Top.p] \in {"SYN_SENT", "FIN_WAIT_1", "FIN_WAIT_2", "CLOSING"}
    BY <1>8 DEF ProcessSynSent, ProcessFinWait1, ProcessFinWait2, ProcessClosing
  <2> QED BY <2>1, ServerProcess
<1>9. CASE DeliverRecv
  BY <1>3, <1>9, ServerDeliverRecv DEF DeliverRecv, At
<1>10. CASE Drop
  <2>1. Off(stack) /\ Below = <<>> /\ stack' = Freed(Below, Top.p)
    BY <1>3, <1>10 DEF Drop, At
  <2> QED BY <2>1, FreedNone DEF Off
<1>11. CASE DeliverSent \/ DeliverFin
  <2>1. Off(stack) /\ IsOne(stack, Top) /\ Below = <<>>
    BY <1>3, <1>11 DEF DeliverSent, DeliverFin, At
  <2>2. Goto("sent") \/ Goto("d.recv") \/ Goto("d.out") \/ Goto("eof")
    BY <1>11 DEF DeliverSent, DeliverFin
  <2> QED BY <1>4, <2>1, <2>2
<1>12. CASE DeliverDone
  BY <1>3, <1>6, <1>12 DEF DeliverDone, At
<1> QED
  <2>1. ProcessRst \/ ProcessIgnored \/ ProcessSynRcvd \/ ProcessEstablished
          \/ ProcessLastAck \/ DropRefused => Processing
    BY DEF ProcessRst, ProcessIgnored, ProcessSynRcvd, ProcessEstablished, ProcessLastAck,
       DropRefused
  <2> QED BY <1>1, <1>2, <1>7, <1>8, <1>9, <1>10, <1>11, <1>12, <2>1 DEF Input


\* tcp_input touches the count only of a pcb it frees.
LEMMA LagInput ==
  ASSUME IInv, ServerOK, LagOK, UNCHANGED buffer, Input
  PROVE  LagOK'
<1>1. ASSUME NEW p \in Pcb, Release(p)
      PROVE  \A q \in Pcb : lag'[q] \in {lag[q], 0}
  BY <1>1, LagRelease
<1>2. CASE Drop
  <2>1. Top.p \in Pcb
    BY <1>2, InsideFacts DEF Drop, At, Above, FrameOK, Conn
  <2>2. Release(Top.p)
    BY <1>2 DEF Drop
  <2> QED BY <1>1, <2>1, <2>2, InputOff, LagOff
<1>3. CASE DeliverRecv
  <2>1. CASE UNCHANGED lag
    BY <2>1, InputOff, LagOff
  <2>2. CASE Release(Top.p)
    <3>1. Top.p \in Pcb
      BY <1>3, InsideFacts DEF DeliverRecv, At, Above, FrameOK, Conn, Given
    <3> QED BY <1>1, <2>2, <3>1, InputOff, LagOff
  <2> QED BY <1>3, <2>1, <2>2 DEF DeliverRecv, AbortOn
<1>4. CASE UNCHANGED lag
  BY <1>4, InputOff, LagOff
<1> QED BY <1>2, <1>3, <1>4 DEF Input, TcpInput, DropRefused, ProcessRst, ProcessIgnored,
     ProcessSynSent, ProcessSynRcvd, ProcessEstablished, ProcessFinWait1, ProcessFinWait2,
     ProcessClosing, ProcessLastAck, DeliverSent, DeliverFin, DeliverDone, ListenInput, Kill,
     Receive

\* Nor does tcp_alloc.
LEMMA LagAlloc ==
  ASSUME IInv, ServerOK, LagOK, UNCHANGED buffer, Alloc
  PROVE  LagOK'
<1>1. At("alloc")
  BY DEF Alloc, AllocOk, AllocKillTimeWait, AllocKillActive, AllocFails
<1>2. Off(stack) /\ Below = <<>>
  BY <1>1, InsideFacts, OffOne DEF At, Above, Turning, Walks
<1>3. CASE \E p \in Pcb : AllocKillActive(p)
  <2>1. PICK p \in Pcb : AllocKillActive(p)
    BY <1>3
  <2>2. Release(p) /\ Off(stack')
    BY <2>1, ServerAllocKillActive DEF AllocKillActive, AbortOn
  <2> QED BY <1>2, <2>2, LagRelease, LagOff
<1>4. CASE UNCHANGED lag /\ Return(<<>>)
  <2>1. Off(stack')
    BY <1>2, <1>4 DEF Return, Off
  <2> QED BY <1>2, <1>4, <2>1, LagOff
<1> QED BY <1>3, <1>4, NoTimeWait DEF Alloc, AllocOk, AllocKillTimeWait, AllocFails

\* A tick counts for the pcbs of tcp_active_pcbs alone: the server has none in CLOSED.
LEMMA LagTick ==
  ASSUME IInv, ServerOK, Tick
  PROVE  /\ \A p \in Pcb \ active : lag'[p] = 0
         /\ \A p \in active : lag[p] = 0 => lag'[p] = 1
<1>1. \A p \in Pcb : st[p] /= "CLOSED"
  BY DEF ServerOK, Served, ServerStates, Serving
<1>2. (0 + 1) % CtrMod = 1
  BY CtrAssumption
<1>3. active \subseteq Pcb
  BY SameTypes
<1> QED BY <1>1, <1>2, <1>3 DEF Tick

\* A walk that has ended has processed every pcb.
LEMMA LagDone ==
  ASSUME IInv, LagOK, At("fast") \/ At("slow"), ~changed, Top.rest = {}
  PROVE  \A p \in Pcb : lag[p] = 0
  BY WalkFacts DEF LagOK

\* No function is active.
LEMMA LagNone ==
  ASSUME stack' = <<>>, \A p \in Pcb : lag'[p] = 0
  PROVE  LagOK'
  BY DEF LagOK

\* The head of a stack.
LEMMA HeadOf ==
  ASSUME NEW f \in Frame, NEW s \in Seq(Frame)
  PROVE  <<>> \o (<<f>> \o s) /= <<>> /\ (<<>> \o (<<f>> \o s))[1] = f
<1>1. PICK t : t = <<f>> \o s
  OBVIOUS
<1>2. t \in Seq(Frame) /\ Len(t) > 0 /\ t[1] = f
  BY <1>1
<1>3. <<>> \o t = t
  BY <1>2
<1> QED BY <1>1, <1>2, <1>3


\* tcp_fasttmr, whose pcbs are all behind in the count, and tcp_slowtmr.
LEMMA LagTimer ==
  ASSUME IInv, ServerOK, LagOK, UNCHANGED buffer, Timer
  PROVE  LagOK'
<1>1. ASSUME NEW a \in Walks, StartWalk(a)
      PROVE  \E f : /\ IsOne(stack', f) /\ f.at = a /\ f.rest = active
                    /\ UNCHANGED active /\ ~changed'
                    /\ \A p \in Pcb \ active : lag'[p] = 0
                    /\ \A p \in active : lag[p] = 0 => lag'[p] = 1
  <2>1. stack' = <<Rec(a, NoPcb, NoSeg, active)>> /\ UNCHANGED active /\ ~changed' /\ Tick
    BY <1>1 DEF StartWalk
  <2>2. Fields(a, NoPcb, NoSeg, active)
    BY SameTypes DEF Fields, Walks, Place, Inside, AnySeg, NoSeg
  <2>3. PICK f : f = Rec(a, NoPcb, NoSeg, active)
    OBVIOUS
  <2>4. f \in Frame /\ f.at = a /\ f.rest = active
    BY <2>2, <2>3, RecFrame, RecFields
  <2>5. IsOne(stack', f)
    BY <2>1, <2>3, <2>4, OneFrame
  <2> QED BY <2>1, <2>4, <2>5, LagTick
<1>2. ASSUME NEW f, IsOne(stack', f), f.at = "slow", \A p \in Pcb \ active' : lag'[p] = 0
      PROVE  LagOK'
  <2>1. stack' /= <<>> /\ stack'[1] = f
    BY <1>2, SegNext
  <2> QED BY <1>2, <2>1, LagSlow
<1>3. CASE FastTmr
  <2>1. stack = <<>> /\ StartWalk("fast")
    BY <1>3 DEF FastTmr
  <2>2. PICK f : /\ IsOne(stack', f) /\ f.at = "fast" /\ f.rest = active
                 /\ UNCHANGED active /\ ~changed'
                 /\ \A p \in Pcb \ active : lag'[p] = 0
                 /\ \A p \in active : lag[p] = 0 => lag'[p] = 1
    BY <1>1, <2>1 DEF Walks
  <2>3. \A p \in active : lag'[p] = 1
    BY <2>1, <2>2, SameTypes DEF LagOK, Off
  <2>4. stack' /= <<>> /\ stack'[1] = f
    BY <2>2 DEF IsOne
  <2> QED BY <2>2, <2>3, <2>4 DEF LagOK, Off, Turning, Walks
<1>4. CASE FastEnd
  <2>1. /\ At("fast") /\ ~changed /\ Top.rest = {} /\ Below = <<>>
        /\ \A p \in Pcb : lag[p] = 0
    BY <1>4, LagDone, WalkFacts DEF FastEnd
  <2>2. CASE Return(<<>>) /\ UNCHANGED <<st, active, tw, conn, lag, changed, ref, fault>>
    <3>1. stack' = <<>>
      BY <2>1, <2>2 DEF Return
    <3> QED BY <2>1, <2>2, <3>1, LagNone
  <2>3. CASE StartWalk("slow")
    <3>1. PICK f : /\ IsOne(stack', f) /\ f.at = "slow" /\ UNCHANGED active
                   /\ \A p \in Pcb \ active : lag'[p] = 0
      BY <1>1, <2>3 DEF Walks
    <3> QED BY <1>2, <3>1
  <2> QED BY <1>4, <2>2, <2>3 DEF FastEnd
<1>5. CASE \E p \in Pcb : FastVisit(p)
  <2>1. PICK p \in Pcb : FastVisit(p)
    BY <1>5
  <2>2. At("fast") /\ ~changed /\ p \in Top.rest
    BY <2>1 DEF FastVisit
  <2>3. /\ p \in active /\ IsOne(stack, Top) /\ Below = <<>> /\ Top.rest \in SUBSET Pcb
        /\ refused[p] = "none" /\ Top.at = "fast"
    BY <2>2, WalkFacts DEF At, ServerOK, Served
  <2>4. stack[1] = Top /\ stack /= <<>>
    BY <2>2, <2>3, WalkFacts DEF IsOne
  <2>5. \A q \in Top.rest : lag[q] /= 0
    BY <2>3, <2>4 DEF LagOK
  <2>6. /\ lag' = [lag EXCEPT ![p] = 0] /\ UNCHANGED <<active, changed>>
        /\ stack' = <<>> \o (<<Past(p)>> \o <<>>)
    BY <2>1, <2>2, <2>3, <2>5 DEF FastVisit, Return
  <2>7. PICK f : f = Past(p)
    OBVIOUS
  <2>8. f \in Frame /\ f.at = "fast" /\ f.rest = Top.rest \ {p}
    BY <2>2, <2>3, <2>7, PastFacts
  <2>9. <<>> \in Seq(Frame)
    OBVIOUS
  <2>10. stack' /= <<>> /\ stack'[1] = f
    BY <2>6, <2>7, <2>8, <2>9, HeadOf
  <2>11. \A q \in f.rest : lag'[q] /= 0
    BY <2>3, <2>5, <2>6, <2>8, SameTypes
  <2>12. \A q \in Pcb \ active : lag'[q] = 0
    BY <2>6, SameTypes DEF LagOK
  <2> QED BY <2>2, <2>6, <2>8, <2>10, <2>11, <2>12 DEF LagOK, Off, Turning, Walks
<1>6. CASE \E p \in Pcb : SlowVisit(p)
  <2>1. PICK p \in Pcb : SlowVisit(p)
    BY <1>6
  <2>2. At("slow") /\ ~changed /\ p \in Top.rest
    BY <2>1 DEF SlowVisit
  <2>3. p \in active /\ Below = <<>> /\ Top.at = "slow"
    BY <2>2, WalkFacts DEF At
  <2>4. PICK f : f = Past(p)
    OBVIOUS
  <2>5. f \in Frame /\ f.at = "slow"
    BY <2>2, <2>3, <2>4, PastFacts
  <2>6. PICK e, g : e = Call("err", p) /\ g = Call("poll", p)
    OBVIOUS
  <2>7. <<>> \in Seq(Frame) /\ <<e>> \in Seq(Frame) /\ <<g>> \in Seq(Frame)
    <3>1. e \in Frame /\ g \in Frame
      BY <2>6, CallFacts DEF Place, Callback
    <3> QED BY <3>1
  <2>8. \E s \in Seq(Frame) : Return(<<f>> \o s)
    <3>1. CASE Return(<<Past(p)>>)
      <4>1. <<f>> = <<f>> \o <<>>
        BY <2>5, Joined
      <4> QED BY <2>4, <2>7, <3>1, <4>1
    <3>2. CASE Return(<<Past(p)>> \o ErrCall(p))
      BY <2>4, <2>6, <2>7, <3>2 DEF ErrCall
    <3>3. CASE \E poll \in BOOLEAN :
                 Return(<<Past(p)>> \o IF poll /\ st[p] /= "SYN_RCVD"
                                       THEN <<Call("poll", p)>> ELSE <<>>)
      BY <2>4, <2>6, <2>7, <3>3
    <3> QED BY <2>1, <2>3, <3>1, <3>2, <3>3 DEF SlowVisit
  <2>9. stack' /= <<>> /\ stack'[1] = f
    BY <2>3, <2>5, <2>8, HeadOf DEF Return
  <2>10. \/ UNCHANGED <<lag, active>>
         \/ Release(p) /\ active' = active \ {p}
         \/ lag' = [lag EXCEPT ![p] = 0] /\ UNCHANGED active
    BY <2>1, <2>3 DEF SlowVisit
  <2>11. \A q \in Pcb \ active' : lag'[q] = 0
    BY <2>10, LagRelease, SameTypes DEF LagOK
  <2> QED BY <2>5, <2>9, <2>11, LagSlow
<1>7. CASE SlowEnd
  <2>1. At("slow") /\ ~changed /\ Top.rest = {} /\ Below = <<>> /\ Return(<<>>)
    BY <1>7, WalkFacts DEF SlowEnd
  <2>2. \A p \in Pcb : lag'[p] = 0
    BY <1>7, <2>1, LagDone DEF SlowEnd
  <2> QED BY <2>1, <2>2, LagNone DEF Return
<1>8. CASE Restart
  <2>1. (At("fast") \/ At("slow")) /\ changed /\ UNCHANGED <<lag, active>>
        /\ stack' = [stack EXCEPT ![Len(stack)].rest = active]
    BY <1>8 DEF Restart
  <2>2. Top \in Frame /\ IsOne(stack, Top) /\ Top.at \in Walks
    BY <2>1, ServerWalk
  <2>3. stack[1] = Top /\ stack /= <<>> /\ stack \in Seq(Frame) /\ Len(stack) = 1
    BY <2>2 DEF IsOne
  <2>4. Top.at = "slow"
    BY <2>1, <2>2, <2>3 DEF LagOK, Walks
  <2>5. PICK f : f = [Top EXCEPT !.rest = active]
    OBVIOUS
  <2>6. f \in Frame /\ f.at = "slow"
    BY <2>2, <2>4, <2>5, SameTypes DEF Frame
  <2>7. stack' = [stack EXCEPT ![1] = f]
    BY <2>1, <2>3, <2>5
  <2>8. IsOne(stack', f)
    BY <2>3, <2>6, <2>7, Replaced
  <2> QED BY <1>2, <2>1, <2>6, <2>8 DEF LagOK
<1>9. CASE Spin
  BY <1>9, InsideFacts DEF Spin, At, Above, LagOK
<1> QED BY <1>3, <1>4, <1>5, <1>6, <1>7, <1>8, <1>9 DEF Timer


\* The server's callbacks return, or free a pcb; the timer below goes on.
LEMMA LagApp ==
  ASSUME IInv, BufferTypes, ServerOK, LagOK, App
  PROVE  LagOK'
<1>1. ASSUME stack /= <<>>, Top.at \in {"accept", "sent", "recv", "eof"}
      PROVE  Off(stack) /\ IsOne(stack, Top)
  BY <1>1, ServerAnswers, OffOne DEF Turning, Walks
<1>2. CASE AppAccept
  <2>1. stack /= <<>> /\ Top.at = "accept" /\ AcceptReturns("OK")
    BY <1>2 DEF AppAccept, AcceptReturns, At
  <2>2. PICK p, s : p = Top.p /\ s = Top.seg
    OBVIOUS
  <2>3. Receive(p, s) /\ Got(p, s) \in AnySeg
    BY <2>1, <2>2, ServerAnswers, GotFacts DEF AcceptReturns
  <2>4. Moved("d.sent", Got(p, s)) /\ UNCHANGED lag
    BY <2>3 DEF Receive, Moved
  <2>5. PICK g \in Frame : IsOne(stack', g) /\ g.at = "d.sent"
    BY <1>1, <2>1, <2>3, <2>4, GotoSeg DEF Place, Inside
  <2> QED BY <1>1, <2>1, <2>4, <2>5, OffOne, LagOff DEF Turning, Walks
<1>3. CASE AppRecv \/ AppSent \/ AppClosed
  <2>1. /\ stack /= <<>> /\ Top.at \in {"sent", "recv", "eof"} /\ UNCHANGED lag
        /\ Leave("OK", "d.recv") \/ Leave("OK", "d.fin") \/ Leave("OK", "d.out")
    BY <1>3 DEF AppRecv, AppSent, AppClosed, RecvReturns, SentReturns, EofReturns, At
  <2>2. Goto("d.recv") \/ Goto("d.fin") \/ Goto("d.out")
    BY <2>1, ServerAnswers DEF Leave, Continue
  <2>3. PICK g \in Frame : IsOne(stack', g) /\ g.at \in {"d.recv", "d.fin", "d.out"}
    BY <1>1, <2>1, <2>2, GotoOne DEF Place, Inside
  <2> QED BY <1>1, <2>1, <2>3, OffOne, LagOff DEF Turning, Walks
<1>4. CASE AppClose
  <2>1. PICK p : p = Top.p
    OBVIOUS
  <2>2. stack /= <<>> /\ Top.at = "eof" /\ buffer[p] \in Own /\ Close(p)
    BY <1>4, <2>1 DEF AppClose, At, Own
  <2>3. Off(stack) /\ IsOne(stack, Top) /\ p \in Pcb /\ Top \in Frame /\ st[p] = "CLOSE_WAIT"
    BY <1>1, <2>1, <2>2, ServerAnswers, ServerEof DEF At
  <2>4. CASE UNCHANGED <<stack, lag>>
    BY <2>3, <2>4, LagOff
  <2>5. CASE Release(p) /\ stack' = Freed(stack, p)
    <3>1. stack \in Seq(Frame) /\ Len(stack) = 1 /\ stack[1] = Top
      BY <2>2, <2>3, ServerAnswers DEF IsOne
    <3>2. PICK t : t = Freed(stack, p)
      OBVIOUS
    <3>3. t[1] = FreedRecord(stack[1], p)
      BY <3>1, <3>2, FreedFacts
    <3>4. PICK g : g = FreedRecord(Top, p)
      OBVIOUS
    <3>5. stack'[1].at = "eof"
      BY <2>2, <2>3, <2>5, <3>1, <3>2, <3>3, <3>4, FreedRecordFields
    <3>6. Off(stack')
      BY <3>5 DEF Off, Turning, Walks
    <3> QED BY <2>3, <2>5, <3>6, LagRelease, LagOff
  <2> QED BY <2>2, <2>3, <2>4, <2>5 DEF Close, CloseUnread, CanSendFin
<1>5. CASE AppPoll
  <2>1. PICK p : p = Top.p
    OBVIOUS
  <2>2. At("poll") /\ Abort(p)
    BY <1>5, <2>1 DEF AppPoll
  <2>3. stack[1].at = "slow" /\ p \in Pcb /\ Len(stack) = 2 /\ 1 \in DOMAIN stack
    BY <2>1, <2>2, ServerPoll DEF IsTwo
  <2>4. /\ Release(p) /\ active' = active \ {p}
        /\ stack' \in Seq(Frame) /\ Len(stack') \in {2, 3}
        /\ Marked(stack[1], stack'[1], p)
    BY <2>2, <2>3, AbortStack
  <2>5. stack' /= <<>> /\ stack'[1].at = "slow"
    BY <2>3, <2>4 DEF Marked
  <2>6. \A q \in Pcb \ active' : lag'[q] = 0
    BY <2>3, <2>4, LagRelease DEF LagOK
  <2> QED BY <2>5, <2>6, LagSlow
<1>6. CASE AppPolled
  <2>1. At("poll") /\ Return(<<>>) /\ UNCHANGED <<lag, active>>
    BY <1>6 DEF AppPolled, PollReturns
  <2>2. PICK f : f = stack[1]
    OBVIOUS
  <2>3. IsOne(Below, f) /\ f.at = "slow"
    BY <2>1, <2>2, ServerPoll
  <2>4. stack' = Below
    BY <2>1, <2>3, Popped DEF Return, IsOne
  <2>5. stack' /= <<>> /\ stack'[1].at = "slow"
    BY <2>3, <2>4 DEF IsOne
  <2> QED BY <2>1, <2>5, LagSlow DEF LagOK
<1>7. CASE AppErr
  <2>1. stack /= <<>> /\ Top.at = "err" /\ Return(<<>>) /\ UNCHANGED <<active, lag, changed>>
    BY <1>7 DEF AppErr, ErrReturns, At
  <2>2. /\ Len(stack) \in Nat \ {0} /\ Top = stack[Len(stack)]
        /\ Below \in Seq(Frame) /\ Len(Below) = Len(stack) - 1
        /\ \A i \in 1 .. Len(stack) - 1 : Below[i] = stack[i]
    BY <2>1, SameTypes, StackFacts DEF Top
  <2>3. stack' = Below
    BY <2>1, <2>2, Popped DEF Return
  <2>4. CASE Len(stack) = 1
    <3>1. stack' = <<>>
      BY <2>2, <2>3, <2>4
    <3>2. Off(stack)
      BY <2>1, <2>2, <2>4 DEF Off, Turning, Walks
    <3> QED BY <2>1, <3>1, <3>2, LagNone DEF LagOK
  <2>5. CASE Len(stack) > 1
    <3>1. stack' /= <<>> /\ stack'[1] = stack[1]
      BY <2>2, <2>3, <2>5
    <3>2. Off(stack') => Off(stack)
      BY <3>1 DEF Off
    <3> QED BY <2>1, <3>1, <3>2 DEF LagOK
  <2> QED BY <2>2, <2>4, <2>5
<1> QED BY <1>2, <1>3, <1>4, <1>5, <1>6, <1>7 DEF App

\* Every step.
LEMMA LagStep ==
  ASSUME SInv, LagOK, [AppNext]_<<vars, appVars>>
  PROVE  (SInv' /\ LagOK') \/ fault'
<1>1. CASE UNCHANGED <<vars, appVars>>
  <2>1. LagOK'
    BY <1>1 DEF LagOK, Off, vars
  <2> QED BY <2>1, ServerStep
<1>2. CASE AppNext /\ Doomed
  BY <1>2, DoomedStep
<1>3. CASE AppNext /\ IInv /\ ServerOK
  <2>1. BufferTypes
    BY DEF SInv
  <2>2. CASE Stack /\ UNCHANGED appVars
    <3>1. UNCHANGED buffer
      BY <2>2 DEF appVars
    <3>2. LagOK'
      BY <1>3, <2>2, <3>1, LagInput, LagAlloc, LagTimer DEF Stack
    <3> QED BY <3>2, ServerStep
  <2>3. CASE App
    <3>1. LagOK'
      BY <1>3, <2>1, <2>3, LagApp
    <3> QED BY <3>1, ServerStep
  <2> QED BY <1>3, <2>2, <2>3 DEF AppNext
<1> QED BY <1>1, <1>2, <1>3 DEF SInv

\* With this server tcp_fasttmr always ends: the walk that does not step past a
\* pcb it has already processed (tcp.c:1038, the step to the next pcb is inside
\* the if) never meets one, for the server refuses no data and so has no callback
\* inside tcp_fasttmr (LagOK).  This, too, as long as no freed pcb was used.
THEOREM ServerNeverSpins == AppSpec => [](~fault => NoSpin)
<1>1. AppInit => fault \/ (SInv /\ LagOK)
  BY ServerInitially DEF AppInit, Init, LagOK
<1>2. (fault \/ (SInv /\ LagOK)) /\ [AppNext]_<<vars, appVars>> => (fault \/ (SInv /\ LagOK))'
  BY LagStep, FaultStays
<1>3. SInv /\ LagOK => NoSpin
  <2> SUFFICES ASSUME SInv, LagOK, At("spin") PROVE FALSE
    BY DEF NoSpin
  <2>1. IInv /\ stack /= <<>> /\ Top.at = "spin"
    BY DEF SInv, Doomed, At
  <2>2. stack[1] = Top
    BY <2>1, InsideFacts DEF Above
  <2> QED BY <2>1, <2>2 DEF LagOK
<1> QED BY <1>1, <1>2, <1>3, PTL DEF AppSpec
==============================================================================
