------------------------------- MODULE TcpPcb -------------------------------
(***************************************************************************)
(* The life of TCP protocol control blocks: the pool they come from, the   *)
(* lists they are on, the state machine of tcp_process, the timers that    *)
(* walk the lists, and the callbacks into the application in the middle of *)
(* all of it (tcp.c, tcp_in.c).                                            *)
(*                                                                         *)
(* The stack is single threaded but reentrant: a callback may call back    *)
(* into it.  The variable stack holds the activation records of the        *)
(* functions that are waiting for a callback to return; a callback is a    *)
(* record of its own.  The application acts when a callback record is on   *)
(* top, or from its main loop when stack is empty; what it does is defined *)
(* in the modules that extend this one.                                    *)
(*                                                                         *)
(* Abstractions: sequence numbers are reduced to what tcp_process tests; a *)
(* segment is what it does (RST accepted, ACK equal to snd_nxt, in-order   *)
(* data, in-order FIN); the ages kept in pcb->tmr, nrtx and polltmr are    *)
(* choices; the order of a list is abstracted: a walk visits its elements  *)
(* in any order.                                                           *)
(***************************************************************************)
EXTENDS Naturals, Sequences, FiniteSets

CONSTANTS
  Pcb,         \* the pool MEMP_TCP_PCB
  NoPcb,       \* a NULL pcb
  CtrMod,      \* number of values of tcp_timer_ctr, 256 for a u8_t
  Window,      \* TCP_WND, in segments
  FinMayWait   \* whether the send window can hold a FIN back

ASSUME PcbAssumption == NoPcb \notin Pcb
ASSUME CtrAssumption == CtrMod \in Nat /\ CtrMod > 1
ASSUME WindowAssumption == Window \in Nat \ {0}
ASSUME FinAssumption == FinMayWait \in BOOLEAN

VARIABLES
  st,       \* st[p]: pcb->state, or FREE when p is in the pool
  active,   \* tcp_active_pcbs
  tw,       \* tcp_tw_pcbs
  rx,       \* the pcbs with TF_RXCLOSED
  unread,   \* TCP_WND - pcb->rcv_wnd, in segments
  refused,  \* pcb->refused_data
  fin,      \* our FIN: not queued, on pcb->unsent, or sent
  lag,      \* tcp_timer_ctr - pcb->last_timer
  changed,  \* tcp_active_pcbs_changed
  stack,    \* the activation records, innermost last
  ref,      \* the pcbs the application holds a pointer to
  fault     \* a freed pcb was used or freed again

conn == <<rx, unread, refused, fin>>
vars == <<st, active, tw, rx, unread, refused, fin, lag, changed, stack, ref, fault>>

ActiveState == {"SYN_SENT", "SYN_RCVD", "ESTABLISHED", "FIN_WAIT_1",
                "FIN_WAIT_2", "CLOSE_WAIT", "CLOSING", "LAST_ACK"}
State == ActiveState \cup {"FREE", "CLOSED", "TIME_WAIT"}

\* An incoming segment, by what it does to the pcb it is for.
Seg == [k : {"rst", "synack"}, ack : {FALSE}, data : {FALSE}, fin : {FALSE}, sent : {FALSE}]
       \cup [k : {"syn"}, ack : {FALSE}, data : {FALSE}, fin : {FALSE}, sent : BOOLEAN]
       \cup [k : {"seg"}, ack : BOOLEAN, data : BOOLEAN, fin : BOOLEAN, sent : BOOLEAN]
NoSeg == [k |-> "none", ack |-> FALSE, data |-> FALSE, fin |-> FALSE, sent |-> FALSE]
\* What pcb->refused_data holds.
Kept(p) == [NoSeg EXCEPT !.data = TRUE, !.fin = refused[p] = "dataFin"]
SegLen(s) == (IF s.data THEN 1 ELSE 0) + (IF s.fin THEN 1 ELSE 0)

\* Where an activation record is.  Callback: the application is running.
Callback == {"accept", "connected", "sent", "recv", "eof", "rrecv", "reof",
             "poll", "err"}
Inside == {"process", "drop", "d.sent", "d.recv", "d.fin", "d.out",
           "fast", "slow", "tw", "spin", "alloc"}
Frame == [at : Callback \cup Inside, p : Pcb \cup {NoPcb},
          seg : Seg \cup [k : {"none"}, ack : {FALSE},
          data : BOOLEAN, fin : BOOLEAN, sent : {FALSE}],
          rest : SUBSET Pcb, dead : BOOLEAN, ab : BOOLEAN]

\* A record at a, for pcb p and segment s; a walk has the pcbs in r ahead.
Rec(a, p, s, r) ==
  [at |-> a, p |-> p, seg |-> s, rest |-> r, dead |-> FALSE, ab |-> FALSE]
Call(a, p) == Rec(a, p, NoSeg, {})

Top == stack[Len(stack)]
Below == SubSeq(stack, 1, Len(stack) - 1)
At(a) == stack /= <<>> /\ Top.at = a
\* The top record moves to a; or it is replaced by the records in s.
Goto(a) == stack' = [stack EXCEPT ![Len(stack)].at = a]
Return(s) == stack' = Below \o s
Caller == IF Below = <<>> THEN "main" ELSE Below[Len(Below)].at
InApp == stack /= <<>> => Top.at \in Callback

\* memp_free(p): every record that still holds the pointer holds it in vain.
Freed(s, p) == [i \in 1 .. Len(s) |-> [s[i] EXCEPT !.dead = @ \/ s[i].p = p]]

Init ==
  /\ st = [p \in Pcb |-> "FREE"]
  /\ active = {}
  /\ tw = {}
  /\ rx = {}
  /\ unread = [p \in Pcb |-> 0]
  /\ refused = [p \in Pcb |-> "none"]
  /\ fin = [p \in Pcb |-> "none"]
  /\ lag = [p \in Pcb |-> 0]
  /\ changed = FALSE
  /\ stack = <<>>
  /\ ref = {}
  /\ fault = FALSE

-----------------------------------------------------------------------------
(* The pool and the lists. *)

\* memp_free: the fields of a pcb in the pool keep their initial values,
\* which tcp_alloc gives them.
Release(p) ==
  /\ st' = [st EXCEPT ![p] = "FREE"]
  /\ rx' = rx \ {p}
  /\ unread' = [unread EXCEPT ![p] = 0]
  /\ refused' = [refused EXCEPT ![p] = "none"]
  /\ fin' = [fin EXCEPT ![p] = "none"]
  /\ lag' = [lag EXCEPT ![p] = 0]

\* TCP_EVENT_ERR: a pcb in SYN_RCVD has no errf yet.
ErrCall(p) == IF st[p] = "SYN_RCVD" THEN <<>> ELSE <<Call("err", p)>>

\* Mutant: tcp_active_pcbs_changed is not set.
AbortOn_Unmarked(p, s) ==
  /\ Release(p)
  /\ ref' = ref \ {p}
  /\ tw' = tw \ {p}
  /\ active' = active \ {p}
  /\ stack' = Freed(s, p) \o (IF st[p] = "TIME_WAIT" THEN <<>> ELSE ErrCall(p))
  /\ UNCHANGED <<changed, fault>>

\* tcp_abort(p), called with the activation records s.
AbortOn(p, s) ==
  /\ Release(p)
  /\ ref' = ref \ {p}
  /\ UNCHANGED fault
  /\ IF st[p] = "TIME_WAIT"
       THEN /\ tw' = tw \ {p}
            /\ stack' = Freed(s, p)
            /\ UNCHANGED <<active, changed>>
       ELSE /\ active' = active \ {p}
            /\ changed' = TRUE
            /\ stack' = Freed(s, p) \o ErrCall(p)
            /\ UNCHANGED tw

\* tcp_output: a FIN on the unsent queue leaves if the window lets it.
AfterOutput(p) ==
  IF fin[p] /= "unsent" THEN {fin[p]}
  ELSE IF FinMayWait THEN {"unsent", "sent"} ELSE {"sent"}

\* A freed pcb is dereferenced or freed.
UseFreed ==
  /\ fault' = TRUE
  /\ Return(<<>>)
  /\ UNCHANGED <<st, active, tw, conn, lag, changed, ref>>

\* Mutants: the pcb stays on tcp_active_pcbs; tcp_pcb_purge is not called.
ToTimeWait_NoRemove(p) ==
  /\ st' = [st EXCEPT ![p] = "TIME_WAIT"]
  /\ tw' = tw \cup {p}
  /\ refused' = [refused EXCEPT ![p] = "none"]
  /\ UNCHANGED <<active, changed>>

ToTimeWait_NoPurge(p) ==
  /\ st' = [st EXCEPT ![p] = "TIME_WAIT"]
  /\ active' = active \ {p}
  /\ tw' = tw \cup {p}
  /\ changed' = TRUE
  /\ UNCHANGED refused

\* tcp_pcb_purge, TCP_RMV_ACTIVE, state = TIME_WAIT, TCP_REG.
ToTimeWait(p) ==
  /\ st' = [st EXCEPT ![p] = "TIME_WAIT"]
  /\ active' = active \ {p}
  /\ tw' = tw \cup {p}
  /\ changed' = TRUE
  /\ refused' = [refused EXCEPT ![p] = "none"]

ToState(p, s) ==
  /\ st' = [st EXCEPT ![p] = s]
  /\ UNCHANGED <<active, tw, changed, refused>>

-----------------------------------------------------------------------------
(* tcp_input and tcp_process. *)

\* In-order data and FIN have an effect only below CLOSE_WAIT.
Receiving(p) == st[p] \in {"ESTABLISHED", "FIN_WAIT_1", "FIN_WAIT_2"}
Got(p, s) == IF Receiving(p) THEN s ELSE [s EXCEPT !.data = FALSE, !.fin = FALSE]
Fits(p, s) == (Receiving(p) \/ st[p] = "SYN_RCVD") => unread[p] + SegLen(s) <= Window

\* tcp_input finds p on tcp_active_pcbs; data it refused before goes first.
TcpInput(p, s) ==
  /\ stack = <<>>
  /\ p \in active
  /\ Fits(p, s)
  /\ s.sent => st[p] \notin {"SYN_SENT", "SYN_RCVD"}
  /\ s.k = "synack" => st[p] = "SYN_SENT"
  /\ IF refused[p] = "none"
       THEN /\ stack' = <<Rec("process", p, s, {})>>
            /\ UNCHANGED refused
       ELSE /\ stack' = <<Rec("process", p, s, {}),
                          Rec("rrecv", p, Kept(p), {})>>
            /\ refused' = [refused EXCEPT ![p] = "none"]
  /\ UNCHANGED <<st, active, tw, rx, unread, fin, lag, changed, ref, fault>>

Processing == At("process") /\ ~Top.dead
StillRefused == refused[Top.p] /= "none" /\ (SegLen(Top.seg) > 0 \/ Top.seg.k \in {"syn", "synack"})

\* The application still refuses: a segment with data is dropped.
DropRefused ==
  /\ Processing /\ StillRefused
  /\ Return(<<>>)
  /\ UNCHANGED <<st, active, tw, conn, lag, changed, ref, fault>>

\* Mutant: the err callback is not called.
Kill_Untold(p, told) ==
  /\ Goto("drop")
  /\ UNCHANGED <<st, active, tw, conn, lag, changed, ref, fault>>

\* TF_RESET and TF_CLOSED: the err callback runs before the pcb is removed.
Kill(p, told) ==
  /\ stack' = Below \o <<[Top EXCEPT !.at = "drop"]>> \o (IF told THEN ErrCall(p) ELSE <<>>)
  /\ ref' = IF told THEN ref \ {p} ELSE ref
  /\ UNCHANGED <<st, active, tw, conn, lag, changed, fault>>

ProcessRst ==
  /\ Processing /\ ~StillRefused
  /\ Top.seg.k = "rst"
  /\ Kill(Top.p, TRUE)

\* A SYN for a synchronised connection only asks for an ACK, and a segment for a
\* pcb that was closed while its refused data was delivered is ignored (both may
\* announce the bytes of an earlier ACK again: pcb->acked is not cleared).
ProcessIgnored ==
  /\ Processing /\ ~StillRefused
  /\ Top.seg.k = "syn" \/ (Top.seg.k = "seg" /\ st[Top.p] = "TIME_WAIT")
  /\ stack' = [stack EXCEPT ![Len(stack)].at = "d.sent", ![Len(stack)].seg = Got(Top.p, @)]
  /\ UNCHANGED <<st, active, tw, conn, lag, changed, ref, fault>>

ProcessSynSent ==
  /\ Processing /\ ~StillRefused
  /\ Top.seg.k \in {"seg", "synack"} /\ st[Top.p] = "SYN_SENT"
  /\ IF Top.seg.k = "synack"
       THEN /\ st' = [st EXCEPT ![Top.p] = "ESTABLISHED"]
            /\ Goto("connected")
       ELSE /\ Goto("d.out")
            /\ UNCHANGED st
  /\ UNCHANGED <<active, tw, conn, lag, changed, ref, fault>>

ProcessSynRcvd ==
  /\ Processing /\ ~StillRefused
  /\ Top.seg.k = "seg" /\ st[Top.p] = "SYN_RCVD"
  /\ IF Top.seg.ack
       THEN /\ st' = [st EXCEPT ![Top.p] = "ESTABLISHED"]
            /\ Goto("accept")
            /\ ref' = ref \cup {Top.p}
       ELSE /\ Goto("d.out")
            /\ UNCHANGED <<st, ref>>
  /\ UNCHANGED <<active, tw, conn, lag, changed, fault>>

\* tcp_receive: what is in order is taken from the window and will be delivered.
Receive(p, s) ==
  /\ unread' = [unread EXCEPT ![p] = @ + SegLen(Got(p, s))]
  /\ stack' = [stack EXCEPT ![Len(stack)].at = "d.sent", ![Len(stack)].seg = Got(p, s)]
  /\ UNCHANGED <<rx, fin, lag, ref, fault>>

ProcessEstablished ==
  /\ Processing /\ ~StillRefused
  /\ Top.seg.k = "seg" /\ st[Top.p] \in {"ESTABLISHED", "CLOSE_WAIT"}
  /\ Receive(Top.p, Top.seg)
  /\ ToState(Top.p, IF Got(Top.p, Top.seg).fin THEN "CLOSE_WAIT" ELSE st[Top.p])

ProcessFinWait1 ==
  /\ Processing /\ ~StillRefused
  /\ Top.seg.k = "seg" /\ st[Top.p] = "FIN_WAIT_1"
  /\ Receive(Top.p, Top.seg)
  /\ \/ Top.seg.fin /\ Top.seg.ack /\ ToTimeWait(Top.p)
     \/ Top.seg.fin /\ ~Top.seg.ack /\ ToState(Top.p, "CLOSING")
     \/ ~Top.seg.fin /\ Top.seg.ack /\ ToState(Top.p, "FIN_WAIT_2")
     \/ ~Top.seg.fin /\ ~Top.seg.ack /\ ToState(Top.p, "FIN_WAIT_1")

ProcessFinWait2 ==
  /\ Processing /\ ~StillRefused
  /\ Top.seg.k = "seg" /\ st[Top.p] = "FIN_WAIT_2"
  /\ Receive(Top.p, Top.seg)
  /\ IF Top.seg.fin THEN ToTimeWait(Top.p) ELSE ToState(Top.p, "FIN_WAIT_2")

ProcessClosing ==
  /\ Processing /\ ~StillRefused
  /\ Top.seg.k = "seg" /\ st[Top.p] = "CLOSING"
  /\ Receive(Top.p, Top.seg)
  /\ IF Top.seg.ack THEN ToTimeWait(Top.p) ELSE ToState(Top.p, "CLOSING")

ProcessLastAck ==
  /\ Processing /\ ~StillRefused
  /\ Top.seg.k = "seg" /\ st[Top.p] = "LAST_ACK"
  /\ IF Top.seg.ack
       THEN Kill(Top.p, Top.p \notin rx)
       ELSE Receive(Top.p, Top.seg) /\ ToState(Top.p, "LAST_ACK")

\* tcp_pcb_remove and memp_free after TF_RESET or TF_CLOSED.
Drop ==
  /\ At("drop") /\ ~Top.dead
  /\ Release(Top.p)
  /\ active' = active \ {Top.p}
  /\ stack' = Freed(Below, Top.p)
  /\ UNCHANGED <<tw, changed, ref, fault>>

\* TCP_EVENT_SENT.
DeliverSent ==
  /\ At("d.sent") /\ ~Top.dead
  /\ Goto(IF Top.seg.sent THEN "sent" ELSE "d.recv")
  /\ UNCHANGED <<st, active, tw, conn, lag, changed, ref, fault>>

\* TCP_EVENT_RECV; data for a closed receiver aborts the connection.
DeliverRecv ==
  /\ At("d.recv") /\ ~Top.dead
  /\ IF Top.seg.data /\ Top.p \in rx
       THEN AbortOn(Top.p, Below)
       ELSE /\ Goto(IF Top.seg.data THEN "recv" ELSE "d.fin")
            /\ UNCHANGED <<st, active, tw, conn, lag, changed, ref, fault>>

\* The sequence number of the FIN is given back to a window that is not open.
FinRead(p) == [unread EXCEPT ![p] = IF @ > 0 THEN @ - 1 ELSE 0]

\* TCP_EVENT_CLOSED, or the FIN is kept with the data refused before it.
DeliverFin ==
  /\ At("d.fin") /\ ~Top.dead
  /\ IF ~Top.seg.fin
       THEN Goto("d.out") /\ UNCHANGED <<refused, unread>>
       ELSE IF refused[Top.p] /= "none"
       THEN /\ refused' = [refused EXCEPT ![Top.p] = "dataFin"]
            /\ Goto("d.out")
            /\ UNCHANGED unread
       ELSE /\ unread' = FinRead(Top.p)
            /\ Goto("eof")
            /\ UNCHANGED refused
  /\ UNCHANGED <<st, active, tw, rx, fin, lag, changed, ref, fault>>

\* The closing tcp_output(pcb) of tcp_input.
DeliverDone ==
  /\ At("d.out") /\ ~Top.dead
  /\ \E f \in AfterOutput(Top.p) : fin' = [fin EXCEPT ![Top.p] = f]
  /\ Return(<<>>)
  /\ UNCHANGED <<st, active, tw, rx, unread, refused, lag, changed, ref, fault>>

-----------------------------------------------------------------------------
(* tcp_alloc, for tcp_new and for a SYN that reaches a listening pcb. *)

ListenInput ==
  /\ stack = <<>>
  /\ stack' = <<Rec("alloc", NoPcb, [NoSeg EXCEPT !.k = "syn"], {})>>
  /\ UNCHANGED <<st, active, tw, conn, lag, changed, ref, fault>>

ForListen == Top.seg.k = "syn"
Pool == {p \in Pcb : st[p] = "FREE"}

\* tcp_listen_input registers the new pcb, or abandons it when the SYN|ACK
\* cannot be queued; tcp_new gives it to the application.
AllocOk(p) ==
  /\ At("alloc")
  /\ p \in Pool
  /\ \/ /\ ForListen
        /\ st' = [st EXCEPT ![p] = "SYN_RCVD"]
        /\ active' = active \cup {p}
        /\ changed' = TRUE
        /\ UNCHANGED ref
     \/ /\ ForListen
        /\ changed' = TRUE
        /\ UNCHANGED <<st, active, ref>>
     \/ /\ ~ForListen
        /\ st' = [st EXCEPT ![p] = "CLOSED"]
        /\ ref' = ref \cup {p}
        /\ UNCHANGED <<active, changed>>
  /\ Return(<<>>)
  /\ UNCHANGED <<tw, conn, lag, fault>>

\* tcp_kill_timewait: no callback.
AllocKillTimeWait(p) ==
  /\ At("alloc") /\ Pool = {} /\ ~Top.ab
  /\ p \in tw
  /\ Release(p)
  /\ tw' = tw \ {p}
  /\ stack' = Freed(stack, p)
  /\ UNCHANGED <<active, changed, ref, fault>>

\* tcp_kill_prio: the victim's err callback runs before tcp_alloc tries again.
AllocKillActive(p) ==
  /\ At("alloc") /\ Pool = {} /\ tw = {} /\ ~Top.ab
  /\ p \in active
  /\ AbortOn(p, [stack EXCEPT ![Len(stack)].ab = TRUE])

AllocFails ==
  /\ At("alloc") /\ Pool = {}
  /\ Top.ab \/ (tw = {} /\ active = {})
  /\ Return(<<>>)
  /\ UNCHANGED <<st, active, tw, conn, lag, changed, ref, fault>>

-----------------------------------------------------------------------------
(* tcp_tmr: tcp_fasttmr, and every other time tcp_slowtmr after it.  The    *)
(* flag tcp_active_pcbs_changed is reset when a walk starts; the code       *)
(* resets it before each callback and reads it only after one.              *)

\* ++tcp_timer_ctr
Tick == lag' = [p \in Pcb |-> IF p \in active \/ st[p] = "CLOSED"
                              THEN (lag[p] + 1) % CtrMod ELSE 0]

StartWalk(a) ==
  /\ Tick
  /\ changed' = FALSE
  /\ stack' = <<Rec(a, NoPcb, NoSeg, active)>>
  /\ UNCHANGED <<st, active, tw, conn, ref, fault>>

\* A callback changed the list: the walk starts again at its head.
Restart ==
  /\ At("fast") \/ At("slow")
  /\ changed
  /\ changed' = FALSE
  /\ stack' = [stack EXCEPT ![Len(stack)].rest = active]
  /\ UNCHANGED <<st, active, tw, conn, lag, ref, fault>>

\* The activation record of a walk that goes on behind p.
Past(p) == [Top EXCEPT !.rest = @ \ {p}]

FastTmr == stack = <<>> /\ StartWalk("fast")

\* A pcb whose last_timer is the current count is not passed, ever: the step to
\* the next pcb is inside the if.
FastVisit(p) ==
  /\ At("fast") /\ ~changed
  /\ p \in Top.rest
  /\ IF p \notin active THEN UseFreed
     ELSE IF lag[p] = 0
     THEN /\ Goto("spin")
          /\ UNCHANGED <<st, active, tw, conn, lag, changed, ref, fault>>
     ELSE /\ lag' = [lag EXCEPT ![p] = 0]
          /\ \E f \in AfterOutput(p) : fin' = [fin EXCEPT ![p] = f]
          /\ refused' = [refused EXCEPT ![p] = "none"]
          /\ Return(<<Past(p)>> \o
               IF refused[p] = "none" THEN <<>>
               ELSE <<Rec("rrecv", p, Kept(p), {})>>)
          /\ UNCHANGED <<st, active, tw, rx, unread, changed, ref, fault>>

FastEnd ==
  /\ At("fast") /\ ~changed
  /\ Top.rest = {}
  /\ \/ /\ Return(<<>>)
        /\ UNCHANGED <<st, active, tw, conn, lag, changed, ref, fault>>
     \/ StartWalk("slow")

\* Whether tcp_slowtmr may give p up: too many retransmissions, or too long in
\* FIN_WAIT_2, SYN_RCVD, LAST_ACK or idle.  In FIN_WAIT_2 only a FIN that was
\* held back can be waiting for an ACK.
MayExpire(p) == st[p] = "FIN_WAIT_2" => FinMayWait \/ p \in rx

SlowVisit(p) ==
  /\ At("slow") /\ ~changed
  /\ p \in Top.rest
  /\ IF p \notin active THEN UseFreed
     ELSE IF lag[p] = 0
     THEN /\ Return(<<Past(p)>>)
          /\ UNCHANGED <<st, active, tw, conn, lag, changed, ref, fault>>
     ELSE \/ /\ MayExpire(p)
             /\ Release(p)
             /\ active' = active \ {p}
             /\ ref' = ref \ {p}
             /\ Return(<<Past(p)>> \o ErrCall(p))
             /\ UNCHANGED <<tw, changed, fault>>
          \/ /\ lag' = [lag EXCEPT ![p] = 0]
             /\ \E f \in AfterOutput(p) : fin' = [fin EXCEPT ![p] = f]
             /\ \E poll \in BOOLEAN :
                  Return(<<Past(p)>> \o IF poll /\ st[p] /= "SYN_RCVD"
                                        THEN <<Call("poll", p)>> ELSE <<>>)
             /\ UNCHANGED <<st, active, tw, rx, unread, refused, changed, ref, fault>>

\* The walk over tcp_tw_pcbs removes those that have waited 2 MSL.
SlowEnd ==
  /\ At("slow") /\ ~changed
  /\ Top.rest = {}
  /\ \E old \in SUBSET tw :
       /\ tw' = tw \ old
       /\ st' = [p \in Pcb |-> IF p \in old THEN "FREE" ELSE st[p]]
       /\ rx' = rx \ old
       /\ unread' = [p \in Pcb |-> IF p \in old THEN 0 ELSE unread[p]]
       /\ refused' = [p \in Pcb |-> IF p \in old THEN "none" ELSE refused[p]]
       /\ fin' = [p \in Pcb |-> IF p \in old THEN "none" ELSE fin[p]]
       /\ lag' = [p \in Pcb |-> IF p \in old THEN 0 ELSE lag[p]]
  /\ Return(<<>>)
  /\ UNCHANGED <<active, changed, ref, fault>>

\* An endless loop goes on for ever.
Spin ==
  /\ At("spin")
  /\ UNCHANGED vars

-----------------------------------------------------------------------------
(* A callback returns r, ERR_OK, ERR_ABRT or another error, to the function *)
(* that waits for it.                                                       *)

\* That function goes on at a: it uses the pcb again.
Continue(a) ==
  IF Top.dead THEN Return(<<>>) /\ fault' = TRUE
              ELSE Goto(a) /\ UNCHANGED fault

Leave(r, a) ==
  IF r = "ABRT" THEN Return(<<>>) /\ UNCHANGED fault ELSE Continue(a)

\* TCP_EVENT_ERR: tcp_input still has to remove the pcb.
ErrReturns ==
  /\ At("err")
  /\ Return(<<>>)
  /\ fault' = (fault \/ (Caller = "drop" /\ Below[Len(Below)].dead))
  /\ UNCHANGED <<st, active, tw, conn, lag, changed, ref>>

\* TCP_EVENT_POLL: tcp_output(prev) when the list is unchanged.
PollReturns(r) ==
  /\ At("poll")
  /\ Return(<<>>)
  /\ IF changed \/ r /= "OK"
       THEN UNCHANGED <<fin, fault>>
       ELSE /\ fault' = (fault \/ Top.dead)
            /\ \E f \in AfterOutput(Top.p) : fin' = [fin EXCEPT ![Top.p] = f]
  /\ UNCHANGED <<st, active, tw, rx, unread, refused, lag, changed, ref>>

\* TCP_EVENT_ACCEPT: the rest of tcp_process in SYN_RCVD.
AcceptReturns(r) ==
  /\ At("accept")
  /\ CASE r = "OK" /\ ~Top.dead ->
            /\ Receive(Top.p, Top.seg)
            /\ ToState(Top.p, IF Got(Top.p, Top.seg).fin THEN "CLOSE_WAIT" ELSE st[Top.p])
       [] r = "MEM" /\ ~Top.dead -> AbortOn(Top.p, Below)
       [] r = "ABRT" \/ Top.dead ->
            /\ Leave(r, "d.sent")
            /\ UNCHANGED <<st, active, tw, conn, lag, changed, ref>>

ConnectedReturns(r) ==
  /\ At("connected")
  /\ Leave(r, "d.out")
  /\ UNCHANGED <<st, active, tw, conn, lag, changed, ref>>

SentReturns(r) ==
  /\ At("sent")
  /\ Leave(r, "d.recv")
  /\ UNCHANGED <<st, active, tw, conn, lag, changed, ref>>

\* Any other error: the data is kept in pcb->refused_data.
RecvReturns(r) ==
  /\ At("recv")
  /\ Leave(r, "d.fin")
  /\ refused' = [refused EXCEPT ![Top.p] = IF r = "MEM" /\ ~Top.dead THEN "data" ELSE @]
  /\ UNCHANGED <<st, active, tw, rx, unread, fin, lag, changed, ref>>

EofReturns(r) ==
  /\ At("eof")
  /\ Leave(r, "d.out")
  /\ UNCHANGED <<st, active, tw, conn, lag, changed, ref>>

\* tcp_process_refused_data returns: ERR_ABRT ends tcp_input too, which
\* otherwise looks at pcb->refused_data again; tcp_fasttmr does not.
Redelivered(r) ==
  IF Caller = "process" /\ (r = "ABRT" \/ Top.dead)
    THEN /\ stack' = SubSeq(Below, 1, Len(Below) - 1)
         /\ fault' = (fault \/ r /= "ABRT")
    ELSE /\ Return(<<>>)
         /\ UNCHANGED fault

RrecvReturns(r) ==
  /\ At("rrecv")
  /\ IF r = "OK" /\ Top.seg.fin
       THEN /\ Continue("reof")
            /\ unread' = IF Top.dead THEN unread ELSE FinRead(Top.p)
            /\ UNCHANGED refused
       ELSE /\ Redelivered(r)
            /\ refused' = [refused EXCEPT ![Top.p] =
                             IF r /= "MEM" \/ Top.dead THEN @
                             ELSE IF Top.seg.fin THEN "dataFin" ELSE "data"]
            /\ UNCHANGED unread
  /\ UNCHANGED <<st, active, tw, rx, fin, lag, changed, ref>>

ReofReturns(r) ==
  /\ At("reof")
  /\ Redelivered(r)
  /\ UNCHANGED <<st, active, tw, conn, lag, changed, ref>>

Returns(r) ==
  \/ ErrReturns
  \/ PollReturns(r)
  \/ AcceptReturns(r)
  \/ ConnectedReturns(r)
  \/ SentReturns(r)
  \/ RecvReturns(r)
  \/ EofReturns(r)
  \/ RrecvReturns(r)
  \/ ReofReturns(r)

-----------------------------------------------------------------------------
(* What the application may call, when InApp holds. *)

\* tcp_output from the application: postponed while tcp_input handles p.
InInput(p) ==
  \E i \in DOMAIN stack :
    stack[i].p = p /\ stack[i].at \in {"accept", "connected", "sent", "recv", "eof"}
Output(p) == IF InInput(p) THEN {fin[p]} ELSE AfterOutput(p)

NotAllRead(p) == refused[p] /= "none" \/ unread[p] > 0

\* tcp_new
New ==
  /\ stack' = Append(stack, Call("alloc", NoPcb))
  /\ UNCHANGED <<st, active, tw, conn, lag, changed, ref, fault>>

\* Mutant: TCP_REG instead of TCP_REG_ACTIVE.
Connect_Unmarked(p) ==
  /\ st[p] = "CLOSED"
  /\ st' = [st EXCEPT ![p] = "SYN_SENT"]
  /\ active' = active \cup {p}
  /\ UNCHANGED <<tw, conn, lag, changed, stack, ref, fault>>

\* tcp_connect, when the SYN can be queued.
Connect(p) ==
  /\ st[p] = "CLOSED"
  /\ st' = [st EXCEPT ![p] = "SYN_SENT"]
  /\ active' = active \cup {p}
  /\ changed' = TRUE
  /\ UNCHANGED <<tw, conn, lag, stack, ref, fault>>

\* tcp_send_fin: the FIN is queued and, if the window lets it, sent.
SendFin(p) ==
  /\ st' = [st EXCEPT ![p] = IF @ = "CLOSE_WAIT" THEN "LAST_ACK" ELSE "FIN_WAIT_1"]
  /\ \E f \in IF InInput(p) THEN {"unsent"}
               ELSE IF FinMayWait THEN {"unsent", "sent"} ELSE {"sent"} :
       fin' = [fin EXCEPT ![p] = f]

CanSendFin == {"SYN_RCVD", "ESTABLISHED", "CLOSE_WAIT"}

\* The RST branch of tcp_close_shutdown.
CloseUnread(p) ==
  /\ IF st[p] = "ESTABLISHED"
       THEN /\ ToTimeWait(p)
            /\ rx' = rx \cup {p}
            /\ UNCHANGED <<unread, fin, lag, stack>>
       ELSE /\ Release(p)
            /\ active' = active \ {p}
            /\ changed' = TRUE
            /\ stack' = Freed(stack, p)
            /\ UNCHANGED tw
  /\ ref' = ref \ {p}
  /\ UNCHANGED fault

\* Mutant: a pcb in SYN_SENT is left to the timers.
Close_SynSentStays(p) ==
  \/ /\ st[p] \in {"ESTABLISHED", "CLOSE_WAIT"} /\ NotAllRead(p)
     /\ CloseUnread(p)
  \/ /\ st[p] /= "FREE"
     /\ st[p] \in {"ESTABLISHED", "CLOSE_WAIT"} => ~NotAllRead(p)
     /\ rx' = rx \cup {p}
     /\ ref' = ref \ {p}
     /\ IF st[p] \in CanSendFin THEN SendFin(p) ELSE UNCHANGED <<st, fin>>
     /\ UNCHANGED <<active, tw, unread, refused, lag, changed, stack, fault>>

\* tcp_close: the application forgets p unless an error is returned.
Close(p) ==
  \/ /\ st[p] \in {"ESTABLISHED", "CLOSE_WAIT"} /\ NotAllRead(p)
     /\ CloseUnread(p)
  \/ /\ st[p] \in {"CLOSED", "SYN_SENT"}
     /\ Release(p)
     /\ active' = active \ {p}
     /\ changed' = IF st[p] = "SYN_SENT" THEN TRUE ELSE changed
     /\ stack' = Freed(stack, p)
     /\ ref' = ref \ {p}
     /\ UNCHANGED <<tw, fault>>
  \/ /\ st[p] \in CanSendFin /\ ~NotAllRead(p)
     /\ rx' = rx \cup {p}
     /\ \/ SendFin(p) /\ ref' = ref \ {p}
        \/ UNCHANGED <<st, fin, ref>>
     /\ UNCHANGED <<active, tw, unread, refused, lag, changed, stack, fault>>
  \/ /\ st[p] \in State \ (CanSendFin \cup {"FREE", "CLOSED", "SYN_SENT"})
     /\ rx' = rx \cup {p}
     /\ ref' = ref \ {p}
     /\ UNCHANGED <<st, active, tw, unread, refused, fin, lag, changed, stack, fault>>

\* tcp_shutdown(p, 0, 1) and tcp_shutdown(p, 1, 0): the application keeps p until
\* both sides are shut down.
ShutTx(p) ==
  /\ st[p] \in CanSendFin
  /\ SendFin(p)
  /\ ref' = IF p \in rx THEN ref \ {p} ELSE ref
  /\ UNCHANGED <<active, tw, rx, unread, refused, lag, changed, stack, fault>>

ShutRx(p) ==
  /\ rx' = rx \cup {p}
  /\ refused' = [refused EXCEPT ![p] = "none"]
  /\ ref' = IF fin[p] /= "none" THEN ref \ {p} ELSE ref
  /\ UNCHANGED <<st, active, tw, unread, fin, lag, changed, stack, fault>>

\* tcp_recved for one segment.
Recved(p) ==
  /\ unread[p] > 0
  /\ unread' = [unread EXCEPT ![p] = @ - 1]
  /\ \E f \in {fin[p]} \cup Output(p) : fin' = [fin EXCEPT ![p] = f]
  /\ UNCHANGED <<st, active, tw, rx, refused, lag, changed, stack, ref, fault>>

\* tcp_abort: a callback for p in progress has to return ERR_ABRT.
Abort(p) ==
  AbortOn(p, [i \in DOMAIN stack |->
               [stack[i] EXCEPT !.ab = @ \/ (stack[i].at \in Callback /\ stack[i].p = p)]])

-----------------------------------------------------------------------------

Input ==
  \/ \E p \in Pcb, s \in Seg : TcpInput(p, s)
  \/ DropRefused
  \/ ProcessRst
  \/ ProcessIgnored
  \/ ProcessSynSent
  \/ ProcessSynRcvd
  \/ ProcessEstablished
  \/ ProcessFinWait1
  \/ ProcessFinWait2
  \/ ProcessClosing
  \/ ProcessLastAck
  \/ Drop
  \/ DeliverSent
  \/ DeliverRecv
  \/ DeliverFin
  \/ DeliverDone
  \/ ListenInput

Alloc ==
  \/ \E p \in Pcb : AllocOk(p)
  \/ \E p \in Pcb : AllocKillTimeWait(p)
  \/ \E p \in Pcb : AllocKillActive(p)
  \/ AllocFails

Timer ==
  \/ FastTmr
  \/ \E p \in Pcb : FastVisit(p)
  \/ FastEnd
  \/ \E p \in Pcb : SlowVisit(p)
  \/ SlowEnd
  \/ Restart
  \/ Spin

Stack == Input \/ Alloc \/ Timer
=============================================================================
