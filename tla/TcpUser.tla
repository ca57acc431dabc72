------------------------------- MODULE TcpUser -------------------------------
(***************************************************************************)
(* The TCP stack of TcpPcb with an application written to the rules of     *)
(* doc/rawapi.txt: it uses only pcbs it holds a pointer to, forgets a pcb  *)
(* when tcp_close succeeds or its err callback is called, returns ERR_ABRT *)
(* from a callback if and only if it called tcp_abort in it, and lets go   *)
(* of a connection when the remote end has closed it.  What it does beyond *)
(* that is up to MainOps and CallbackOps.                                  *)
(***************************************************************************)
EXTENDS TcpPcb

CONSTANTS
  MainOps,      \* what the application does in its main loop
  CallbackOps   \* what it does inside callbacks

Ops == {"new", "connect", "close", "abort", "shutTx", "shutRx", "recved",
        "closeUnread",    \* tcp_close with unread data after the remote FIN
        "closeRefused",   \* tcp_close when data refused before is delivered
        "closeAccept",    \* tcp_close inside the accept callback
        "refuse",         \* the recv callback returns an error
        "refuseLate"}     \* ... after tcp_shutdown of the send side

ASSUME OpsAssumption == MainOps \subseteq Ops /\ CallbackOps \subseteq Ops

Does(op) == InApp /\ op \in (IF stack = <<>> THEN MainOps ELSE CallbackOps)

\* Segments the stack has counted as received that the application has not
\* been given yet, so that it cannot have read them.
Withheld(p) ==
  LET mine == {i \in DOMAIN stack : stack[i].p = p /\ stack[i].at \in {"sent", "recv", "rrecv"}}
      held == IF refused[p] = "none" THEN 0 ELSE IF refused[p] = "data" THEN 1 ELSE 2
  IN  IF mine = {} THEN held
      ELSE LET f == stack[CHOOSE i \in mine : TRUE]
           IN  IF f.at = "sent" THEN SegLen(f.seg) + held ELSE SegLen([f.seg EXCEPT !.data = FALSE])

\* A callback for p at a is in progress.
During(a, p) == \E i \in DOMAIN stack : stack[i].at \in a /\ stack[i].p = p

\* The restraint the stack needs of an application that closes in callbacks.
MayClose(p) ==
  /\ During(Callback \ {"poll"}, p) /\ st[p] = "CLOSE_WAIT" /\ NotAllRead(p)
       => "closeUnread" \in CallbackOps
  /\ During({"rrecv"}, p) /\ NotAllRead(p) => "closeRefused" \in CallbackOps
  /\ During({"accept"}, p) => "closeAccept" \in CallbackOps

UserNew == Does("new") /\ New
UserConnect(p) == Does("connect") /\ Connect(p)
UserClose(p) == Does("close") /\ MayClose(p) /\ Close(p)
UserAbort(p) == Does("abort") /\ Abort(p)
UserShutTx(p) == Does("shutTx") /\ ~During({"accept"}, p) /\ ShutTx(p)
UserShutRx(p) == Does("shutRx") /\ p \notin rx /\ ShutRx(p)
UserRecved(p) == Does("recved") /\ unread[p] > Withheld(p) /\ Recved(p)

\* The results a callback may return.
MayRefuse ==
  /\ Top.p \in ref
  /\ \/ At("accept")
     \/ /\ At("recv") \/ At("rrecv")
        /\ unread[Top.p] > Withheld(Top.p)
        /\ "refuseLate" \in CallbackOps \/ st[Top.p] \in {"ESTABLISHED", "CLOSE_WAIT"}
Results ==
  IF Top.ab THEN {"ABRT"}
  ELSE {"OK"} \cup (IF Does("refuse") /\ MayRefuse THEN {"MEM"} ELSE {})

\* The end of the connection is not ignored.
MayReturn == Top.at \in {"eof", "reof"} => Top.p \notin ref

UserReturns ==
  /\ InApp /\ stack /= <<>>
  /\ MayReturn
  /\ \E r \in Results : Returns(r)

User ==
  \/ UserNew
  \/ \E p \in ref : UserConnect(p)
  \/ \E p \in ref : UserClose(p)
  \/ \E p \in ref : UserAbort(p)
  \/ \E p \in ref : UserShutTx(p)
  \/ \E p \in ref : UserShutRx(p)
  \/ \E p \in ref : UserRecved(p)
  \/ UserReturns

Next == Stack \/ User

Spec == Init /\ [][Next]_vars

-----------------------------------------------------------------------------
(* Properties. *)

TypeOK ==
  /\ st \in [Pcb -> State]
  /\ active \in SUBSET Pcb /\ tw \in SUBSET Pcb /\ rx \in SUBSET Pcb
  /\ unread \in [Pcb -> 0 .. Window]
  /\ refused \in [Pcb -> {"none", "data", "dataFin"}]
  /\ fin \in [Pcb -> {"none", "unsent", "sent"}]
  /\ lag \in [Pcb -> 0 .. CtrMod - 1]
  /\ changed \in BOOLEAN
  /\ stack \in Seq(Frame)
  /\ ref \in SUBSET Pcb
  /\ fault \in BOOLEAN

\* A pcb is on tcp_active_pcbs or tcp_tw_pcbs exactly when its state says so,
\* whatever callbacks did to it while tcp_process moved it.
ListsAgree ==
  /\ TypeOK
  /\ active = {p \in Pcb : st[p] \in ActiveState}
  /\ tw = {p \in Pcb : st[p] = "TIME_WAIT"}

\* No function of the stack uses a pcb again that a callback made it free, and
\* no pcb is freed twice: this is what ERR_ABRT and tcp_active_pcbs_changed are
\* for.
NoUseAfterFree == ~fault

\* Every pcb the application can still use is allocated: what the stack frees
\* by itself, it announces with the err callback.
NoDanglingRef == \A p \in ref : st[p] /= "FREE"

\* No connection is left to nobody: a synchronised one that the application
\* has not closed is one it holds.
NoOrphan ==
  \A p \in Pcb : st[p] \in {"ESTABLISHED", "CLOSE_WAIT"} =>
    p \in ref \/ \E i \in DOMAIN stack : stack[i].p = p

\* Refused data waits only on a pcb the timers or the input will look at again.
RefusedOnActive == \A p \in Pcb : refused[p] /= "none" => p \in active

\* When a walk of the timers over tcp_active_pcbs ends, every pcb on the list has
\* been processed in this tick, whatever callbacks added and removed on the way
\* (tcp_active_pcbs_changed restarts the walk, last_timer skips what is done).
EveryPcbTicked ==
  (At("fast") \/ At("slow")) /\ Top.rest = {} /\ ~changed =>
    \A p \in active : lag[p] = 0

\* "skip this pcb, we have already processed it" (tcp.c:774), after "restart the
\* loop" (tcp.c:1034): tcp_fasttmr passes the pcbs it has processed and ends.
NoSpin == ~At("spin")

\* "tcp_slowtmr: TIME-WAIT pcb->state == TIME-WAIT" (tcp.c:966), of every pcb on
\* tcp_tw_pcbs when tcp_slowtmr gets to them.
SlowAssert == At("slow") => \A p \in tw : st[p] = "TIME_WAIT"

\* "unsent data is sent from tcp timer functions, also" (tcp.c:259): a connection
\* that was closed is not given up, with the FIN and the data before it unsent,
\* because everything sent so far has been acknowledged.
FinSentBeforeClosed ==
  At("drop") /\ Top.seg.k /= "rst" => fin[Top.p] /= "unsent"
=============================================================================
