-------------------------------- MODULE AppTcp --------------------------------
(***************************************************************************)
(* The TCP server of this program (ports/app_tcp.c) on the stack of        *)
(* TcpPcb: it listens, gives each connection a buffer from the heap,       *)
(* collects what arrives and, when the remote end closes, frees the buffer *)
(* and closes.  It never calls tcp_recved.                                 *)
(***************************************************************************)
EXTENDS TcpPcb

VARIABLES
  buffer,    \* buffer[p]: the heap block pcb->callback_arg points to, "used"
             \* or "freed", or a NULL pointer, "null" and then "gone"
  freeTwice  \* mem_free was called for a block that is not in use

appVars == <<buffer, freeTwice>>

AppInit == Init /\ buffer = [p \in Pcb |-> "none"] /\ freeTwice = FALSE

\* mem_free(arg): a NULL pointer is ignored.
MemFree(p) ==
  /\ buffer' = [buffer EXCEPT ![p] = CASE @ = "used" -> "freed" [] @ = "null" -> "gone" [] OTHER -> @]
  /\ freeTwice' = (freeTwice \/ buffer[p] = "freed")

\* app_tcp_accept: mem_calloc may return NULL.
AppAccept ==
  /\ AcceptReturns("OK")
  /\ \E b \in {"used", "null"} : buffer' = [buffer EXCEPT ![Top.p] = b]
  /\ UNCHANGED freeTwice

\* app_tcp_recv with a pbuf: the bytes are copied or dropped, the pbuf freed.
AppRecv ==
  /\ RecvReturns("OK")
  /\ UNCHANGED appVars

\* tcp_sent(pcb, NULL)
AppSent ==
  /\ SentReturns("OK")
  /\ UNCHANGED appVars

\* app_tcp_recv without a pbuf: mem_free, tcp_close, ERR_OK whatever happened.
AppClose ==
  /\ At("eof")
  /\ buffer[Top.p] \in {"used", "null"}
  /\ Close(Top.p)
  /\ MemFree(Top.p)

AppClosed ==
  /\ At("eof")
  /\ buffer[Top.p] \in {"freed", "gone"}
  /\ EofReturns("OK")
  /\ UNCHANGED appVars

\* app_tcp_poll, every 5 s: tcp_abort, then ERR_OK.
AppPoll ==
  /\ At("poll") /\ ~Top.dead
  /\ Abort(Top.p)
  /\ UNCHANGED appVars

AppPolled ==
  /\ At("poll") /\ Top.dead
  /\ PollReturns("OK")
  /\ UNCHANGED appVars

\* app_tcp_conn_err
AppErr ==
  /\ ErrReturns
  /\ MemFree(Top.p)

App ==
  \/ AppAccept
  \/ AppRecv
  \/ AppSent
  \/ AppClose
  \/ AppClosed
  \/ AppPoll
  \/ AppPolled
  \/ AppErr

AppNext == (Stack /\ UNCHANGED appVars) \/ App

AppSpec == AppInit /\ [][AppNext]_<<vars, appVars>>

-----------------------------------------------------------------------------
(* Properties. *)

\* "we must not deallocate the pcb since that might not be expected when
\* calling tcp_close" (tcp.c:179): a callback that calls tcp_close and returns
\* ERR_OK leaves tcp_input a pcb it can go on with.
ServerKeepsPcb == ~fault

\* "mem_free: mem->used" (mem.c:252): app_tcp.c frees a buffer of the heap
\* only while it is in use.
ServerFreesOnce == ~freeTwice
=============================================================================
