------------------------------ MODULE RxChannel ------------------------------
(***************************************************************************)
(* What the Ethernet receive path promises to the TCP/IP stack: a bounded  *)
(* first-in first-out channel.  A frame the MAC accepts is handed to the   *)
(* stack after every frame accepted before it, unchanged and at most once, *)
(* or it is lost as a whole because no pbuf could be allocated for it.     *)
(* EthRx implements this specification with a ring of DMA descriptors.     *)
(***************************************************************************)
EXTENDS Naturals, Sequences

CONSTANTS
  Frame,      \* the frames the channel can carry
  NoFrame,    \* no frame in the driver's hands
  Capacity    \* how many accepted frames can wait

VARIABLES
  ring,       \* the accepted frames, oldest first
  pbuf        \* the frame being handed to the stack, or NoFrame

vars == <<ring, pbuf>>

Init ==
  /\ ring = <<>>
  /\ pbuf = NoFrame

\* The MAC accepts a frame: it joins the end of the channel.
Accept(f) ==
  /\ Len(ring) < Capacity
  /\ ring' = Append(ring, f)
  /\ UNCHANGED pbuf

\* The driver takes the oldest frame; it may be lost for want of memory.
Take ==
  /\ ring /= <<>>
  /\ pbuf = NoFrame
  /\ pbuf' \in {Head(ring), NoFrame}
  /\ ring' = Tail(ring)

\* The stack consumes the frame the driver holds.
Consume ==
  /\ pbuf /= NoFrame
  /\ pbuf' = NoFrame
  /\ UNCHANGED ring

Next ==
  \/ \E f \in Frame : Accept(f)
  \/ Take
  \/ Consume

Spec == Init /\ [][Next]_vars
=============================================================================
