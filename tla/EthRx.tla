-------------------------------- MODULE EthRx --------------------------------
(***************************************************************************)
(* The receive half of the Ethernet port: the ring of receive descriptors  *)
(* shared by the MAC's DMA engine and the CPU, and the interrupt handler   *)
(* that drains it into the stack (lan8720.c, ethernetif.c, and the chain   *)
(* initialisation and status helpers of stm32f4x7_eth.c).                  *)
(*                                                                         *)
(* Two agents run concurrently.  The DMA engine writes arriving frames     *)
(* into descriptors whose OWN bit is set and hands them to the CPU.  The   *)
(* CPU runs ETH_IRQHandler; every access of it to a register or a          *)
(* descriptor the DMA can change is a step of its own (but for the error   *)
(* branch of RxPacket, which the handler never reaches).                   *)
(*                                                                         *)
(* The DMA engine is hardware, modelled from how the driver uses it.  A    *)
(* suspended engine resumes for certain on a poll demand (DMARPDR), and    *)
(* may also resume by itself when the next frame arrives.                  *)
(***************************************************************************)
EXTENDS Integers, FiniteSets

CONSTANTS
  N,           \* ETH_RXBUFNB, the number of receive descriptors
  GoodFrame,   \* frames stored in one descriptor without error (FS, LS, no ES)
  BadFrame,    \* frames whose descriptor reports an error (ES)
  NoFrame,     \* an empty buffer, a NULL pbuf
  NoDesc,      \* a NULL descriptor pointer
  TailFrames   \* how many frames can complete between the handler's last look
               \* at the ring and its last store to DMASR

ASSUME NAssumption == N \in Nat \ {0}
ASSUME FrameAssumption ==
  /\ GoodFrame \cap BadFrame = {}
  /\ NoFrame \notin GoodFrame \cup BadFrame
ASSUME DescAssumption == NoDesc \notin 0 .. N-1
ASSUME TailAssumption == TailFrames \in Nat

Desc == 0 .. N-1
Frame == GoodFrame \cup BadFrame

VARIABLES
  own,      \* own[d]: who the OWN bit of descriptor d gives it to
  buf,      \* buf[d]: the frame in the buffer of d, with its status bits
  rxDesc,   \* the descriptor the DMA engine uses next
  rxState,  \* the receive process of the DMA engine
  rbus,     \* DMASR.RBUS, receive buffer unavailable
  rs,       \* DMASR.RS, a frame was received
  nis,      \* DMASR.NIS, the summary bit that raises the interrupt
  get,      \* DMARxDescToGet
  pc,       \* where ETH_IRQHandler is
  desc,     \* frame.descriptor, the result of ETH_Rx_Packet
  pbuf,     \* p, the pbuf low_level_input fills
  tail      \* frames completed since the handler's last look at the ring

dmaVars == <<rxDesc, rxState>>
cpuVars == <<get, pc, desc, pbuf>>
vars == <<own, buf, rxDesc, rxState, rbus, rs, nis, get, pc, desc, pbuf, tail>>

\* Mutant: the last descriptor is not chained to the first.
NextDesc_NoWrap(d) == d + 1

\* Buffer2NextDescAddr: each descriptor names the next, the last the first.
NextDesc(d) == IF d < N - 1 THEN d + 1 ELSE 0

PC == {"idle", "check", "packet", "copy", "own", "resume", "clearB", "poll",
       "input", "clearR", "clearN", "fault"}

\* The state ETH_DMARxDescChainInit and ETH_Start leave: every descriptor is
\* the DMA's and both sides start at the first one.
Init ==
  /\ own = [d \in Desc |-> "DMA"]
  /\ buf = [d \in Desc |-> NoFrame]
  /\ rxDesc = 0
  /\ rxState = "run"
  /\ rbus = FALSE
  /\ rs = FALSE
  /\ nis = FALSE
  /\ get = 0
  /\ pc = "idle"
  /\ desc = NoDesc
  /\ pbuf = NoFrame
  /\ tail = 0

-----------------------------------------------------------------------------
(* The DMA engine. *)

InTail == pc \in {"clearR", "clearN"}

\* A frame arrives, is written to the engine's descriptor and given to the
\* CPU; the status bits raise the interrupt.
DmaReceive(f) ==
  /\ rxState \in {"run", "suspended"}
  /\ own[rxDesc] = "DMA"
  /\ InTail => tail < TailFrames
  /\ buf' = [buf EXCEPT ![rxDesc] = f]
  /\ own' = [own EXCEPT ![rxDesc] = "CPU"]
  /\ rxDesc' = NextDesc(rxDesc)
  /\ rxState' = "fetch"
  /\ rs' = TRUE
  /\ nis' = TRUE
  /\ tail' = IF InTail THEN tail + 1 ELSE tail
  /\ UNCHANGED <<rbus, cpuVars>>

\* The engine reads the OWN bit of its next descriptor, and suspends when the
\* CPU still holds it.
DmaFetch ==
  /\ rxState = "fetch"
  /\ IF own[rxDesc] = "DMA"
       THEN /\ rxState' = "run"
            /\ UNCHANGED rbus
       ELSE /\ rxState' = "suspended"
            /\ rbus' = TRUE
  /\ UNCHANGED <<own, buf, rxDesc, rs, nis, cpuVars, tail>>

-----------------------------------------------------------------------------
(* ETH_IRQHandler. *)

Enter ==
  /\ pc = "idle"
  /\ rs /\ nis
  /\ pc' = "check"
  /\ UNCHANGED <<own, buf, dmaVars, rbus, rs, nis, get, desc, pbuf, tail>>

\* ETH_GetRxPktSize(DMARxDescToGet) /= 0
PacketReady == own[get] = "CPU" /\ buf[get] \in GoodFrame

\* Mutant: the ring is drained with do ... while.
Check_DoWhile ==
  /\ pc = "check"
  /\ pc' = "packet"
  /\ tail' = 0
  /\ UNCHANGED <<own, buf, dmaVars, rbus, rs, nis, get, desc, pbuf>>

\* while (ETH_GetRxPktSize(DMARxDescToGet) != 0)
Check ==
  /\ pc = "check"
  /\ pc' = IF PacketReady THEN "packet" ELSE "clearR"
  /\ tail' = 0
  /\ UNCHANGED <<own, buf, dmaVars, rbus, rs, nis, get, desc, pbuf>>

\* Mutant: the descriptor is released as soon as it is taken.
RxPacket_EarlyRelease ==
  /\ pc = "packet"
  /\ own[get] = "CPU"
  /\ pc' = "copy"
  /\ desc' = get
  /\ own' = [own EXCEPT ![get] = "DMA"]
  /\ get' = NextDesc(get)
  /\ UNCHANGED <<buf, dmaVars, rbus, rs, nis, pbuf, tail>>

\* ETH_Rx_Packet: a descriptor still owned by the DMA yields a frame without
\* descriptor and restarts a suspended engine; any other is taken.
RxPacket ==
  /\ pc = "packet"
  /\ pc' = "copy"
  /\ IF own[get] = "DMA"
       THEN /\ desc' = NoDesc
            /\ rbus' = FALSE
            /\ rxState' = IF rbus /\ rxState = "suspended" THEN "fetch" ELSE rxState
            /\ UNCHANGED get
       ELSE /\ desc' = get
            /\ get' = NextDesc(get)
            /\ UNCHANGED <<rbus, rxState>>
  /\ UNCHANGED <<own, buf, rxDesc, rs, nis, pbuf, tail>>

\* The frame as low_level_input sees it: length 0 without a good descriptor.
FrameAt(d) == IF d /= NoDesc /\ buf[d] \in GoodFrame THEN buf[d] ELSE NoFrame

\* pbuf_alloc and memcpy; the allocation fails when the pool is empty.
Copy ==
  /\ pc = "copy"
  /\ pbuf' \in {FrameAt(desc), NoFrame}
  /\ pc' = "own"
  /\ UNCHANGED <<own, buf, dmaVars, rbus, rs, nis, get, desc, tail>>

\* Mutant: DMARxDescToGet is released, which ETH_Rx_Packet has moved on.
GiveBack_WrongDescriptor ==
  /\ pc = "own"
  /\ pc' = "resume"
  /\ own' = [own EXCEPT ![get] = "DMA"]
  /\ UNCHANGED <<buf, dmaVars, rbus, rs, nis, get, desc, pbuf, tail>>

\* Mutant: low_level_input does not look at RBUS.
GiveBack_NoResume ==
  /\ pc = "own"
  /\ pc' = "input"
  /\ own' = [own EXCEPT ![desc] = "DMA"]
  /\ UNCHANGED <<buf, dmaVars, rbus, rs, nis, get, desc, pbuf, tail>>

\* frame.descriptor->Status = ETH_DMARxDesc_OWN, through whatever pointer
\* ETH_Rx_Packet returned.
GiveBack ==
  /\ pc = "own"
  /\ IF desc = NoDesc
       THEN pc' = "fault" /\ UNCHANGED own
       ELSE pc' = "resume" /\ own' = [own EXCEPT ![desc] = "DMA"]
  /\ UNCHANGED <<buf, dmaVars, rbus, rs, nis, get, desc, pbuf, tail>>

\* if ((ETH->DMASR & ETH_DMASR_RBUS) != RESET): the three accesses to the DMA.
TestRbus ==
  /\ pc = "resume"
  /\ pc' = IF rbus THEN "clearB" ELSE "input"
  /\ UNCHANGED <<own, buf, dmaVars, rbus, rs, nis, get, desc, pbuf, tail>>

ClearRbus ==
  /\ pc = "clearB"
  /\ rbus' = FALSE
  /\ pc' = "poll"
  /\ UNCHANGED <<own, buf, dmaVars, rs, nis, get, desc, pbuf, tail>>

\* ETH->DMARPDR = 0: a suspended engine reads its descriptor again.
Poll ==
  /\ pc = "poll"
  /\ rxState' = IF rxState = "suspended" THEN "fetch" ELSE rxState
  /\ pc' = "input"
  /\ UNCHANGED <<own, buf, rxDesc, rbus, rs, nis, get, desc, pbuf, tail>>

\* Mutant: one frame per interrupt.
Input_Once ==
  /\ pc = "input"
  /\ pbuf' = NoFrame
  /\ pc' = "clearR"
  /\ UNCHANGED <<own, buf, dmaVars, rbus, rs, nis, get, desc, tail>>

\* ethernetif_input: netif->input consumes the pbuf, or pbuf_free does.
Input ==
  /\ pc = "input"
  /\ pbuf' = NoFrame
  /\ pc' = "check"
  /\ UNCHANGED <<own, buf, dmaVars, rbus, rs, nis, get, desc, tail>>

ClearR ==
  /\ pc = "clearR"
  /\ rs' = FALSE
  /\ pc' = "clearN"
  /\ UNCHANGED <<own, buf, dmaVars, rbus, nis, get, desc, pbuf, tail>>

ClearN ==
  /\ pc = "clearN"
  /\ nis' = FALSE
  /\ pc' = "idle"
  /\ tail' = 0
  /\ UNCHANGED <<own, buf, dmaVars, rbus, rs, get, desc, pbuf>>

-----------------------------------------------------------------------------

Dma == DmaFetch \/ \E f \in Frame : DmaReceive(f)

Handler ==
  \/ Enter
  \/ Check
  \/ RxPacket
  \/ Copy
  \/ GiveBack
  \/ TestRbus
  \/ ClearRbus
  \/ Poll
  \/ Input
  \/ ClearR
  \/ ClearN

Next == Dma \/ Handler

Spec == Init /\ [][Next]_vars

\* The engine keeps fetching descriptors, the NVIC delivers a raised interrupt
\* and the handler runs to its end.  Nothing makes frames arrive.
FairSpec == Spec /\ WF_vars(DmaFetch) /\ WF_vars(Handler)

-----------------------------------------------------------------------------
(* Properties. *)

TypeOK ==
  /\ own \in [Desc -> {"DMA", "CPU"}]
  /\ buf \in [Desc -> Frame \cup {NoFrame}]
  /\ rxDesc \in Desc
  /\ rxState \in {"run", "fetch", "suspended"}
  /\ rbus \in BOOLEAN /\ rs \in BOOLEAN /\ nis \in BOOLEAN
  /\ get \in Desc
  /\ pc \in PC
  /\ desc \in Desc \cup {NoDesc}
  /\ pbuf \in Frame \cup {NoFrame}
  /\ tail \in 0 .. TailFrames

\* low_level_input never writes through the NULL descriptor ETH_Rx_Packet
\* returns for a frame that is not there: no interleaving of the DMA engine
\* with the handler's two looks at the descriptor makes them disagree.
NoNullDescriptor == pc /= "fault"

\* The descriptors from a up to, and without, b, going round the ring.
Between(a, b) == IF a <= b THEN {d \in Desc : a <= d /\ d < b}
                           ELSE {d \in Desc : a <= d \/ d < b}

\* The oldest descriptor that is the CPU's, when any is.
Oldest == IF pc \in {"copy", "own"} THEN desc ELSE get

\* The CPU's descriptors are exactly those from the oldest one up to the
\* engine's: what the handler takes next is what arrived first, and the engine
\* never writes a buffer the handler is copying (ETH_Rx_Packet advances
\* DMARxDescToGet before low_level_input returns the descriptor).
CpuInterval ==
  IF Oldest = rxDesc
    THEN \A d, e \in Desc : own[d] = own[e]
    ELSE \A d \in Desc : own[d] = "CPU" <=> d \in Between(Oldest, rxDesc)

\* The engine is never left suspended on a descriptor it owns, except while
\* low_level_input is on its way to the poll demand: giving the descriptor back
\* before testing RBUS is what makes this true.
NoLostResume ==
  rxState = "suspended" =>
    own[rxDesc] = "CPU" \/ pc \in {"resume", "clearB", "poll"}

\* The frames accepted and not yet copied, oldest first.
First == IF pc = "copy" THEN desc ELSE get
Waiting == Cardinality({d \in Desc : own[d] = "CPU"}) - (IF pc = "own" THEN 1 ELSE 0)

Content == [k \in 1 .. Waiting |-> buf[(First + k - 1) % N]]

Channel == INSTANCE RxChannel WITH Capacity <- N, ring <- Content

\* The ring of descriptors and the handler implement the bounded channel of
\* RxChannel: every frame reaches the stack in order, whole and at most once.
ImplementsChannel == Channel!Spec

\* Without errors, every frame that is in the ring when an interrupt is pending
\* is eventually copied out of it and its descriptor given back, whether or not
\* another frame arrives (ETH_IRQHandler goes on until the ring is empty).
InterruptDrains ==
  [](\A d \in Desc : buf[d] \notin BadFrame) =>
    \A d \in Desc : pc = "idle" /\ rs /\ nis /\ own[d] = "CPU" ~> own[d] = "DMA"

\* "When a packet is ready to be read from the interface, this function should
\* be called" (ethernetif.c:209): a frame given to the CPU is eventually taken,
\* whether or not another one arrives.
EveryFrameHandled == \A d \in Desc : own[d] = "CPU" ~> own[d] = "DMA"
=============================================================================
