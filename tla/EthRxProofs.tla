----------------------------- MODULE EthRxProofs -----------------------------
(***************************************************************************)
(* Proofs about EthRx for every number of descriptors and every set of     *)
(* frames.  CpuInterval is not inductive alone: it needs to know that the  *)
(* descriptor the handler works on is the CPU's, and where the handler is  *)
(* when RBUS and the state of the engine disagree.                         *)
(***************************************************************************)
EXTENDS EthRx, FiniteSetTheorems, SequenceTheorems, TLAPS

\* The handler holds a descriptor of the CPU's: the one ETH_GetRxPktSize
\* tested, then the one ETH_Rx_Packet returned, just behind DMARxDescToGet.
HandlerOwns ==
  /\ pc = "packet" => own[get] = "CPU"
  /\ pc \in {"copy", "own"} => /\ desc \in Desc
                               /\ own[desc] = "CPU"
                               /\ get = NextDesc(desc)

\* The engine runs only on a descriptor of its own, and a suspension without
\* RBUS lasts until the poll demand that follows.
EngineState ==
  /\ rxState = "run" => own[rxDesc] = "DMA"
  /\ rxState = "suspended" /\ ~rbus => pc = "poll"

IInv ==
  /\ TypeOK
  /\ NoNullDescriptor
  /\ HandlerOwns
  /\ CpuInterval
  /\ EngineState
  /\ NoLostResume

\* The successor of a descriptor is a descriptor, so the chain is closed.
LEMMA NextDescType == ASSUME NEW d \in Desc PROVE NextDesc(d) \in Desc
  BY NAssumption DEF Desc, NextDesc

\* The state ETH_DMARxDescChainInit leaves satisfies the invariant.
LEMMA InitIInv == Init => IInv
<1> SUFFICES ASSUME Init PROVE IInv
  OBVIOUS
<1> USE NAssumption, TailAssumption DEF Init
<1>1. TypeOK
  <2>1. 0 \in Desc
    BY DEF Desc
  <2>2. tail \in 0 .. TailFrames
    OBVIOUS
  <2> QED BY <2>1, <2>2 DEF TypeOK, PC
<1>2. CpuInterval
  BY DEF CpuInterval, Oldest
<1>3. EngineState /\ NoLostResume /\ HandlerOwns /\ NoNullDescriptor
  BY DEF EngineState, NoLostResume, HandlerOwns, NoNullDescriptor, Desc
<1> QED BY <1>1, <1>2, <1>3 DEF IInv

\* Handing the engine's descriptor to the CPU extends the interval by one.
LEMMA IntervalExtend ==
  ASSUME NEW f \in Frame, IInv, DmaReceive(f)
  PROVE  CpuInterval'
<1> USE NAssumption DEF Desc
<1>1. Oldest' = Oldest /\ Oldest \in Desc /\ rxDesc \in Desc
  BY DEF IInv, TypeOK, HandlerOwns, DmaReceive, cpuVars, Oldest
<1>2. own' = [own EXCEPT ![rxDesc] = "CPU"] /\ rxDesc' = NextDesc(rxDesc)
      /\ own[rxDesc] = "DMA" /\ own \in [Desc -> {"DMA", "CPU"}]
  BY DEF DmaReceive, IInv, TypeOK
<1>3. CASE Oldest = rxDesc
  <2>1. \A d \in Desc : own[d] = "DMA"
    BY <1>2, <1>3 DEF CpuInterval, IInv, TypeOK
  <2> QED BY <1>1, <1>2, <1>3, <2>1 DEF CpuInterval, NextDesc, Between
<1>4. CASE Oldest /= rxDesc
  <2>1. \A d \in Desc : own[d] = "CPU" <=> d \in Between(Oldest, rxDesc)
    BY <1>4 DEF CpuInterval, IInv
  <2> QED BY <1>1, <1>2, <1>4, <2>1 DEF CpuInterval, NextDesc, Between
<1> QED BY <1>3, <1>4

\* Giving the oldest descriptor back shortens the interval by one.
LEMMA IntervalShrink ==
  ASSUME IInv, GiveBack
  PROVE  CpuInterval'
<1> USE NAssumption DEF Desc
<1>1. desc \in Desc /\ Oldest = desc /\ Oldest' = NextDesc(desc)
      /\ own[desc] = "CPU" /\ rxDesc \in Desc /\ rxDesc' = rxDesc
  BY DescAssumption DEF IInv, TypeOK, HandlerOwns, GiveBack, cpuVars, dmaVars, Oldest
<1>2. own' = [own EXCEPT ![desc] = "DMA"] /\ own \in [Desc -> {"DMA", "CPU"}]
  BY <1>1, DescAssumption DEF GiveBack, IInv, TypeOK
<1>3. CASE Oldest = rxDesc
  <2>1. \A d \in Desc : own[d] = "CPU"
    BY <1>1, <1>3 DEF CpuInterval, IInv, TypeOK
  <2> QED BY <1>1, <1>2, <1>3, <2>1 DEF CpuInterval, NextDesc, Between
<1>4. CASE Oldest /= rxDesc
  <2>1. \A d \in Desc : own[d] = "CPU" <=> d \in Between(Oldest, rxDesc)
    BY <1>4 DEF CpuInterval, IInv
  <2> QED BY <1>1, <1>2, <1>4, <2>1 DEF CpuInterval, NextDesc, Between
<1> QED BY <1>3, <1>4

\* Every step of the engine or of the handler preserves the invariant.
LEMMA StepIInv == IInv /\ [Next]_vars => IInv'
<1> SUFFICES ASSUME IInv, [Next]_vars PROVE IInv'
  OBVIOUS
<1> USE NAssumption, TailAssumption DEF IInv, TypeOK, NoNullDescriptor,
      HandlerOwns, EngineState, NoLostResume, PC
<1>1. ASSUME NEW f \in Frame, DmaReceive(f) PROVE IInv'
  <2>1. CpuInterval'
    BY <1>1, IntervalExtend
  <2>2. NextDesc(rxDesc) \in Desc
    BY NextDescType
  <2>3. tail' \in 0 .. TailFrames
    BY <1>1 DEF DmaReceive, InTail
  <2>4. TypeOK'
    BY <1>1, <2>2, <2>3 DEF DmaReceive, cpuVars
  <2>5. HandlerOwns'
    BY <1>1 DEF DmaReceive, cpuVars, NextDesc
  <2> QED BY <1>1, <2>1, <2>4, <2>5 DEF DmaReceive, cpuVars
<1>2. CASE DmaFetch
  BY <1>2 DEF DmaFetch, cpuVars, CpuInterval, Oldest
<1>3. CASE Enter
  BY <1>3 DEF Enter, dmaVars, CpuInterval, Oldest
<1>4. CASE Check
  BY <1>4 DEF Check, PacketReady, dmaVars, CpuInterval, Oldest
<1>5. CASE RxPacket
  BY <1>5, NextDescType DEF RxPacket, CpuInterval, Oldest
<1>6. CASE Copy
  BY <1>6 DEF Copy, FrameAt, Frame, dmaVars, CpuInterval, Oldest
<1>7. CASE GiveBack
  <2>1. CpuInterval'
    BY <1>7, IntervalShrink
  <2>2. desc \in Desc /\ desc /= NoDesc
    BY <1>7, DescAssumption DEF GiveBack, Desc
  <2>3. own' = [own EXCEPT ![desc] = "DMA"] /\ pc' = "resume"
    BY <1>7, <2>2 DEF GiveBack
  <2> QED BY <1>7, <2>1, <2>2, <2>3 DEF GiveBack, dmaVars
<1>8. CASE TestRbus
  BY <1>8 DEF TestRbus, dmaVars, CpuInterval, Oldest
<1>9. CASE ClearRbus
  BY <1>9 DEF ClearRbus, dmaVars, CpuInterval, Oldest
<1>10. CASE Poll
  BY <1>10 DEF Poll, CpuInterval, Oldest
<1>11. CASE Input
  BY <1>11 DEF Input, dmaVars, CpuInterval, Oldest
<1>12. CASE ClearR
  BY <1>12 DEF ClearR, dmaVars, CpuInterval, Oldest
<1>13. CASE ClearN
  <2>1. tail' \in 0 .. TailFrames
    BY <1>13 DEF ClearN
  <2> QED BY <1>13, <2>1 DEF ClearN, dmaVars, CpuInterval, Oldest
<1>14. CASE UNCHANGED vars
  BY <1>14 DEF vars, CpuInterval, Oldest
<1> QED
  BY <1>1, <1>2, <1>3, <1>4, <1>5, <1>6, <1>7, <1>8, <1>9, <1>10, <1>11,
     <1>12, <1>13, <1>14 DEF Next, Dma, Handler

\* The inductive invariant holds in every reachable state.
THEOREM Invariance == Spec => []IInv
  BY InitIInv, StepIInv, PTL DEF Spec

\* Every register, index and buffer of the receive path keeps its type.
THEOREM TypeCorrect == Spec => []TypeOK
  BY Invariance, PTL DEF IInv

\* low_level_input is never given a frame without a descriptor.
THEOREM NeverNullDescriptor == Spec => []NoNullDescriptor
  BY Invariance, PTL DEF IInv

\* The descriptors of the CPU are always one interval of the ring, from the
\* oldest frame to the engine's descriptor.
THEOREM CpuIntervalHolds == Spec => []CpuInterval
  BY Invariance, PTL DEF IInv

\* The handler never leaves the engine suspended on a descriptor of its own.
THEOREM NeverLostResume == Spec => []NoLostResume
  BY Invariance, PTL DEF IInv
-----------------------------------------------------------------------------
(* The ring implements the channel.  Its length is followed from step to   *)
(* step: one descriptor joins the CPU's or leaves them.                     *)

CpuSet == {d \in Desc : own[d] = "CPU"}

\* Going round from the oldest descriptor, the CPU's end at the engine's.
Counted == Oldest + Cardinality(CpuSet) \in {rxDesc, rxDesc + N}

\* Between two frames the driver has no pbuf.
BetweenFrames ==
  pc \in {"idle", "check", "packet", "copy", "clearR", "clearN"} => pbuf = NoFrame

RInv == IInv /\ Counted /\ BetweenFrames

\* The index of a descriptor at most once round the ring.
Slot(i) == IF i < N THEN i ELSE i - N

LEMMA SlotMod ==
  ASSUME NEW i \in 0 .. 2 * N - 1
  PROVE  i % N = Slot(i) /\ Slot(i) \in Desc
<1>1. CASE i < N
  BY <1>1, NAssumption DEF Slot, Desc
<1>2. CASE ~(i < N)
  <2>1. i - N \in 0 .. N - 1
    BY <1>2, NAssumption
  <2>2. i % N = i - N
    BY <2>1, NAssumption
  <2> QED BY <1>2, <2>1, <2>2 DEF Slot, Desc
<1> QED BY <1>1, <1>2

\* The CPU's descriptors are finitely many, at most N.
LEMMA CountType ==
  ASSUME NEW S \in SUBSET Desc
  PROVE  IsFiniteSet(S) /\ Cardinality(S) \in 0 .. N
<1>1. IsFiniteSet(Desc) /\ Cardinality(Desc) = N
  BY FS_Interval, NAssumption DEF Desc
<1>2. IsFiniteSet(S) /\ Cardinality(S) <= Cardinality(Desc)
  BY <1>1, FS_Subset
<1> QED BY <1>1, <1>2, FS_CardinalityType

\* A receive and a release move the count by one.
LEMMA CountGrows ==
  ASSUME NEW f \in Frame, IInv, DmaReceive(f)
  PROVE  Cardinality(CpuSet') = Cardinality(CpuSet) + 1 /\ CpuSet' \in SUBSET Desc
<1>1. CpuSet \in SUBSET Desc /\ rxDesc \in Desc /\ rxDesc \notin CpuSet
  BY DEF CpuSet, IInv, TypeOK, DmaReceive
<1>2. CpuSet' = CpuSet \cup {rxDesc}
  BY <1>1 DEF CpuSet, IInv, TypeOK, DmaReceive
<1> QED BY <1>1, <1>2, CountType, FS_AddElement

LEMMA CountShrinks ==
  ASSUME IInv, GiveBack
  PROVE  /\ Cardinality(CpuSet') = Cardinality(CpuSet) - 1 /\ Cardinality(CpuSet) >= 1
         /\ desc \in Desc /\ Oldest = desc /\ Oldest' = NextDesc(desc)
<1>1. /\ CpuSet \in SUBSET Desc /\ desc \in Desc /\ desc \in CpuSet
      /\ Oldest = desc /\ Oldest' = NextDesc(desc)
      /\ own' = [own EXCEPT ![desc] = "DMA"]
  BY DescAssumption DEF CpuSet, IInv, TypeOK, HandlerOwns, GiveBack, Oldest, Desc
<1>2. CpuSet' = CpuSet \ {desc}
  BY <1>1 DEF CpuSet, IInv, TypeOK
<1>3. Cardinality(CpuSet') \in 0 .. N /\ Cardinality(CpuSet) \in 0 .. N
  BY <1>1, <1>2, CountType
<1>4. Cardinality(CpuSet') = Cardinality(CpuSet) - 1
  BY <1>1, <1>2, CountType, FS_RemoveElement
<1> QED BY <1>1, <1>3, <1>4, NAssumption

\* Every other step leaves the count alone.
LEMMA CountStays ==
  ASSUME IInv, [Next]_vars, ~GiveBack, \A f \in Frame : ~DmaReceive(f)
  PROVE  own' = own /\ buf' = buf /\ rxDesc' = rxDesc /\ Oldest' = Oldest
<1> USE DEF Oldest, dmaVars, cpuVars
<1>1. CASE RxPacket
  BY <1>1 DEF RxPacket, IInv, HandlerOwns
<1>2. CASE Copy
  BY <1>2 DEF Copy
<1>3. CASE DmaFetch \/ Enter \/ Check \/ TestRbus \/ ClearRbus \/ Poll \/ Input
  BY <1>3 DEF DmaFetch, Enter, Check, TestRbus, ClearRbus, Poll, Input
<1>4. CASE ClearR \/ ClearN \/ UNCHANGED vars
  BY <1>4 DEF ClearR, ClearN, vars
<1> QED BY <1>1, <1>2, <1>3, <1>4 DEF Next, Dma, Handler

LEMMA CountedStep ==
  ASSUME RInv, [Next]_vars
  PROVE  Counted'
<1>1. PICK c : c = Cardinality(CpuSet)
  OBVIOUS
<1>2. c \in 0 .. N /\ Oldest + c \in {rxDesc, rxDesc + N} /\ rxDesc \in Desc
  BY <1>1, CountType DEF CpuSet, RInv, Counted, IInv, TypeOK
<1>3. Oldest \in Desc
  BY DEF RInv, IInv, TypeOK, HandlerOwns, Oldest
<1>4. ASSUME NEW f \in Frame, DmaReceive(f) PROVE Counted'
  <2>1. Cardinality(CpuSet') = c + 1 /\ c + 1 \in 0 .. N
    BY <1>1, <1>4, CountGrows, CountType DEF RInv
  <2>2. rxDesc' = NextDesc(rxDesc) /\ Oldest' = Oldest
    BY <1>4 DEF DmaReceive, cpuVars, Oldest
  <2>3. Oldest + (c + 1) \in {NextDesc(rxDesc), NextDesc(rxDesc) + N}
    BY <1>2, <1>3, <2>1, NAssumption DEF NextDesc, Desc
  <2> QED BY <2>1, <2>2, <2>3 DEF Counted
<1>5. CASE GiveBack
  <2>1. /\ Cardinality(CpuSet') = c - 1 /\ c >= 1
        /\ Oldest = desc /\ Oldest' = NextDesc(desc) /\ rxDesc' = rxDesc
    BY <1>1, <1>5, CountShrinks DEF RInv, GiveBack, dmaVars
  <2>2. NextDesc(desc) + (c - 1) \in {rxDesc, rxDesc + N}
    BY <1>2, <1>3, <2>1, NAssumption DEF NextDesc, Desc
  <2> QED BY <2>1, <2>2 DEF Counted
<1>6. CASE ~GiveBack /\ \A f \in Frame : ~DmaReceive(f)
  BY <1>6, CountStays DEF RInv, Counted, CpuSet
<1> QED BY <1>4, <1>5, <1>6

LEMMA BetweenStep ==
  ASSUME RInv, [Next]_vars
  PROVE  BetweenFrames'
<1> USE DEF BetweenFrames, RInv, dmaVars, cpuVars
<1>1. CASE Dma
  BY <1>1 DEF Dma, DmaFetch, DmaReceive
<1>2. CASE Handler
  BY <1>2 DEF Handler, Enter, Check, RxPacket, Copy, GiveBack, TestRbus, ClearRbus, Poll,
     Input, ClearR, ClearN, IInv, HandlerOwns
<1>3. CASE UNCHANGED vars
  BY <1>3 DEF vars
<1> QED BY <1>1, <1>2, <1>3 DEF Next

\* The ring stays a channel in order, whatever is in the driver's hands.
THEOREM RingInvariance == Spec => []RInv
<1>1. Init => RInv
  <2> SUFFICES ASSUME Init PROVE RInv
    OBVIOUS
  <2>1. CpuSet = {}
    BY DEF Init, CpuSet
  <2>2. Cardinality({}) = 0
    BY FS_EmptySet
  <2> QED BY <2>1, <2>2, InitIInv, NAssumption DEF RInv, Counted, BetweenFrames, Init, Oldest
<1>2. RInv /\ [Next]_vars => RInv'
  BY StepIInv, CountedStep, BetweenStep DEF RInv
<1> QED BY <1>1, <1>2, PTL DEF Spec
\* w frames of the buffers b, from descriptor a on.
ContentOf(a, w, b) == [k \in 1 .. w |-> b[(a + k - 1) % N]]

\* What they are, one by one: the walk goes round the ring at most once.
LEMMA ContentOfElements ==
  ASSUME NEW a \in Desc, NEW w \in 0 .. N, NEW b \in [Desc -> Frame \cup {NoFrame}]
  PROVE  /\ ContentOf(a, w, b) \in Seq(Frame \cup {NoFrame})
         /\ Len(ContentOf(a, w, b)) = w
         /\ \A k \in 1 .. w : /\ Slot(a + k - 1) \in Desc
                              /\ ContentOf(a, w, b)[k] = b[Slot(a + k - 1)]
<1> DEFINE F == Frame \cup {NoFrame}
<1>1. \A k \in 1 .. w : Slot(a + k - 1) \in Desc /\ (a + k - 1) % N = Slot(a + k - 1)
  <2> TAKE k \in 1 .. w
  <2>1. a + k - 1 \in 0 .. 2 * N - 1
    BY NAssumption DEF Desc
  <2> QED BY <2>1, SlotMod
<1>2. \A k \in 1 .. w : b[(a + k - 1) % N] \in F
  BY <1>1
<1>3. ContentOf(a, w, b) \in [1 .. w -> F]
  BY <1>2 DEF ContentOf
<1>4. ContentOf(a, w, b) \in Seq(F) /\ Len(ContentOf(a, w, b)) = w
  BY <1>3, NAssumption
<1>5. \A k \in 1 .. w : ContentOf(a, w, b)[k] = b[Slot(a + k - 1)]
  BY <1>1 DEF ContentOf
<1> QED BY <1>1, <1>4, <1>5

\* The waiting frames lie between First and the engine's descriptor.
LEMMA WaitingFits ==
  ASSUME RInv
  PROVE  /\ First \in Desc /\ rxDesc \in Desc
         /\ Waiting \in 0 .. N
         /\ First + Waiting \in {rxDesc, rxDesc + N}
         /\ buf \in [Desc -> Frame \cup {NoFrame}]
<1>1. PICK c : c = Cardinality(CpuSet)
  OBVIOUS
<1>2. /\ c \in 0 .. N /\ Oldest + c \in {rxDesc, rxDesc + N}
      /\ rxDesc \in Desc /\ get \in Desc /\ buf \in [Desc -> Frame \cup {NoFrame}]
  BY <1>1, CountType DEF CpuSet, RInv, Counted, IInv, TypeOK
<1>3. CASE pc = "own"
  <2>1. desc \in Desc /\ own[desc] = "CPU" /\ get = NextDesc(desc) /\ Oldest = desc
    BY <1>3 DEF RInv, IInv, HandlerOwns, Oldest
  <2>2. CpuSet \in SUBSET Desc /\ desc \in CpuSet
    BY <2>1 DEF CpuSet
  <2>3. c /= 0
    BY <1>1, <2>2, CountType, FS_EmptySet
  <2>4. Waiting = c - 1 /\ First = get
    BY <1>1, <1>3 DEF Waiting, First, CpuSet
  <2> QED BY <1>2, <2>1, <2>3, <2>4, NAssumption DEF NextDesc, Desc
<1>4. CASE pc /= "own"
  <2>1. First = Oldest
    BY <1>4 DEF First, Oldest
  <2>2. Waiting = c
    BY <1>1, <1>2, <1>4 DEF Waiting, CpuSet
  <2>3. Oldest \in Desc
    BY <1>2, <1>4 DEF RInv, IInv, HandlerOwns, Oldest
  <2> QED BY <1>2, <2>1, <2>2, <2>3
<1> QED BY <1>3, <1>4

\* A frame the engine hands over joins the end of the channel.
LEMMA ReceiveAccepts ==
  ASSUME NEW f \in Frame, RInv, DmaReceive(f)
  PROVE  Channel!Accept(f)
<1> DEFINE F == Frame \cup {NoFrame}
           a == First
           w == Waiting
<1>1. /\ a \in Desc /\ rxDesc \in Desc /\ w \in 0 .. N
      /\ a + w \in {rxDesc, rxDesc + N} /\ buf \in [Desc -> F]
  BY WaitingFits
<1>2. First' = a /\ buf' = [buf EXCEPT ![rxDesc] = f] /\ pbuf' = pbuf /\ pc' = pc
  BY DEF DmaReceive, cpuVars, First
<1>3. Waiting' = w + 1 /\ w + 1 \in 0 .. N
  <2>1. PICK c : c = Cardinality(CpuSet)
    OBVIOUS
  <2>2. c \in 0 .. N /\ Cardinality(CpuSet') = c + 1 /\ c + 1 \in 0 .. N
    BY <2>1, CountGrows, CountType DEF CpuSet, RInv
  <2>3. w = c - (IF pc = "own" THEN 1 ELSE 0)
    BY <2>1 DEF Waiting, CpuSet
  <2>4. Waiting' = (c + 1) - (IF pc = "own" THEN 1 ELSE 0)
    BY <1>2, <2>2 DEF Waiting, CpuSet
  <2> QED BY <1>1, <2>2, <2>3, <2>4, NAssumption
<1>4. f \in F /\ buf' \in [Desc -> F]
  BY <1>1, <1>2
<1> DEFINE s == ContentOf(a, w, buf)
           t == ContentOf(a, w + 1, buf')
<1>5. Content = s /\ Content' = t
  BY <1>2, <1>3 DEF Content, ContentOf
<1>6. /\ s \in Seq(F) /\ Len(s) = w
      /\ \A k \in 1 .. w : Slot(a + k - 1) \in Desc /\ s[k] = buf[Slot(a + k - 1)]
  BY <1>1, ContentOfElements
<1>7. /\ t \in Seq(F) /\ Len(t) = w + 1
      /\ \A k \in 1 .. w + 1 : t[k] = buf'[Slot(a + k - 1)]
  BY <1>1, <1>3, <1>4, ContentOfElements
<1>8. Append(s, f) \in Seq(F) /\ Len(Append(s, f)) = w + 1
  BY <1>4, <1>6
<1>9. \A k \in 1 .. w + 1 : Append(s, f)[k] = t[k]
  <2> TAKE k \in 1 .. w + 1
  <2>1. CASE k = w + 1
    <3>1. Slot(a + k - 1) = rxDesc
      BY <1>1, <2>1, NAssumption DEF Slot, Desc
    <3>2. t[k] = f
      BY <1>1, <1>2, <1>7, <3>1
    <3>3. Append(s, f)[k] = f
      BY <1>4, <1>6, <2>1
    <3> QED BY <3>2, <3>3
  <2>2. CASE k \in 1 .. w
    <3>1. Slot(a + k - 1) \in Desc /\ Slot(a + k - 1) /= rxDesc
      BY <1>1, <1>3, <1>6, <2>2, NAssumption DEF Slot, Desc
    <3>2. t[k] = s[k]
      BY <1>1, <1>2, <1>6, <1>7, <2>2, <3>1
    <3>3. Append(s, f)[k] = s[k]
      BY <1>4, <1>6, <2>2
    <3> QED BY <3>2, <3>3
  <2>3. k = w + 1 \/ k \in 1 .. w
    BY <1>1
  <2> QED BY <2>1, <2>2, <2>3
<1>10. t = Append(s, f)
  BY <1>7, <1>8, <1>9, SeqEqual
<1>11. Len(s) < N
  BY <1>1, <1>3, <1>6, NAssumption
<1> QED BY <1>2, <1>5, <1>10, <1>11 DEF Channel!Accept

\* Copying the oldest frame, or failing to, takes it from the channel.
LEMMA CopyTakes ==
  ASSUME RInv, Copy
  PROVE  Channel!Take
<1> DEFINE F == Frame \cup {NoFrame}
           w == Waiting
<1>1. /\ First \in Desc /\ rxDesc \in Desc /\ w \in 0 .. N
      /\ First + w \in {rxDesc, rxDesc + N} /\ buf \in [Desc -> F]
  BY WaitingFits
<1>2. /\ pc = "copy" /\ pc' = "own" /\ own' = own /\ buf' = buf /\ get' = get
      /\ pbuf = NoFrame /\ pbuf' \in {FrameAt(desc), NoFrame}
      /\ desc \in Desc /\ own[desc] = "CPU" /\ get = NextDesc(desc)
      /\ First = desc /\ First' = NextDesc(desc)
  BY DEF Copy, RInv, BetweenFrames, IInv, HandlerOwns, First
<1>3. w >= 1 /\ Waiting' = w - 1
  <2>1. PICK c : c = Cardinality(CpuSet)
    OBVIOUS
  <2>2. CpuSet \in SUBSET Desc /\ desc \in CpuSet /\ CpuSet' = CpuSet
    BY <1>2 DEF CpuSet
  <2>3. c \in 0 .. N /\ c /= 0
    BY <2>1, <2>2, CountType, FS_EmptySet
  <2>4. w = c
    BY <1>2, <2>1, <2>3 DEF Waiting, CpuSet
  <2>5. Waiting' = c - 1
    BY <1>2, <2>1, <2>2 DEF Waiting, CpuSet
  <2> QED BY <2>3, <2>4, <2>5, NAssumption
<1> DEFINE b == NextDesc(desc)
           s == ContentOf(desc, w, buf)
           t == ContentOf(b, w - 1, buf)
<1>4. Content = s /\ Content' = t
  BY <1>2, <1>3 DEF Content, ContentOf
<1>5. b \in Desc /\ w - 1 \in 0 .. N
  BY <1>1, <1>2, <1>3, NextDescType, NAssumption
<1>6. /\ s \in Seq(F) /\ Len(s) = w
      /\ \A k \in 1 .. w : s[k] = buf[Slot(desc + k - 1)]
  BY <1>1, <1>2, ContentOfElements
<1>7. /\ t \in Seq(F) /\ Len(t) = w - 1
      /\ \A k \in 1 .. w - 1 : t[k] = buf[Slot(b + k - 1)]
  BY <1>1, <1>5, ContentOfElements
<1>8. s /= << >>
  BY <1>3, <1>6
<1>9. Head(s) = buf[desc]
  <2>1. 1 \in 1 .. w /\ Slot(desc + 1 - 1) = desc
    BY <1>1, <1>2, <1>3, NAssumption DEF Slot, Desc
  <2> QED BY <1>6, <1>8, <2>1
<1>10. Tail(s) \in Seq(F) /\ Len(Tail(s)) = w - 1
       /\ \A k \in 1 .. w - 1 : Tail(s)[k] = s[k + 1]
  BY <1>6, <1>8, HeadTailProperties
<1>11. \A k \in 1 .. w - 1 : Tail(s)[k] = t[k]
  <2> TAKE k \in 1 .. w - 1
  <2>1. k + 1 \in 1 .. w /\ Slot(desc + (k + 1) - 1) = Slot(b + k - 1)
    BY <1>1, <1>2, <1>3, NAssumption DEF Slot, NextDesc, Desc
  <2>2. s[k + 1] = buf[Slot(desc + (k + 1) - 1)]
    BY <1>6, <2>1
  <2> QED BY <1>7, <1>10, <2>1, <2>2
<1>12. Tail(s) = t
  BY <1>7, <1>10, <1>11, SeqEqual
<1>13. FrameAt(desc) \in {buf[desc], NoFrame}
  BY DEF FrameAt
<1> QED BY <1>2, <1>4, <1>8, <1>9, <1>12, <1>13 DEF Channel!Take

\* The other steps leave the channel's content alone.
LEMMA ContentStays ==
  ASSUME RInv, [Next]_vars, ~Copy, \A f \in Frame : ~DmaReceive(f)
  PROVE  Content' = Content
<1> SUFFICES First' = First /\ Waiting' = Waiting /\ buf' = buf
  BY DEF Content
<1>1. CASE GiveBack
  <2>1. PICK c : c = Cardinality(CpuSet)
    OBVIOUS
  <2>2. c \in 0 .. N /\ Cardinality(CpuSet') = c - 1
    BY <1>1, <2>1, CountShrinks, CountType DEF RInv, CpuSet
  <2>3. /\ pc = "own" /\ pc' /= "own" /\ pc' /= "copy"
        /\ get' = get /\ buf' = buf
    BY <1>1 DEF GiveBack
  <2>4. Waiting = c - 1
    BY <2>1, <2>3 DEF Waiting, CpuSet
  <2>5. Waiting' = c - 1
    BY <2>2, <2>3 DEF Waiting, CpuSet
  <2> QED BY <2>3, <2>4, <2>5 DEF First
<1>2. CASE ~GiveBack
  <2>1. own' = own /\ buf' = buf
    BY <1>2, CountStays DEF RInv
  <2>2. First' = First /\ (pc = "own" <=> pc' = "own")
    <3> USE DEF First, dmaVars, cpuVars
    <3>1. CASE RxPacket
      BY <3>1 DEF RxPacket, RInv, IInv, HandlerOwns
    <3>2. CASE DmaFetch \/ Enter \/ Check \/ TestRbus \/ ClearRbus \/ Poll \/ Input
      BY <3>2 DEF DmaFetch, Enter, Check, TestRbus, ClearRbus, Poll, Input
    <3>3. CASE ClearR \/ ClearN \/ UNCHANGED vars
      BY <3>3 DEF ClearR, ClearN, vars
    <3> QED BY <1>2, <3>1, <3>2, <3>3 DEF Next, Dma, Handler
  <2> QED BY <2>1, <2>2 DEF Waiting
<1> QED BY <1>1, <1>2

\* Every step is a step of the channel or leaves it alone.
LEMMA ChannelStep ==
  ASSUME RInv, [Next]_vars
  PROVE  [Channel!Next]_(Channel!vars)
<1>1. ASSUME NEW f \in Frame, DmaReceive(f) PROVE Channel!Next
  BY <1>1, ReceiveAccepts DEF Channel!Next
<1>2. CASE Copy
  BY <1>2, CopyTakes DEF Channel!Next
<1>3. CASE ~Copy /\ \A f \in Frame : ~DmaReceive(f)
  <2>1. Content' = Content
    BY <1>3, ContentStays
  <2>2. pbuf' = pbuf \/ pbuf' = NoFrame
    BY <1>3 DEF Next, Dma, Handler, DmaFetch, Enter, Check, RxPacket, GiveBack, TestRbus,
       ClearRbus, Poll, Input, ClearR, ClearN, vars, cpuVars
  <2>3. CASE pbuf' = pbuf
    BY <2>1, <2>3 DEF Channel!vars
  <2>4. CASE pbuf' = NoFrame /\ pbuf /= NoFrame
    BY <2>1, <2>4 DEF Channel!Next, Channel!Consume
  <2> QED BY <2>2, <2>3, <2>4
<1> QED BY <1>1, <1>2, <1>3

\* The ring starts as an empty channel.
LEMMA ChannelInit == Init => Channel!Init
<1> SUFFICES ASSUME Init PROVE Channel!Init
  OBVIOUS
<1>1. {d \in Desc : own[d] = "CPU"} = {}
  BY DEF Init
<1>2. Waiting = 0
  BY <1>1, FS_EmptySet DEF Waiting, Init
<1>3. 1 .. Waiting = {}
  BY <1>2
<1>4. Content = << >>
  BY <1>3 DEF Content
<1> QED BY <1>4 DEF Channel!Init, Init

\* For every number of descriptors, the ring and its handler are a bounded
\* first-in first-out channel: each frame the engine stores reaches the stack
\* after those before it, unchanged and at most once, or is dropped whole.
THEOREM RingIsChannel == Spec => ImplementsChannel
  BY ChannelInit, ChannelStep, RingInvariance, PTL DEF Spec, ImplementsChannel, Channel!Spec

=============================================================================
