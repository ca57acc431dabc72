# A model of the STM32F407 bare-metal network program

This directory specifies, in TLA+, the parts of the repository that carry its
own logic: the program that runs on the board, the Ethernet receive path with
its DMA descriptors, and the lwIP stack it carries (a 1.4 version with local
edits): TCP with the server written on top of it, the timers, the heap, the packet
buffers, ARP, IP reassembly and the DHCP client. TLC checks the specifications on
small instances; TLAPS proves central invariants of them for every value of
their constants. `PROJECT.json` maps every definition to the lines it models
and lists runs, findings, hazards and theorems.

Run a model with `tlc -config X.cfg M` and a proof with `tlapm M.tla`.

## 1. Inventory

The program has no operating system. Everything runs in the main loop or in an
interrupt handler. Two integrations are unfinished in the repository, and the
models describe the code as it will run once they are joined: `main` does not
call `ports/lwip_init.c` (which does not compile, and neither does
`low_level_output`), and nobody calls `sys_check_timeouts`, which drives lwIP's
timers.

| Component | State it keeps | Operations | Interacts with | What is hard |
|---|---|---|---|---|
| Board program: `asyn.c`, `led.c`, `fun.c`, `sys_init.c`, `main.c` | `jiffies`, `led_run_time`, the pin, PRIMASK, the watchdog's counter | `SysTick_Handler`, `jiffies_before`, `led_run_proc`, `system_init`, feeding | interrupt and main loop share `jiffies`; the watchdog resets both | reads of a variable an interrupt changes, wrap-around, start-up order, being fed in time |
| Ethernet receive path: `lan8720.c`, `ethernetif.c`, helpers of `stm32f4x7_eth.c` | ring of descriptors with OWN bits, `DMARxDescToGet`, DMASR | `ETH_IRQHandler`, `ETH_Rx_Packet`, `low_level_input`, `ethernetif_input`, `ETH_DMARxDescChainInit` | the DMA engine writes the same ring; `netif->input` takes the pbuf | two agents without a lock, lost interrupts, a suspended engine |
| Ethernet transmit path | ring of transmit descriptors | `ETH_Tx_Packet`, `low_level_output` (a skeleton) | IP and ARP | as above; unfinished |
| TCP connections: `tcp.c`, `tcp_in.c`, `tcp_out.c` | pool of pcbs, lists of active, TIME_WAIT, bound and listening pcbs, states, refused data, windows, ports | `tcp_input`, `tcp_tmr`, and the API: `tcp_new`, `tcp_bind`, `tcp_listen`, `tcp_connect`, `tcp_close`, `tcp_shutdown`, `tcp_abort`, `tcp_recved` | calls the application back in the middle of `tcp_process`, `tcp_input` and the timers | reentrancy: a callback frees or moves what its caller works on; one pcb on two lists |
| TCP data: `tcp_receive`, `tcp_write`, `tcp_output`, retransmission | sequence numbers, `unsent`, `unacked`, `ooseq`, timers | as named | the network loses, repeats and reorders | wrap-around, overlaps, retransmission against late ACKs |
| Server: `ports/app_tcp.c` | a heap buffer for each connection | accept, recv, err and poll callbacks | the raw API | who owns pcb and buffer after a close |
| `timers.c` | list of timeouts by difference | `sys_timeout`, `sys_untimeout`, `sys_check_timeouts` | drives every protocol | insertion and removal in the middle, handlers that call back, drift |
| `etharp.c` | ARP table, queued packets | query, update, tick, output | IP, Ethernet | ageing against use, a full table, an entry reused under the cached index |
| `pbuf.c`, `memp.c`, `mem.c` | reference counts, chains, heap blocks | allocate, free, chain, trim | everything | shared chains, double frees, merging of blocks |
| `ip_frag.c` | datagrams in reassembly | `ip_reass`, expiry | IP | overlap, expiry against the last fragment, limits |
| `dhcp.c` | the state of a lease, four timers | start, stop, release, renew, timers, replies | netif, ARP, UDP | two clocks, replies of earlier requests, losses, a lease that ends |
| UDP, DNS, IGMP, AutoIP, sequential API, SNMP, PPP, IPv6, SLIP | their own | | | not used by this program, or vendored and not configured |

What makes each correct, in a sentence:

* Board: elapsed time is right across the wrap and an interrupt; the LED is
  switched in time and goes on being switched unless the watchdog resets the board.
* Receive path: a bounded FIFO channel; no frame is mixed with another; neither
  agent waits for ever for the other.
* TCP connections: nothing freed is used; lists agree with states; an application
  that follows the rules is told of everything that is freed; a timer treats each
  connection once in a tick and ends; no port is promised to two.
* TCP data: the bytes delivered are a prefix of those written, and all of them in the end.
* Timers: no handler is lost, each runs in the order of the deadlines.
* ARP: no packet goes to the address of another host; queries end.
* Memory: a block is in use exactly while somebody refers to it; free blocks are
  merged; no byte is given to two.
* Reassembly: what is handed on is what was sent; memory and counters come back.
* DHCP: an address is used only while it is leased; a client gets one.

## 2. Plan

| | Modules | Status |
|---|---|---|
| 1 | `RxChannel` (abstract), `EthRx` (refines it), `EthRxProofs` | written |
| 2 | `TcpPcb` (engine), `TcpUser` and `AppTcp` (two applications that extend it), `MCTcpUser`, `TcpUserProofs` (of both) | written |
| 3 | `Board`; its proofs and those of 5 in `TimeProofs` | written |
| 4 | `Stream` (abstract), `TcpStream` (refines it), `TcpStreamProofs` | written |
| 5 | `TimerSet` (abstract), `Timers` (refines it), `TimeProofs` | written |
| 6 | `Heap` (abstract), `Mem` (refines it); `Pbuf`; `MemProofs` (of both) | written |
| 7 | `Etharp`; `IpReass`; `IpProofs` (of both) | written |
| 8 | `TcpPorts` (bound and listening pcbs, ports, the linked lists), `PortsProofs` | written |
| 9 | `Dhcp`, `DhcpProofs` | written |
| 10 | `Parts` puts the single components into one run; its proofs in `TimeProofs` | written |
| 11 | `EthTx`, when the transmit path of the repository is finished; UDP; cutting of outgoing packets in `ip_frag.c` | open |

Every safety invariant that a passing run checks has its theorem, with
`ReassembledIsOriginal` where it is true (section 6). Still worth proving: that `IpReass` stops only in the two ways that
section 3 names.

## 3. The modules

### Board

Every access to `jiffies` is a step, so that `Tick` (the interrupt) can fall
between any two. `Before` and `Again` are the two halves of `jiffies_before`.
The variable is not `volatile`, so `Again` uses a second read or the first one,
as the compiler likes. `Mask` to `Enable` are `system_init`; `Feed`, `Before`,
`Test1` ... `On` the loop of `main` with `led_run_proc` in it. `Bite` is the
watchdog's reset. The history variables `age` and `start` count the jiffies that
really passed since `led_run_time` was read.

One unit of the watchdog is one jiffy: 2000 ticks of about 1 kHz are about 200
jiffies. The start-up is assumed to take fewer than `Half` jiffies (it is a few
microseconds against half a second); this is the only assumption on speed.

### RxChannel and EthRx

`EthRx` has the DMA engine (`DmaReceive`, `DmaFetch`; external, modelled from how
the driver uses it) and the handler, one step for each access to a register or
descriptor that the engine can change. `pc` is the place in the handler,
`own`, `buf`, `get`, `rbus`, `rs` and `nis` are the OWN bits, the buffers,
`DMARxDescToGet` and the bits of DMASR. A frame that does not fit one buffer
or has an error is a member of `BadFrame`. A suspended engine resumes on a poll
demand, and may also look at its descriptor when the next frame arrives.

`RxChannel` is what the path promises: `Accept`, `Take`, `Consume`. The refinement
mapping takes the CPU's descriptors from the oldest one on as the channel's
content (`First`, `Waiting`).

### TcpPcb, TcpUser, AppTcp

lwIP is single threaded and reentrant. The variable `stack` makes that explicit:
it holds an activation record for each function waiting for a callback to return
(`process`, `drop`, `d.recv`, `fast`, `slow`, `alloc`, ...) and one for the
callback itself (`recv`, `poll`, `err`, ...). `memp_free` marks every record that
still holds the pointer (`dead`); a function that goes on with a dead record sets
`fault`. Segments are reduced to what `tcp_process` tests. Each case of the
state machine is an action (`ProcessFinWait1`), what follows in `tcp_input` is
`DeliverSent`, `DeliverRecv`, `DeliverFin`, `DeliverDone`, and each callback has
an action for its return (`RecvReturns(r)`). The timers are `FastVisit`,
`SlowVisit` and their ends; `Restart` is the `goto` after
`tcp_active_pcbs_changed`. That flag is reset at the start of a walk and at a
restart; the code resets it before each callback and reads it only after one,
which makes no difference since nothing but a callback sets it during a walk.

`TcpUser` adds an application that follows `doc/rawapi.txt`. The constants
`MainOps` and `CallbackOps` say what it does and where. It holds pointers
(`ref`) and gives them up when told to. `MayClose` and `Results` name the
restraint the stack needs of it beyond that document (see 5). `AppTcp` is the
server of `ports/app_tcp.c` on the same engine, with the heap buffer of each
connection.

### Stream and TcpStream

One direction of an established connection between two hosts that both run this
code. The sender is `tcp_write` (`Write`), `tcp_send_fin` and `tcp_output`
(`Close`, `Output`), the ACK half of `tcp_receive` (`OldAck`, `NewAck`,
`StrangeAck`), `tcp_rexmit_rto` (`RetransmitTimeout`), `tcp_rexmit` and
`tcp_zero_window_probe`; the receiver is the data half of `tcp_receive` with
`ooseq` (`InSequence`, `OutOfSequence`, `Outside`), `tcp_recved` (`Read`), the
delayed ACK (`FastTimer`) and the time-out of `ooseq` (`DropOoseq`). A segment
carries its bytes, and the n-th byte written has the value n, so that a byte
repeated, left out or invented shows in `got`. Sequence numbers are modulo `M`,
windows modulo `WndMod`, and the comparisons are those of `TCP_SEQ_LT`. `Insert` is
how `tcp_rexmit` puts a segment in its place by sequence number, `InsertAll` how
`tcp_output` moves what it sends to `unacked`.

`NetworkFault` loses, repeats or swaps a segment or an ACK, at most `MaxFaults` times
together with the time-outs that are premature (`Expires`). What exceeds
`NetSize` in flight is dropped. Which duplicate ACK is the third, and whether the
congestion window is one segment or more, are choices. `FinFits` restrains the
writer to closing when the window has room for the FIN, which `tcp_output` does not
count. The sender gives up never: the limit on retransmissions belongs to `TcpPcb`.

`Stream` is what the two ends see: bytes written, bytes delivered, close and end.

### TimerSet and Timers

`timeouts` is the list of `timers.c`, each entry with the time behind the one in
front of it. `sys_check_timeouts` is three actions, `CheckTimeouts`,
`CallHandler`, `CheckDone`, with the handler in between (`running`), which may call
`sys_timeout`, `sys_untimeout` and `tcp_timer_needed`. `ClockTick` is `sys_now`,
modulo `ClockMod`; `Slack` says how late the main loop checks. What a check has left
over when it ends is not carried to the next one (`last_time` stands at the last
handler), as in the code; a one-shot timeout set between two checks may fire
early, as its comment says. `sys_restart_timeouts` is `RestartTimeouts`.

`TimerSet` has each timer with its own deadline; the mapping sums the differences.

### Heap and Mem

`ram` is a function from the offsets of the headers to `next`, `prev` and `used`.
`Malloc`, `Free` and `Trim` do what the code does with the headers (`Split`,
`Join`, `PlugHoles`); `owned` is history. Sizes are in units of `MEM_ALIGNMENT`.
Two limits of `mem_size_t` lie outside: rounding 65533 to 65535 up gives 0 in
sixteen bits (mem.c:418), and `mem_calloc` truncates its product (mem.c:530);
`MemAssumption` assumes requests below that. A failing call changes nothing. The
branch of `plug_holes` that moves `lfree` back never fires when `lfree` is the
lowest free block, which `HeapOK` shows it is. `Heap` knows addresses and sizes only.

### Pbuf

Pbufs of `PBUF_POOL` with `ref`, `len`, `tot_len`, the room before the payload and
`next`. Whoever works with them is reduced to the pointers held (`held`). The rule
that the code states and does not check is in `IsHead` and `Unshared`: a chain is
changed only through its head, and only while no other chain ends in it; chains
may otherwise share their ends.

### Etharp

The table with the packet that a pending entry keeps, `etharp_cached_entry`, and two
history variables: the address last heard of each host, and what the last step
sent. `Found` is `etharp_find_entry` with recycling, `Update` is
`etharp_update_arp_entry`, `Older` one entry in `etharp_tmr`. A host may change its
address (`Claims`) or be down. An ARP packet turns a static entry into a stable one,
as the code does.

### IpReass

The datagrams in reassembly with their fragments in order, `ip_reass_pbufcount` and
the timer, which is never renewed. The network may cut a datagram in several ways,
so fragments overlap. Two assertions of the code can fail, and the model then stops
(`stopped`): the oldest datagram is removed with the predecessor of another
(ip_frag.c:254 and 165), and a datagram whose last fragment was noted and then
thrown away ends too soon (559 and 449).

### TcpPorts

The four lists as heads and next pointers, `TCP_REG` and `TCP_RMV` as they change
them, `tcp_bind`, `tcp_listen`, `tcp_connect`, `tcp_new_port`, closing and
aborting, and the search of `tcp_input`. It shares no state with `TcpPcb`, which
abstracts a list to a set as `TcpPorts` does a connection to being active; the two
together cover the pcb. Any active or waiting pcb may be the victim of `tcp_alloc`.
`Misuse` names what the code does not stop and the properties do not survive:
binding a connected pcb (its comment at tcp.c:424 and tcp_impl.h:327 say bound pcbs
are closed ones; the check of the state was removed here), aborting a bound one
(tcp.c:367 looks for it among the active ones), and using a pcb again whose
`tcp_connect` failed (tcp.c:604 searches lists, and the port it kept is on none).

### Dhcp

The client of one interface: each function of `dhcp.c` is an operator on a record of
what it changes, each handler an action. The server answers requests that name an
address with an ACK or a NAK, and a DISCOVER with any address; some are in use by
others (`Squatted`), which the ARP check finds. The network loses, delays and repeats;
a reply to an earlier transaction is dropped unread, so only the present requests
are kept. The fine timer may fire at any time, but within one period of the coarse
one. `Mishaps` names what the properties do not survive: `restart` and `stopBound`
(the application starts or stops the client while it is up: the interface stays
up without a lease), `noMemory` and `oldLease` (the lease may end first),
`noServerId` (a client that takes such an offer waits in its state for ever).
`dhcp_coarse_tmr` decrements its counters below zero although its comment calls an
active timer "non zero"; `CoarseMod` lets them wrap. DHCP is off by default in `opt.h`.

### Parts

`Parts` extends the modules that are checked alone and lets one of them move in each
behaviour, so that one run checks them all; they share no state. It keeps the
specification of each (`PartsKeepTheirSpecs`, section 6).

## 4. The runs

| Run | Shows |
|---|---|
| `EthRx_ring` | With three descriptors, every interleaving implements `RxChannel`; no NULL descriptor is written through; the CPU's descriptors are one interval; the engine is not left suspended on a descriptor it owns; an interrupt empties the ring. |
| `EthRx_stranded` | A violation: a frame that completes while the handler clears DMASR is not handled. |
| `TcpUser_callbacks` | Two connections and an application that acts from its main loop and in callbacks on either of them: lists and states agree, nothing freed is used, every pointer the application may use is valid, no connection is left to nobody, refused data waits where it is looked at, each tick treats each connection. |
| `TcpUser_spin`, `TcpUser_fin`, `TcpUser_reset` | Violations of comments and an assertion in `tcp.c`. |
| `AppTcp_uaf`, `AppTcp_twice` | Violations by the server, of a comment in `tcp.c` and an assertion in `mem.c`. |
| `TcpStream_fifo` | Five bytes and a FIN over a network with two faults: the connection implements `Stream`; every byte not acknowledged is queued once, `ooseq` is in order, windows are the room there is, the right edge never shrinks, what is unacknowledged has a timer; everything arrives, or the sender is stuck for a lost window update. |
| `TcpStream_wrap` | A violation of `Stream` when the window reaches beyond the wrap. |
| `IpReass_hole` | A violation: a datagram is complete without one of its fragments. |
| `Board` | The parts of `Parts`, one after the other (see below). |

`Board` checks: for the board, that the LED is never switched early (`LedTiming`)
and goes on blinking; for the timers, that the list implements `TimerSet`, no handler
is lost, all keep firing; for the heap, that it implements `Heap`, its headers are
right and no gap is overlooked; for the pbufs, that each pointer is counted and
lengths add up; for ARP, that the table is right, packets go to the address last
heard, and queries end; for reassembly, that three units cut in any way come out as
they were, are counted, and expire; for the ports, that lists and states agree and no
port is promised twice; for DHCP, that an address is used only under a lease that
has time left, and that a client comes up.

Bounds, and why they are enough:

* `EthRx`: N = 3 separates the oldest descriptor, one in the middle and the
  engine's, and the ring wraps in the middle of the handler; two good frames show
  reordering and one bad frame the stuck head. `TailFrames` = 1 bounds the
  frames that complete while the handler clears the status; more repeat the same.
* `TcpUser`: two pcbs for one to be handled while a callback acts on the other
  and for the pool to be empty; `Window` = 2 is a segment of data and a FIN, so
  that the window can be partly and completely used; `CtrMod` = 3 lets the
  8-bit timer counter wrap. The depth of the stack is not bounded by the cfg: at
  most one walk or input, its callbacks and an allocation nest, and TLC explores
  all of it. The pcbs are symmetric because a list is a set, walked in any order.
* `TcpStream`: five bytes in segments of up to two, a window of four and a buffer of
  four: windows close and open, segments are cut and merged, the buffer fills; M = 32
  with `Iss` = 30 wraps the sequence numbers within the data. Two faults are the
  fewest that lose a segment and its retransmission, or reorder and lose. The
  violation needs the window to cross the wrap and the data not to (`Iss` = 28).
* `Board`: M = 16 wraps every third or fourth period; Half = 2, Full = 4 and
  Watch = 4 leave room for the interrupt in every place.
* `Timers`: intervals of 1, 2 and 3 in a clock of six values, so that every order of
  deadlines and a wrap between two checks happen; one timeout of the application of
  2 falls on, before and behind others. The pool has room for one of each handler;
  the default of `opt.h` (opt.h:316) has none for the application.
* `Mem`: 22 units with headers of 2 and blocks of at least 3 hold four blocks: free
  ones in front, behind and on both sides of one that is freed.
* `Pbuf`: three pbufs, of which two chains can share the last one, packets that need
  all of them, two pointers to each.
* `Etharp`: three hosts for two slots, so that entries are recycled; one host with
  two addresses, one that is down; MaxAge = 3, MaxPending = 2.
* `IpReass`: datagrams of three units in fragments of one or two, three datagrams
  for two records, and a limit on pbufs that two datagrams exceed. The hole needs four.
* `TcpPorts`: three pcbs, a listener, one remote end, a range of two ports of which
  the application asks for one: the range is exhausted and victims are needed.
* `Dhcp`: an address that is free and one that is not; a lease of 7 with renewal
  after 2 and rebinding after 4, ticks of 2, counters modulo 3 that wrap between
  two leases. The server has to grant more than the rebinding time and one tick:
  with a lease of 6 `LeaseKept` fails, because ticks count a lease from its
  binding and not from its ACK.

Deadlock is checked in `TcpUser_callbacks` and `Board`. It is not in `EthRx`, where
a bad frame at the head stops the ring for good, nor in `TcpStream`, where everything
may have arrived, nor in the violation runs of TCP,
whose applications wait in a callback for an operation they are not given.

Fairness:

* `EthRx` assumes that the engine goes on fetching and that the NVIC
  delivers a raised interrupt and the handler runs (`WF(DmaFetch)`, `WF(Handler)`):
  hardware and straight-line code of the highest priority. Nothing makes frames arrive.
* `Board` assumes the clock (`WF(Tick)`) and the CPU (`WF(Main)`): it
  does not assume that the main loop is in time for the watchdog, which is why
  `KeepsBlinking` allows for resets.
* `TcpStream` assumes that what has arrived is taken, that the timers run and that the
  reader reads. Not that the writer writes or closes.
* `Timers` assumes the clock and that the main loop checks and handlers return;
  `KeepsFiring` excepts an application that calls `sys_restart_timeouts` for ever.
* `Etharp`, `IpReass`, `Dhcp` assume that their timers are called. `Dhcp` assumes
  besides that a server that is asked again and again answers (`SF`), in the end with
  each address it has; `ComesUp` excepts endless restarts and changes of the network.
* The other TCP specifications, `Mem`, `Pbuf` and `TcpPorts` state safety only.

## 5. Findings

Each is a run that TLC refutes, and a `findings` entry with the lines.

1. *A frame can be stranded.* `ETH_IRQHandler` clears the interrupt after its
   last look at the ring. The model of `InterruptDrains` shows what does hold.
2. *`tcp_fasttmr` can loop for ever.* The step to the next pcb is inside the `if`.
3. *A FIN can be lost in LAST_ACK*, with the data before it, when the send
   window held it back.
4. *A pcb freed on the wrong list*, when a recv callback closes while refused data
   is delivered again and the segment in hand is a reset.
5. *The server's close frees the pcb under `tcp_input`*, because it never calls
   `tcp_recved`.
6. *The server frees its buffer twice.*
7. *Bytes are skipped at the wrap of the sequence numbers.* `tcp_receive` compares a
   segment for the end of `ooseq` with the right edge without regard to the wrap
   (tcp_in.c:1389) and gives it the length of the rest of the window.
8. *A datagram with a hole is complete.* A fragment put between two others is not
   compared with the one in front of it (ip_frag.c:369).

Beyond these, `CallbackOps` names behaviour that the raw API does not forbid and
the stack does not survive: `closeAccept` (close in the accept callback, a FIN in
the same segment), `refuseLate` (refusing data after shutting down the send side),
`new` in a callback with the pool empty. `TcpUser_callbacks` leaves them out, so
that its properties say what does hold; adding one to its cfg shows the failure.
`Misuse` and `Mishaps` do the same in `TcpPorts` and `Dhcp`, `FinFits` = FALSE in
`TcpStream`. `ArrivesOrStuck` names the other weakness of the sender: a window that
was opened by less than a segment and then wholly by an ACK that is lost is never
asked for, because the persist timer runs only at zero (tcp_out.c:1375 expects it).

## 6. Proofs

Each proof module extends its component's module (`MemProofs`, `IpProofs` and
`TcpUserProofs` extend two: `Mem` and `Pbuf`, `Etharp` and `IpReass`, `TcpUser` and
`AppTcp`; `TimeProofs` extends `Parts`, and with it `Board` and `Timers`); the
assumptions are the ASSUMEs of that module.

`EthRxProofs` proves `TypeOK`, `NoNullDescriptor`, `CpuInterval`,
`NoLostResume` and the refinement `ImplementsChannel` for every N, every set of frames and every `TailFrames`. The
assumptions are those of `EthRx` (`NAssumption`, `FrameAssumption`,
`DescAssumption`, `TailAssumption`). `CpuInterval` is not inductive alone: giving a
descriptor back keeps the interval only if it is the oldest one, which needs
`HandlerOwns` (the handler's descriptor is the CPU's and lies just behind
`DMARxDescToGet`); and `NoLostResume` needs `EngineState` (the engine runs only on
a descriptor of its own, and RBUS is set in every other suspension). The
geometry of the ring is in two lemmas, `IntervalExtend` and `IntervalShrink`.
For the refinement the invariant also counts (`RInv`): from the oldest descriptor on,
the CPU's end just before the engine's (`Counted`), and between two frames the driver
has no pbuf (`BetweenFrames`). Then `DmaReceive` is `Accept` (`ReceiveAccepts`),
`Copy` is `Take` (`CopyTakes`), `Input` is `Consume` or nothing, and every other step
leaves the frames that wait alone (`ContentStays`): `ETH_Rx_Packet` and the release
move the descriptor and the count, never what is yet to be read.

`TimeProofs` proves of `Board` `TypeOK`, `NoAlias` (the watchdog bites before a period
outlasts the counter), `ElapsedClose` (the elapsed time is right but for one jiffy)
and the action property `LedTiming` for every counter width, period and time-out with
Full + 2 * Watch < M (`WidthAssumption`; 100 + 400 against 2^32 here). The
invariant is an account of time: `age + dog` never exceeds Full + 2 * Watch,
and Full + Watch once a pass has found the period unfinished, because between two
feeds at most Watch jiffies pass; `InStep` ties `jiffies` to `led_run_time + age`
modulo M, and `Calling` what the call of `jiffies_before` has seen.

Of `Timers` it proves, for all handlers, intervals, delays and clocks, `NoTimerLost`
(`TimersNeverLost`), from an invariant that adds the type of the list and that no check
begins before all handlers are started; `TimersPoolSuffices`: with an entry for each
handler (`TimersAssumption`) the pool is never exhausted, because no handler is listed
twice; the types, with no time of the list below zero; and the refinement
`ImplementsTimerSet`. What an entry has left is the sum of the times up to it (`Until`),
a recursive function: it is shown to exist by a least counterexample (`SumsExist`) and
to be the only one of its kind (`UntilOnly`). Then the list grows in its sums
(`UntilGrows`), so that the place of a new entry splits it into those that expire no
later and the others (`PlaceSplits`), and each operation of the list is one on the
times left: `TimeoutTimes`, `UntimeoutTimes`, `TailTimes`. The invariant of the
refinement adds that outside a check nothing is left of `diff`.

Of `Parts` it proves that the composition keeps the specification of each part
(`PartsKeepTheirSpecs`; of DHCP without its fairness, which `Parts` has only where DHCP
is the part that moves): every step is one of some part and leaves the variables of the others alone. So each theorem
about a part alone holds of it there, as far as it needs no fairness, and the type
invariant of the run, `PartsTypeOK`, follows from those of `Board` and `Timers`
(`PartsTypeCorrect`).

`MemProofs` proves `HeapOK`, `NothingOverlooked` and the refinement
`ImplementsHeap` for every heap, header and minimum size. `HeapOK` is inductive; the
work is in lemmas about a chain of headers: what a split and a join leave
(`IsSplit`, `IsJoin` and what follows from them), which blocks are neighbours
afterwards, and where the lowest free block is; one lemma for each call. The
refinement follows from `HasOwners` and `Chained`: two blocks do not overlap.

It also proves `RefsCounted` and `LengthsAddUp` of `Pbuf`, for every pool, buffer size
and packet. The invariant `PbufInv` adds that a pbuf whose count is 0 is blank. It
does not say that a chain ends: a walk goes at most as far as there are pbufs, and
that it met the end is proved where the code relies on it. `pbuf_free` goes on from a
pbuf only if its count was 1, so that the pbuf before it is its only pointer
(`FreedPreds`); thus it meets no pbuf twice (`NoRepeat`) and, with as many steps as
pbufs, would have to meet one again (`ChainEnds`). From there `FreeKeeps` counts: what
is freed had no other pointer, what is kept loses exactly one. For the operations on a
head the rule that a chain is changed only while it is not shared gives the same
(`HeadLine`). One lemma for each operation then says that the state in which it calls
`pbuf_free` has one pointer too many, to the pbuf given (`CountedAnd`). Lengths: `pbuf_realloc` has
at each pbuf of its walk what `tot_len` says less the bytes cut (`ReallocOK`), and the
pieces of `pbuf_alloc` are as many as the length needs (`Pieces`, `LeftFacts`).

`IpProofs` proves `TableOK` and `NoStrayPacket` for every table, set of hosts and
limits. The invariant adds `Current` (a resolved entry has the address its host was
last heard of with) and is restated slot by slot (`SlotsOK`), because each operation
changes one slot; `SlotFound` says what `etharp_find_entry` returns.

Of `IpReass` it proves `CountIsKept` for every length of datagram and fragment and every
limit. The counter is a sum of sums, each a function over a sequence: `SumsExist` shows
that there is one (a least length without one leads to a contradiction), `SumOnly` that
there is no other, `SumOneMore`, `SumReplaced` and `SumSplit` what changes it. The loop of `ip_reass_remove_oldest_datagram` is a
function of the turn; `IsRest` says what every turn leaves: a beginning of the list, as
many pbufs fewer as it counted, the datagram of the fragment still there if it was.
`Ordered` (ages fall along the list, which holds because the timer is never
renewed) is what makes a removal or a round of the timer keep the rest in order.
`ReassembledIsOriginal` is false of four units and more (finding 8). What does hold is
`AtMostOneHole`: what is handed on starts and ends as it was sent, has nothing twice,
and lacks at most one stretch, in front of the fragment that came last and never in
front of the end. From it follows `ReassembledIsOriginal` for datagrams of up to three
units, which is what the run `Board` checks.

`DhcpProofs` proves `UpOnlyWithLease` for all addresses, times and limits, for every
`Mishaps` without `restart` and `stopBound` (`WellUsed`). The invariant `Good` adds
that an address is on offer in every state that can lead to `dhcp_bind`
(`WithOffer`); there is one lemma for each function of the client. It also proves
`LeaseKept`, for every `Mishaps` that leaves out all but `noServerId` (`Faultless`: an
ACK is awaited by a client with memory, and no timer of an earlier lease fires into a
new request) and every server whose leases outlast the rebinding time, rounded to ticks,
by more than one tick (`TimesFit`; with T2 at seven eighths of the lease and ticks of 60 seconds, every
lease of more than 12 minutes). The invariant `Kept` is an account of time: while the
address is checked, what is left of the lease and the ticks since the ACK add up to
the lease (`Checking`; each of the two ARP requests sees at most one tick); once it is
bound, what is left is more than `t2` - 1 ticks (`Outlasts`), so that
`dhcp_t2_timeout` comes first. And a late ACK is of the address on offer, because
`asked` holds nothing else that can be acknowledged (`AskedFor`).

`TcpUserProofs` proves all the invariants of the TCP engine: `ListsAgree` (with the
types), `NoUseAfterFree`, `NoDanglingRef`, `NoOrphan`, `RefusedOnActive` and
`EveryPcbTicked`, for any number of pcbs, any window and counter, with and without a
FIN held back, and for every application with `WellBehaved`: its `CallbackOps` leave
out `new`, `closeUnread`, `closeRefused`, `closeAccept` and `refuseLate` (see 5); what
it does in its main loop is not restrained. None of these invariants is inductive. `IInv` adds:

* `FrameOK`, for each activation record: if its pcb was freed, the callback above it
  returns `ERR_ABRT` (`dead` exactly when `ab`) or, for a poll, the list is marked
  as changed; if not, the pcb is in a state in which what follows is right (`LiveOK`:
  `tcp_process` has an active pcb and room in the window, a segment that is announced
  is for a synchronised pcb, one that is dropped is held by nobody);
* `Shape`: which records can be above which; a segment waits in `tcp_process` only
  below the redelivery of data refused by the same pcb, and both are freed together;
* `PcbOK`, for each pcb: in which states data is refused, a FIN queued, a pointer held.
  A pointer to a pcb in CLOSING or TIME_WAIT exists only while the FIN of the other
  end is on its way to the application (`Ending`); one that nobody holds is being
  dropped (`Dropped`);
* `WalkOK`: what is ahead of a walk is on the list, the rest of the list was processed.

There is a lemma for each action. Steps that keep the lists go through `QuietLists`,
those that free a pcb through `FreeStep` and, in callbacks, `FreeInApp`, and those
that leave the stack of records alone through `SameStack`; `FrameStays` and
`FrameDies` say when a record survives what happens to its pcb.

It also proves what the server of `app_tcp.c` (`AppTcp`) does keep, for any number of
pcbs and without `WellBehaved`, which the server does not satisfy: `app_tcp_recv`
without a pbuf closes a connection whose data was never passed to `tcp_recved`. A freed
pcb is indeed used (`AppTcp_uaf`), so that `SInv` is claimed only until
then (`ServerInvariant`: `fault` or `SInv`). It says that `IInv` and `ServerOK` hold, or that
the server stands behind that very `tcp_close` (`Doomed`). `ServerOK` has three parts:
each connection has its block, and each block its connection, from `app_tcp_accept` to
the end (`Served`); from which functions of the stack the server is called (`Calls`);
data on its way to `app_tcp_recv` has a block (`Copied`). It was checked with TLC on two
pcbs (265,868 states) before it was proved. What follows from it:

* `ServerFaultsInClose`, an action property: the only step that uses a freed pcb is the
  return from that `tcp_close`; so finding 5 is the only
  way there is;
* `ServerHoldsBlocks`: up to then no block is lost, none is overwritten by
  `app_tcp_accept`, and data is copied only to a block that was not freed;
* `ServerNeverSpins`: the endless loop of `TcpUser_spin` cannot be met with this server,
  which refuses no data, so that no callback runs inside `tcp_fasttmr` (`LagOK`).

`PortsProofs` proves the invariants of `TcpPorts`, `Axioms` and `PortsOK`, for any
finite number of pcbs, every range of ports and all other ends, where `Misuse` is empty
(`Board.cfg` has it so, too; section 3 says what it stands for). A list is a
sequence of pcbs without repetition that the heads and next pointers spell out
(`IsListOf`); `TCP_REG` of a pcb that is on no list and `TCP_RMV` keep it one and leave
the other lists alone, and a walk along it visits exactly its pcbs. So the four lists
become four disjoint sets (`Holds`) and the rest of the argument is about sets: `Good`
says which states, ports and ends the pcbs of each have, and every operation takes a
pcb off one and puts it on another (`TakenOff`, `PutOn`). `tcp_new_port` gives a port
that none of the four lists has (`NewPortIs`), because its search passes every port of
the range (`SearchCovers`).

`TcpStreamProofs` proves every safety property of `TcpStream`: `TypeOK`,
`EveryByteQueuedOnce`, `OoseqInOrder`, `WindowsAreRoom`, `RetransmissionArmed`, the
action property `RightEdgeNeverShrinks`, and the refinement `ImplementsStream`: what
is delivered is what was written, in order and without a gap, and the end only after
all of it. They hold for every segment size, window, buffer and length, and for any
number of segments and ACKs lost, repeated or reordered and of premature time-outs.
The hypothesis `NoWrap` has two parts. `FinFits` is the restraint on the writer of
section 3. The other part says that the sequence numbers of the connection and its
windows do not pass 2^32: `tcp_receive` compares the receive window without wrapping
(tcp_in.c:1389), and `TcpStream_wrap` shows the stream lost where the window crosses
the wrap. With it the comparisons of `TCP_SEQ_LT` are those of numbers
(`SpanCompare`). `TcpStream_fifo` checks a connection whose data does cross it; no
theorem covers that case.

None of these properties is inductive. `IInv` adds:

* `SenderOK`: `unacked` and `unsent` are one `Chain` of pieces of the stream, without
  gap or overlap, from at or before `lastack` to the end of what was written; what is
  on `unacked` lies before `snd_nxt`, and no further than the window last heard of.
  This is what the sorted insertion of `tcp_rexmit` and the moving of the whole of
  `unacked` by `tcp_rexmit_rto` must keep (`Insert`, `From` and their lemmas);
* `ReceiverOK`: `got` is the beginning of the stream, `rcv_nxt` what follows it,
  `ooseq` is `Ordered`: pieces that do not overlap, behind `rcv_nxt`, no further than
  what was both announced and sent; room and unread bytes make up the window, and the
  announced edge is within it;
* `NetworkOK`: a segment in flight lies within the announced edge or is a probe of one
  byte (`InFlight`); an ACK in flight was announced (`Answers`), and of two ACKs the one
  of the higher number announces the further edge (`Rising`), so that one that comes
  late cannot give the sender room the receiver has not: `snd_wl2` keeps it out.

There is a lemma for each function of the code (`AckedUna`, `Rexmit`, `Output`,
`OosInsert`, `Queue`, `Merge`, `Following`, ...) that says what it does to a chain or
to an ordered queue, and one for each action. For the refinement each action is a step
of `Stream` or leaves its variables alone; delivery appends a stretch of the stream.

Only model-checked: the liveness
properties (`InterruptDrains`, `BoardKeepsBlinking`, `TimersKeepFiring`, `PendingEnds`,
`DatagramsExpire`, `ComesUp`, `ArrivesOrStuck`): liveness under fairness is beyond
the prover.

## 7. Not modelled

* The configuration of clocks, pins, MAC, PHY and NVIC: straight-line register
  writes. The DMA engine and the watchdog are external, modelled from their use.
* In TCP: options, checksums, keepalive, the estimation of round trips, memory
  failures of the sender. In `TcpPcb` a list is a set: the order of a walk is any.
* That the whole stack runs in the Ethernet interrupt, while calls of the API would
  come from the main loop: nothing in the port masks it, and nothing calls it yet.
  The modules of the stack take its calls as serialised.
* The transmit path is a skeleton that does not compile. UDP, DNS, IGMP, AutoIP,
  SNMP, PPP, SLIP, IPv6 and the sequential API are vendored, and this program neither
  configures nor calls them; by far the most lines of the repository are theirs, the
  peripheral drivers' and the CMSIS headers'.
* The components marked `not_modelled` in `PROJECT.json`, each with its reason.
