\* Board: a counter of 16 values that wraps in every fourth period or so, and a
\* watchdog that waits for most of a period.
CONSTANTS
  M = 16
  Half = 2
  Full = 4
  Watch = 4
\* Timers: a clock of six values, and a pool with room for the application.
CONSTANTS
  reassTimer = reassTimer
  arpTimer = arpTimer
  tcpTimer = tcpTimer
  Periodic = {reassTimer, arpTimer}
  TcpTimer = tcpTimer
  AppTimer = appTimer
  NoHandler = noHandler
  Interval <- SmallInterval
  AppDelays = {2}
  NumTimeouts = 4
  ClockMod = 6
  Slack = 1
\* Mem: a heap with room for four of the smallest blocks.
CONSTANTS
  MemSize = 22
  Header = 2
  MinSize = 3
  Requests = {1, 3, 4, 6}
\* Etharp: three hosts for two entries; one has two addresses, one is down.
CONSTANTS
  hostA = hostA
  hostB = hostB
  hostC = hostC
  mac1 = mac1
  mac2 = mac2
  Hosts = {hostA, hostB, hostC}
  NoHost = noHost
  Macs = {mac1, mac2}
  NoMac = noMac
  Claims <- SmallClaims
  TableSize = 2
  MaxAge = 3
  ReRequest = 2
  MaxPending = 2
\* IpReass: three datagrams for two records.
CONSTANTS
  Datagrams = {datagram1, datagram2, datagram3}
  DatagramLen = 3
  FragmentLen = 2
  UnitPbufs = 2
  MaxPbufs = 5
  ReassData = 2
  ReassMaxAge = 2
\* TcpPorts: three pcbs and a listener, one remote end, a range of two ports, one
\* of which the application asks for too.
CONSTANTS
  Pcbs = {p1, p2, p3}
  Listeners = {l1}
  Null = null
  Remotes = {r1}
  NoRemote = noRemote
  IpAny = ipAny
  Here = here
  RangeStart = 1
  RangeEnd = 2
  AppPorts = {2}
  Misuse = {}
\* Pbuf: three pbufs, packets that need all of them.
CONSTANTS
  Pbufs = {pbuf1, pbuf2, pbuf3}
  NoPbuf = noPbuf
  BufSize = 1
  Offsets = {0}
  MaxPacket = 3
  MaxRef = 2
\* Dhcp: two addresses, of which another host has one; counters that wrap after
\* three ticks; the server gives a lease some time beyond the rebinding.
CONSTANTS
  Addresses = {address1, address2}
  Squatted = {address2}
  NoAddress = noAddress
  LeaseTime = 7
  AckTimes <- SmallTimes
  CoarseSecs = 2
  CoarseMod = 3
  SelectTries = 1
  RebindTries = 1
  RebootTries = 2
  MaxTries = 2
  Mishaps = {}
SPECIFICATION PartsSpec
INVARIANTS PartsTypeOK
  NoTimerLost
  HeapOK NothingOverlooked
  TableOK NoStrayPacket
  ReassembledIsOriginal CountIsKept
  Axioms PortsOK
  RefsCounted LengthsAddUp
   UpOnlyWithLease
PROPERTIES LedTiming BoardKeepsBlinking
  ImplementsTimerSet TimersKeepFiring
  ImplementsHeap
  PendingEnds
  DatagramsExpire
  ComesUp
