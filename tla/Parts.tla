-------------------------------- MODULE Parts --------------------------------
(***************************************************************************)
(* The parts of the system that are checked alone: the program of the      *)
(* board, and the timers, the heap, the packet buffers, the ARP table, the *)
(* reassembly, the ports of TCP and the DHCP client of lwIP.  A behaviour  *)
(* chooses one of them at the beginning; the others stay where they are.   *)
(***************************************************************************)
EXTENDS Board, Timers, Mem, Etharp, IpReass, TcpPorts, Pbuf, Dhcp, TLC

CONSTANTS reassTimer, arpTimer, tcpTimer, hostA, hostB, hostC, mac1, mac2

\* The periods of the timers and the addresses of the hosts, for the cfg.
SmallInterval == (tcpTimer :> 1) @@ (reassTimer :> 2) @@ (arpTimer :> 3)
SmallClaims == (hostA :> {mac1}) @@ (hostB :> {mac1, mac2}) @@ (hostC :> {})

\* Renewal and rebinding times of the lease.
SmallTimes == {<<2, 4>>}

VARIABLE part

\* Part p takes the step A.
Only(p, A) ==
  /\ part = p
  /\ A
  /\ UNCHANGED part
  /\ p /= "board"  => UNCHANGED vars
  /\ p /= "timers" => UNCHANGED timersVars
  /\ p /= "heap"   => UNCHANGED memVars
  /\ p /= "arp"    => UNCHANGED etharpVars
  /\ p /= "reass"  => UNCHANGED reassVars
  /\ p /= "ports"  => UNCHANGED portVars
  /\ p /= "pbufs"  => UNCHANGED pbufVars
  /\ p /= "dhcp"   => UNCHANGED dhcpVars

PartsInit ==
  /\ part \in {"board", "timers", "heap", "arp", "reass", "ports", "pbufs", "dhcp"}
  /\ Init /\ TimersInit /\ MemInit /\ EtharpInit /\ ReassInit
  /\ PortsInit /\ PbufInit /\ DhcpInit

PartsNext ==
  \/ Only("board", Next)
  \/ Only("timers", TimersNext)
  \/ Only("heap", MemNext)
  \/ Only("arp", EtharpNext)
  \/ Only("reass", ReassNext)
  \/ Only("ports", PortsNext)
  \/ Only("pbufs", PbufNext)
  \/ Only("dhcp", DhcpNext)

\* The clocks and the main program of the board do not stop; somebody checks
\* the timeouts, and the timers of IP, ARP and DHCP are called; the DHCP server
\* does not ignore the client for ever.
PartsSpec ==
  /\ PartsInit /\ [][PartsNext]_<<vars, timersVars, memVars, etharpVars, reassVars,
                               portVars, pbufVars, dhcpVars, part>>
  /\ WF_vars(part = "board" /\ Tick)
  /\ WF_vars(part = "board" /\ Main)
  /\ WF_timersVars(part = "timers" /\ ClockTick)
  /\ WF_timersVars(part = "timers" /\ TimersStep)
  /\ WF_etharpVars(part = "arp" /\ EtharpTmr)
  /\ WF_reassVars(part = "reass" /\ IpReassTmr)
  /\ WF_dhcpVars(part = "dhcp" /\ DhcpFineTmr)
  /\ WF_dhcpVars(part = "dhcp" /\ DhcpCoarseTmr)
  /\ \A a \in Addresses : /\ SF_dhcpVars(part = "dhcp" /\ RecvOffer(a))
                          /\ SF_dhcpVars(part = "dhcp" /\ RecvAck(a))

\* The types of the counters and lists of the board and of the timers.
PartsTypeOK == TypeOK /\ TimersTypeOK

\* The liveness of the board and of the timers, where they move: the LED keeps
\* blinking (led_run_proc), the handlers keep being called (sys_check_timeouts).
BoardKeepsBlinking == part = "board" => KeepsBlinking
TimersKeepFiring == part = "timers" => KeepsFiring
=============================================================================
