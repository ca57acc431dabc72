------------------------------- MODULE Timers -------------------------------
(***************************************************************************)
(* timers.c as a program without an operating system uses it (NO_SYS): one *)
(* list of timeouts, each with the time after the one in front of it, and  *)
(* sys_check_timeouts, called by the main loop.  A handler may set and     *)
(* cancel timeouts; the handlers of lwIP set themselves again, that of TCP *)
(* only as long as there are connections.                                  *)
(***************************************************************************)
EXTENDS Naturals, Sequences, FiniteSets

CONSTANTS
  Periodic,     \* the handlers that sys_timeouts_init starts
  TcpTimer,     \* tcpip_tcp_timer
  AppTimer,     \* a handler of the application
  NoHandler,    \* none of them
  Interval,     \* the period of each handler of lwIP
  AppDelays,    \* the delays the application asks for
  NumTimeouts,  \* MEMP_NUM_SYS_TIMEOUT
  ClockMod,     \* sys_now counts modulo ClockMod (2^32)
  Slack         \* bound: how late the main loop may be in checking

TimeoutHandler == Periodic \cup {TcpTimer, AppTimer}

\* The pool is big enough for one timeout of each handler.
ASSUME TimersAssumption ==
  /\ IsFiniteSet(Periodic)
  /\ TcpTimer \notin Periodic /\ AppTimer \notin Periodic /\ TcpTimer /= AppTimer
  /\ NoHandler \notin TimeoutHandler
  /\ NumTimeouts \in Nat /\ Cardinality(TimeoutHandler) <= NumTimeouts
ASSUME IntervalAssumption ==
  /\ Interval \in [Periodic \cup {TcpTimer} -> Nat \ {0}]
  /\ AppDelays \subseteq Nat \ {0}
  /\ Slack \in Nat /\ ClockMod \in Nat
  /\ \A h \in Periodic \cup {TcpTimer} : Interval[h] + Slack < ClockMod
  /\ \A d \in AppDelays : d + Slack < ClockMod

VARIABLES
  toStart,      \* sys_timeouts_init: the handlers still to be started
  timeouts,     \* next_timeout and what follows: handler h, after time more
  now,          \* sys_now()
  last_time,    \* timeouts_last_time
  checking,     \* sys_check_timeouts runs
  sampled,      \* its variable now
  diff,         \* its variable diff
  running,      \* the handler it has called
  tcp_active,   \* tcpip_tcp_timer_active
  pcbs          \* there are active or TIME_WAIT pcbs

timersVars == <<toStart, timeouts, now, last_time, checking, sampled, diff,
                running, tcp_active, pcbs>>

-----------------------------------------------------------------------------
(* The list. *)

\* The time until the j-th entry of q expires.
Until(q, j) ==
  LET sum[k \in 0 .. Len(q)] == IF k = 0 THEN 0 ELSE sum[k - 1] + q[k].time
  IN  sum[j]

\* Mutant: the entries are compared by their own times.
Place_OwnTime(q, d) ==
  1 + Cardinality({j \in 1 .. Len(q) : \A k \in 1 .. j : q[k].time <= d})

\* Where an entry of d milliseconds goes: behind those that expire no later.
Place(q, d) == 1 + Cardinality({j \in 1 .. Len(q) : Until(q, j) <= d})

\* Mutant: the entry behind the new one keeps its time.
SysTimeout_NextKept(q, h, d) ==
  LET i == Place(q, d)
      t == d - Until(q, i - 1)
  IN  IF Len(q) >= NumTimeouts THEN q
      ELSE [j \in 1 .. Len(q) + 1 |->
              IF j < i THEN q[j]
              ELSE IF j = i THEN [h |-> h, time |-> t]
              ELSE q[j - 1]]

\* sys_timeout: nothing when the pool is empty (an assertion fails).
SysTimeout(q, h, d) ==
  LET i == Place(q, d)
      t == d - Until(q, i - 1)
  IN  IF Len(q) >= NumTimeouts THEN q
      ELSE [j \in 1 .. Len(q) + 1 |->
              IF j < i THEN q[j]
              ELSE IF j = i THEN [h |-> h, time |-> t]
              ELSE IF j = i + 1 THEN [h |-> q[i].h, time |-> q[i].time - t]
              ELSE q[j - 1]]

Scheduled(q, h) == \E j \in DOMAIN q : q[j].h = h
PlaceOf(q, h) == CHOOSE j \in DOMAIN q : q[j].h = h

\* sys_untimeout
SysUntimeout(q, h) ==
  LET i == PlaceOf(q, h)
  IN  [j \in 1 .. Len(q) - 1 |->
         IF j < i THEN q[j]
         ELSE IF j = i THEN [h |-> q[i + 1].h, time |-> q[i + 1].time + q[i].time]
         ELSE q[j + 1]]

-----------------------------------------------------------------------------
(* The clock and sys_check_timeouts. *)

Elapsed == (now - last_time) % ClockMod

\* The main loop checks the timeouts at most Slack after one is due.
ClockTick ==
  /\ toStart = {}
  /\ timeouts /= <<>> => Elapsed < timeouts[1].time + Slack
  /\ now' = (now + 1) % ClockMod
  /\ UNCHANGED <<toStart, timeouts, last_time, checking, sampled, diff, running,
                 tcp_active, pcbs>>

\* sys_timeouts_init: one handler is started, the last one starts the clock.
TimeoutsInit ==
  /\ \E h \in toStart :
       /\ timeouts' = SysTimeout(timeouts, h, Interval[h])
       /\ toStart' = toStart \ {h}
  /\ last_time' = IF toStart' = {} THEN now ELSE last_time
  /\ UNCHANGED <<now, checking, sampled, diff, running, tcp_active, pcbs>>

CheckTimeouts ==
  /\ toStart = {} /\ ~checking /\ timeouts /= <<>>
  /\ checking' = TRUE
  /\ sampled' = now
  /\ diff' = Elapsed
  /\ UNCHANGED <<toStart, timeouts, now, last_time, running, tcp_active, pcbs>>

Due == timeouts /= <<>> /\ timeouts[1].time <= diff

\* The entry is freed before its handler is called.
CallHandler ==
  /\ checking /\ running = NoHandler /\ Due
  /\ last_time' = sampled
  /\ diff' = diff - timeouts[1].time
  /\ timeouts' = Tail(timeouts)
  /\ running' = timeouts[1].h
  /\ UNCHANGED <<toStart, now, checking, sampled, tcp_active, pcbs>>

\* Mutant: every check starts the count of the elapsed time again.
CheckDone_Restarts ==
  /\ checking /\ running = NoHandler /\ ~Due
  /\ checking' = FALSE
  /\ last_time' = sampled
  /\ sampled' = 0 /\ diff' = 0
  /\ UNCHANGED <<toStart, timeouts, now, running, tcp_active, pcbs>>

CheckDone ==
  /\ checking /\ running = NoHandler /\ ~Due
  /\ checking' = FALSE
  /\ sampled' = 0 /\ diff' = 0
  /\ UNCHANGED <<toStart, timeouts, now, last_time, running, tcp_active, pcbs>>

\* A periodic handler, and that of TCP while there are pcbs, sets itself again.
HandlerRearms ==
  /\ running \in Periodic \/ (running = TcpTimer /\ pcbs)
  /\ timeouts' = SysTimeout(timeouts, running, Interval[running])
  /\ running' = NoHandler
  /\ UNCHANGED <<toStart, now, last_time, checking, sampled, diff, tcp_active, pcbs>>

TcpTimerStops ==
  /\ running = TcpTimer /\ ~pcbs
  /\ tcp_active' = FALSE
  /\ running' = NoHandler
  /\ UNCHANGED <<toStart, timeouts, now, last_time, checking, sampled, diff, pcbs>>

AppTimerDone ==
  /\ running = AppTimer
  /\ running' = NoHandler
  /\ UNCHANGED <<toStart, timeouts, now, last_time, checking, sampled, diff,
                 tcp_active, pcbs>>

-----------------------------------------------------------------------------
(* What the application does, in the main loop, in its own handler or in a *)
(* callback of tcp_tmr.                                                    *)

AppRuns == toStart = {} /\ (~checking \/ running \in {TcpTimer, AppTimer})

\* Mutant: tcp_timer_needed looks for the timer in the list, not at the flag.
TcpReg_Again ==
  /\ AppRuns
  /\ pcbs' = TRUE
  /\ tcp_active' = TRUE
  /\ timeouts' = IF Scheduled(timeouts, TcpTimer) THEN timeouts
                 ELSE SysTimeout(timeouts, TcpTimer, Interval[TcpTimer])
  /\ UNCHANGED <<toStart, now, last_time, checking, sampled, diff, running>>

\* TCP_REG: a connection is registered, tcp_timer_needed.
TcpReg ==
  /\ AppRuns
  /\ pcbs' = TRUE
  /\ tcp_active' = TRUE
  /\ timeouts' = IF tcp_active THEN timeouts
                 ELSE SysTimeout(timeouts, TcpTimer, Interval[TcpTimer])
  /\ UNCHANGED <<toStart, now, last_time, checking, sampled, diff, running>>

\* TCP_RMV: the last connection is removed.
TcpRmv ==
  /\ AppRuns
  /\ pcbs' = FALSE
  /\ UNCHANGED <<toStart, timeouts, now, last_time, checking, sampled, diff,
                 running, tcp_active>>

AppTimeout(d) ==
  /\ AppRuns
  /\ ~Scheduled(timeouts, AppTimer)
  /\ timeouts' = SysTimeout(timeouts, AppTimer, d)
  /\ UNCHANGED <<toStart, now, last_time, checking, sampled, diff, running,
                 tcp_active, pcbs>>

AppUntimeout ==
  /\ AppRuns
  /\ Scheduled(timeouts, AppTimer)
  /\ timeouts' = SysUntimeout(timeouts, AppTimer)
  /\ UNCHANGED <<toStart, now, last_time, checking, sampled, diff, running,
                 tcp_active, pcbs>>

\* sys_restart_timeouts
RestartTimeouts ==
  /\ toStart = {} /\ ~checking
  /\ last_time' = now
  /\ UNCHANGED <<toStart, timeouts, now, checking, sampled, diff, running,
                 tcp_active, pcbs>>

-----------------------------------------------------------------------------
TimersInit ==
  /\ toStart = Periodic
  /\ timeouts = <<>>
  /\ now = 0 /\ last_time = 0
  /\ checking = FALSE /\ sampled = 0 /\ diff = 0
  /\ running = NoHandler
  /\ tcp_active = FALSE /\ pcbs = FALSE

TimersStep ==
  \/ TimeoutsInit
  \/ CheckTimeouts
  \/ CallHandler
  \/ CheckDone
  \/ HandlerRearms
  \/ TcpTimerStops
  \/ AppTimerDone

TimersNext ==
  \/ ClockTick
  \/ TimersStep
  \/ TcpReg
  \/ TcpRmv
  \/ \E d \in AppDelays : AppTimeout(d)
  \/ AppUntimeout
  \/ RestartTimeouts

TimersSpec == TimersInit /\ [][TimersNext]_timersVars

-----------------------------------------------------------------------------
(* Properties. *)

\* Every variable has its type.  In particular no time of the list, which is
\* unsigned in the code, has gone below zero.
TimersTypeOK ==
  /\ toStart \subseteq Periodic
  /\ timeouts \in Seq([h : TimeoutHandler, time : Nat])
  /\ now \in 0 .. ClockMod - 1 /\ last_time \in 0 .. ClockMod - 1
  /\ sampled \in 0 .. ClockMod - 1 /\ diff \in 0 .. ClockMod - 1
  /\ checking \in BOOLEAN
  /\ running \in TimeoutHandler \cup {NoHandler}
  /\ tcp_active \in BOOLEAN /\ pcbs \in BOOLEAN

\* No handler is lost and none is set twice, although entries are freed before
\* their handlers run, handlers call back into sys_timeout and tcp_timer_needed,
\* and the timer of TCP comes and goes: a handler of lwIP is in the list or
\* running (tcpip_tcp_timer exactly when its flag says so, and always when there
\* are pcbs), and no handler is in the list twice.
NoTimerLost ==
  /\ \A i, j \in DOMAIN timeouts : timeouts[i].h = timeouts[j].h => i = j
  /\ \A h \in Periodic :
       (h \in toStart) \/ (running = h) <=> ~Scheduled(timeouts, h)
  /\ tcp_active <=> Scheduled(timeouts, TcpTimer) \/ running = TcpTimer
  /\ ~(Scheduled(timeouts, TcpTimer) /\ running = TcpTimer)
  /\ pcbs => tcp_active

\* The list of differences is a set of timers, each with its own time.
Deadlines == INSTANCE TimerSet WITH
  Timer  <- TimeoutHandler,
  Delay  <- AppDelays \cup {Interval[h] : h \in Periodic \cup {TcpTimer}},
  left   <- [h \in {timeouts[j].h : j \in DOMAIN timeouts} |->
               Until(timeouts, PlaceOf(timeouts, h))],
  credit <- diff
ImplementsTimerSet == Deadlines!Spec

\* Every periodic handler is called again and again, and that of TCP as long as
\* there are connections, whatever the application sets and cancels, unless it
\* keeps calling sys_restart_timeouts.
KeepsFiring ==
  \/ []<><<RestartTimeouts>>_timersVars
  \/ /\ \A h \in Periodic : []<>(running = h)
     /\ <>[]pcbs => []<>(running = TcpTimer)
=============================================================================
