------------------------------ MODULE TimeProofs ------------------------------
(***************************************************************************)
(* Proofs about the two places where the program counts time: Board, for   *)
(* every width of the counter, every period of the LED and every time-out  *)
(* of the watchdog that fit together; and Timers, for every set of         *)
(* handlers, every interval and every clock.                               *)
(*                                                                         *)
(* The argument for Board is an account of time: between two feeds at most *)
(* Watch jiffies pass, and a pass of the main loop that does not restart   *)
(* the period has seen less than Full of them, so that age never exceeds   *)
(* Full + 2 * Watch, which the counter can hold (WidthAssumption).         *)
(*                                                                         *)
(* No timer of Timers is lost: the pool of timeouts never runs out,        *)
(* because the list has each handler at most once and there is an entry    *)
(* for each.                                                               *)
(*                                                                         *)
(* That the list of differences is a set of timers, each with its own      *)
(* time, needs the sum of its times up to a place: a recursive function,   *)
(* which exists because a least n without such sums up to n cannot be      *)
(* (SumsExist), and is the only one of its kind (UntilOnly).  With that,   *)
(* the three operations of the list are one operation each on the times    *)
(* that the handlers have left (TimeoutTimes, UntimeoutTimes, TailTimes).  *)
(*                                                                         *)
(* Parts, which extends both, is treated last: a step of it is a step of   *)
(* one part and leaves the variables of the others alone.                  *)
(***************************************************************************)
EXTENDS Parts, FiniteSetTheorems, SequenceTheorems, WellFoundedInduction, TLAPS

-----------------------------------------------------------------------------
(* Board.                                                                  *)

Starting == {"boot", "SysTick_init", "led_init", "unmask", "enable"}
Passed == {"before2", "again2", "test2", "on", "feed"}
Called == {"again1", "test1", "again2", "test2"}

\* jiffies is led_run_time plus age, modulo M.
InStep == jiffies = led_run_time + age \/ jiffies = led_run_time + age - M

\* Before the watchdog runs, no period has ended and few jiffies have passed.
StartUp ==
  pc \in Starting =>
    /\ dog = 0
    /\ led_run_time = 0
    /\ age < Half
    /\ pc \in {"boot", "SysTick_init"} => ~ticking /\ ~pending
    /\ pc \in {"boot", "SysTick_init", "led_init", "unmask"} => age = 0
    /\ pc \in {"SysTick_init", "led_init", "unmask"} => masked
    /\ pc = "enable" => ~masked
    /\ pending => Half > 1

\* Afterwards age and what the watchdog still allows are bounded together.
Running ==
  pc \notin Starting =>
    /\ dog > 0
    /\ ~masked
    /\ age + dog <= Full + 2 * Watch
    /\ pc \in Passed => age + dog <= Full + Watch
    /\ pc \in {"again1", "test1"} => age + dog <= start + Watch

\* The call of jiffies_before in progress.
Calling ==
  /\ pc \in Called => start <= age
  /\ pc \in {"again1", "again2"} => tmp = led_run_time + start - M /\ tmp < led_run_time
  /\ pc \in {"test1", "test2"} => start - 1 <= tmp /\ tmp <= age

\* What the tests have established.
Tested ==
  /\ pc = "off" => age >= Full
  /\ pc = "on" => age >= Half

BoardInv ==
  /\ TypeOK
  /\ NoAlias
  /\ InStep
  /\ StartUp
  /\ Running
  /\ Calling
  /\ Tested

\* A number below M is its own remainder.
LEMMA SmallMod == ASSUME NEW a \in 0 .. M-1 PROVE a % M = a
  BY WidthAssumption, PeriodAssumption

\* A reset board satisfies the invariant.
LEMMA BoardInitInv == Init => BoardInv
<1> SUFFICES ASSUME Init PROVE BoardInv
  OBVIOUS
<1> USE WidthAssumption, PeriodAssumption DEF Init
<1>1. TypeOK /\ NoAlias
  <2>1. 0 \in 0 .. M-1 /\ 0 \in 0 .. M /\ 0 \in 0 .. Watch /\ 0 < M
    OBVIOUS
  <2>2. pc \in PC
    BY DEF PC
  <2> QED BY <2>1, <2>2 DEF TypeOK, NoAlias
<1>2. InStep /\ StartUp /\ Running
  BY DEF InStep, StartUp, Starting, Running
<1>3. Calling /\ Tested
  BY DEF Calling, Called, Tested
<1> QED BY <1>1, <1>2, <1>3 DEF BoardInv

\* The types in a form the arithmetic of the proofs can use.
LEMMA Types ==
  ASSUME BoardInv
  PROVE  /\ jiffies \in Int /\ led_run_time \in Int /\ tmp \in Int
         /\ 0 <= jiffies /\ jiffies < M /\ 0 <= led_run_time /\ led_run_time < M
         /\ 0 <= tmp /\ tmp < M
         /\ dog \in Int /\ 0 <= dog /\ dog <= Watch
         /\ age \in Int /\ 0 <= age /\ age < M
         /\ start \in Int /\ 0 <= start /\ start <= M
         /\ M \in Int /\ Half \in Int /\ Full \in Int /\ Watch \in Int
         /\ 0 < Half /\ Half < Full /\ 0 < Watch /\ Full + 2 * Watch < M
  BY WidthAssumption, PeriodAssumption DEF BoardInv, TypeOK, NoAlias

\* SysTick_Handler: the count and the time that passed move together.
LEMMA CountInStep ==
  ASSUME BoardInv, Count, led_run_time' = led_run_time, age + 1 < M
  PROVE  InStep' /\ jiffies' \in 0 .. M-1 /\ age' = age + 1
<1> USE Types
<1>1. age' = age + 1
  BY DEF Count
<1>2. CASE jiffies = M - 1
  <2>1. jiffies' = 0
    <3>1. M % M = 0
      OBVIOUS
    <3> QED BY <1>2, <3>1 DEF Count
  <2> QED BY <1>1, <1>2, <2>1 DEF InStep, BoardInv
<1>3. CASE jiffies /= M - 1
  <2>1. jiffies + 1 \in 0 .. M-1
    BY <1>3
  <2>2. jiffies' = jiffies + 1
    BY <2>1, SmallMod DEF Count
  <2> QED BY <1>1, <2>1, <2>2 DEF InStep, BoardInv
<1> QED BY <1>2, <1>3

\* A step of SysTick.
LEMMA TickInv == ASSUME BoardInv, Tick PROVE BoardInv'
<1> USE Types
<1>1. pc' = pc /\ led_run_time' = led_run_time /\ tmp' = tmp /\ start' = start
      /\ led' = led /\ masked' = masked /\ ticking' = ticking /\ ticking
      /\ dog /= 1 /\ (dog = 0 => age < Half - 1)
      /\ dog' = (IF dog > 0 THEN dog - 1 ELSE 0)
  BY DEF Tick, local
<1>2. CASE masked
  <2>1. pending' = TRUE /\ jiffies' = jiffies /\ age' = age
    BY <1>2 DEF Tick
  <2>2. pc \in Starting
    BY <1>2 DEF BoardInv, Running
  <2>3. StartUp'
    BY <1>1, <1>2, <2>1, <2>2 DEF BoardInv, StartUp
  <2>4. TypeOK' /\ NoAlias' /\ InStep'
    BY <1>1, <2>1 DEF BoardInv, TypeOK, NoAlias, InStep
  <2>5. Running' /\ Calling' /\ Tested'
    BY <1>1, <2>1, <2>2 DEF Running, Calling, Called, Tested, Starting
  <2> QED BY <2>3, <2>4, <2>5 DEF BoardInv
<1>3. CASE ~masked
  <2>1. Count /\ pending' = pending
    BY <1>3 DEF Tick
  <2>2. age + 1 < M
    BY <1>1 DEF BoardInv, StartUp, Running
  <2>3. InStep' /\ jiffies' \in 0 .. M-1 /\ age' = age + 1
    BY <1>1, <2>1, <2>2, CountInStep
  <2>4. TypeOK' /\ NoAlias'
    BY <1>1, <2>1, <2>2, <2>3 DEF BoardInv, TypeOK, NoAlias
  <2>5. StartUp'
    BY <1>1, <1>3, <2>1, <2>3 DEF BoardInv, StartUp, Starting
  <2>6. Running'
    BY <1>1, <1>3, <2>3 DEF BoardInv, Running, StartUp
  <2>7. Calling' /\ Tested'
    BY <1>1, <2>3 DEF BoardInv, Calling, Tested
  <2> QED BY <2>3, <2>4, <2>5, <2>6, <2>7 DEF BoardInv
<1> QED BY <1>2, <1>3

\* The watchdog starts everything anew.
LEMMA BiteInv == ASSUME BoardInv, Bite PROVE BoardInv'
<1> USE Types DEF Bite
<1>1. TypeOK' /\ NoAlias'
  <2>1. 0 \in 0 .. M-1 /\ 0 \in 0 .. M /\ 0 \in 0 .. Watch /\ 0 < M
    OBVIOUS
  <2>2. pc' \in PC
    BY DEF PC
  <2> QED BY <2>1, <2>2 DEF TypeOK, NoAlias
<1>2. InStep' /\ StartUp' /\ Running'
  BY DEF InStep, StartUp, Starting, Running
<1>3. Calling' /\ Tested'
  BY DEF Calling, Called, Tested
<1> QED BY <1>1, <1>2, <1>3 DEF BoardInv

\* system_init.
LEMMA StartInv ==
  ASSUME BoardInv, Mask \/ SysTick_init \/ Led_init \/ Enable
  PROVE  BoardInv'
<1> USE Types DEF local, clock
<1>1. CASE Mask \/ Led_init
  <2>1. TypeOK' /\ NoAlias' /\ InStep'
    BY <1>1 DEF Mask, Led_init, BoardInv, TypeOK, PC, NoAlias, InStep
  <2>2. StartUp' /\ Running' /\ Calling' /\ Tested'
    BY <1>1 DEF Mask, Led_init, BoardInv, StartUp, Starting, Running, Calling, Called, Tested
  <2> QED BY <2>1, <2>2 DEF BoardInv
<1>2. CASE SysTick_init
  <2>1. led_run_time = 0 /\ age = 0 /\ ~pending /\ masked
    BY <1>2 DEF SysTick_init, BoardInv, StartUp, Starting
  <2>2. 0 \in 0 .. M-1
    OBVIOUS
  <2>3. TypeOK' /\ NoAlias' /\ InStep'
    BY <1>2, <2>1, <2>2 DEF SysTick_init, BoardInv, TypeOK, PC, NoAlias, InStep
  <2>4. StartUp' /\ Running' /\ Calling' /\ Tested'
    BY <1>2, <2>1 DEF SysTick_init, BoardInv, StartUp, Starting, Running, Calling, Called, Tested
  <2> QED BY <2>3, <2>4 DEF BoardInv
<1>3. CASE Enable
  <2>1. Watch \in 0 .. Watch
    OBVIOUS
  <2>2. TypeOK' /\ NoAlias' /\ InStep'
    BY <1>3, <2>1 DEF Enable, Reload, BoardInv, TypeOK, PC, NoAlias, InStep
  <2>3. age < Half /\ ~masked
    BY <1>3 DEF Enable, BoardInv, StartUp, Starting
  <2>4. StartUp' /\ Running' /\ Calling' /\ Tested'
    BY <1>3, <2>3 DEF Enable, Reload, BoardInv, StartUp, Starting, Running, Calling, Called, Tested
  <2> QED BY <2>2, <2>4 DEF BoardInv
<1> QED BY <1>1, <1>2, <1>3

\* enable_irq, with the exception that may wait.
LEMMA UnmaskInv == ASSUME BoardInv, Unmask PROVE BoardInv'
<1> USE Types DEF local
<1>1. pc = "unmask" /\ pc' = "enable" /\ ~masked' /\ ~pending' /\ dog = 0 /\ dog' = 0
      /\ led_run_time = 0 /\ led_run_time' = 0 /\ age = 0 /\ (pending => Half > 1)
      /\ tmp' = tmp /\ start' = start /\ led' = led /\ ticking' = ticking
  BY DEF Unmask, BoardInv, StartUp, Starting
<1>2. masked' \in BOOLEAN /\ pending' \in BOOLEAN
  BY DEF Unmask
<1>3. CASE pending
  <2>1. Count
    BY <1>3 DEF Unmask
  <2>2. InStep' /\ jiffies' \in 0 .. M-1 /\ age' = age + 1
    BY <1>1, <2>1, CountInStep
  <2>3. TypeOK' /\ NoAlias'
    BY <1>1, <1>2, <2>2 DEF BoardInv, TypeOK, NoAlias, PC
  <2>4. StartUp' /\ Running' /\ Calling' /\ Tested'
    BY <1>1, <1>3, <2>2 DEF StartUp, Starting, Running, Calling, Called, Tested
  <2> QED BY <2>2, <2>3, <2>4 DEF BoardInv
<1>4. CASE ~pending
  <2>1. jiffies' = jiffies /\ age' = age
    BY <1>4 DEF Unmask
  <2>2. TypeOK' /\ NoAlias' /\ InStep'
    BY <1>1, <1>2, <2>1 DEF BoardInv, TypeOK, NoAlias, PC, InStep
  <2>3. StartUp' /\ Running' /\ Calling' /\ Tested'
    BY <1>1, <2>1 DEF StartUp, Starting, Running, Calling, Called, Tested
  <2> QED BY <2>2, <2>3 DEF BoardInv
<1> QED BY <1>3, <1>4

\* The main loop outside jiffies_before.
LEMMA LoopInv ==
  ASSUME BoardInv, Feed \/ Test1 \/ Test2 \/ Off \/ On \/ Restart
  PROVE  BoardInv'
<1> USE Types DEF local, clock
<1>1. CASE Feed
  <2>1. Watch \in 0 .. Watch
    OBVIOUS
  <2>2. TypeOK' /\ NoAlias' /\ InStep'
    BY <1>1, <2>1 DEF Feed, Reload, BoardInv, TypeOK, PC, NoAlias, InStep
  <2>3. age + dog <= Full + Watch /\ ~masked /\ dog > 0
    BY <1>1 DEF Feed, BoardInv, Running, Starting, Passed
  <2>4. StartUp' /\ Running' /\ Calling' /\ Tested'
    BY <1>1, <2>3 DEF Feed, Reload, StartUp, Starting, Running, Passed, Calling, Called, Tested
  <2> QED BY <2>2, <2>4 DEF BoardInv
<1>2. CASE Test1 \/ Test2
  <2>1. TypeOK' /\ NoAlias' /\ InStep'
    BY <1>2 DEF Test1, Test2, Test, BoardInv, TypeOK, PC, NoAlias, InStep
  <2>2. StartUp' /\ Calling' /\ Tested'
    BY <1>2 DEF Test1, Test2, Test, BoardInv, StartUp, Starting, Calling, Called, Tested
  <2>3. Running'
    BY <1>2 DEF Test1, Test2, Test, BoardInv, Running, Starting, Passed, Calling, Called
  <2> QED BY <2>1, <2>2, <2>3 DEF BoardInv
<1>3. CASE Off \/ On
  <2>1. TypeOK' /\ NoAlias' /\ InStep'
    BY <1>3 DEF Off, On, Set, BoardInv, TypeOK, PC, NoAlias, InStep
  <2>2. StartUp' /\ Calling' /\ Tested'
    BY <1>3 DEF Off, On, Set, BoardInv, StartUp, Starting, Calling, Called, Tested
  <2>3. Running'
    BY <1>3 DEF Off, On, Set, BoardInv, Running, Starting, Passed
  <2> QED BY <2>1, <2>2, <2>3 DEF BoardInv
<1>4. CASE Restart
  <2>1. 0 \in 0 .. M
    OBVIOUS
  <2>2. TypeOK' /\ NoAlias' /\ InStep'
    BY <1>4, <2>1 DEF Restart, BoardInv, TypeOK, PC, NoAlias, InStep
  <2>3. StartUp' /\ Calling' /\ Tested'
    BY <1>4 DEF Restart, BoardInv, StartUp, Starting, Calling, Called, Tested
  <2>4. Running'
    BY <1>4 DEF Restart, BoardInv, Running, Starting, Passed
  <2> QED BY <2>2, <2>3, <2>4 DEF BoardInv
<1> QED BY <1>1, <1>2, <1>3, <1>4

\* jiffies_before reads the counter.
LEMMA BeforeInv ==
  ASSUME BoardInv,
         Before("before1", "again1", "test1") \/ Before("before2", "again2", "test2")
  PROVE  BoardInv'
<1> USE Types DEF clock
<1>1. start' = age /\ age' = age /\ dog' = dog /\ jiffies' = jiffies
      /\ led_run_time' = led_run_time /\ led' = led /\ masked' = masked
      /\ ticking' = ticking /\ pending' = pending
  BY DEF Before
<1>2. \/ jiffies >= led_run_time /\ tmp' = jiffies - led_run_time
         /\ ((pc = "before1" /\ pc' = "test1") \/ (pc = "before2" /\ pc' = "test2"))
      \/ jiffies < led_run_time /\ tmp' = jiffies
         /\ ((pc = "before1" /\ pc' = "again1") \/ (pc = "before2" /\ pc' = "again2"))
  <2>1. CASE jiffies >= led_run_time
    BY <2>1 DEF Before
  <2>2. CASE jiffies < led_run_time
    BY <2>2 DEF Before
  <2> QED BY <2>1, <2>2
<1>3. TypeOK' /\ NoAlias' /\ InStep'
  BY <1>1, <1>2 DEF BoardInv, TypeOK, PC, NoAlias, InStep
<1>4. StartUp' /\ Tested'
  BY <1>1, <1>2 DEF BoardInv, StartUp, Starting, Tested
<1>5. Running'
  BY <1>1, <1>2 DEF BoardInv, Running, Starting, Passed
<1>6. Calling'
  <2>1. jiffies >= led_run_time => jiffies = led_run_time + age
    BY DEF BoardInv, InStep
  <2>2. jiffies < led_run_time => jiffies = led_run_time + age - M
    BY DEF BoardInv, InStep
  <2> QED BY <1>1, <1>2, <2>1, <2>2 DEF Calling, Called
<1> QED BY <1>3, <1>4, <1>5, <1>6 DEF BoardInv

\* jiffies_before after a wrap: either read gives a time of the call, less one.
LEMMA AgainInv ==
  ASSUME BoardInv, Again("again1", "test1") \/ Again("again2", "test2")
  PROVE  BoardInv'
<1> USE Types DEF clock
<1>1. start' = start /\ age' = age /\ dog' = dog /\ jiffies' = jiffies
      /\ led_run_time' = led_run_time /\ led' = led /\ masked' = masked
      /\ ticking' = ticking /\ pending' = pending
      /\ ((pc = "again1" /\ pc' = "test1") \/ (pc = "again2" /\ pc' = "test2"))
  <2>1. CASE Again("again1", "test1")
    BY <2>1 DEF Again
  <2>2. CASE Again("again2", "test2")
    BY <2>2 DEF Again
  <2> QED BY <2>1, <2>2
<1>2. tmp = led_run_time + start - M /\ tmp < led_run_time /\ start <= age
  BY <1>1 DEF BoardInv, Calling, Called
<1>3. jiffies = led_run_time + age - M
  BY <1>2 DEF BoardInv, InStep
<1>4. PICK j \in {jiffies, tmp} : tmp' = (j + (M - 1 - led_run_time)) % M
  BY DEF Again
<1>5. j + (M - 1 - led_run_time) \in 0 .. M-1
  BY <1>2, <1>3
<1>6. tmp' = j + (M - 1 - led_run_time)
  BY <1>4, <1>5, SmallMod
<1>7. tmp' \in 0 .. M-1 /\ start - 1 <= tmp' /\ tmp' <= age
  BY <1>2, <1>3, <1>5, <1>6
<1>8. TypeOK' /\ NoAlias' /\ InStep'
  BY <1>1, <1>7 DEF BoardInv, TypeOK, PC, NoAlias, InStep
<1>9. StartUp' /\ Tested'
  BY <1>1 DEF BoardInv, StartUp, Starting, Tested
<1>10. Running' /\ Calling'
  BY <1>1, <1>2, <1>7 DEF BoardInv, Running, Starting, Passed, Calling, Called
<1> QED BY <1>8, <1>9, <1>10 DEF BoardInv

\* Every step of the board keeps the account of time.
LEMMA BoardStepInv == BoardInv /\ [Next]_vars => BoardInv'
<1> SUFFICES ASSUME BoardInv, [Next]_vars PROVE BoardInv'
  OBVIOUS
<1>1. CASE Tick
  BY <1>1, TickInv
<1>2. CASE Bite
  BY <1>2, BiteInv
<1>3. CASE Main
  BY <1>3, StartInv, UnmaskInv, LoopInv, BeforeInv, AgainInv DEF Main
<1>4. CASE UNCHANGED vars
  BY <1>4
  DEF vars, BoardInv, TypeOK, NoAlias, InStep, StartUp, Running, Calling, Tested
<1> QED BY <1>1, <1>2, <1>3, <1>4 DEF Next

THEOREM BoardInvariant == Spec => []BoardInv
<1>1. Init => BoardInv
  BY BoardInitInv
<1>2. BoardInv /\ [Next]_vars => BoardInv'
  BY BoardStepInv
<1> QED BY <1>1, <1>2, PTL DEF Spec

\* Every variable keeps its type.
THEOREM TypeCorrect == Spec => []TypeOK
<1>1. BoardInv => TypeOK
  BY DEF BoardInv
<1> QED BY <1>1, BoardInvariant, PTL

\* The watchdog resets the board before a period outlasts the counter.
THEOREM NeverAliased == Spec => []NoAlias
<1>1. BoardInv => NoAlias
  BY DEF BoardInv
<1> QED BY <1>1, BoardInvariant, PTL

\* jiffies_before is right but for one jiffy, whatever the width of the counter
\* and wherever it wraps.
THEOREM ElapsedHolds == Spec => []ElapsedClose
<1>1. BoardInv => ElapsedClose
  BY DEF BoardInv, Calling, ElapsedClose
<1> QED BY <1>1, BoardInvariant, PTL

\* The LED is never switched early.
THEOREM LedInTime == Spec => LedTiming
<1>1. BoardInv /\ [Next]_vars => [LedStep]_vars
  BY DEF BoardInv, Tested, LedStep, On, Off, Set
<1> QED BY <1>1, BoardInvariant, PTL DEF Spec, LedTiming

-----------------------------------------------------------------------------
(* Timers.                                                                 *)

\* q is a list of handlers, with a time each.
IsList(q) ==
  /\ q \in Seq({q[j] : j \in DOMAIN q})
  /\ \A j \in DOMAIN q : q[j].h \in TimeoutHandler

Distinct(q) == \A i, j \in DOMAIN q : q[i].h = q[j].h => i = j

TimersInv ==
  /\ IsList(timeouts)
  /\ toStart \subseteq Periodic
  /\ running \in TimeoutHandler \cup {NoHandler}
  /\ tcp_active \in BOOLEAN /\ pcbs \in BOOLEAN
  /\ checking \/ running /= NoHandler => toStart = {}
  /\ NoTimerLost

-----------------------------------------------------------------------------
\* The handlers of the list are finitely many.
LEMMA HandlersFinite == IsFiniteSet(TimeoutHandler)
  <1>1. IsFiniteSet(Periodic \cup {TcpTimer})
    BY TimersAssumption, FS_AddElement
  <1>2. IsFiniteSet((Periodic \cup {TcpTimer}) \cup {AppTimer})
    BY <1>1, FS_AddElement
  <1>3. (Periodic \cup {TcpTimer}) \cup {AppTimer} = TimeoutHandler
    BY DEF TimeoutHandler
  <1> QED BY <1>2, <1>3

LEMMA IntervalSize ==
  ASSUME NEW n \in Nat
  PROVE  IsFiniteSet(1 .. n) /\ Cardinality(1 .. n) = n
  <1>1. 1 \in Int /\ n \in Int
    OBVIOUS
  <1>2. Cardinality(1 .. n) = IF 1 > n THEN 0 ELSE n - 1 + 1
    BY <1>1, FS_Interval
  <1> QED BY <1>1, <1>2, FS_Interval

\* A list that does not have handler h leaves an entry in the pool.
LEMMA RoomInPool ==
  ASSUME NEW q, IsList(q), Distinct(q), NEW h \in TimeoutHandler, ~Scheduled(q, h)
  PROVE  Len(q) < NumTimeouts
  <1> DEFINE T == TimeoutHandler \ {h}
             f == [j \in 1 .. Len(q) |-> q[j].h]
  <1>1. Len(q) \in Nat /\ DOMAIN q = 1 .. Len(q)
    BY DEF IsList
  <1>2. f \in Injection(1 .. Len(q), T)
    <2>1. \A j \in 1 .. Len(q) : q[j].h \in T
      BY <1>1 DEF IsList, Scheduled
    <2>2. f \in [1 .. Len(q) -> T]
      BY <2>1
    <2>3. \A i, j \in 1 .. Len(q) : f[i] = f[j] => i = j
      BY <1>1 DEF Distinct
    <2> QED BY <2>2, <2>3 DEF Injection, IsInjective
  <1>3. IsFiniteSet(T) /\ Cardinality(T) = Cardinality(TimeoutHandler) - 1
    BY HandlersFinite, FS_RemoveElement
  <1>4. Cardinality(1 .. Len(q)) <= Cardinality(T)
    BY <1>2, <1>3, FS_Injection
  <1>5. Cardinality(1 .. Len(q)) = Len(q)
    BY <1>1, IntervalSize
  <1>6. Cardinality(TimeoutHandler) \in Nat
    BY HandlersFinite, FS_CardinalityType
  <1> QED BY <1>1, <1>3, <1>4, <1>5, <1>6, TimersAssumption

\* The place of a new entry is in the list or just behind it.
LEMMA PlaceRange ==
  ASSUME NEW q, Len(q) \in Nat, NEW d
  PROVE  Place(q, d) \in 1 .. Len(q) + 1
  <1> DEFINE S == {j \in 1 .. Len(q) : Until(q, j) <= d}
  <1>1. IsFiniteSet(1 .. Len(q)) /\ Cardinality(1 .. Len(q)) = Len(q)
    BY IntervalSize
  <1>2. S \in SUBSET (1 .. Len(q))
    OBVIOUS
  <1>3. IsFiniteSet(S) /\ Cardinality(S) <= Len(q)
    BY <1>1, <1>2, FS_Subset
  <1>4. Cardinality(S) \in Nat
    BY <1>3, FS_CardinalityType
  <1>5. Place(q, d) = 1 + Cardinality(S)
    BY DEF Place
  <1> QED BY <1>3, <1>4, <1>5

\* What is needed to see that a function is a list.
LEMMA ListOf ==
  ASSUME NEW n \in Nat, NEW S, NEW q \in [1 .. n -> S],
         \A j \in 1 .. n : q[j].h \in TimeoutHandler
  PROVE  IsList(q) /\ Len(q) = n /\ DOMAIN q = 1 .. n
  <1> DEFINE R == {q[j] : j \in DOMAIN q}
  <1>1. DOMAIN q = 1 .. n /\ q \in [1 .. n -> R]
    OBVIOUS
  <1>2. q \in Seq(R)
    BY <1>1, SeqDef
  <1>3. Len(q) \in Nat /\ DOMAIN q = 1 .. Len(q)
    BY <1>2, LenProperties
  <1>4. Len(q) = n
    BY <1>1, <1>3
  <1> QED BY <1>1, <1>2, <1>4 DEF IsList

LEMMA ListLen ==
  ASSUME NEW q, IsList(q)
  PROVE  Len(q) \in Nat /\ DOMAIN q = 1 .. Len(q)
  BY LenProperties DEF IsList

\* sys_timeout adds its handler, and keeps the others.
LEMMA TimeoutAdds ==
  ASSUME NEW q, IsList(q), Distinct(q),
         NEW h \in TimeoutHandler, ~Scheduled(q, h), NEW d
  PROVE  /\ IsList(SysTimeout(q, h, d))
         /\ Distinct(SysTimeout(q, h, d))
         /\ \A k : Scheduled(SysTimeout(q, h, d), k) <=> Scheduled(q, k) \/ k = h
  <1> DEFINE n == Len(q)
             i == Place(q, d)
             p == SysTimeout(q, h, d)
             t == d - Until(q, i - 1)
             e(j) == IF j < i THEN q[j]
                     ELSE IF j = i THEN [h |-> h, time |-> t]
                     ELSE IF j = i + 1 THEN [h |-> q[i].h, time |-> q[i].time - t]
                     ELSE q[j - 1]
  <1>1. n \in Nat /\ DOMAIN q = 1 .. n
    BY ListLen
  <1>2. i \in 1 .. n + 1
    BY <1>1, PlaceRange
  <1>3. ~(Len(q) >= NumTimeouts)
    BY <1>1, RoomInPool, TimersAssumption
  <1>4. p = [j \in 1 .. n + 1 |-> e(j)]
    BY <1>3 DEF SysTimeout
  <1>5. \A j \in 1 .. n + 1 : p[j].h = IF j < i THEN q[j].h
                                       ELSE IF j = i THEN h ELSE q[j - 1].h
    <2> TAKE j \in 1 .. n + 1
    <2>1. p[j] = e(j)
      BY <1>4
    <2>2. i \in Nat /\ j \in Nat
      BY <1>1, <1>2
    <2> HIDE DEF p, t, i, n
    <2>3. CASE j < i
      BY <2>1, <2>3
    <2>4. CASE j = i
      <3>1. p[j] = [h |-> h, time |-> t]
        BY <2>1, <2>2, <2>4
      <3> QED BY <3>1, <2>2, <2>4
    <2>5. CASE j = i + 1
      <3>1. p[j] = [h |-> q[i].h, time |-> q[i].time - t]
        BY <2>1, <2>2, <2>5
      <3>2. p[j].h = q[i].h /\ j - 1 = i
        BY <3>1, <2>2, <2>5
      <3> QED BY <3>2, <2>2, <2>5
    <2>6. CASE j > i + 1
      BY <2>1, <2>2, <2>6
    <2> QED BY <2>2, <2>3, <2>4, <2>5, <2>6
  <1>6. \A j \in 1 .. n + 1 : p[j].h \in TimeoutHandler
    <2> TAKE j \in 1 .. n + 1
    <2>1. \A k \in 1 .. n : q[k].h \in TimeoutHandler
      BY <1>1 DEF IsList
    <2>2. j < i => j \in 1 .. n
      BY <1>1, <1>2
    <2>3. j > i => j - 1 \in 1 .. n
      BY <1>1, <1>2
    <2> HIDE DEF p, i, n
    <2> QED BY <1>1, <1>2, <1>5, <2>1, <2>2, <2>3
  <1>7. IsList(p) /\ DOMAIN p = 1 .. n + 1
    <2>1. p \in [1 .. n + 1 -> {p[j] : j \in 1 .. n + 1}]
      BY <1>4
    <2>2. n + 1 \in Nat
      BY <1>1
    <2> HIDE DEF p, i, n
    <2> QED BY <2>1, <2>2, <1>6, ListOf
  <1> DEFINE old(j) == IF j < i THEN j ELSE j - 1
  <1>8. \A j \in 1 .. n + 1 : j /= i => old(j) \in 1 .. n /\ p[j].h = q[old(j)].h
    <2> HIDE DEF p, i, n
    <2> QED BY <1>1, <1>2, <1>5
  <1>9. p[i].h = h
    <2> HIDE DEF p, i, n
    <2> QED BY <1>2, <1>5, <1>1
  <1>10. \A j \in 1 .. n : q[j].h /= h
    BY <1>1 DEF Scheduled
  <1>11. Distinct(p)
    <2> SUFFICES ASSUME NEW a \in 1 .. n + 1, NEW b \in 1 .. n + 1, p[a].h = p[b].h
                 PROVE  a = b
      BY <1>7 DEF Distinct
    <2>1. CASE a = i \/ b = i
      <3> HIDE DEF p, n, i
      <3> QED BY <2>1, <1>8, <1>9, <1>10
    <2>2. CASE a /= i /\ b /= i
      <3>1. old(a) \in 1 .. n /\ old(b) \in 1 .. n /\ q[old(a)].h = q[old(b)].h
        BY <2>2, <1>8
      <3>2. old(a) = old(b)
        BY <3>1, <1>1 DEF Distinct
      <3> HIDE DEF p, n, i
      <3> QED BY <2>2, <3>2, <1>1, <1>2
    <2> QED BY <2>1, <2>2
  <1>12. ASSUME NEW k
         PROVE  Scheduled(p, k) <=> Scheduled(q, k) \/ k = h
    <2>1. ASSUME Scheduled(p, k) PROVE Scheduled(q, k) \/ k = h
      <3>1. PICK j \in 1 .. n + 1 : p[j].h = k
        BY <2>1, <1>7 DEF Scheduled
      <3> HIDE DEF p, i
      <3> QED BY <3>1, <1>1, <1>8, <1>9 DEF Scheduled
    <2>2. ASSUME Scheduled(q, k) PROVE Scheduled(p, k)
      <3>1. PICK j \in 1 .. n : q[j].h = k
        BY <2>2, <1>1 DEF Scheduled
      <3> DEFINE m == IF j < i THEN j ELSE j + 1
      <3>2. m \in 1 .. n + 1 /\ m /= i /\ old(m) = j
        <4> HIDE DEF p, i, n
        <4> QED BY <1>1, <1>2
      <3>3. p[m].h = k
        BY <3>1, <3>2, <1>8
      <3> HIDE DEF p, m
      <3> QED BY <3>2, <3>3, <1>7 DEF Scheduled
    <2>3. Scheduled(p, h)
      <3> HIDE DEF p, i
      <3> QED BY <1>2, <1>7, <1>9 DEF Scheduled
    <2> QED BY <2>1, <2>2, <2>3
  <1> QED BY <1>7, <1>11, <1>12

\* p has the handlers of q but the i-th, in the same order.
IsWithout(p, q, i) ==
  /\ p \in [1 .. Len(q) - 1 -> {p[j] : j \in 1 .. Len(q) - 1}]
  /\ \A j \in 1 .. Len(q) - 1 : p[j].h = IF j < i THEN q[j].h ELSE q[j + 1].h

\* A list without its i-th entry, whatever the times of the others are.
LEMMA OneLess ==
  ASSUME NEW q, IsList(q), Distinct(q), NEW i, i \in 1 .. Len(q),
         NEW p, IsWithout(p, q, i)
  PROVE  /\ IsList(p)
         /\ Distinct(p)
         /\ \A k : Scheduled(p, k) <=> Scheduled(q, k) /\ k /= q[i].h
  <1> DEFINE n == Len(q)
             old(j) == IF j < i THEN j ELSE j + 1
  <1>1. n \in Nat /\ n - 1 \in Nat /\ DOMAIN q = 1 .. n /\ DOMAIN p = 1 .. n - 1
    BY ListLen DEF IsWithout
  <1>2. \A j \in 1 .. n - 1 : old(j) \in 1 .. n /\ old(j) /= i /\ p[j].h = q[old(j)].h
    <2> HIDE DEF n
    <2>1. \A j \in 1 .. n - 1 : p[j].h = IF j < i THEN q[j].h ELSE q[j + 1].h
      BY DEF n, IsWithout
    <2>2. i \in 1 .. n
      BY DEF n
    <2> QED BY <1>1, <2>1, <2>2
  <1>3. \A j \in 1 .. n - 1 : p[j].h \in TimeoutHandler
    BY <1>1, <1>2 DEF IsList
  <1>4. IsList(p)
    <2>1. p \in [1 .. n - 1 -> {p[j] : j \in 1 .. n - 1}]
      BY DEF IsWithout
    <2> QED BY <1>1, <1>3, <2>1, ListOf
  <1>5. Distinct(p)
    <2> SUFFICES ASSUME NEW a \in 1 .. n - 1, NEW b \in 1 .. n - 1, p[a].h = p[b].h
                 PROVE  a = b
      BY <1>1 DEF Distinct
    <2>1. old(a) \in 1 .. n /\ old(b) \in 1 .. n /\ q[old(a)].h = q[old(b)].h
      BY <1>2
    <2>2. old(a) = old(b)
      BY <2>1, <1>1 DEF Distinct
    <2> HIDE DEF n
    <2>3. i \in 1 .. n
      BY DEF n
    <2> QED BY <2>2, <2>3, <1>1
  <1>6. ASSUME NEW k
        PROVE  Scheduled(p, k) <=> Scheduled(q, k) /\ k /= q[i].h
    <2>1. ASSUME Scheduled(p, k) PROVE Scheduled(q, k) /\ k /= q[i].h
      <3>1. PICK j \in 1 .. n - 1 : p[j].h = k
        BY <2>1, <1>1 DEF Scheduled
      <3>2. old(j) \in 1 .. n /\ old(j) /= i /\ q[old(j)].h = k
        BY <3>1, <1>2
      <3> HIDE DEF old
      <3> QED BY <3>2, <1>1 DEF Scheduled, Distinct
    <2>2. ASSUME Scheduled(q, k), k /= q[i].h PROVE Scheduled(p, k)
      <3>1. PICK j \in 1 .. n : q[j].h = k
        BY <2>2, <1>1 DEF Scheduled
      <3> DEFINE m == IF j < i THEN j ELSE j - 1
      <3>2. m \in 1 .. n - 1 /\ old(m) = j
        <4>1. j /= i /\ i \in 1 .. n
          BY <3>1, <2>2
        <4> HIDE DEF n
        <4> QED BY <4>1, <1>1
      <3>3. p[m].h = k
        BY <3>1, <3>2, <1>2
      <3> HIDE DEF m
      <3> QED BY <3>2, <3>3, <1>1 DEF Scheduled
    <2> QED BY <2>1, <2>2
  <1> QED BY <1>4, <1>5, <1>6

\* sys_untimeout removes its handler, and keeps the others.
LEMMA UntimeoutRemoves ==
  ASSUME NEW q, IsList(q), Distinct(q), NEW h, Scheduled(q, h)
  PROVE  /\ IsList(SysUntimeout(q, h))
         /\ Distinct(SysUntimeout(q, h))
         /\ \A k : Scheduled(SysUntimeout(q, h), k) <=> Scheduled(q, k) /\ k /= h
  <1> DEFINE n == Len(q)
             i == PlaceOf(q, h)
             p == SysUntimeout(q, h)
             e(j) == IF j < i THEN q[j]
                     ELSE IF j = i
                       THEN [h |-> q[i + 1].h, time |-> q[i + 1].time + q[i].time]
                     ELSE q[j + 1]
  <1>1. n \in Nat /\ DOMAIN q = 1 .. n
    BY ListLen
  <1>2. i \in 1 .. n /\ q[i].h = h
    BY <1>1 DEF PlaceOf, Scheduled
  <1>3. p = [j \in 1 .. n - 1 |-> e(j)]
    BY DEF SysUntimeout
  <1>4. p \in [1 .. n - 1 -> {p[j] : j \in 1 .. n - 1}]
    BY <1>3
  <1>5. \A j \in 1 .. n - 1 : p[j].h = IF j < i THEN q[j].h ELSE q[j + 1].h
    <2> TAKE j \in 1 .. n - 1
    <2>1. p[j] = e(j)
      BY <1>3
    <2>2. i \in Nat /\ j \in Nat
      BY <1>1, <1>2
    <2> HIDE DEF p, i, n
    <2>3. CASE j < i
      BY <2>1, <2>3
    <2>4. CASE j = i
      <3>1. p[j] = [h |-> q[i + 1].h, time |-> q[i + 1].time + q[i].time]
        BY <2>1, <2>2, <2>4
      <3>2. p[j].h = q[i + 1].h
        BY <3>1
      <3> QED BY <3>2, <2>2, <2>4
    <2>5. CASE j > i
      BY <2>1, <2>2, <2>5
    <2> QED BY <2>2, <2>3, <2>4, <2>5
  <1>6. IsWithout(p, q, i)
    BY <1>4, <1>5 DEF IsWithout
  <1> HIDE DEF p, i
  <1>7. /\ IsList(p)
        /\ Distinct(p)
        /\ \A k : Scheduled(p, k) <=> Scheduled(q, k) /\ k /= q[i].h
    BY <1>2, <1>6, OneLess
  <1> QED BY <1>2, <1>7 DEF p

\* The first entry is taken off the list.
LEMMA TailRemoves ==
  ASSUME NEW q, IsList(q), Distinct(q), q /= <<>>
  PROVE  /\ q[1].h \in TimeoutHandler
         /\ Scheduled(q, q[1].h)
         /\ IsList(Tail(q))
         /\ Distinct(Tail(q))
         /\ \A k : Scheduled(Tail(q), k) <=> Scheduled(q, k) /\ k /= q[1].h
  <1> DEFINE R == {q[j] : j \in DOMAIN q}
             p == Tail(q)
  <1>1. q \in Seq(R)
    BY DEF IsList
  <1>2. Len(q) \in Nat \ {0} /\ DOMAIN q = 1 .. Len(q)
    BY <1>1, ListLen, EmptySeq
  <1>3. p \in Seq(R) /\ Len(p) = Len(q) - 1 /\ \A j \in 1 .. Len(p) : p[j] = q[j + 1]
    BY <1>1, HeadTailProperties
  <1>4. p \in [1 .. Len(q) - 1 -> {p[j] : j \in 1 .. Len(q) - 1}]
    <2>1. p \in [1 .. Len(q) - 1 -> R]
      BY <1>3, LenProperties
    <2> HIDE DEF p, R
    <2> QED BY <2>1
  <1>5. 1 \in 1 .. Len(q)
    BY <1>2
  <1>6. \A j \in 1 .. Len(q) - 1 : p[j].h = IF j < 1 THEN q[j].h ELSE q[j + 1].h
    BY <1>2, <1>3
  <1>7. q[1].h \in TimeoutHandler /\ Scheduled(q, q[1].h)
    BY <1>2, <1>5 DEF IsList, Scheduled
  <1> HIDE DEF p, R
  <1>8. /\ IsList(p)
        /\ Distinct(p)
        /\ \A k : Scheduled(p, k) <=> Scheduled(q, k) /\ k /= q[1].h
    BY <1>4, <1>5, <1>6, OneLess DEF IsWithout
  <1> QED BY <1>7, <1>8 DEF p

-----------------------------------------------------------------------------
(* The invariant.                                                          *)

LEMMA TimersInitInv == TimersInit => TimersInv
  <1> SUFFICES ASSUME TimersInit PROVE TimersInv
    OBVIOUS
  <1>1. IsList(<<>>) /\ DOMAIN <<>> = {}
    <2>1. <<>> \in [1 .. 0 -> {}] /\ \A j \in 1 .. 0 : <<>>[j].h \in TimeoutHandler
      OBVIOUS
    <2> QED BY <2>1, ListOf
  <1>2. \A h : ~Scheduled(<<>>, h)
    BY <1>1 DEF Scheduled
  <1>3. NoHandler \notin Periodic /\ NoHandler /= TcpTimer
    BY TimersAssumption DEF TimeoutHandler
  <1>4. NoTimerLost
    BY <1>1, <1>2, <1>3 DEF NoTimerLost, TimersInit
  <1> QED BY <1>1, <1>4 DEF TimersInv, TimersInit

\* Each step of the clock, of a handler and of the application.
LEMMA TimersStepInv == TimersInv /\ [TimersNext]_timersVars => TimersInv'
  <1> SUFFICES ASSUME TimersInv, [TimersNext]_timersVars PROVE TimersInv'
    OBVIOUS
  <1>h. /\ TcpTimer \in TimeoutHandler /\ AppTimer \in TimeoutHandler
        /\ Periodic \subseteq TimeoutHandler
        /\ TcpTimer \notin Periodic /\ AppTimer \notin Periodic /\ TcpTimer /= AppTimer
        /\ NoHandler \notin Periodic /\ NoHandler /= TcpTimer /\ NoHandler /= AppTimer
    BY TimersAssumption DEF TimeoutHandler
  <1>d. IsList(timeouts) /\ Distinct(timeouts)
    BY DEF TimersInv, NoTimerLost, Distinct
  <1>1. CASE TimeoutsInit
    <2>1. PICK h \in toStart : /\ timeouts' = SysTimeout(timeouts, h, Interval[h])
                               /\ toStart' = toStart \ {h}
      BY <1>1 DEF TimeoutsInit
    <2>2. h \in Periodic /\ h \in TimeoutHandler /\ ~Scheduled(timeouts, h)
      BY <2>1, <1>h DEF TimersInv, NoTimerLost
    <2>3. /\ IsList(timeouts') /\ Distinct(timeouts')
          /\ \A k : Scheduled(timeouts', k) <=> Scheduled(timeouts, k) \/ k = h
      BY <2>1, <2>2, <1>d, TimeoutAdds
    <2>4. NoTimerLost'
      BY <1>1, <2>1, <2>2, <2>3, <1>h DEF TimeoutsInit, TimersInv, NoTimerLost, Distinct
    <2> QED BY <1>1, <2>1, <2>2, <2>3, <2>4 DEF TimeoutsInit, TimersInv
  <1>2. CASE CallHandler
    <2>1. timeouts /= <<>> /\ timeouts' = Tail(timeouts) /\ running' = timeouts[1].h
      BY <1>2 DEF CallHandler, Due
    <2>2. /\ timeouts[1].h \in TimeoutHandler /\ Scheduled(timeouts, timeouts[1].h)
          /\ IsList(timeouts') /\ Distinct(timeouts')
          /\ \A k : Scheduled(timeouts', k) <=> Scheduled(timeouts, k) /\ k /= timeouts[1].h
      BY <2>1, <1>d, TailRemoves
    <2>3. NoTimerLost'
      BY <1>2, <2>1, <2>2, <1>h DEF CallHandler, TimersInv, NoTimerLost, Distinct
    <2> QED BY <1>2, <2>1, <2>2, <2>3 DEF CallHandler, TimersInv
  <1>3. CASE HandlerRearms
    <2>1. /\ running \in TimeoutHandler /\ ~Scheduled(timeouts, running)
          /\ timeouts' = SysTimeout(timeouts, running, Interval[running])
      BY <1>3, <1>h DEF HandlerRearms, TimersInv, NoTimerLost
    <2>2. /\ IsList(timeouts') /\ Distinct(timeouts')
          /\ \A k : Scheduled(timeouts', k) <=> Scheduled(timeouts, k) \/ k = running
      BY <2>1, <1>d, TimeoutAdds
    <2>3. NoTimerLost'
      BY <1>3, <2>2, <1>h DEF HandlerRearms, TimersInv, NoTimerLost, Distinct
    <2> QED BY <1>3, <2>2, <2>3 DEF HandlerRearms, TimersInv
  <1>4. CASE TcpReg
    <2>1. CASE tcp_active
      BY <1>4, <2>1 DEF TcpReg, TimersInv, NoTimerLost
    <2>2. CASE ~tcp_active
      <3>1. /\ ~Scheduled(timeouts, TcpTimer) /\ running /= TcpTimer
            /\ timeouts' = SysTimeout(timeouts, TcpTimer, Interval[TcpTimer])
        BY <1>4, <2>2 DEF TcpReg, TimersInv, NoTimerLost
      <3>2. /\ IsList(timeouts') /\ Distinct(timeouts')
            /\ \A k : Scheduled(timeouts', k) <=> Scheduled(timeouts, k) \/ k = TcpTimer
        BY <3>1, <1>h, <1>d, TimeoutAdds
      <3>3. NoTimerLost'
        BY <1>4, <3>1, <3>2, <1>h DEF TcpReg, TimersInv, NoTimerLost, Distinct
      <3> QED BY <1>4, <3>2, <3>3 DEF TcpReg, TimersInv
    <2> QED BY <2>1, <2>2
  <1>5. CASE \E d \in AppDelays : AppTimeout(d)
    <2>1. PICK d \in AppDelays : AppTimeout(d)
      BY <1>5
    <2>2. /\ IsList(timeouts') /\ Distinct(timeouts')
          /\ \A k : Scheduled(timeouts', k) <=> Scheduled(timeouts, k) \/ k = AppTimer
      BY <2>1, <1>h, <1>d, TimeoutAdds DEF AppTimeout
    <2>3. NoTimerLost'
      BY <2>1, <2>2, <1>h DEF AppTimeout, TimersInv, NoTimerLost, Distinct
    <2> QED BY <2>1, <2>2, <2>3 DEF AppTimeout, TimersInv
  <1>6. CASE AppUntimeout
    <2>1. /\ IsList(timeouts') /\ Distinct(timeouts')
          /\ \A k : Scheduled(timeouts', k) <=> Scheduled(timeouts, k) /\ k /= AppTimer
      BY <1>6, <1>d, UntimeoutRemoves DEF AppUntimeout
    <2>2. NoTimerLost'
      BY <1>6, <2>1, <1>h DEF AppUntimeout, TimersInv, NoTimerLost, Distinct
    <2> QED BY <1>6, <2>1, <2>2 DEF AppUntimeout, TimersInv
  <1>7. CASE CheckTimeouts
    BY <1>7 DEF CheckTimeouts, TimersInv, NoTimerLost
  <1>8. CASE CheckDone
    BY <1>8 DEF CheckDone, TimersInv, NoTimerLost
  <1>9. CASE TcpTimerStops
    BY <1>9, <1>h DEF TcpTimerStops, TimersInv, NoTimerLost
  <1>10. CASE AppTimerDone
    BY <1>10, <1>h DEF AppTimerDone, TimersInv, NoTimerLost
  <1>11. CASE TcpRmv
    BY <1>11 DEF TcpRmv, TimersInv, NoTimerLost
  <1>12. CASE RestartTimeouts
    BY <1>12 DEF RestartTimeouts, TimersInv, NoTimerLost
  <1>13. CASE ClockTick
    BY <1>13 DEF ClockTick, TimersInv, NoTimerLost
  <1>14. CASE UNCHANGED timersVars
    BY <1>14 DEF timersVars, TimersInv, NoTimerLost
  <1> QED BY <1>1, <1>2, <1>3, <1>4, <1>5, <1>6, <1>7, <1>8, <1>9, <1>10, <1>11,
             <1>12, <1>13, <1>14 DEF TimersNext, TimersStep

\* The invariant, whatever the handlers, the intervals and the application.
THEOREM TimersInvariant == TimersSpec => []TimersInv
  BY TimersInitInv, TimersStepInv, PTL DEF TimersSpec

\* No handler of lwIP is lost and none is set twice, although sys_check_timeouts
\* frees an entry before it calls the handler, and handlers call back.
THEOREM TimersNeverLost == TimersSpec => []NoTimerLost
  <1>1. TimersInv => NoTimerLost
    BY DEF TimersInv
  <1> QED BY <1>1, TimersInvariant, PTL

\* The pool of timeouts is never exhausted: the assertion of sys_timeout that an
\* entry was found holds whenever a handler is set that is not in the list.
PoolSuffices ==
  \A h \in TimeoutHandler : ~Scheduled(timeouts, h) => Len(timeouts) < NumTimeouts

\* sys_timeout finds an entry in the pool whenever it is called.
THEOREM TimersPoolSuffices == TimersSpec => []PoolSuffices
  <1>1. TimersInv => PoolSuffices
    BY RoomInPool DEF TimersInv, NoTimerLost, PoolSuffices, Distinct
  <1> QED BY <1>1, TimersInvariant, PTL

-----------------------------------------------------------------------------
(* The times: what the differences of the list add up to.                  *)

LEMMA LeastNatural == ASSUME NEW S, S \subseteq Nat, S /= {}
                      PROVE  \E m \in S : \A k \in S : m <= k
  <1> DEFINE R == OpToRel(<, Nat)
  <1>1. IsWellFoundedOn(R, Nat)
    BY NatLessThanWellFounded
  <1>2. PICK m \in S : \A k \in S : ~(<<k, m>> \in R)
    BY <1>1, WFMin
  <1>3. \A k \in S : ~(k < m)
    BY <1>2 DEF OpToRel
  <1> QED BY ONLY <1>3, m \in S, S \subseteq Nat

\* f adds up the times of the first n entries of q.
Sums(f, q, n) ==
  f = [k \in 0 .. n |-> IF k = 0 THEN 0 ELSE f[k - 1] + q[k].time]

\* There are such sums, one entry at a time.
LEMMA SumsExist == ASSUME NEW q, NEW N \in Nat PROVE \E f : Sums(f, q, N)
  <1> DEFINE S == {n \in 0 .. N : ~ \E f : Sums(f, q, n)}
  <1> SUFFICES ASSUME S /= {} PROVE FALSE
    OBVIOUS
  <1>1. S \subseteq Nat
    OBVIOUS
  <1>2. PICK n \in S : \A k \in S : n <= k
    <2> HIDE DEF S
    <2> QED BY <1>1, LeastNatural
  <1>3. n \in 0 .. N /\ ~ \E f : Sums(f, q, n)
    OBVIOUS
  <1>4. \A k \in 0 .. N : k < n => \E f : Sums(f, q, k)
    BY <1>2
  <1> HIDE DEF S
  <1>5. CASE n = 0
    <2> DEFINE f == [k \in 0 .. n |-> 0]
    <2>1. f = [k \in 0 .. n |-> IF k = 0 THEN 0 ELSE f[k - 1] + q[k].time]
      BY <1>5
    <2> QED BY <1>3, <2>1 DEF Sums
  <1>6. CASE n /= 0
    <2>1. n - 1 \in 0 .. N /\ n - 1 < n /\ n \in Nat
      BY <1>3, <1>6
    <2>2. PICK f : Sums(f, q, n - 1)
      BY <1>4, <2>1
    <2> DEFINE g == [k \in 0 .. n |-> IF k = n THEN f[n - 1] + q[n].time ELSE f[k]]
    <2>3. \A k \in 0 .. n - 1 : f[k] = IF k = 0 THEN 0 ELSE f[k - 1] + q[k].time
      BY <2>2 DEF Sums
    <2>4. ASSUME NEW k \in 0 .. n
          PROVE  g[k] = IF k = 0 THEN 0 ELSE g[k - 1] + q[k].time
      <3>1. CASE k = n
        <4>1. k /= 0 /\ k - 1 \in 0 .. n /\ k - 1 /= n
          BY <1>6, <2>1, <3>1
        <4>2. g[k - 1] = f[k - 1]
          BY <4>1
        <4>3. g[k] = f[n - 1] + q[n].time
          BY <2>1, <3>1
        <4> HIDE DEF g
        <4> QED BY <3>1, <4>1, <4>2, <4>3
      <3>2. CASE k /= n
        <4>1. k \in 0 .. n - 1 /\ (k /= 0 => k - 1 \in 0 .. n /\ k - 1 /= n)
          BY <2>1, <3>2
        <4>2. g[k] = f[k] /\ (k /= 0 => g[k - 1] = f[k - 1])
          BY <3>2, <4>1
        <4> HIDE DEF g
        <4> QED BY <2>3, <4>1, <4>2
      <3> QED BY <3>1, <3>2
    <2>5. g = [k \in 0 .. n |-> g[k]]
      OBVIOUS
    <2> HIDE DEF g
    <2>6. Sums(g, q, n)
      BY <2>4, <2>5 DEF Sums
    <2> QED BY <1>3, <2>6
  <1> QED BY <1>5, <1>6

LEMMA UntilIs ==
  ASSUME NEW q, Len(q) \in Nat
  PROVE  /\ Until(q, 0) = 0
         /\ \A k \in 1 .. Len(q) : Until(q, k) = Until(q, k - 1) + q[k].time
  <1> DEFINE n == Len(q)
             sum == CHOOSE f : f = [k \in 0 .. n |-> IF k = 0 THEN 0 ELSE f[k - 1] + q[k].time]
  <1>1. \E f : Sums(f, q, n)
    BY SumsExist
  <1>2. Sums(sum, q, n)
    BY <1>1 DEF Sums
  <1>3. \A k : Until(q, k) = sum[k]
    BY DEF Until
  <1> HIDE DEF sum
  <1>4. \A k \in 0 .. n : sum[k] = IF k = 0 THEN 0 ELSE sum[k - 1] + q[k].time
    BY <1>2 DEF Sums
  <1>5. 0 \in 0 .. n /\ \A k \in 1 .. n : k \in 0 .. n /\ k /= 0
    OBVIOUS
  <1> QED BY <1>3, <1>4, <1>5

\* There are no other sums.
LEMMA UntilOnly ==
  ASSUME NEW q, Len(q) \in Nat, NEW g, g[0] = 0,
         \A k \in 1 .. Len(q) : g[k] = g[k - 1] + q[k].time
  PROVE  \A k \in 0 .. Len(q) : Until(q, k) = g[k]
  <1> DEFINE S == {k \in 0 .. Len(q) : Until(q, k) /= g[k]}
  <1> SUFFICES ASSUME S /= {} PROVE FALSE
    OBVIOUS
  <1>1. S \subseteq Nat
    OBVIOUS
  <1>2. PICK k \in S : \A j \in S : k <= j
    <2> HIDE DEF S
    <2> QED BY <1>1, LeastNatural
  <1>3. k \in 0 .. Len(q) /\ Until(q, k) /= g[k]
    OBVIOUS
  <1>4. k /= 0
    BY <1>3, UntilIs
  <1>5. k \in 1 .. Len(q) /\ k - 1 \in 0 .. Len(q) /\ ~(k <= k - 1)
    BY <1>3, <1>4
  <1>6. Until(q, k - 1) = g[k - 1]
    BY <1>2, <1>5
  <1> HIDE DEF S
  <1> QED BY <1>3, <1>5, <1>6, UntilIs

\* No time of the list is below zero.
HasTimes(q) == \A j \in DOMAIN q : q[j].time \in Nat

LEMMA UntilNat ==
  ASSUME NEW q, IsList(q), HasTimes(q)
  PROVE  \A k \in 0 .. Len(q) : Until(q, k) \in Nat
  <1>0. Len(q) \in Nat /\ DOMAIN q = 1 .. Len(q)
    BY ListLen
  <1> DEFINE S == {k \in 0 .. Len(q) : Until(q, k) \notin Nat}
  <1> SUFFICES ASSUME S /= {} PROVE FALSE
    OBVIOUS
  <1>1. S \subseteq Nat
    BY <1>0
  <1>2. PICK k \in S : \A j \in S : k <= j
    <2> HIDE DEF S
    <2> QED BY <1>1, LeastNatural
  <1>3. k \in 0 .. Len(q) /\ Until(q, k) \notin Nat
    OBVIOUS
  <1>4. k /= 0
    BY <1>0, <1>3, UntilIs
  <1>5. k \in 1 .. Len(q) /\ k - 1 \in 0 .. Len(q) /\ ~(k <= k - 1)
    BY <1>0, <1>3, <1>4
  <1>6. Until(q, k - 1) \in Nat
    BY <1>2, <1>5
  <1>7. q[k].time \in Nat
    BY <1>0, <1>5 DEF HasTimes
  <1> HIDE DEF S
  <1> QED BY <1>0, <1>3, <1>5, <1>6, <1>7, UntilIs

\* The list is in the order of the times.
LEMMA UntilGrows ==
  ASSUME NEW q, IsList(q), HasTimes(q), NEW i \in 0 .. Len(q)
  PROVE  \A k \in 0 .. Len(q) : i <= k => Until(q, i) <= Until(q, k)
  <1>0. Len(q) \in Nat /\ DOMAIN q = 1 .. Len(q)
        /\ \A k \in 0 .. Len(q) : Until(q, k) \in Nat
    BY ListLen, UntilNat
  <1> DEFINE S == {k \in 0 .. Len(q) : i <= k /\ ~(Until(q, i) <= Until(q, k))}
  <1> SUFFICES ASSUME S /= {} PROVE FALSE
    OBVIOUS
  <1>1. S \subseteq Nat
    BY <1>0
  <1>2. PICK k \in S : \A j \in S : k <= j
    <2> HIDE DEF S
    <2> QED BY <1>1, LeastNatural
  <1>3. k \in 0 .. Len(q) /\ i <= k /\ ~(Until(q, i) <= Until(q, k))
    OBVIOUS
  <1>4. k /= i
    BY <1>0, <1>3
  <1>5. k \in 1 .. Len(q) /\ k - 1 \in 0 .. Len(q) /\ ~(k <= k - 1) /\ i <= k - 1
    BY <1>0, <1>3, <1>4
  <1>6. Until(q, i) <= Until(q, k - 1)
    BY <1>2, <1>5
  <1>7. q[k].time \in Nat /\ Until(q, k) = Until(q, k - 1) + q[k].time
    BY <1>0, <1>5, UntilIs DEF HasTimes
  <1> HIDE DEF S
  <1> QED BY <1>0, <1>3, <1>5, <1>6, <1>7

\* The place of a new entry is behind those that expire no later.
LEMMA PlaceSplits ==
  ASSUME NEW q, IsList(q), HasTimes(q), NEW d \in Nat
  PROVE  \A j \in 1 .. Len(q) : j < Place(q, d) <=> Until(q, j) <= d
  <1> DEFINE n == Len(q)
             C == {j \in 1 .. n + 1 : j = n + 1 \/ ~(Until(q, j) <= d)}
  <1>0. n \in Nat /\ \A k \in 0 .. n : Until(q, k) \in Nat
    BY ListLen, UntilNat
  <1> HIDE DEF n
  <1>1. C \subseteq Nat /\ n + 1 \in C
    BY <1>0
  <1>2. PICK m \in C : \A j \in C : m <= j
    <2> HIDE DEF C
    <2> QED BY <1>1, LeastNatural
  <1>3. m \in 1 .. n + 1 /\ (m = n + 1 \/ ~(Until(q, m) <= d))
    OBVIOUS
  <1>4. \A j \in 1 .. n : j < m => Until(q, j) <= d
    <2> TAKE j \in 1 .. n
    <2>1. j < m => j \notin C
      BY <1>0, <1>2, <1>3
    <2>2. j \in 1 .. n + 1 /\ j /= n + 1
      BY <1>0
    <2> QED BY <2>1, <2>2
  <1> HIDE DEF C
  <1>5. \A j \in 1 .. n : ~(j < m) => ~(Until(q, j) <= d)
    <2> SUFFICES ASSUME NEW j \in 1 .. n, ~(j < m) PROVE ~(Until(q, j) <= d)
      OBVIOUS
    <2>1. m \in 1 .. n /\ m \in 0 .. n /\ j \in 0 .. n /\ m <= j
      BY <1>0, <1>3
    <2>2. m /= n + 1
      BY <1>0, <2>1
    <2>3. Until(q, m) <= Until(q, j)
      BY <2>1, UntilGrows DEF n
    <2> QED BY <1>0, <1>3, <2>1, <2>2, <2>3
  <1>6. {j \in 1 .. n : Until(q, j) <= d} = 1 .. m - 1
    <2>1. \A j \in 1 .. n : j < m <=> j \in 1 .. m - 1
      BY <1>0, <1>3
    <2>2. 1 .. m - 1 \subseteq 1 .. n
      BY <1>0, <1>3
    <2> QED BY <1>4, <1>5, <2>1, <2>2
  <1>7. m - 1 \in Nat
    BY <1>0, <1>3
  <1>8. Place(q, d) = m
    <2> DEFINE T == {j \in 1 .. n : Until(q, j) <= d}
    <2>1. Cardinality(1 .. m - 1) = m - 1
      BY <1>7, IntervalSize
    <2>2. Place(q, d) = 1 + Cardinality(T)
      BY DEF Place, n
    <2>3. T = 1 .. m - 1
      BY <1>6
    <2> HIDE DEF T
    <2>4. Place(q, d) = 1 + (m - 1)
      BY <2>1, <2>2, <2>3
    <2> QED BY <1>0, <1>3, <2>4
  <1> QED BY <1>4, <1>5, <1>8 DEF n

\* p has the entries of q and, at place i, a new one.
IsInserted(p, q, n, i, h, d) ==
  /\ n \in Nat /\ i \in 1 .. n + 1 /\ Len(p) = n + 1
  /\ DOMAIN p = 1 .. n + 1 /\ DOMAIN q = 1 .. n
  /\ \A j \in 1 .. n + 1 : j < i => p[j] = q[j]
  /\ p[i] = [h |-> h, time |-> d - Until(q, i - 1)]
  /\ i + 1 \in 1 .. n + 1 =>
       p[i + 1] = [h |-> q[i].h, time |-> q[i].time - (d - Until(q, i - 1))]
  /\ \A j \in 1 .. n + 1 : j > i + 1 => p[j] = q[j - 1]

LEMMA Inserted ==
  ASSUME NEW q, IsList(q), Distinct(q), NEW h \in TimeoutHandler, ~Scheduled(q, h), NEW d
  PROVE  IsInserted(SysTimeout(q, h, d), q, Len(q), Place(q, d), h, d)
  <1> DEFINE n == Len(q)
             i == Place(q, d)
             p == SysTimeout(q, h, d)
  <1> DEFINE t == d - Until(q, i - 1)
             e(j) == IF j < i THEN q[j]
                     ELSE IF j = i THEN [h |-> h, time |-> t]
                     ELSE IF j = i + 1 THEN [h |-> q[i].h, time |-> q[i].time - t]
                     ELSE q[j - 1]
  <1>1. n \in Nat /\ DOMAIN q = 1 .. n
    BY ListLen
  <1>2. i \in 1 .. n + 1
    BY <1>1, PlaceRange
  <1>3. ~(Len(q) >= NumTimeouts)
    BY <1>1, RoomInPool, TimersAssumption
  <1>4. p = [j \in 1 .. n + 1 |-> e(j)]
    BY <1>3 DEF SysTimeout
  <1>5. DOMAIN p = 1 .. n + 1 /\ \A j \in 1 .. n + 1 : p[j] = e(j)
    BY <1>4
  <1>6. Len(p) = n + 1
    <2>1. IsList(p)
      BY TimeoutAdds
    <2>2. Len(p) \in Nat /\ 1 .. Len(p) = 1 .. n + 1
      BY <1>5, <2>1, ListLen
    <2> QED BY <1>1, <2>2
  <1>7. i \in Nat /\ i + 1 /= i /\ ~(i < i) /\ ~(i + 1 < i)
        /\ \A j \in 1 .. n + 1 : j > i + 1 => ~(j < i) /\ j /= i /\ j /= i + 1
    BY <1>1, <1>2
  <1> HIDE DEF t
  <1>8. p[i] = [h |-> h, time |-> t]
    BY <1>2, <1>5, <1>7
  <1>9. i + 1 \in 1 .. n + 1 => p[i + 1] = [h |-> q[i].h, time |-> q[i].time - t]
    BY <1>5, <1>7
  <1>10. \A j \in 1 .. n + 1 : (j < i => p[j] = q[j]) /\ (j > i + 1 => p[j] = q[j - 1])
    BY <1>5, <1>7
  <1> HIDE DEF n, i, p
  <1>11. IsInserted(p, q, n, i, h, d)
    BY <1>1, <1>2, <1>5, <1>6, <1>8, <1>9, <1>10 DEF t, IsInserted
  <1> QED BY <1>11 DEF n, i, p

\* What the list says of the time that each handler has left.
LeftOf(q) == [h \in {q[j].h : j \in DOMAIN q} |-> Until(q, PlaceOf(q, h))]

LEMMA LeftOfIs ==
  ASSUME NEW q, IsList(q), Distinct(q)
  PROVE  /\ \A k : k \in DOMAIN LeftOf(q) <=> Scheduled(q, k)
         /\ \A j \in DOMAIN q : LeftOf(q)[q[j].h] = Until(q, j)
  <1>1. \A j \in DOMAIN q : PlaceOf(q, q[j].h) = j
    BY DEF PlaceOf, Distinct
  <1> QED BY <1>1 DEF LeftOf, Scheduled

\* The times l, with d for handler h.
WithTimer(l, h, d) == [k \in DOMAIN l \cup {h} |-> IF k = h THEN d ELSE l[k]]

\* sys_timeout changes the time of no other handler.
LEMMA TimeoutTimes ==
  ASSUME NEW q, IsList(q), Distinct(q), HasTimes(q), NEW h \in TimeoutHandler,
         ~Scheduled(q, h), NEW d \in Nat
  PROVE  /\ HasTimes(SysTimeout(q, h, d))
         /\ LeftOf(SysTimeout(q, h, d)) = WithTimer(LeftOf(q), h, d)
  <1> DEFINE n == Len(q)
             i == Place(q, d)
             p == SysTimeout(q, h, d)
             t == d - Until(q, i - 1)
  <1>1. /\ n \in Nat /\ i \in 1 .. n + 1 /\ Len(p) = n + 1
        /\ DOMAIN p = 1 .. n + 1 /\ DOMAIN q = 1 .. n
        /\ \A j \in 1 .. n + 1 : j < i => p[j] = q[j]
        /\ p[i] = [h |-> h, time |-> t]
        /\ i + 1 \in 1 .. n + 1 => p[i + 1] = [h |-> q[i].h, time |-> q[i].time - t]
        /\ \A j \in 1 .. n + 1 : j > i + 1 => p[j] = q[j - 1]
    <2>1. IsInserted(p, q, n, i, h, d)
      BY Inserted
    <2> HIDE DEF n, i, p
    <2> QED BY <2>1 DEF IsInserted
  <1>2. \A k \in 0 .. n : Until(q, k) \in Nat
    BY UntilNat
  <1>3. \A j \in 1 .. n : j < i <=> Until(q, j) <= d
    BY PlaceSplits
  <1>4. /\ Until(q, 0) = 0
        /\ \A k \in 1 .. n : Until(q, k) = Until(q, k - 1) + q[k].time
    BY <1>1, UntilIs
  <1>5. \A j \in 1 .. n : q[j].time \in Nat
    BY <1>1 DEF HasTimes
  <1>6. /\ IsList(p) /\ Distinct(p)
        /\ \A k : Scheduled(p, k) <=> Scheduled(q, k) \/ k = h
    BY TimeoutAdds
  <1> HIDE DEF n, i, p
  <1>7. i \in Nat /\ i - 1 \in 0 .. n /\ Until(q, i - 1) \in Nat /\ Until(q, i - 1) <= d
    <2>1. i \in Nat /\ i - 1 \in 0 .. n
      BY <1>1
    <2>2. CASE i = 1
      BY <1>4, <2>1, <2>2
    <2>3. CASE i /= 1
      <3>1. i - 1 \in 1 .. n /\ i - 1 < i
        BY <1>1, <2>3
      <3> QED BY <1>2, <1>3, <2>1, <3>1
    <2> QED BY <2>1, <2>2, <2>3
  <1>8. t \in Nat /\ Until(q, i - 1) + t = d
    BY <1>7
  <1>9. i + 1 \in 1 .. n + 1 => i \in 1 .. n /\ q[i].time - t \in Nat
                                /\ d + (q[i].time - t) = Until(q, i)
    <2> SUFFICES ASSUME i + 1 \in 1 .. n + 1
                 PROVE  i \in 1 .. n /\ q[i].time - t \in Nat
                        /\ d + (q[i].time - t) = Until(q, i)
      OBVIOUS
    <2>1. i \in 1 .. n
      BY <1>1
    <2>2. ~(Until(q, i) <= d) /\ Until(q, i) = Until(q, i - 1) + q[i].time
          /\ q[i].time \in Nat /\ Until(q, i) \in Nat
      BY <1>1, <1>2, <1>3, <1>4, <1>5, <1>7, <2>1
    <2> QED BY <1>7, <2>1, <2>2
  <1> HIDE DEF t
  <1>10. /\ p[i].h = h /\ p[i].time = t
         /\ i + 1 \in 1 .. n + 1 => p[i + 1].h = q[i].h /\ p[i + 1].time = q[i].time - t
    BY <1>1
  <1>11. HasTimes(p)
    <2> SUFFICES ASSUME NEW j \in 1 .. n + 1 PROVE p[j].time \in Nat
      BY <1>1 DEF HasTimes
    <2>1. CASE j < i
      <3>1. j \in 1 .. n
        BY <1>1, <2>1
      <3> QED BY <1>1, <1>5, <2>1, <3>1
    <2>2. CASE j = i
      BY <1>8, <1>10, <2>2
    <2>3. CASE j = i + 1
      BY <1>9, <1>10, <2>3
    <2>4. CASE j > i + 1
      <3>1. j - 1 \in 1 .. n
        BY <1>1, <2>4
      <3> QED BY <1>1, <1>5, <2>4, <3>1
    <2> QED BY <1>1, <2>1, <2>2, <2>3, <2>4
  <1> DEFINE g == [k \in 0 .. n + 1 |-> IF k < i THEN Until(q, k)
                                        ELSE IF k = i THEN d ELSE Until(q, k - 1)]
  <1>12. \A k \in 0 .. n + 1 : Until(p, k) = g[k]
    <2>1. g[0] = 0
      BY <1>1, <1>4
    <2>2. ASSUME NEW k \in 1 .. n + 1 PROVE g[k] = g[k - 1] + p[k].time
      <3>1. /\ k \in 0 .. n + 1 /\ k - 1 \in 0 .. n + 1
            /\ g[k] = IF k < i THEN Until(q, k) ELSE IF k = i THEN d ELSE Until(q, k - 1)
            /\ g[k - 1] = IF k - 1 < i THEN Until(q, k - 1)
                          ELSE IF k - 1 = i THEN d ELSE Until(q, k - 1 - 1)
        BY <1>1
      <3> HIDE DEF g
      <3>2. CASE k < i
        <4>1. k \in 1 .. n /\ k - 1 < i
          BY <1>1, <3>2
        <4> QED BY <1>1, <1>4, <3>1, <3>2, <4>1
      <3>3. CASE k = i
        <4>1. k - 1 < i /\ ~(k < i)
          BY <1>1, <3>3
        <4> QED BY <1>8, <1>10, <3>1, <3>3, <4>1
      <3>4. CASE k = i + 1
        <4>1. ~(k < i) /\ k /= i /\ ~(k - 1 < i) /\ k - 1 = i
          BY <1>1, <3>4
        <4> QED BY <1>9, <1>10, <3>1, <3>4, <4>1
      <3>5. CASE k > i + 1
        <4>1. ~(k < i) /\ k /= i /\ ~(k - 1 < i) /\ k - 1 /= i /\ k - 1 \in 1 .. n
          BY <1>1, <3>5
        <4> QED BY <1>1, <1>4, <3>1, <3>5, <4>1
      <3> QED BY <1>1, <3>2, <3>3, <3>4, <3>5
    <2> HIDE DEF g
    <2>3. \A k \in 1 .. Len(p) : g[k] = g[k - 1] + p[k].time
      BY <1>1, <2>2
    <2>4. Len(p) \in Nat
      BY <1>1
    <2>5. \A k \in 0 .. Len(p) : Until(p, k) = g[k]
      BY <2>1, <2>3, <2>4, UntilOnly
    <2> QED BY <1>1, <2>5
  <1>13. \A j \in 1 .. n + 1 :
           Until(p, j) = IF j < i THEN Until(q, j) ELSE IF j = i THEN d ELSE Until(q, j - 1)
    <2>1. \A j \in 1 .. n + 1 : j \in 0 .. n + 1
      BY <1>1
    <2> QED BY <1>12, <2>1
  <1> HIDE DEF g
  <1>14. ASSUME NEW k, Scheduled(p, k)
         PROVE  LeftOf(p)[k] = IF k = h THEN d ELSE LeftOf(q)[k]
    <2>1. PICK j \in 1 .. n + 1 : p[j].h = k
      BY <1>1, <1>14 DEF Scheduled
    <2>2. LeftOf(p)[k] = Until(p, j)
      BY <1>1, <1>6, <2>1, LeftOfIs
    <2>3. CASE j = i
      BY <1>10, <1>13, <2>1, <2>2, <2>3
    <2>4. CASE j /= i
      <3>1. k /= h
        BY <1>1, <1>6, <1>10, <2>1, <2>4 DEF Distinct
      <3>2. CASE j < i
        <4>1. j \in 1 .. n /\ q[j].h = k
          BY <1>1, <2>1, <3>2
        <4> QED BY <1>1, <1>13, <2>2, <3>1, <3>2, <4>1, LeftOfIs
      <3>3. CASE j > i
        <4>1. j - 1 \in 1 .. n /\ ~(j < i)
          BY <1>1, <3>3
        <4>2. q[j - 1].h = k
          <5>1. CASE j = i + 1
            BY <1>10, <2>1, <4>1, <5>1, <1>7
          <5>2. CASE j /= i + 1
            <6>1. j > i + 1
              BY <1>7, <3>3, <5>2
            <6> QED BY <1>1, <2>1, <6>1
          <5> QED BY <5>1, <5>2
        <4> QED BY <1>1, <1>13, <2>2, <2>4, <3>1, <4>1, <4>2, LeftOfIs
      <3> QED BY <1>7, <2>4, <3>2, <3>3
    <2> QED BY <2>3, <2>4
  <1>15. DOMAIN LeftOf(p) = DOMAIN LeftOf(q) \cup {h}
    <2>1. \A k : k \in DOMAIN LeftOf(p) <=> Scheduled(p, k)
      BY <1>6, LeftOfIs
    <2>2. \A k : k \in DOMAIN LeftOf(q) <=> Scheduled(q, k)
      BY LeftOfIs
    <2> QED BY <1>6, <2>1, <2>2
  <1>16. LeftOf(p) = [k \in DOMAIN LeftOf(q) \cup {h} |-> IF k = h THEN d ELSE LeftOf(q)[k]]
    <2>1. \A k \in DOMAIN LeftOf(p) : Scheduled(p, k)
      BY <1>6, LeftOfIs
    <2>2. LeftOf(p) = [k \in DOMAIN LeftOf(p) |-> LeftOf(p)[k]]
      BY DEF LeftOf
    <2>3. \A k \in DOMAIN LeftOf(p) : LeftOf(p)[k] = IF k = h THEN d ELSE LeftOf(q)[k]
      BY <1>14, <2>1
    <2> HIDE DEF LeftOf
    <2> QED BY <1>15, <2>2, <2>3
  <1> QED BY <1>11, <1>16 DEF p, WithTimer

\* p has the entries of q but the i-th, whose time the next one takes over.
IsRemoved(p, q, n, i) ==
  /\ n \in Nat /\ i \in 1 .. n /\ Len(p) = n - 1
  /\ DOMAIN p = 1 .. n - 1 /\ DOMAIN q = 1 .. n
  /\ \A j \in 1 .. n - 1 : j < i => p[j] = q[j]
  /\ i \in 1 .. n - 1 => p[i] = [h |-> q[i + 1].h, time |-> q[i + 1].time + q[i].time]
  /\ \A j \in 1 .. n - 1 : j > i => p[j] = q[j + 1]

LEMMA Removed ==
  ASSUME NEW q, IsList(q), Distinct(q), NEW h, Scheduled(q, h)
  PROVE  IsRemoved(SysUntimeout(q, h), q, Len(q), PlaceOf(q, h))
         /\ q[PlaceOf(q, h)].h = h
  <1> DEFINE n == Len(q)
             i == PlaceOf(q, h)
             p == SysUntimeout(q, h)
             e(j) == IF j < i THEN q[j]
                     ELSE IF j = i
                       THEN [h |-> q[i + 1].h, time |-> q[i + 1].time + q[i].time]
                     ELSE q[j + 1]
  <1>1. n \in Nat /\ DOMAIN q = 1 .. n
    BY ListLen
  <1>2. i \in 1 .. n /\ q[i].h = h
    BY <1>1 DEF PlaceOf, Scheduled
  <1>3. p = [j \in 1 .. n - 1 |-> e(j)]
    BY DEF SysUntimeout
  <1>4. DOMAIN p = 1 .. n - 1 /\ \A j \in 1 .. n - 1 : p[j] = e(j)
    BY <1>3
  <1>5. Len(p) = n - 1
    <2>1. IsList(p)
      BY UntimeoutRemoves
    <2>2. Len(p) \in Nat /\ 1 .. Len(p) = 1 .. n - 1
      BY <1>4, <2>1, ListLen
    <2>3. n - 1 \in Nat
      BY <1>1, <1>2
    <2> HIDE DEF n, p
    <2> QED BY <2>2, <2>3
  <1>6. i \in Nat /\ ~(i < i) /\ \A j \in 1 .. n - 1 : j > i => ~(j < i) /\ j /= i
    BY <1>1, <1>2
  <1>7. \A j \in 1 .. n - 1 : (j < i => p[j] = q[j]) /\ (j > i => p[j] = q[j + 1])
    BY <1>4, <1>6
  <1>8. i \in 1 .. n - 1 => p[i] = [h |-> q[i + 1].h, time |-> q[i + 1].time + q[i].time]
    BY <1>4, <1>6
  <1> HIDE DEF n, i, p
  <1>9. IsRemoved(p, q, n, i)
    BY <1>1, <1>2, <1>4, <1>5, <1>7, <1>8 DEF IsRemoved
  <1> QED BY <1>2, <1>9 DEF n, i, p

\* sys_untimeout changes the time of no other handler.
LEMMA UntimeoutTimes ==
  ASSUME NEW q, IsList(q), Distinct(q), HasTimes(q), NEW h, Scheduled(q, h)
  PROVE  /\ HasTimes(SysUntimeout(q, h))
         /\ LeftOf(SysUntimeout(q, h)) = [k \in DOMAIN LeftOf(q) \ {h} |-> LeftOf(q)[k]]
  <1> DEFINE n == Len(q)
             i == PlaceOf(q, h)
             p == SysUntimeout(q, h)
  <1>1. IsRemoved(p, q, n, i) /\ q[i].h = h
    BY Removed
  <1>2. /\ Until(q, 0) = 0
        /\ \A k \in 1 .. n : Until(q, k) = Until(q, k - 1) + q[k].time
        /\ \A k \in 0 .. n : Until(q, k) \in Nat
    BY ListLen, UntilIs, UntilNat
  <1>3. /\ IsList(p) /\ Distinct(p)
        /\ \A k : Scheduled(p, k) <=> Scheduled(q, k) /\ k /= h
    BY UntimeoutRemoves
  <1> HIDE DEF n, i, p
  <1>4. /\ n \in Nat /\ i \in 1 .. n /\ Len(p) = n - 1
        /\ DOMAIN p = 1 .. n - 1 /\ DOMAIN q = 1 .. n
        /\ \A j \in 1 .. n - 1 : j < i => p[j] = q[j]
        /\ i \in 1 .. n - 1 => p[i].h = q[i + 1].h /\ p[i].time = q[i + 1].time + q[i].time
        /\ \A j \in 1 .. n - 1 : j > i => p[j] = q[j + 1]
    BY <1>1 DEF IsRemoved
  <1>5. \A j \in 1 .. n : q[j].time \in Nat
    BY <1>4 DEF HasTimes
  <1>6. \A j \in 1 .. n - 1 : j \in 1 .. n /\ j + 1 \in 1 .. n /\ j \in Nat
    BY <1>4
  <1>7. HasTimes(p)
    <2> SUFFICES ASSUME NEW j \in 1 .. n - 1 PROVE p[j].time \in Nat
      BY <1>4 DEF HasTimes
    <2>1. CASE j < i
      BY <1>4, <1>5, <1>6, <2>1
    <2>2. CASE j = i
      BY <1>4, <1>5, <1>6, <2>2
    <2>3. CASE j > i
      BY <1>4, <1>5, <1>6, <2>3
    <2> QED BY <1>4, <1>6, <2>1, <2>2, <2>3
  <1> DEFINE g == [k \in 0 .. n - 1 |-> IF k < i THEN Until(q, k) ELSE Until(q, k + 1)]
  <1>8. \A j \in 1 .. n - 1 : Until(p, j) = IF j < i THEN Until(q, j) ELSE Until(q, j + 1)
    <2>1. g[0] = 0
      BY <1>2, <1>4
    <2>2. ASSUME NEW k \in 1 .. n - 1 PROVE g[k] = g[k - 1] + p[k].time
      <3>1. /\ k - 1 \in 0 .. n - 1 /\ (k - 1) + 1 = k /\ (k + 1) - 1 = k
            /\ g[k] = IF k < i THEN Until(q, k) ELSE Until(q, k + 1)
            /\ g[k - 1] = IF k - 1 < i THEN Until(q, k - 1) ELSE Until(q, (k - 1) + 1)
        BY <1>4
      <3>2. /\ k \in 1 .. n /\ k + 1 \in 1 .. n
            /\ q[k].time \in Nat /\ q[k + 1].time \in Nat
            /\ Until(q, k) = Until(q, k - 1) + q[k].time
            /\ Until(q, k + 1) = Until(q, k) + q[k + 1].time
            /\ Until(q, k - 1) \in Nat /\ Until(q, k) \in Nat /\ Until(q, k + 1) \in Nat
        <4>1. k \in 1 .. n /\ k + 1 \in 1 .. n /\ (k + 1) - 1 = k
          BY <1>6
        <4>2. k - 1 \in 0 .. n /\ k \in 0 .. n /\ k + 1 \in 0 .. n
          BY <1>4, <4>1
        <4> QED BY <1>2, <1>5, <4>1, <4>2
      <3> HIDE DEF g
      <3>3. CASE k < i
        <4>1. k - 1 < i
          BY <1>4, <3>3
        <4> QED BY <1>4, <3>1, <3>2, <3>3, <4>1
      <3>4. CASE k = i
        <4>1. k - 1 < i /\ ~(k < i)
          BY <1>4, <3>4
        <4> QED BY <1>4, <3>1, <3>2, <3>4, <4>1
      <3>5. CASE k > i
        <4>1. ~(k - 1 < i) /\ ~(k < i)
          BY <1>4, <3>5
        <4> QED BY <1>4, <3>1, <3>2, <3>5, <4>1
      <3> QED BY <1>4, <3>3, <3>4, <3>5
    <2> HIDE DEF g
    <2>3. \A k \in 1 .. Len(p) : g[k] = g[k - 1] + p[k].time
      BY <1>4, <2>2
    <2>4. Len(p) \in Nat
      BY <1>4
    <2>5. \A k \in 0 .. Len(p) : Until(p, k) = g[k]
      BY <2>1, <2>3, <2>4, UntilOnly
    <2>6. \A j \in 1 .. n - 1 : j \in 0 .. n - 1 /\ Until(p, j) = g[j]
      BY <1>4, <2>5
    <2> QED BY <2>6 DEF g
  <1>9. ASSUME NEW k, Scheduled(p, k) PROVE LeftOf(p)[k] = LeftOf(q)[k]
    <2>1. PICK j \in 1 .. n - 1 : p[j].h = k
      BY <1>4, <1>9 DEF Scheduled
    <2>2. LeftOf(p)[k] = Until(p, j)
      BY <1>3, <1>4, <2>1, LeftOfIs
    <2>3. CASE j < i
      <3>1. j \in 1 .. n /\ q[j].h = k
        BY <1>4, <1>6, <2>1, <2>3
      <3> QED BY <1>4, <1>8, <2>2, <2>3, <3>1, LeftOfIs
    <2>4. CASE ~(j < i)
      <3>1. j + 1 \in 1 .. n /\ q[j + 1].h = k
        <4>1. j = i \/ j > i
          BY <1>4, <1>6, <2>4
        <4> QED BY <1>4, <1>6, <2>1, <4>1
      <3>2. LeftOf(q)[k] = Until(q, j + 1)
        BY <1>4, <3>1, LeftOfIs
      <3> QED BY <1>8, <2>2, <2>4, <3>2
    <2> QED BY <2>3, <2>4
  <1>10. LeftOf(p) = [k \in DOMAIN LeftOf(q) \ {h} |-> LeftOf(q)[k]]
    <2>1. \A k : k \in DOMAIN LeftOf(p) <=> Scheduled(p, k)
      BY <1>3, LeftOfIs
    <2>2. \A k : k \in DOMAIN LeftOf(q) <=> Scheduled(q, k)
      BY LeftOfIs
    <2>3. LeftOf(p) = [k \in DOMAIN LeftOf(p) |-> LeftOf(p)[k]]
      BY DEF LeftOf
    <2>4. DOMAIN LeftOf(p) = DOMAIN LeftOf(q) \ {h}
      BY <1>3, <2>1, <2>2
    <2>5. \A k \in DOMAIN LeftOf(p) : LeftOf(p)[k] = LeftOf(q)[k]
      BY <1>9, <2>1
    <2> HIDE DEF LeftOf
    <2> QED BY <2>3, <2>4, <2>5
  <1> QED BY <1>7, <1>10 DEF p

\* The first entry is the one that expires first, and the others come closer.
LEMMA TailTimes ==
  ASSUME NEW q, IsList(q), Distinct(q), HasTimes(q), q /= <<>>
  PROVE  LET a == q[1].h IN
         /\ HasTimes(Tail(q))
         /\ q[1].time \in Nat
         /\ a \in DOMAIN LeftOf(q) /\ LeftOf(q)[a] = q[1].time
         /\ \A k \in DOMAIN LeftOf(q) : LeftOf(q)[k] \in Nat /\ q[1].time <= LeftOf(q)[k]
         /\ LeftOf(Tail(q)) = [k \in DOMAIN LeftOf(q) \ {a} |-> LeftOf(q)[k] - q[1].time]
  <1> DEFINE n == Len(q)
             p == Tail(q)
             a == q[1].h
             R == {q[j] : j \in DOMAIN q}
  <1>1. q \in Seq(R)
    BY DEF IsList
  <1>2. n \in Nat \ {0} /\ DOMAIN q = 1 .. n
    BY <1>1, ListLen, EmptySeq
  <1>3. Len(p) = n - 1 /\ \A j \in 1 .. n - 1 : p[j] = q[j + 1]
    BY <1>1, HeadTailProperties
  <1>4. /\ IsList(p) /\ Distinct(p) /\ Scheduled(q, a)
        /\ \A k : Scheduled(p, k) <=> Scheduled(q, k) /\ k /= a
    BY TailRemoves
  <1>5. DOMAIN p = 1 .. n - 1
    BY <1>3, <1>4, ListLen
  <1>6. /\ Until(q, 0) = 0
        /\ \A k \in 1 .. n : Until(q, k) = Until(q, k - 1) + q[k].time
        /\ \A k \in 0 .. n : Until(q, k) \in Nat
    BY <1>2, UntilIs, UntilNat
  <1> HIDE DEF n, p, a, R
  <1>7. \A j \in 1 .. n : q[j].time \in Nat
    BY <1>2 DEF HasTimes
  <1>8. \A j \in 1 .. n - 1 : j + 1 \in 1 .. n
    BY <1>2
  <1>9. HasTimes(p)
    BY <1>3, <1>5, <1>7, <1>8 DEF HasTimes
  <1>10. 1 \in 1 .. n /\ Until(q, 1) = q[1].time /\ q[1].time \in Nat
    <2>1. 1 \in 1 .. n /\ 1 - 1 = 0
      BY <1>2
    <2> QED BY <1>6, <1>7, <2>1
  <1>11. a \in DOMAIN LeftOf(q) /\ LeftOf(q)[a] = q[1].time
    BY <1>2, <1>4, <1>10, LeftOfIs DEF a
  <1>12. ASSUME NEW k \in DOMAIN LeftOf(q)
         PROVE  LeftOf(q)[k] \in Nat /\ q[1].time <= LeftOf(q)[k]
    <2>1. PICK j \in 1 .. n : q[j].h = k
      BY <1>2, LeftOfIs DEF Scheduled
    <2>2. LeftOf(q)[k] = Until(q, j)
      BY <1>2, <2>1, LeftOfIs
    <2>3. 1 \in 0 .. n /\ j \in 0 .. n /\ 1 <= j
      BY <1>2
    <2>4. Until(q, 1) <= Until(q, j)
      BY <2>3, UntilGrows DEF n
    <2> QED BY <1>6, <1>10, <2>2, <2>3, <2>4
  <1> DEFINE g == [k \in 0 .. n - 1 |-> Until(q, k + 1) - q[1].time]
  <1>13. \A j \in 1 .. n - 1 : Until(p, j) = Until(q, j + 1) - q[1].time
    <2>1. g[0] = 0
      <3>1. 0 \in 0 .. n - 1 /\ 0 + 1 = 1
        BY <1>2
      <3> QED BY <1>10, <3>1
    <2>2. ASSUME NEW k \in 1 .. n - 1 PROVE g[k] = g[k - 1] + p[k].time
      <3>1. /\ k \in 0 .. n - 1 /\ k - 1 \in 0 .. n - 1
            /\ (k - 1) + 1 = k /\ (k + 1) - 1 = k
        BY <1>2
      <3>2. /\ g[k] = Until(q, k + 1) - q[1].time
            /\ g[k - 1] = Until(q, k) - q[1].time
        BY <3>1
      <3>3. /\ k + 1 \in 1 .. n /\ q[k + 1].time \in Nat /\ p[k] = q[k + 1]
            /\ Until(q, k + 1) = Until(q, k) + q[k + 1].time
            /\ Until(q, k) \in Nat
        <4>1. k + 1 \in 1 .. n /\ k \in 0 .. n
          BY <1>2
        <4> QED BY <1>3, <1>6, <1>7, <3>1, <4>1
      <3> HIDE DEF g
      <3> QED BY <1>10, <3>2, <3>3
    <2> HIDE DEF g
    <2>3. \A k \in 1 .. Len(p) : g[k] = g[k - 1] + p[k].time
      BY <1>3, <2>2
    <2>4. Len(p) \in Nat
      BY <1>2, <1>3
    <2>5. \A k \in 0 .. Len(p) : Until(p, k) = g[k]
      BY <2>1, <2>3, <2>4, UntilOnly
    <2>6. \A j \in 1 .. n - 1 : j \in 0 .. n - 1 /\ Until(p, j) = g[j]
      BY <1>2, <1>3, <2>5
    <2> QED BY <2>6 DEF g
  <1>14. ASSUME NEW k, Scheduled(p, k) PROVE LeftOf(p)[k] = LeftOf(q)[k] - q[1].time
    <2>1. PICK j \in 1 .. n - 1 : p[j].h = k
      BY <1>5, <1>14 DEF Scheduled
    <2>2. LeftOf(p)[k] = Until(p, j)
      BY <1>4, <1>5, <2>1, LeftOfIs
    <2>3. LeftOf(q)[k] = Until(q, j + 1)
      BY <1>2, <1>3, <1>8, <2>1, LeftOfIs
    <2> QED BY <1>13, <2>2, <2>3
  <1>15. LeftOf(p) = [k \in DOMAIN LeftOf(q) \ {a} |-> LeftOf(q)[k] - q[1].time]
    <2>1. \A k : k \in DOMAIN LeftOf(p) <=> Scheduled(p, k)
      BY <1>4, LeftOfIs
    <2>2. \A k : k \in DOMAIN LeftOf(q) <=> Scheduled(q, k)
      BY LeftOfIs
    <2>3. LeftOf(p) = [k \in DOMAIN LeftOf(p) |-> LeftOf(p)[k]]
      BY DEF LeftOf
    <2>4. DOMAIN LeftOf(p) = DOMAIN LeftOf(q) \ {a}
      BY <1>4, <2>1, <2>2
    <2>5. \A k \in DOMAIN LeftOf(p) : LeftOf(p)[k] = LeftOf(q)[k] - q[1].time
      BY <1>14, <2>1
    <2> HIDE DEF LeftOf
    <2> QED BY <2>3, <2>4, <2>5
  <1> QED BY <1>9, <1>10, <1>11, <1>12, <1>15 DEF p, a

\* The entries are records of their type.
Entries(q) == \A j \in DOMAIN q : q[j] \in [h : TimeoutHandler, time : Nat]

LEMMA EntryIs ==
  ASSUME NEW a \in TimeoutHandler, NEW t \in Nat
  PROVE  [h |-> a, time |-> t] \in [h : TimeoutHandler, time : Nat]
  OBVIOUS

LEMMA TimeoutEntries ==
  ASSUME NEW q, IsList(q), Distinct(q), Entries(q), NEW h \in TimeoutHandler,
         ~Scheduled(q, h), NEW d \in Nat
  PROVE  Entries(SysTimeout(q, h, d)) /\ HasTimes(q)
  <1> DEFINE n == Len(q)
             i == Place(q, d)
             p == SysTimeout(q, h, d)
  <1>0. HasTimes(q)
    BY DEF HasTimes, Entries
  <1>1. IsInserted(p, q, n, i, h, d)
    BY Inserted
  <1>2. HasTimes(p) /\ IsList(p)
    BY <1>0, TimeoutTimes, TimeoutAdds
  <1> HIDE DEF n, i, p
  <1>3. /\ n \in Nat /\ i \in 1 .. n + 1
        /\ DOMAIN p = 1 .. n + 1 /\ DOMAIN q = 1 .. n
        /\ \A j \in 1 .. n + 1 : j < i => p[j] = q[j]
        /\ p[i] = [h |-> h, time |-> d - Until(q, i - 1)]
        /\ i + 1 \in 1 .. n + 1 =>
             p[i + 1] = [h |-> q[i].h, time |-> q[i].time - (d - Until(q, i - 1))]
        /\ \A j \in 1 .. n + 1 : j > i + 1 => p[j] = q[j - 1]
    BY <1>1 DEF IsInserted
  <1>4. ASSUME NEW j \in 1 .. n + 1 PROVE p[j] \in [h : TimeoutHandler, time : Nat]
    <2>1. p[j].h \in TimeoutHandler /\ p[j].time \in Nat
      BY <1>2, <1>3 DEF IsList, HasTimes
    <2>2. CASE j < i
      <3>1. j \in 1 .. n
        BY <1>3, <2>2
      <3> QED BY <1>3, <2>2, <3>1 DEF Entries
    <2>3. CASE j = i
      <3> DEFINE t == d - Until(q, i - 1)
      <3>1. p[j] = [h |-> h, time |-> t]
        BY <1>3, <2>3
      <3> HIDE DEF t
      <3>2. t \in Nat
        BY <2>1, <3>1
      <3> QED BY <3>1, <3>2, EntryIs
    <2>4. CASE j = i + 1
      <3> DEFINE t == q[i].time - (d - Until(q, i - 1))
                 a == q[i].h
      <3>1. p[j] = [h |-> a, time |-> t]
        BY <1>3, <2>4
      <3> HIDE DEF t, a
      <3>2. t \in Nat /\ a \in TimeoutHandler
        BY <2>1, <3>1
      <3> QED BY <3>1, <3>2, EntryIs
    <2>5. CASE j > i + 1
      <3>1. j - 1 \in 1 .. n
        BY <1>3, <2>5
      <3> QED BY <1>3, <2>5, <3>1 DEF Entries
    <2> QED BY <1>3, <2>2, <2>3, <2>4, <2>5
  <1>5. Entries(p)
    BY <1>3, <1>4 DEF Entries
  <1> QED BY <1>0, <1>5 DEF p

LEMMA UntimeoutEntries ==
  ASSUME NEW q, IsList(q), Distinct(q), Entries(q), NEW h, Scheduled(q, h)
  PROVE  Entries(SysUntimeout(q, h)) /\ HasTimes(q)
  <1> DEFINE n == Len(q)
             i == PlaceOf(q, h)
             p == SysUntimeout(q, h)
  <1>0. HasTimes(q)
    BY DEF HasTimes, Entries
  <1>1. IsRemoved(p, q, n, i)
    BY Removed
  <1>2. HasTimes(p) /\ IsList(p)
    BY <1>0, UntimeoutTimes, UntimeoutRemoves
  <1> HIDE DEF n, i, p
  <1>3. /\ n \in Nat /\ i \in 1 .. n
        /\ DOMAIN p = 1 .. n - 1 /\ DOMAIN q = 1 .. n
        /\ \A j \in 1 .. n - 1 : j < i => p[j] = q[j]
        /\ i \in 1 .. n - 1 => p[i] = [h |-> q[i + 1].h, time |-> q[i + 1].time + q[i].time]
        /\ \A j \in 1 .. n - 1 : j > i => p[j] = q[j + 1]
    BY <1>1 DEF IsRemoved
  <1>4. ASSUME NEW j \in 1 .. n - 1 PROVE p[j] \in [h : TimeoutHandler, time : Nat]
    <2>1. p[j].h \in TimeoutHandler /\ p[j].time \in Nat
      BY <1>2, <1>3 DEF IsList, HasTimes
    <2>2. j \in 1 .. n /\ j + 1 \in 1 .. n
      BY <1>3
    <2>3. CASE j < i
      BY <1>3, <2>2, <2>3 DEF Entries
    <2>4. CASE j = i
      <3> DEFINE t == q[i + 1].time + q[i].time
                 a == q[i + 1].h
      <3>1. p[j] = [h |-> a, time |-> t]
        BY <1>3, <2>4
      <3> HIDE DEF t, a
      <3>2. t \in Nat /\ a \in TimeoutHandler
        BY <2>1, <3>1
      <3> QED BY <3>1, <3>2, EntryIs
    <2>5. CASE j > i
      BY <1>3, <2>2, <2>5 DEF Entries
    <2> QED BY <1>3, <2>3, <2>4, <2>5
  <1>5. Entries(p)
    BY <1>3, <1>4 DEF Entries
  <1> QED BY <1>0, <1>5 DEF p

LEMMA TailEntries ==
  ASSUME NEW q, IsList(q), Entries(q), q /= <<>>
  PROVE  Entries(Tail(q)) /\ HasTimes(q)
  <1> DEFINE R == {q[j] : j \in DOMAIN q}
             p == Tail(q)
  <1>1. q \in Seq(R) /\ R \subseteq [h : TimeoutHandler, time : Nat]
    BY DEF IsList, Entries
  <1>2. p \in Seq(R)
    BY <1>1, HeadTailProperties
  <1>3. \A j \in DOMAIN p : p[j] \in R
    BY <1>2, LenProperties, ElementOfSeq
  <1> HIDE DEF p, R
  <1>4. Entries(p)
    BY <1>1, <1>3 DEF Entries
  <1>5. HasTimes(q)
    BY DEF HasTimes, Entries
  <1> QED BY <1>4, <1>5 DEF p

LEMMA TypedList ==
  ASSUME NEW q, IsList(q), Entries(q)
  PROVE  q \in Seq([h : TimeoutHandler, time : Nat])
  <1>1. Len(q) \in Nat /\ DOMAIN q = 1 .. Len(q)
    BY ListLen
  <1>2. q = [j \in 1 .. Len(q) |-> q[j]]
    <2>1. q \in Seq({q[j] : j \in DOMAIN q})
      BY DEF IsList
    <2> QED BY <1>1, <2>1
  <1>3. q \in [1 .. Len(q) -> [h : TimeoutHandler, time : Nat]]
    BY <1>1, <1>2 DEF Entries
  <1> QED BY <1>1, <1>3, SeqDef

-----------------------------------------------------------------------------
\* The clock, the variables of a check, and the times of the list.
Clocks ==
  /\ now \in 0 .. ClockMod - 1 /\ last_time \in 0 .. ClockMod - 1
  /\ sampled \in 0 .. ClockMod - 1 /\ diff \in 0 .. ClockMod - 1
  /\ checking \in BOOLEAN
  /\ ~checking => diff = 0

TimesInv == TimersInv /\ Entries(timeouts) /\ Clocks

\* What sys_timeout is called with.
Delays == AppDelays \cup {Interval[h] : h \in Periodic \cup {TcpTimer}}

LEMMA Constants ==
  /\ ClockMod \in Nat \ {0}
  /\ Delays \subseteq Nat
  /\ \A h \in Periodic \cup {TcpTimer} : Interval[h] \in Delays
  <1>1. \A h \in Periodic \cup {TcpTimer} : Interval[h] \in Nat \ {0}
    BY IntervalAssumption
  <1>2. Interval[TcpTimer] \in Nat /\ Interval[TcpTimer] + Slack < ClockMod
    BY <1>1, IntervalAssumption
  <1>3. ClockMod \in Nat \ {0}
    BY <1>2, IntervalAssumption
  <1> QED BY <1>1, <1>3, IntervalAssumption DEF Delays

LEMMA ModIn ==
  ASSUME NEW x \in Int
  PROVE  x % ClockMod \in 0 .. ClockMod - 1
  BY Constants

LEMMA TimesInitInv == TimersInit => TimesInv
  <1> SUFFICES ASSUME TimersInit PROVE TimesInv
    OBVIOUS
  <1>1. Entries(<<>>)
    BY DEF Entries
  <1>2. 0 \in 0 .. ClockMod - 1
    BY Constants
  <1>3. Clocks
    BY <1>2 DEF TimersInit, Clocks
  <1> QED BY <1>1, <1>3, TimersInitInv DEF TimesInv, TimersInit

\* The deadlines of the abstract timers, and the time not yet counted.
LEMMA DeadlinesInit == TimersInit => Deadlines!Init
  <1> SUFFICES ASSUME TimersInit PROVE Deadlines!Init
    OBVIOUS
  <1>1. LeftOf(<<>>) = <<>>
    BY DEF LeftOf
  <1>2. LeftOf(timeouts) = <<>> /\ diff = 0
    BY <1>1 DEF TimersInit
  <1> QED BY <1>2 DEF Deadlines!Init, LeftOf

\* sys_timeout is the Add of the timers, whoever calls it.
LEMMA SetsTimer ==
  ASSUME TimesInv, NEW h \in TimeoutHandler, ~Scheduled(timeouts, h), NEW d \in Delays,
         timeouts' = SysTimeout(timeouts, h, d), diff' = diff
  PROVE  Entries(timeouts)' /\ Deadlines!Next
  <1>1. IsList(timeouts) /\ Distinct(timeouts) /\ Entries(timeouts) /\ d \in Nat
    BY Constants DEF TimesInv, TimersInv, NoTimerLost, Distinct
  <1>2. Entries(timeouts') /\ HasTimes(timeouts)
    BY <1>1, TimeoutEntries
  <1>3. LeftOf(timeouts') = WithTimer(LeftOf(timeouts), h, d)
    BY <1>1, <1>2, TimeoutTimes
  <1>4. h \notin DOMAIN LeftOf(timeouts)
    BY <1>1, LeftOfIs
  <1>5. Deadlines!Add(h)
    BY <1>3, <1>4 DEF Deadlines!Add, LeftOf, Delays, WithTimer
  <1> QED BY <1>2, <1>5 DEF Deadlines!Next

\* What leaves the list and the credit alone is no step of the timers.
LEMMA KeepsTimers ==
  ASSUME TimesInv, timeouts' = timeouts, diff' = diff
  PROVE  Entries(timeouts)' /\ UNCHANGED Deadlines!vars
  BY DEF TimesInv, Deadlines!vars

\* Each step keeps the times and the clock in their range, and is a step of the
\* abstract timers or none.
LEMMA TimesStep ==
  ASSUME TimesInv, [TimersNext]_timersVars
  PROVE  TimesInv' /\ [Deadlines!Next]_(Deadlines!vars)
  <1>h. /\ TcpTimer \in TimeoutHandler /\ AppTimer \in TimeoutHandler
        /\ Periodic \subseteq TimeoutHandler
        /\ TcpTimer \notin Periodic /\ AppTimer \notin Periodic /\ TcpTimer /= AppTimer
        /\ NoHandler \notin Periodic /\ NoHandler /= TcpTimer /\ NoHandler /= AppTimer
    BY TimersAssumption DEF TimeoutHandler
  <1>l. IsList(timeouts) /\ Distinct(timeouts) /\ Entries(timeouts)
    BY DEF TimesInv, TimersInv, NoTimerLost, Distinct
  <1>c. /\ now \in Int /\ last_time \in Int /\ diff \in Nat
        /\ 0 \in 0 .. ClockMod - 1
        /\ \A h \in Periodic \cup {TcpTimer} : Interval[h] \in Delays
    BY Constants DEF TimesInv, Clocks
  <1>i. TimersInv'
    BY TimersStepInv DEF TimesInv
  <1> DEFINE Steps == Entries(timeouts)' /\ [Deadlines!Next]_(Deadlines!vars)
  <1>s. ASSUME NEW h \in TimeoutHandler, ~Scheduled(timeouts, h), NEW d \in Delays,
               timeouts' = SysTimeout(timeouts, h, d), diff' = diff
        PROVE  Steps
    BY <1>s, SetsTimer
  <1>k. ASSUME timeouts' = timeouts, diff' = diff PROVE Steps
    BY <1>k, KeepsTimers
  <1> SUFFICES Steps /\ Clocks'
    BY <1>i DEF TimesInv
  <1> HIDE DEF Steps
  <1>1. CASE TimeoutsInit
    <2>1. PICK h \in toStart : timeouts' = SysTimeout(timeouts, h, Interval[h])
      BY <1>1 DEF TimeoutsInit
    <2>2. h \in Periodic /\ h \in TimeoutHandler /\ ~Scheduled(timeouts, h)
      BY <2>1, <1>h DEF TimesInv, TimersInv, NoTimerLost
    <2>3. Steps
      BY <1>1, <2>1, <2>2, <1>c, <1>s DEF TimeoutsInit
    <2>4. Clocks'
      BY <1>1 DEF TimeoutsInit, TimesInv, Clocks
    <2> QED BY <2>3, <2>4
  <1>2. CASE CallHandler
    <2> DEFINE a == timeouts[1].h
               p == Tail(timeouts)
    <2>1. /\ timeouts /= <<>> /\ timeouts[1].time <= diff
          /\ timeouts' = p /\ diff' = diff - timeouts[1].time
      BY <1>2 DEF CallHandler, Due
    <2>2. Entries(p) /\ HasTimes(timeouts)
      BY <1>l, <2>1, TailEntries
    <2>3. /\ timeouts[1].time \in Nat
          /\ a \in DOMAIN LeftOf(timeouts) /\ LeftOf(timeouts)[a] = timeouts[1].time
          /\ \A k \in DOMAIN LeftOf(timeouts) : timeouts[1].time <= LeftOf(timeouts)[k]
          /\ LeftOf(p) = [k \in DOMAIN LeftOf(timeouts) \ {a} |->
                            LeftOf(timeouts)[k] - timeouts[1].time]
      BY <1>l, <2>1, <2>2, TailTimes
    <2>4. a \in TimeoutHandler
      BY <1>l, <2>1, TailRemoves
    <2> DEFINE t == timeouts[1].time
    <2>b. PICK b \in TimeoutHandler : b = a
      BY <2>4
    <2>5. /\ t \in Nat /\ t <= diff /\ diff' = diff - t
          /\ b \in DOMAIN LeftOf(timeouts) /\ LeftOf(timeouts)[b] = t
          /\ \A k \in DOMAIN LeftOf(timeouts) : t <= LeftOf(timeouts)[k]
      BY <2>1, <2>3, <2>b
    <2>6. LeftOf(timeouts') = [k \in DOMAIN LeftOf(timeouts) \ {b} |->
                                 LeftOf(timeouts)[k] - LeftOf(timeouts)[b]]
      BY <2>1, <2>3, <2>b
    <2>e. Entries(timeouts')
      BY <2>1, <2>2
    <2> HIDE DEF a, p, t
    <2>7. Deadlines!Run(b)
      BY <2>5, <2>6 DEF Deadlines!Run, LeftOf
    <2>8. Steps
      BY <2>e, <2>7 DEF Steps, Deadlines!Next
    <2>9. diff' \in 0 .. ClockMod - 1
      BY <2>5, Constants DEF TimesInv, Clocks
    <2>10. Clocks'
      BY <1>2, <2>9 DEF CallHandler, TimesInv, Clocks
    <2> QED BY <2>8, <2>10
  <1>3. CASE HandlerRearms
    <2>1. /\ running \in TimeoutHandler /\ ~Scheduled(timeouts, running)
          /\ timeouts' = SysTimeout(timeouts, running, Interval[running])
          /\ running \in Periodic \cup {TcpTimer}
      BY <1>3, <1>h DEF HandlerRearms, TimesInv, TimersInv, NoTimerLost
    <2>2. Steps
      BY <1>3, <2>1, <1>c, <1>s DEF HandlerRearms
    <2>3. Clocks'
      BY <1>3 DEF HandlerRearms, TimesInv, Clocks
    <2> QED BY <2>2, <2>3
  <1>4. CASE TcpReg
    <2>1. Steps
      <3>1. CASE tcp_active
        BY <1>4, <3>1, <1>k DEF TcpReg
      <3>2. CASE ~tcp_active
        <4>1. /\ ~Scheduled(timeouts, TcpTimer)
              /\ timeouts' = SysTimeout(timeouts, TcpTimer, Interval[TcpTimer])
          BY <1>4, <3>2 DEF TcpReg, TimesInv, TimersInv, NoTimerLost
        <4> QED BY <1>4, <4>1, <1>h, <1>c, <1>s DEF TcpReg
      <3> QED BY <3>1, <3>2
    <2>2. Clocks'
      BY <1>4 DEF TcpReg, TimesInv, Clocks
    <2> QED BY <2>1, <2>2
  <1>5. CASE \E d \in AppDelays : AppTimeout(d)
    <2>1. PICK d \in AppDelays : AppTimeout(d)
      BY <1>5
    <2>2. d \in Delays
      BY DEF Delays
    <2>3. Steps
      BY <2>1, <2>2, <1>h, <1>s DEF AppTimeout
    <2>4. Clocks'
      BY <2>1 DEF AppTimeout, TimesInv, Clocks
    <2> QED BY <2>3, <2>4
  <1>6. CASE AppUntimeout
    <2>1. /\ Scheduled(timeouts, AppTimer) /\ diff' = diff
          /\ timeouts' = SysUntimeout(timeouts, AppTimer)
      BY <1>6 DEF AppUntimeout
    <2>2. Entries(timeouts') /\ HasTimes(timeouts)
      BY <1>l, <2>1, UntimeoutEntries
    <2>3. LeftOf(SysUntimeout(timeouts, AppTimer))
            = [k \in DOMAIN LeftOf(timeouts) \ {AppTimer} |-> LeftOf(timeouts)[k]]
      BY <1>l, <2>1, <2>2, UntimeoutTimes
    <2>4. LeftOf(timeouts')
            = [k \in DOMAIN LeftOf(timeouts) \ {AppTimer} |-> LeftOf(timeouts)[k]]
      BY <2>1, <2>3
    <2>5. AppTimer \in DOMAIN LeftOf(timeouts)
      BY <1>l, <2>1, LeftOfIs
    <2>6. Deadlines!Cancel(AppTimer)
      BY <2>1, <2>4, <2>5 DEF Deadlines!Cancel, LeftOf
    <2>7. Steps
      BY <2>2, <2>6, <1>h DEF Steps, Deadlines!Next
    <2>8. Clocks'
      BY <1>6 DEF AppUntimeout, TimesInv, Clocks
    <2> QED BY <2>7, <2>8
  <1>7. CASE CheckTimeouts
    <2>1. /\ diff = 0 /\ timeouts' = timeouts
          /\ diff' = (now - last_time) % ClockMod
      BY <1>7 DEF CheckTimeouts, Elapsed, TimesInv, Clocks
    <2>2. diff' \in 0 .. ClockMod - 1
      BY <2>1, <1>c, ModIn
    <2>3. Deadlines!Begin
      BY <2>1, <2>2 DEF Deadlines!Begin
    <2>4. Steps
      BY <1>l, <2>1, <2>3 DEF Steps, Deadlines!Next
    <2>5. Clocks'
      BY <1>7, <2>2 DEF CheckTimeouts, TimesInv, Clocks
    <2> QED BY <2>4, <2>5
  <1>8. CASE CheckDone
    <2>1. timeouts' = timeouts /\ diff' = 0 /\ ~Due
      BY <1>8 DEF CheckDone
    <2>2. \A k \in DOMAIN LeftOf(timeouts) : LeftOf(timeouts)[k] > diff
      <3>1. CASE timeouts = <<>>
        BY <3>1 DEF LeftOf
      <3>2. CASE timeouts /= <<>>
        <4>1. HasTimes(timeouts)
          BY <1>l, <3>2, TailEntries
        <4>2. /\ timeouts[1].time \in Nat
              /\ \A k \in DOMAIN LeftOf(timeouts) :
                   LeftOf(timeouts)[k] \in Nat /\ timeouts[1].time <= LeftOf(timeouts)[k]
          BY <1>l, <3>2, <4>1, TailTimes
        <4>3. ~(timeouts[1].time <= diff)
          BY <2>1, <3>2 DEF Due
        <4> QED BY <4>2, <4>3, <1>c
      <3> QED BY <3>1, <3>2
    <2>3. Deadlines!End
      BY <2>1, <2>2 DEF Deadlines!End, LeftOf
    <2>4. Steps
      BY <1>l, <2>1, <2>3 DEF Steps, Deadlines!Next
    <2>5. Clocks'
      BY <1>8, <1>c DEF CheckDone, TimesInv, Clocks
    <2> QED BY <2>4, <2>5
  <1>9. CASE TcpTimerStops
    BY <1>9, <1>k DEF TcpTimerStops, TimesInv, Clocks
  <1>10. CASE AppTimerDone
    BY <1>10, <1>k DEF AppTimerDone, TimesInv, Clocks
  <1>11. CASE TcpRmv
    BY <1>11, <1>k DEF TcpRmv, TimesInv, Clocks
  <1>12. CASE RestartTimeouts
    BY <1>12, <1>k DEF RestartTimeouts, TimesInv, Clocks
  <1>13. CASE ClockTick
    <2>1. now' \in 0 .. ClockMod - 1
      BY <1>13, <1>c, ModIn DEF ClockTick
    <2> QED BY <1>13, <2>1, <1>k DEF ClockTick, TimesInv, Clocks
  <1>14. CASE UNCHANGED timersVars
    BY <1>14, <1>k DEF timersVars, TimesInv, Clocks
  <1> QED BY <1>1, <1>2, <1>3, <1>4, <1>5, <1>6, <1>7, <1>8, <1>9, <1>10, <1>11,
             <1>12, <1>13, <1>14 DEF TimersNext, TimersStep

LEMMA TimesAlways == TimersSpec => []TimesInv
  BY TimesInitInv, TimesStep, PTL DEF TimersSpec

\* Every variable of timers.c keeps its range; no time of the list goes below
\* zero, although sys_timeout takes the time of the new entry off the next one.
THEOREM TimersTypeCorrect == TimersSpec => []TimersTypeOK
  <1>1. TimesInv => TimersTypeOK
    BY TypedList DEF TimesInv, TimersInv, Clocks, TimersTypeOK
  <1> QED BY <1>1, TimesAlways, PTL

\* timers.c keeps what it promises: setting, cancelling and running a timeout
\* change the deadline of no other, however the differences of the list, the
\* credit of a check and the calls from inside a handler interleave.
THEOREM TimersImplemented == TimersSpec => ImplementsTimerSet
  <1>1. TimersInit => Deadlines!Init
    BY DeadlinesInit
  <1>2. TimesInv /\ [TimersNext]_timersVars => [Deadlines!Next]_(Deadlines!vars)
    BY TimesStep
  <1> QED BY <1>1, <1>2, TimesAlways, PTL
          DEF TimersSpec, ImplementsTimerSet, Deadlines!Spec

-----------------------------------------------------------------------------
(* Together with the other parts.                                          *)

LEMMA PartsStep ==
  ASSUME PartsNext
         \/ UNCHANGED <<vars, timersVars, memVars, etharpVars, reassVars,
                       portVars, pbufVars, dhcpVars, part>>
  PROVE  /\ [Next]_vars /\ [TimersNext]_timersVars /\ [MemNext]_memVars
         /\ [EtharpNext]_etharpVars /\ [ReassNext]_reassVars
         /\ [PortsNext]_portVars /\ [PbufNext]_pbufVars /\ [DhcpNext]_dhcpVars
  <1>1. CASE Only("board", Next)
    BY <1>1 DEF Only
  <1>2. CASE Only("timers", TimersNext)
    BY <1>2 DEF Only
  <1>3. CASE Only("heap", MemNext)
    BY <1>3 DEF Only
  <1>4. CASE Only("arp", EtharpNext)
    BY <1>4 DEF Only
  <1>5. CASE Only("reass", ReassNext)
    BY <1>5 DEF Only
  <1>6. CASE Only("ports", PortsNext)
    BY <1>6 DEF Only
  <1>7. CASE Only("pbufs", PbufNext)
    BY <1>7 DEF Only
  <1>8. CASE Only("dhcp", DhcpNext)
    BY <1>8 DEF Only
  <1>9. CASE UNCHANGED <<vars, timersVars, memVars, etharpVars, reassVars,
                         portVars, pbufVars, dhcpVars, part>>
    BY <1>9
  <1> QED BY <1>1, <1>2, <1>3, <1>4, <1>5, <1>6, <1>7, <1>8, <1>9 DEF PartsNext

\* The composition does what each part does: what is proved of a part alone holds
\* of it in Parts, whatever the others do.
THEOREM PartsKeepTheirSpecs ==
  PartsSpec => /\ Spec /\ TimersSpec /\ MemSpec /\ EtharpSpec /\ ReassSpec
               /\ PortsSpec /\ PbufSpec /\ DhcpInit /\ [][DhcpNext]_dhcpVars
  BY PartsStep, PTL DEF PartsSpec, PartsInit, Spec, TimersSpec, MemSpec, EtharpSpec,
     ReassSpec, PortsSpec, PbufSpec

\* The counters of the board and the list of the timers keep their types in the
\* composition (jiffies, led_run_time; next_timeout and the pool of timeouts).
THEOREM PartsTypeCorrect == PartsSpec => []PartsTypeOK
  BY PartsKeepTheirSpecs, TypeCorrect, TimersTypeCorrect, PTL DEF PartsTypeOK
===============================================================================
