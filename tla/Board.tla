-------------------------------- MODULE Board --------------------------------
(***************************************************************************)
(* The program that runs on the board (main.c, sys_init.c, asyn.c, led.c,  *)
(* fun.c): the SysTick interrupt counts jiffies, the main loop feeds the   *)
(* independent watchdog and blinks an LED by the jiffies that have passed, *)
(* and the watchdog restarts a board whose main loop is held up.           *)
(*                                                                         *)
(* The main loop and the interrupt are concurrent: every read of jiffies   *)
(* is a step of its own.  jiffies is not volatile, so the compiler may     *)
(* merge the reads of one call of jiffies_before.                          *)
(***************************************************************************)
EXTENDS Integers

CONSTANTS
  M,        \* number of values of an unsigned int, 2^32
  Half,     \* 50 jiffies: the LED is switched on
  Full,     \* 100 jiffies: the LED is switched off and the period restarts
  Watch     \* how many jiffies the watchdog waits to be fed, 2000/1 kHz

ASSUME PeriodAssumption == {Half, Full, Watch} \subseteq Nat /\ 0 < Half /\ Half < Full /\ 0 < Watch
ASSUME WidthAssumption == M \in Nat /\ Full + 2 * Watch < M

VARIABLES
  jiffies,       \* the count of SysTick_Handler
  led_run_time,  \* the jiffies when the period began
  led,           \* "on" while PF9 is low
  masked,        \* PRIMASK: interrupts are disabled
  pending,       \* the SysTick exception waits
  ticking,       \* SysTick_Config was called
  dog,           \* jiffies until the watchdog bites, 0 when it is not running
  pc,            \* where the main program is
  tmp,           \* jiffies_tmp of jiffies_before, then its result
  age,           \* history: the jiffies that passed since led_run_time was
                 \* read, counted up to M
  start          \* history: age when jiffies_before was called

vars == <<jiffies, led_run_time, led, masked, pending, ticking, dog, pc, tmp, age, start>>
local == <<tmp, start>>
clock == <<jiffies, pending, age>>

PC == {"boot", "SysTick_init", "led_init", "unmask", "enable", "feed",
       "before1", "again1", "test1", "off", "restart", "before2", "again2", "test2", "on"}

\* Reset: memory is initialised and every pin is an input.
Init ==
  /\ jiffies = 0
  /\ led_run_time = 0
  /\ led = "off"
  /\ masked = FALSE
  /\ pending = FALSE
  /\ ticking = FALSE
  /\ dog = 0
  /\ pc = "boot"
  /\ tmp = 0
  /\ age = 0
  /\ start = 0

-----------------------------------------------------------------------------
(* The interrupt and the watchdog. *)

\* SysTick_Handler
Count ==
  /\ jiffies' = (jiffies + 1) % M
  /\ age' = IF age < M THEN age + 1 ELSE M

\* SysTick expires: the exception is taken, or waits for the mask to be
\* cleared.  Before the watchdog runs, the start-up is given Half - 1 jiffies.
Tick ==
  /\ ticking
  /\ dog /= 1
  /\ dog = 0 => age < Half - 1
  /\ dog' = IF dog > 0 THEN dog - 1 ELSE 0
  /\ IF masked THEN pending' = TRUE /\ UNCHANGED <<jiffies, age>>
               ELSE Count /\ UNCHANGED pending
  /\ UNCHANGED <<led_run_time, led, masked, ticking, pc, local>>

\* The watchdog was not fed in time and resets the board.
Bite ==
  /\ dog = 1
  /\ jiffies' = 0 /\ led_run_time' = 0 /\ led' = "off"
  /\ masked' = FALSE /\ pending' = FALSE /\ ticking' = FALSE
  /\ dog' = 0 /\ pc' = "boot" /\ tmp' = 0 /\ age' = 0 /\ start' = 0

-----------------------------------------------------------------------------
(* system_init *)

\* RCC_config, NVIC_config, disable_irq
Mask ==
  /\ pc = "boot"
  /\ masked' = TRUE
  /\ pc' = "SysTick_init"
  /\ UNCHANGED <<led_run_time, led, clock, ticking, dog, local>>

SysTick_init ==
  /\ pc = "SysTick_init"
  /\ jiffies' = 0
  /\ ticking' = TRUE
  /\ pc' = "led_init"
  /\ UNCHANGED <<led_run_time, led, masked, pending, dog, age, local>>

\* The pin becomes an output, and is low: the LED is on.
Led_init ==
  /\ pc = "led_init"
  /\ led' = "on"
  /\ pc' = "unmask"
  /\ UNCHANGED <<led_run_time, clock, masked, ticking, dog, local>>

\* enable_irq: an exception that waits is taken.
Unmask ==
  /\ pc = "unmask"
  /\ masked' = FALSE
  /\ pending' = FALSE
  /\ IF pending THEN Count ELSE UNCHANGED <<jiffies, age>>
  /\ pc' = "enable"
  /\ UNCHANGED <<led_run_time, led, ticking, dog, local>>

\* Mutant: a prescaler of 256 instead of 32.
Reload_Slow == 8 * Watch

\* IWDG_config: the watchdog counts down from here.
Reload == Watch

\* WATCHDOG_ENABLE, which also loads the counter.
Enable ==
  /\ pc = "enable"
  /\ dog' = Reload
  /\ pc' = "feed"
  /\ UNCHANGED <<led_run_time, led, clock, masked, ticking, local>>

-----------------------------------------------------------------------------
(* The main loop. *)

\* WATCHDOG_FEED
Feed ==
  /\ pc = "feed"
  /\ dog' = Reload
  /\ pc' = "before1"
  /\ UNCHANGED <<led_run_time, led, clock, masked, ticking, local>>

\* jiffies_before(led_run_time), called at a, the result wanted at b: without a
\* wrap, the first read of jiffies decides.
Before(a, again, b) ==
  /\ pc = a
  /\ start' = age
  /\ IF jiffies >= led_run_time
       THEN tmp' = jiffies - led_run_time /\ pc' = b
       ELSE tmp' = jiffies /\ pc' = again
  /\ UNCHANGED <<led_run_time, led, clock, masked, ticking, dog>>

\* Mutant: the jiffies since the wrap are left out.
Again_NoJiffies(again, b) ==
  /\ pc = again
  /\ tmp' = M - 1 - led_run_time
  /\ pc' = b
  /\ UNCHANGED <<led_run_time, led, clock, masked, ticking, dog, start>>

\* jiffies + (~jiffies_bef), modulo 2^32, of a second read or of the first.
Again(again, b) ==
  /\ pc = again
  /\ \E j \in {jiffies, tmp} : tmp' = (j + (M - 1 - led_run_time)) % M
  /\ pc' = b
  /\ UNCHANGED <<led_run_time, led, clock, masked, ticking, dog, start>>

\* led_run_proc
Test(a, limit, yes, no) ==
  /\ pc = a
  /\ pc' = IF tmp >= limit THEN yes ELSE no
  /\ UNCHANGED <<led_run_time, led, clock, masked, ticking, dog, local>>

\* Mutants: the shorter time is tested first; the longer one is Half.
Test1_Swapped == Test("test1", Half, "on", "before2")
Test1_Early == Test("test1", Half, "off", "before2")

Test1 == Test("test1", Full, "off", "before2")
Test2 == Test("test2", Half, "on", "feed")

Set(a, value, next) ==
  /\ pc = a
  /\ led' = value
  /\ pc' = next
  /\ UNCHANGED <<led_run_time, clock, masked, ticking, dog, local>>

Off == Set("off", "off", "restart")
On == Set("on", "on", "feed")

\* led_run_time = jiffies_get()
Restart ==
  /\ pc = "restart"
  /\ led_run_time' = jiffies
  /\ age' = 0
  /\ pc' = "feed"
  /\ UNCHANGED <<led, jiffies, pending, masked, ticking, dog, local>>

Main ==
  \/ Mask
  \/ SysTick_init
  \/ Led_init
  \/ Unmask
  \/ Enable
  \/ Feed
  \/ Before("before1", "again1", "test1")
  \/ Again("again1", "test1")
  \/ Test1
  \/ Off
  \/ Restart
  \/ Before("before2", "again2", "test2")
  \/ Again("again2", "test2")
  \/ Test2
  \/ On

Next == Tick \/ Bite \/ Main

Spec == Init /\ [][Next]_vars

\* The clock does not stop, and neither does the main program.
FairSpec == Spec /\ WF_vars(Tick) /\ WF_vars(Main)

-----------------------------------------------------------------------------
(* Properties. *)

TypeOK ==
  /\ jiffies \in 0 .. M-1 /\ led_run_time \in 0 .. M-1 /\ tmp \in 0 .. M-1
  /\ led \in {"on", "off"}
  /\ masked \in BOOLEAN /\ pending \in BOOLEAN /\ ticking \in BOOLEAN
  /\ dog \in 0 .. Watch
  /\ pc \in PC
  /\ age \in 0 .. M /\ start \in 0 .. M

\* The watchdog keeps the time jiffies_before measures below one turn of the
\* counter: a main loop that is held up so long that jiffies passes
\* led_run_time again has been reset before.
NoAlias == age < M

\* What jiffies_before returns is the time that passed, up to the interrupts
\* during the call, and one jiffy less after the counter has wrapped (~x is
\* -x - 1): it is never more, and never less than that.
ElapsedClose ==
  pc \in {"test1", "test2"} => start - 1 <= tmp /\ tmp <= age

\* The LED goes on after 50 jiffies of a period and off after 100, not before,
\* wherever the counter wraps and the interrupts fall.
LedStep ==
  /\ On => led = "on" \/ age >= Half
  /\ Off => age >= Full
LedTiming == [][LedStep]_vars

\* Unless the watchdog keeps resetting the board, periods keep ending.
KeepsBlinking == []<>(pc = "boot") \/ []<>(pc = "restart")
=============================================================================
