------------------------------- MODULE Timer -------------------------------
(***************************************************************************)
(* The tick counter, sleep_ms and get_uptime_ms (idt.c).  sleep_ms runs    *)
(* with interrupts on: a tick or a key may strike between its test of      *)
(* pit_ticks and hlt, and its hlt ends at either.  A turn of the loop      *)
(* takes far less than the 10 ms between two ticks.                        *)
(***************************************************************************)
EXTENDS Naturals

CONSTANTS
  WORD,            \* 2^32
  MS_PER_TICK,     \* 10
  Sleeps,          \* milliseconds programs ask for
  MAX_COUNT        \* bound: where the ghost counters stop counting

ticks_to_wait(ms) == IF ms \div MS_PER_TICK = 0 THEN 1 ELSE ms \div MS_PER_TICK

ASSUME TimerAssumption ==
  /\ WORD \in Nat \ {0} /\ MS_PER_TICK \in Nat \ {0} /\ MAX_COUNT \in Nat
  /\ Sleeps \subseteq 0 .. WORD - 1
  /\ \A ms \in Sleeps : ticks_to_wait(ms) \in 1 .. MAX_COUNT - 1

VARIABLES
  pit_ticks,
  pc,         \* sleep_ms: "user" (not called), "test", "hlt" (about to), "asleep"
  target,
  late,       \* 1: the loop has had no rest since the last tick
  start, want, slept,    \* ghost: pit_ticks at the call, ticks asked, ticks passed
  elapsed                \* ghost: ticks since boot

timer_vars == <<pit_ticks, pc, target, late, start, want, slept, elapsed>>

TimerInit ==
  /\ pit_ticks = 0 /\ pc = "user" /\ target = 0 /\ late = 0
  /\ start = 0 /\ want = 0 /\ slept = 0 /\ elapsed = 0

CountUp(n) == IF n < MAX_COUNT THEN n + 1 ELSE n

sleep_ms(ms) ==
  /\ pc = "user" /\ pc' = "test"
  /\ target' = (pit_ticks + ticks_to_wait(ms)) % WORD
  /\ start' = pit_ticks /\ want' = ticks_to_wait(ms) /\ slept' = 0 /\ late' = 0
  /\ UNCHANGED <<pit_ticks, elapsed>>

KeepWaiting_UntilEqual == pit_ticks # target
KeepWaiting_TooLong == pit_ticks <= target
KeepWaiting_Borrows == pit_ticks <= (target + WORD - 1) % WORD
KeepWaiting == pit_ticks < target

Test ==
  /\ pc = "test"
  /\ pc' = IF KeepWaiting THEN "hlt" ELSE "user"
  /\ UNCHANGED <<pit_ticks, target, late, start, want, slept, elapsed>>

Hlt ==
  /\ pc = "hlt" /\ pc' = "asleep" /\ late' = 0
  /\ UNCHANGED <<pit_ticks, target, start, want, slept, elapsed>>

EndHlt == pc' = IF pc = "asleep" THEN "test" ELSE pc

NextTick == (pit_ticks + 1) % WORD

(* IRQ0 *)
Tick ==
  /\ pc \in {"test", "hlt"} => late = 0
  /\ pit_ticks' = NextTick
  /\ EndHlt /\ late' = 1
  /\ slept' = IF pc = "user" THEN slept ELSE CountUp(slept)
  /\ elapsed' = CountUp(elapsed)
  /\ UNCHANGED <<target, start, want>>

(* IRQ1 *)
KeyIrq ==
  /\ pc = "asleep" /\ EndHlt
  /\ UNCHANGED <<pit_ticks, target, late, start, want, slept, elapsed>>

get_uptime_ms == (pit_ticks * MS_PER_TICK) % WORD

TimerNext == (\E ms \in Sleeps : sleep_ms(ms)) \/ Test \/ Hlt \/ Tick \/ KeyIrq

TimerSpec == TimerInit /\ [][TimerNext]_timer_vars

(* The CPU executes the loop while it is not halted; the PIT ticks on.     *)
TimerFairSpec == TimerSpec /\ WF_timer_vars(Test \/ Hlt) /\ WF_timer_vars(Tick)
-----------------------------------------------------------------------------
TimerTypeOK ==
  /\ pit_ticks \in 0 .. WORD - 1 /\ target \in 0 .. WORD - 1 /\ start \in 0 .. WORD - 1
  /\ pc \in {"user", "test", "hlt", "asleep"} /\ late \in {0, 1}
  /\ want \in Nat /\ slept \in 0 .. MAX_COUNT /\ elapsed \in 0 .. MAX_COUNT

(* A sleep that does not come near the wrap of pit_ticks takes the ticks   *)
(* asked, or one more when the last tick strikes between the test and hlt; *)
(* keys that end hlt early do not shorten it.                              *)
SleepAccurate ==
  pc = "user" /\ start + want < WORD - 1 => slept \in want .. want + 1

(* Every sleep ends, also when the tick that should end it strikes between *)
(* the test and hlt, unless the target is the very last tick before the    *)
(* wrap: missing that one, the loop starts to wait for the next round.     *)
SleepReturns == pc # "user" /\ target # WORD - 1 ~> pc = "user"

(* A sleep never takes more than a tick too long, also when its target has *)
(* wrapped, or pit_ticks wraps between the call and the first test: such a *)
(* sleep may end early (SleepsAsked, below), but only a target that is the *)
(* very last tick before the wrap makes it wait for another round.         *)
SleepBounded == target # WORD - 1 => slept <= want + 1

(* idt.c, sleep_ms: "Sleep for approximately the given number of           *)
(* milliseconds": within one tick, whatever the time since boot.           *)
SleepsAsked == pc = "user" => slept \in want .. want + 1

(* idt.c, get_uptime_ms: "Get system uptime in milliseconds since boot".   *)
UptimeIsElapsed == elapsed < MAX_COUNT => get_uptime_ms = elapsed * MS_PER_TICK
=============================================================================
