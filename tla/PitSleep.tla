------------------------------ MODULE PitSleep ------------------------------
(***************************************************************************)
(* pit::sleep against the timer interrupt.  kernel_main calls sleep        *)
(* several times; sleep reads the tick counter TIMER under its spin lock   *)
(* and halts between reads; timer_interrupt_handler takes the same lock to *)
(* add one.  The handler runs with interrupts disabled on the only CPU:    *)
(* while it spins on the lock the main thread makes no step.               *)
(*                                                                         *)
(* The counter is a usize that cannot wrap in practice (2^64 ms).  Values  *)
(* above every `end` a behaviour can compute are not told apart by the     *)
(* code's one comparison, so counting stops at TimerMax.                   *)
(***************************************************************************)
EXTENDS Naturals

CONSTANTS
    NumSleeps,      \* calls of sleep in a behaviour (kernel_main makes 10)
    MaxMs,          \* largest duration asked for, in milliseconds
    AwakeTicks      \* timer interrupts that may hit the CPU while it is awake

ASSUME PitAssumption ==
    /\ NumSleeps \in Nat /\ NumSleeps > 0
    /\ MaxMs \in Nat
    /\ AwakeTicks \in Nat

VARIABLES
    timer,          \* the value TIMER guards
    timer_lock,     \* who holds TIMER's lock: "free" or "main"
    handler,        \* timer_interrupt_handler: "none" or "spin"
    place,          \* where the main thread is in sleep
    ms, start, end, \* sleep's argument, its first reading, and its goal
    calls,          \* calls of sleep so far
    awake           \* timer interrupts so far that hit the CPU awake

sleep_vars == <<timer, timer_lock, handler, place, ms, start, end, calls, awake>>

TimerMax == NumSleeps * MaxMs + AwakeTicks + 1

SleepPlaces == {"call", "begin", "begun", "test", "tested", "hlt", "halted"}

MainRuns == handler = "none"

SleepInit ==
    /\ timer = 0
    /\ timer_lock = "free"
    /\ handler = "none"
    /\ place = "call"
    /\ ms = 0 /\ start = 0 /\ end = 0
    /\ calls = 0
    /\ awake = 0

-----------------------------------------------------------------------------

(* sleep(s): nothing to do for less than a millisecond. *)
Sleep(m) ==
    /\ MainRuns /\ place = "call" /\ calls < NumSleeps
    /\ calls' = calls + 1
    /\ ms' = m
    /\ place' = IF m = 0 THEN "call" ELSE "begin"
    /\ UNCHANGED <<timer, timer_lock, handler, start, end, awake>>

(* TIMER.lock() in get_pit_uptime, interrupts enabled. *)
LockTimer ==
    /\ MainRuns /\ timer_lock = "free"
    /\ \/ place = "begin" /\ place' = "begun"
       \/ place = "test" /\ place' = "tested"
    /\ timer_lock' = "main"
    /\ UNCHANGED <<timer, handler, ms, start, end, calls, awake>>

(* Mutant: the milliseconds are converted a second time. *)
ComputeEndConvertedTwice ==
    /\ MainRuns /\ place = "begun"
    /\ start' = timer
    /\ end' = timer + ms * 1000
    /\ timer_lock' = "free"
    /\ place' = "test"
    /\ UNCHANGED <<timer, handler, ms, calls, awake>>

(* Mutant: the current millisecond is counted as slept. *)
ComputeEndOffByOne ==
    /\ MainRuns /\ place = "begun"
    /\ start' = timer
    /\ end' = timer + ms - 1
    /\ timer_lock' = "free"
    /\ place' = "test"
    /\ UNCHANGED <<timer, handler, ms, calls, awake>>

(* let end = get_pit_uptime() + ms *)
ComputeEnd ==
    /\ MainRuns /\ place = "begun"
    /\ start' = timer
    /\ end' = timer + ms
    /\ timer_lock' = "free"
    /\ place' = "test"
    /\ UNCHANGED <<timer, handler, ms, calls, awake>>

(* Mutant: the guard lives until the end of the loop's body. *)
TestHoldingLock ==
    /\ MainRuns /\ place = "tested"
    /\ timer_lock' = IF end # timer THEN timer_lock ELSE "free"
    /\ place' = IF end # timer THEN "hlt" ELSE "call"
    /\ UNCHANGED <<timer, handler, ms, start, end, calls, awake>>

(* while end != get_pit_uptime() *)
Test ==
    /\ MainRuns /\ place = "tested"
    /\ timer_lock' = "free"
    /\ place' = IF end # timer THEN "hlt" ELSE "call"
    /\ UNCHANGED <<timer, handler, ms, start, end, calls, awake>>

Hlt ==
    /\ MainRuns /\ place = "hlt"
    /\ place' = "halted"
    /\ UNCHANGED <<timer, timer_lock, handler, ms, start, end, calls, awake>>

-----------------------------------------------------------------------------

Incremented == IF timer < TimerMax THEN timer + 1 ELSE timer

(* The handler's body once it has the lock; its return ends a hlt. *)
HandlerBody ==
    /\ timer_lock = "free"
    /\ timer' = Incremented
    /\ handler' = "none"
    /\ place' = IF place = "halted" THEN "test" ELSE place

(* A timer interrupt that the CPU is halted for. *)
HaltTick ==
    /\ handler = "none" /\ place = "halted"
    /\ HandlerBody
    /\ UNCHANGED <<timer_lock, ms, start, end, calls, awake>>

(* A timer interrupt between two instructions of the main thread. *)
AwakeTick ==
    /\ handler = "none" /\ place # "halted"
    /\ awake < AwakeTicks
    /\ awake' = awake + 1
    /\ \/ HandlerBody
       \/ timer_lock # "free" /\ handler' = "spin" /\ UNCHANGED <<timer, place>>
    /\ UNCHANGED <<timer_lock, ms, start, end, calls>>

(* spin::Mutex::lock tries for ever. *)
Spin ==
    /\ handler = "spin"
    /\ UNCHANGED sleep_vars

(* Any other interrupt ends a hlt too. *)
OtherWake ==
    /\ MainRuns /\ place = "halted"
    /\ place' = "test"
    /\ UNCHANGED <<timer, timer_lock, handler, ms, start, end, calls, awake>>

(* After its last sleep kernel_main goes on to other work. *)
Finished == place = "call" /\ calls = NumSleeps /\ UNCHANGED sleep_vars

MainStep ==
    (\E m \in 0 .. MaxMs : Sleep(m)) \/ LockTimer \/ ComputeEnd \/ Test \/ Hlt

SleepNext == MainStep \/ HaltTick \/ AwakeTick \/ Spin \/ OtherWake \/ Finished

SleepSpec == SleepInit /\ [][SleepNext]_sleep_vars

(* The CPU runs the main thread unless a handler runs, and the PIT, in     *)
(* square-wave mode, keeps interrupting a CPU that keeps halting.          *)
FairSleepSpec == SleepSpec /\ WF_sleep_vars(MainStep) /\ SF_sleep_vars(HaltTick)

-----------------------------------------------------------------------------

(* The state is well typed; no `end` that sleep computes reaches the cap   *)
(* on the counter.                                                         *)
SleepTypeOK ==
    /\ timer \in 0 .. TimerMax
    /\ timer_lock \in {"free", "main"}
    /\ handler \in {"none", "spin"}
    /\ place \in SleepPlaces
    /\ ms \in 0 .. MaxMs
    /\ start \in 0 .. TimerMax
    /\ end \in 0 .. TimerMax - 1
    /\ calls \in 0 .. NumSleeps
    /\ awake \in 0 .. AwakeTicks

Sleeping == place # "call"

(* sleep never returns early, nor late: when it returns, exactly as many   *)
(* timer interrupts were counted since its first reading of TIMER as it    *)
(* was asked milliseconds, whatever interrupts came while it was awake.    *)
SleepIsExact ==
    [][(place = "tested" /\ place' = "call") => timer = start + ms]_sleep_vars

(* On a CPU that is halted whenever the timer interrupts, every sleep      *)
(* returns, whatever other interrupts end its halts.                       *)
SleepReturnsUndisturbed ==
    [](awake = 0) => (Sleeping ~> ~Sleeping)

(* "Sleeping for {ms} milliseconds (until {end})": every sleep returns,    *)
(* also when the timer interrupts the loop while the CPU is awake.         *)
SleepReturns == Sleeping ~> ~Sleeping
=============================================================================
