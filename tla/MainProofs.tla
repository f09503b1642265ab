----------------------------- MODULE MainProofs -----------------------------
(***************************************************************************)
(* What kernel_main does once init is over.                                *)
(*                                                                         *)
(* The executor's safety properties, for any number of tasks and any queue *)
(* capacity; then those of the keyboard path, which is an instance of the  *)
(* executor, for any queue capacities and any number of key presses.       *)
(*                                                                         *)
(* kernel_main's countdown and shutdown: its steps are steps of the two    *)
(* components it is composed of, so that what holds of each holds of it.   *)
(*                                                                         *)
(* The shutdown's two promises, for every width of the registers, every    *)
(* \_S5 package and every PM1 address: an error return has run _WAK, last, *)
(* and what is written to a sleep register was prepared and fits it.  The  *)
(* invariant follows the lock and the trace along the sequence.            *)
(*                                                                         *)
(* pit::sleep, for every duration and number of calls.  Its inductive      *)
(* invariant says where `end` lies while sleep waits, and bounds the       *)
(* counter by the time slept so far: the second fact is what makes the cap *)
(* TimerMax invisible to the code.                                         *)
(***************************************************************************)
EXTENDS Keyboard, KernelMain, SequenceTheorems, TLAPS

USE ExecutorAssumption DEF ExecutorAssumption

(* Appending to the queue keeps what was in it and adds one id. *)
LEMMA InQueueAppend ==
    ASSUME NEW q \in Seq(TaskIds), NEW t \in TaskIds, NEW u \in TaskIds
    PROVE  InQueue(t, Append(q, u)) <=> InQueue(t, q) \/ t = u
  BY DEF InQueue

(* Popping the head loses only the head. *)
LEMMA InQueueTail ==
    ASSUME NEW q \in Seq(TaskIds), q # <<>>, NEW t \in TaskIds, InQueue(t, q)
    PROVE  t = Head(q) \/ InQueue(t, Tail(q))
  <1>1. PICK i \in 1 .. Len(q) : q[i] = t
    BY DEF InQueue
  <1>2. CASE i = 1
    BY <1>1, <1>2
  <1>3. CASE i # 1
    <2>1. i - 1 \in 1 .. Len(Tail(q)) /\ Tail(q)[i - 1] = t
      BY <1>1, <1>3
    <2>2. QED
      BY <2>1 DEF InQueue
  <1>4. QED
    BY <1>2, <1>3

(* The strengthening that makes the properties inductive: interrupts are   *)
(* off from the check to the halt, a task is current exactly during a      *)
(* poll, and the future being polled that counts on its waker can count on *)
(* it: the waker is in its slot or has queued the task.                    *)
IInv ==
    /\ TypeOK
    /\ pc \in {"check", "hlt"} => interrupts = "off"
    /\ pc \in {"spawn", "run", "idle", "check", "hlt", "halted"} => cur = NoTask
    /\ pc = "registered" => cur \in armed \/ InQueue(cur, task_queue)
    /\ NoSleepWithWork
    /\ NoOrphanTask
    /\ PolledTaskIsLive

(* The executor starts with no task and interrupts enabled. *)
LEMMA InitIInv == Init => IInv
  BY DEF Init, IInv, TypeOK, NoSleepWithWork, NoOrphanTask, PolledTaskIsLive,
         TaskIds, NoTask, Places, InPoll

(* Every step of the run loop, of a poll and of a handler keeps it. *)
LEMMA StepIInv == IInv /\ [Next]_vars => IInv'
  <1> SUFFICES ASSUME IInv, [Next]_vars PROVE IInv'
    OBVIOUS
  <1> USE DEF IInv, TypeOK, NoSleepWithWork, NoOrphanTask, PolledTaskIsLive,
              NoTask, Places, InPoll
  <1>1. CASE Spawn
    <2>1. next_id \in TaskIds
      BY <1>1 DEF Spawn, TaskIds
    <2>2. CASE QueueFull
      BY <1>1, <2>1, <2>2 DEF Spawn, QueueFull, TaskIds
    <2>3. CASE ~QueueFull
      <3>1. /\ task_queue' = Append(task_queue, next_id)
            /\ pc' = pc
            /\ Len(task_queue) < QueueCapacity
        BY <1>1, <2>3 DEF Spawn, QueueFull
      <3>2. task_queue' \in Seq(TaskIds) /\ Len(task_queue') <= QueueCapacity
        BY <2>1, <3>1
      <3>3. TypeOK'
        BY <1>1, <2>1, <3>1, <3>2 DEF Spawn, TaskIds
      <3>4. NoOrphanTask'
        BY <1>1, <2>1, <3>1, InQueueAppend DEF Spawn
      <3>5. QED
        BY <1>1, <3>1, <3>3, <3>4 DEF Spawn
    <2>4. QED
      BY <2>2, <2>3
  <1>2. CASE Run
    BY <1>2 DEF Run, TaskIds
  <1>3. CASE PopTask
    <2>1. /\ Head(task_queue) \in TaskIds
          /\ Tail(task_queue) \in Seq(TaskIds)
          /\ Len(Tail(task_queue)) <= QueueCapacity
      BY <1>3 DEF PopTask
    <2>2. TypeOK'
      BY Zenon, <1>3, <2>1 DEF PopTask, TaskIds
    <2>3. NoOrphanTask'
      BY <1>3, InQueueTail DEF PopTask, TaskIds
    <2>4. QED
      BY <1>3, <2>2, <2>3 DEF PopTask
  <1>4. CASE PopStale
    <2>1. /\ Tail(task_queue) \in Seq(TaskIds)
          /\ Len(Tail(task_queue)) <= QueueCapacity
      BY <1>4 DEF PopStale
    <2>2. TypeOK'
      BY <1>4, <2>1 DEF PopStale, TaskIds
    <2>3. NoOrphanTask'
      BY <1>4, InQueueTail DEF PopStale, TaskIds
    <2>4. QED
      BY <1>4, <2>2, <2>3 DEF PopStale
  <1>5. CASE PopEmpty
    BY <1>5 DEF PopEmpty, TaskIds
  <1>6. CASE Register
    BY <1>6 DEF Register, TaskIds
  <1>7. CASE Withdraw
    BY <1>7 DEF Withdraw, TaskIds
  <1>8. CASE PollReady
    BY <1>8 DEF PollReady, TaskIds
  <1>9. CASE PollPending
    BY <1>9 DEF PollPending, TaskIds
  <1>10. CASE SleepDisable
    BY <1>10 DEF SleepDisable, TaskIds
  <1>11. CASE SleepCheck
    BY <1>11 DEF SleepCheck, TaskIds
  <1>12. CASE EnableAndHlt
    BY <1>12 DEF EnableAndHlt, TaskIds
  <1>13. CASE \E t \in TaskIds : Wake(t)
    <2> PICK t \in TaskIds : Wake(t)
      BY <1>13
    <2>1. CASE QueueFull
      BY <2>1 DEF Wake, QueueFull, HandlerMayRun, TaskIds
    <2>2. CASE ~QueueFull
      <3>1. task_queue' = Append(task_queue, t) /\ armed' = armed \ {t}
        BY <2>2 DEF Wake
      <3>2. TypeOK'
        BY <2>2, <3>1 DEF Wake, QueueFull, Resumed, HandlerMayRun, TaskIds
      <3>3. NoOrphanTask'
        BY <3>1, InQueueAppend DEF Wake, HandlerMayRun
      <3>4. pc' \notin {"check", "hlt", "halted"}
        BY DEF Wake, HandlerMayRun, Resumed
      <3>5. (pc = "registered" => cur \in armed \/ InQueue(cur, task_queue))'
        BY <2>2, <3>1, InQueueAppend DEF Wake, HandlerMayRun, Resumed, TaskIds
      <3>6. QED
        BY <2>2, <3>2, <3>3, <3>4, <3>5 DEF Wake, Resumed, HandlerMayRun
    <2>3. QED
      BY <2>1, <2>2
  <1>14. CASE OtherInterrupt
    BY <1>14 DEF OtherInterrupt, WakesNobody, Resumed, HandlerMayRun, TaskIds
  <1>15. CASE UNCHANGED vars
    BY <1>15 DEF vars, TaskIds
  <1>16. QED
    BY Zenon, <1>1, <1>2, <1>3, <1>4, <1>5, <1>6, <1>7, <1>8, <1>9, <1>10, <1>11,
       <1>12, <1>13, <1>14, <1>15
       DEF Next, RunLoop, PollReturns, HltLoop

(* The inductive invariant holds of every behaviour of the executor. *)
THEOREM Inductive == Spec => []IInv
  BY InitIInv, StepIInv, PTL DEF Spec

(* The executor's state stays well typed; in particular the task queue     *)
(* never holds more than its capacity.                                     *)
THEOREM TypeCorrect == Spec => []TypeOK
  <1>1. IInv => TypeOK
    BY DEF IInv
  <1>2. QED
    BY <1>1, Inductive, PTL

(* sleep_if_idle never halts the CPU while a task is queued. *)
THEOREM NeverSleepsWithWork == Spec => []NoSleepWithWork
  <1>1. IInv => NoSleepWithWork
    BY DEF IInv
  <1>2. QED
    BY <1>1, Inductive, PTL

(* No task is forgotten: the executor and the handlers lose no wake-up. *)
THEOREM NoTaskIsOrphaned == Spec => []NoOrphanTask
  <1>1. IInv => NoOrphanTask
    BY DEF IInv
  <1>2. QED
    BY <1>1, Inductive, PTL

(* run_ready_tasks polls live tasks only, whatever stale wakes are queued. *)
THEOREM PollsLiveTasks == Spec => []PolledTaskIsLive
  <1>1. IInv => PolledTaskIsLive
    BY DEF IInv
  <1>2. QED
    BY <1>1, Inductive, PTL

-----------------------------------------------------------------------------

USE KeyboardAssumption DEF KeyboardAssumption

(* What print_keypresses' position says about the rest: it is only polled, *)
(* and only holds a scancode or relies on WAKER, where the code says so;   *)
(* and its id is in the executor once SCANCODE_QUEUE exists.               *)
Position ==
    /\ kpc \notin {"start", "fast"} => pc = "panic" \/ InPoll
    /\ kpc \in {"second", "take"} => pc \in {"registered", "panic"}
    /\ kpc \in {"take", "handle"} <=> hand # <<>>
    /\ kpc = "start" => scancodes = <<>>
    /\ kpc # "start" => PrintKeypresses \in tasks
    /\ pc = "spawn" => armed = {} /\ (next_id = 0 => task_queue = <<>>)

KIInv ==
    /\ IInv
    /\ KTypeOK
    /\ Position
    /\ NoLostWakeup
    /\ WakeNeverFrees

(* A step of the keyboard path is a step of the executor, or changes       *)
(* nothing of it.                                                          *)
LEMMA StepIsExecutorStep == TypeOK /\ [KNext]_allvars => [Next]_vars
  <1> SUFFICES ASSUME TypeOK, [KNext]_allvars PROVE [Next]_vars
    OBVIOUS
  <1>1. CASE KernelMain
    BY <1>1 DEF KernelMain, Next
  <1>2. CASE ExecutorStep
    BY <1>2 DEF ExecutorStep, Next
  <1>3. CASE PollStep
    BY <1>3 DEF PollStep, StreamNew, FastPop, RegisterWaker, SecondPopSome,
                SecondPopNone, TakeWaker, HandleScancode, Next, PollReturns
  <1>4. CASE KeyboardInterrupt
    <2>1. PrintKeypresses \in TaskIds
      BY DEF PrintKeypresses, TaskIds
    <2>2. WakeIfArmed \/ WakesNobody
      BY <1>4 DEF KeyboardInterrupt, add_scancode
    <2>3. WakesNobody => [Next]_vars
      BY <1>4 DEF KeyboardInterrupt, add_scancode, WakesNobody, Resumed, OtherInterrupt,
                  Next, vars
    <2>4. QED
      BY <2>1, <2>2, <2>3 DEF WakeIfArmed, Next
  <1>5. CASE UNCHANGED allvars
    BY <1>5 DEF allvars, vars
  <1>6. QED
    BY <1>1, <1>2, <1>3, <1>4, <1>5 DEF KNext

(* Every behaviour of the keyboard path is one of the executor, so the     *)
(* executor's theorems hold of it.                                         *)
THEOREM KeyboardRunsExecutor == KSpec => Spec
  <1>1. KInit => Init
    BY DEF KInit
  <1>2. TypeOK /\ [KNext]_allvars => [Next]_vars
    BY StepIsExecutorStep
  <1>3. IInv /\ [Next]_vars => IInv'
    BY StepIInv
  <1>4. Init => IInv
    BY InitIInv
  <1>5. IInv => TypeOK
    BY DEF IInv
  <1>6. QED
    BY <1>1, <1>2, <1>3, <1>4, <1>5, PTL DEF KSpec, Spec

(* kernel_main starts with no key pressed and no task spawned. *)
LEMMA KInitKIInv == KInit => KIInv
  <1> SUFFICES ASSUME KInit PROVE KIInv
    OBVIOUS
  <1>1. IInv
    BY InitIInv DEF KInit
  <1>2. KTypeOK
    BY <1>1 DEF KInit, KTypeOK, IInv, Steps
  <1>3. Position /\ NoLostWakeup /\ WakeNeverFrees
    BY DEF KInit, Init, Position, NoLostWakeup, WakeNeverFrees
  <1>4. QED
    BY <1>1, <1>2, <1>3 DEF KIInv

(* Steps of the executor outside the poll, and of kernel_main. *)
LEMMA ExecutorKeepsKIInv ==
    ASSUME KIInv, KernelMain \/ ExecutorStep
    PROVE  Position' /\ NoLostWakeup' /\ WakeNeverFrees'
  <1> USE DEF KIInv, IInv, TypeOK, Position, NoLostWakeup, WakeNeverFrees,
              InPoll
  <1>1. PrintKeypresses \in TaskIds /\ TaskIds = {PrintKeypresses}
    BY DEF PrintKeypresses, TaskIds
  <1>2. UNCHANGED <<pressed, scancodes, hand, handled, kpc>>
    BY DEF KernelMain, ExecutorStep, kvars
  <1>3. CASE Spawn
    <2>1. next_id \in TaskIds
      BY <1>3 DEF Spawn, TaskIds
    <2>2. InQueue(PrintKeypresses, task_queue) /\ pc' # "panic"
             => InQueue(PrintKeypresses, task_queue')
      <3>1. pc' # "panic" => task_queue' = Append(task_queue, next_id)
        BY <1>3 DEF Spawn
      <3>2. InQueue(PrintKeypresses, task_queue)
               => InQueue(PrintKeypresses, Append(task_queue, next_id))
        BY <1>1, <2>1, InQueueAppend
      <3>3. QED
        BY Zenon, <3>1, <3>2
    <2>3. QED
      BY <1>1, <1>2, <1>3, <2>2 DEF Spawn
  <1>4. CASE Run
    BY <1>2, <1>4 DEF Run
  <1>5. CASE PopTask
    <2>1. Head(task_queue) = PrintKeypresses
      BY <1>1, <1>5 DEF PopTask
    <2>2. QED
      BY <1>2, <1>5, <2>1 DEF PopTask
  <1>6. CASE PopStale
    <2>1. Head(task_queue) = PrintKeypresses
      BY <1>1, <1>6 DEF PopStale
    <2>2. kpc = "start"
      BY <1>6, <2>1 DEF PopStale
    <2>3. QED
      BY <1>2, <1>6, <2>2 DEF PopStale
  <1>7. CASE PopEmpty
    BY <1>2, <1>7 DEF PopEmpty
  <1>8. CASE SleepDisable
    BY <1>2, <1>8 DEF SleepDisable
  <1>9. CASE SleepCheck
    BY <1>2, <1>9 DEF SleepCheck
  <1>10. CASE EnableAndHlt
    BY <1>2, <1>10 DEF EnableAndHlt
  <1>11. CASE OtherInterrupt
    BY <1>2, <1>11 DEF OtherInterrupt, WakesNobody, Resumed
  <1>12. CASE HltLoop
    BY <1>2, <1>12 DEF HltLoop, vars
  <1>13. QED
    BY <1>3, <1>4, <1>5, <1>6, <1>7, <1>8, <1>9, <1>10, <1>11, <1>12
       DEF KernelMain, ExecutorStep, RunLoop

(* Steps of poll_next and of print_keypresses' loop.  The task is current, *)
(* so only SecondPopNone has a wake-up to lose: it found the queue empty.  *)
LEMMA PollKeepsKIInv ==
    ASSUME KIInv, PollStep
    PROVE  Position' /\ NoLostWakeup' /\ WakeNeverFrees'
  <1> USE DEF KIInv, IInv, TypeOK, KTypeOK, Position, NoLostWakeup,
              WakeNeverFrees, InPoll, Polling
  <1>1. CASE StreamNew
    BY <1>1 DEF StreamNew, vars, PolledTaskIsLive
  <1>2. CASE FastPop
    <2>1. CASE scancodes = <<>>
      BY <1>2, <2>1 DEF FastPop, vars
    <2>2. CASE scancodes # <<>>
      <3>1. hand' # <<>> /\ kpc' = "handle"
        <4>1. hand' = <<Head(scancodes)>> /\ kpc' = "handle"
          BY <1>2, <2>2 DEF FastPop
        <4>2. QED
          BY ONLY <4>1
      <3>2. /\ kpc = "fast" /\ InPoll /\ cur = PrintKeypresses
            /\ UNCHANGED <<pc, cur, tasks, armed, waker_cache>>
        BY <1>2 DEF FastPop, vars
      <3>3. Position' /\ WakeNeverFrees'
        BY <3>1, <3>2
      <3>4. NoLostWakeup'
        BY <3>2
      <3>5. QED
        BY <3>3, <3>4
    <2>3. QED
      BY <2>1, <2>2
  <1>3. CASE RegisterWaker
    BY <1>3 DEF RegisterWaker, Register, PolledTaskIsLive
  <1>4. CASE SecondPopSome
    BY <1>4 DEF SecondPopSome, vars
  <1>5. CASE SecondPopNone
    BY <1>5 DEF SecondPopNone, PollPending
  <1>6. CASE TakeWaker
    BY <1>6 DEF TakeWaker, Withdraw
  <1>7. CASE HandleScancode
    BY <1>7 DEF HandleScancode, vars
  <1>8. QED
    BY <1>1, <1>2, <1>3, <1>4, <1>5, <1>6, <1>7 DEF PollStep

(* A keyboard interrupt that queues a scancode finds the task queued       *)
(* already, or being polled, or its waker armed (NoOrphanTask).            *)
LEMMA InterruptKeepsKIInv ==
    ASSUME KIInv, KeyboardInterrupt
    PROVE  Position' /\ NoLostWakeup' /\ WakeNeverFrees'
  <1> USE DEF KIInv, IInv, TypeOK, Position, NoLostWakeup, WakeNeverFrees,
              InPoll, initialized
  <1>1. PrintKeypresses \in TaskIds
    BY DEF PrintKeypresses, TaskIds
  <1>2. CASE WakesNobody /\ UNCHANGED scancodes
    BY <1>2 DEF KeyboardInterrupt, add_scancode, WakesNobody, Resumed, HandlerMayRun
  <1>3. CASE /\ initialized
             /\ PrintKeypresses \notin armed
             /\ WakesNobody
    <2>1. InQueue(PrintKeypresses, task_queue) \/ cur = PrintKeypresses
      BY <1>3 DEF KeyboardInterrupt, add_scancode, HandlerMayRun, NoOrphanTask
    <2>2. QED
      BY <1>3, <2>1 DEF KeyboardInterrupt, add_scancode, WakesNobody, Resumed, HandlerMayRun
  <1>4. CASE initialized /\ Wake(PrintKeypresses)
    <2>1. CASE QueueFull
      BY <1>4, <2>1 DEF KeyboardInterrupt, add_scancode, Wake
    <2>2. CASE ~QueueFull
      <3>1. task_queue' = Append(task_queue, PrintKeypresses)
        BY <1>4, <2>2 DEF Wake
      <3>2. InQueue(PrintKeypresses, task_queue')
        BY <1>1, <3>1, InQueueAppend
      <3>3. QED
        BY <1>4, <2>2, <3>2 DEF KeyboardInterrupt, add_scancode, Wake, Resumed, HandlerMayRun
    <2>3. QED
      BY <2>1, <2>2
  <1>5. QED
    BY <1>2, <1>3, <1>4 DEF KeyboardInterrupt, add_scancode, WakeIfArmed

(* Every step of the keyboard path keeps its types and capacities. *)
LEMMA KTypeStep == ASSUME KIInv, [KNext]_allvars, TypeOK' PROVE KTypeOK'
  <1> USE DEF KIInv, KTypeOK, Steps
  <1>1. CASE KernelMain \/ ExecutorStep
    BY <1>1 DEF KernelMain, ExecutorStep, kvars
  <1>2. CASE StreamNew
    BY <1>2 DEF StreamNew
  <1>3. CASE FastPop
    <2>1. CASE scancodes = <<>>
      BY <1>3, <2>1 DEF FastPop
    <2>2. CASE scancodes # <<>>
      <3>1. /\ Head(scancodes) \in 1 .. MaxPresses
            /\ Tail(scancodes) \in Seq(1 .. MaxPresses)
            /\ Len(Tail(scancodes)) <= ScancodeCapacity
        BY <2>2
      <3>2. /\ hand' = <<Head(scancodes)>> /\ scancodes' = Tail(scancodes)
            /\ kpc' = "handle" /\ UNCHANGED <<pressed, handled>>
        BY <1>3, <2>2 DEF FastPop
      <3>3. hand' \in Seq(1 .. MaxPresses) /\ Len(hand') <= 1
        BY <3>1, <3>2
      <3>4. QED
        BY <3>1, <3>2, <3>3
    <2>3. QED
      BY <2>1, <2>2
  <1>4. CASE RegisterWaker
    BY <1>4 DEF RegisterWaker
  <1>5. CASE SecondPopSome
    BY <1>5 DEF SecondPopSome
  <1>6. CASE SecondPopNone
    BY <1>6 DEF SecondPopNone
  <1>7. CASE TakeWaker
    BY <1>7 DEF TakeWaker
  <1>8. CASE HandleScancode
    BY <1>8 DEF HandleScancode
  <1>9. CASE KeyboardInterrupt
    <2>1. pressed' \in 1 .. MaxPresses
      BY <1>9 DEF KeyboardInterrupt, add_scancode
    <2>2. CASE UNCHANGED scancodes
      BY <1>9, <2>1, <2>2 DEF KeyboardInterrupt, add_scancode
    <2>3. CASE /\ scancodes' = Append(scancodes, pressed')
               /\ Len(scancodes) < ScancodeCapacity
      <3>1. /\ scancodes' \in Seq(1 .. MaxPresses)
            /\ Len(scancodes') <= ScancodeCapacity
        BY <2>1, <2>3
      <3>2. QED
        BY <1>9, <2>1, <3>1 DEF KeyboardInterrupt, add_scancode
    <2>4. QED
      BY <1>9, <2>2, <2>3 DEF KeyboardInterrupt, add_scancode
  <1>10. CASE UNCHANGED allvars
    BY <1>10 DEF allvars, kvars
  <1>11. QED
    BY <1>1, <1>2, <1>3, <1>4, <1>5, <1>6, <1>7, <1>8, <1>9, <1>10
       DEF KNext, PollStep

(* Every step of the keyboard path keeps the inductive invariant. *)
LEMMA KStepKIInv == KIInv /\ [KNext]_allvars => KIInv'
  <1> SUFFICES ASSUME KIInv, [KNext]_allvars PROVE KIInv'
    OBVIOUS
  <1>1. IInv'
    BY StepIsExecutorStep, StepIInv DEF KIInv, IInv
  <1>2. KTypeOK'
    BY <1>1, KTypeStep DEF IInv
  <1>3. Position' /\ NoLostWakeup' /\ WakeNeverFrees'
    <2>1. CASE UNCHANGED allvars
      BY <2>1 DEF KIInv, allvars, vars, kvars, Position, NoLostWakeup,
                  WakeNeverFrees, InPoll
    <2>2. QED
      BY <2>1, ExecutorKeepsKIInv, PollKeepsKIInv, InterruptKeepsKIInv
         DEF KNext
  <1>4. QED
    BY <1>1, <1>2, <1>3 DEF KIInv

(* The inductive invariant holds of every behaviour of the keyboard path:  *)
(* handler, poll_next, print_keypresses and run loop.                      *)
THEOREM KInductive == KSpec => []KIInv
  BY KInitKIInv, KStepKIInv, PTL DEF KSpec

(* The keyboard path's state stays well typed; neither queue exceeds its   *)
(* capacity.                                                               *)
THEOREM KTypeCorrect == KSpec => []KTypeOK
  <1>1. KIInv => KTypeOK
    BY DEF KIInv
  <1>2. QED
    BY <1>1, KInductive, PTL

(* A scancode waiting in SCANCODE_QUEUE always has print_keypresses queued *)
(* or running: poll_next's register-then-pop again loses no wake-up.       *)
THEOREM KeyboardLosesNoWakeup == KSpec => []NoLostWakeup
  <1>1. KIInv => NoLostWakeup
    BY DEF KIInv
  <1>2. QED
    BY <1>1, KInductive, PTL

(* The keyboard handler never drops the last reference to a waker. *)
THEOREM HandlerNeverFrees == KSpec => []WakeNeverFrees
  <1>1. KIInv => WakeNeverFrees
    BY DEF KIInv
  <1>2. QED
    BY <1>1, KInductive, PTL

-----------------------------------------------------------------------------
(* The refinement of ScancodeChannel.                                      *)

(* The path starts as a closed, empty channel. *)
LEMMA InitRefines == KInit => Channel!ChanInit
  BY DEF KInit, Init, Channel!ChanInit, initialized

(* Steps that leave the presses, the scancodes and the state of the kernel *)
(* alone are invisible to the channel.                                     *)
LEMMA Invisible ==
    ASSUME UNCHANGED <<pressed, handled, scancodes, hand>>,
           initialized' = initialized, (pc = "panic")' = (pc = "panic")
    PROVE  UNCHANGED Channel!chan
  BY DEF Channel!chan

(* Moving the head of the queue into the hand leaves what is pending. *)
LEMMA PopKeepsPending ==
    ASSUME KIInv, hand = <<>>, scancodes # <<>>,
           hand' = <<Head(scancodes)>>, scancodes' = Tail(scancodes)
    PROVE  (hand \o scancodes)' = hand \o scancodes
  BY DEF KIInv, KTypeOK

(* A non-empty sequence of at most one element. *)
LEMMA AtMostOne ==
    ASSUME NEW S, NEW h \in Seq(S), h # <<>>, Len(h) <= 1
    PROVE  \E n \in S : h = <<n>>
  <1>1. Len(h) = 1
    <2>1. Len(h) >= 1
      OBVIOUS
    <2>2. QED
      BY <2>1
  <1>2. h[1] \in S
    BY <1>1
  <1>3. <<h[1]>> \in Seq(S) /\ Len(<<h[1]>>) = 1
    BY <1>2
  <1>4. h = <<h[1]>>
    BY <1>1, <1>3, SeqEqual
  <1>5. QED
    BY <1>2, <1>4

(* Handling the scancode in hand takes the head of what is pending. *)
LEMMA HandIsHead ==
    ASSUME NEW S, NEW n \in S, NEW q \in Seq(S), NEW h \in Seq(S)
    PROVE  /\ <<n>> \o q # <<>>
           /\ Head(<<n>> \o q) = n
           /\ Tail(<<n>> \o q) = q
           /\ h \o <<n>> = Append(h, n)
           /\ <<>> \o q = q
  <1>1. <<n>> \in Seq(S) /\ Len(<<n>> \o q) = 1 + Len(q)
    OBVIOUS
  <1>2. Head(<<n>> \o q) = n /\ <<n>> \o q # <<>>
    BY <1>1
  <1>3. Tail(<<n>> \o q) = q
    BY <1>1
  <1>4. h \o <<n>> = Append(h, n) /\ <<>> \o q = q
    OBVIOUS
  <1>5. QED
    BY <1>2, <1>3, <1>4

(* A scancode pushed behind those waiting is behind the one in hand too. *)
LEMMA PushKeepsPending ==
    ASSUME NEW S, NEW h \in Seq(S), NEW q \in Seq(S), NEW n \in S
    PROVE  h \o Append(q, n) = Append(h \o q, n)
  OBVIOUS

(* Every step of the path is a step of the channel or invisible to it. *)
LEMMA StepRefines ==
    ASSUME KIInv, [KNext]_allvars
    PROVE  [Channel!ChanNext]_(Channel!chan)
  <1> USE DEF KIInv, KTypeOK
  <1>1. CASE KernelMain \/ ExecutorStep
    <2>1. UNCHANGED <<pressed, handled, scancodes, hand, kpc>>
      BY <1>1 DEF KernelMain, ExecutorStep, kvars
    <2>2. (pc = "panic")' = (pc = "panic")
      <3>1. CASE Spawn
        <4>1. ~QueueFull
          <5>1. next_id = 0 /\ pc = "spawn"
            BY <3>1 DEF Spawn, IInv, TypeOK
          <5>2. task_queue = <<>>
            BY <5>1 DEF Position
          <5>3. Len(task_queue) = 0 /\ QueueCapacity > 0
            BY <5>2
          <5>4. QED
            BY <5>3 DEF QueueFull
        <4>2. QED
          BY <3>1, <4>1 DEF Spawn
      <3>2. CASE Run
        BY <3>2 DEF Run
      <3>3. CASE RunLoop
        BY <3>3 DEF RunLoop, PopTask, PopStale, PopEmpty, SleepDisable,
                    SleepCheck, EnableAndHlt
      <3>4. CASE OtherInterrupt
        BY <3>4 DEF OtherInterrupt, WakesNobody, Resumed
      <3>5. CASE HltLoop
        BY <3>5 DEF HltLoop, vars
      <3>6. QED
        BY <1>1, <3>1, <3>2, <3>3, <3>4, <3>5 DEF KernelMain, ExecutorStep
    <2>3. QED
      BY <2>1, <2>2, Invisible DEF initialized
  <1>2. CASE StreamNew
    BY <1>2 DEF StreamNew, vars, Channel!Open, Channel!ChanNext, initialized,
                Polling, InPoll
  <1>3. CASE FastPop
    <2>1. hand = <<>>
      BY <1>3 DEF FastPop, Position
    <2>2. (hand \o scancodes)' = hand \o scancodes
      BY <1>3, <2>1, PopKeepsPending DEF FastPop
    <2>3. QED
      BY <1>3, <2>2 DEF FastPop, vars, Channel!chan, initialized
  <1>4. CASE SecondPopSome
    <2>1. hand = <<>>
      BY <1>4 DEF SecondPopSome, Position
    <2>2. (hand \o scancodes)' = hand \o scancodes
      BY <1>4, <2>1, PopKeepsPending DEF SecondPopSome
    <2>3. QED
      BY Zenon, <1>4, <2>2 DEF SecondPopSome, vars, Channel!chan, initialized
  <1>5. CASE RegisterWaker \/ SecondPopNone \/ TakeWaker
    BY <1>5, Invisible
       DEF RegisterWaker, Register, SecondPopNone, PollPending, TakeWaker,
           Withdraw, InPoll, initialized
  <1>6. CASE HandleScancode
    <2>1. hand # <<>> /\ UNCHANGED <<pressed, scancodes>>
      BY <1>6 DEF HandleScancode, Position
    <2>2. PICK n \in 1 .. MaxPresses : hand = <<n>>
      BY <2>1, AtMostOne
    <2>3. /\ hand \o scancodes # <<>>
          /\ Head(hand \o scancodes) = n
          /\ Tail(hand \o scancodes) = scancodes
          /\ handled \o hand = Append(handled, n)
          /\ <<>> \o scancodes = scancodes
      BY ONLY <2>2, HandIsHead, scancodes \in Seq(1 .. MaxPresses),
              handled \in Seq(1 .. MaxPresses)
    <2>4. Channel!Deliver
      BY <1>6, <2>1, <2>3
         DEF HandleScancode, vars, Channel!Deliver, initialized, Polling, InPoll
    <2>5. QED
      BY <2>4 DEF Channel!ChanNext
  <1>7. CASE KeyboardInterrupt
    <2>1. CASE /\ initialized
               /\ scancodes' = Append(scancodes, pressed')
               /\ UNCHANGED hand
      <3>0. pressed' \in 1 .. MaxPresses
        BY <1>7 DEF KeyboardInterrupt
      <3>1. (hand \o scancodes)' = Append(hand \o scancodes, pressed')
        BY ONLY <2>1, <3>0, PushKeepsPending, hand \in Seq(1 .. MaxPresses),
                scancodes \in Seq(1 .. MaxPresses)
      <3>2. Channel!Accept
        BY <1>7, <2>1, <3>1
           DEF KeyboardInterrupt, add_scancode, HandlerMayRun, Channel!Accept, initialized
      <3>3. QED
        BY <3>2 DEF Channel!ChanNext
    <2>2. CASE /\ ~initialized \/ Len(scancodes) >= ScancodeCapacity
               /\ WakesNobody
               /\ UNCHANGED scancodes
      <3>1. Len(hand \o scancodes) >= Len(scancodes)
        OBVIOUS
      <3>2. (pc = "panic")' = (pc = "panic")
        BY <2>2 DEF WakesNobody, Resumed
      <3>3. Channel!Drop
        BY <1>7, <2>2, <3>1, <3>2
           DEF KeyboardInterrupt, add_scancode, HandlerMayRun, Channel!Drop, initialized
      <3>4. QED
        BY <3>3 DEF Channel!ChanNext
    <2>3. QED
      BY <1>7, <2>1, <2>2 DEF KeyboardInterrupt, add_scancode
  <1>8. CASE UNCHANGED allvars
    BY <1>8 DEF allvars, vars, kvars, Channel!chan, initialized
  <1>9. QED
    BY <1>1, <1>2, <1>3, <1>4, <1>5, <1>6, <1>7, <1>8 DEF KNext, PollStep

(* The keyboard path implements the bounded FIFO channel: presses are      *)
(* delivered in order, none twice, none lost once SCANCODE_QUEUE took it.  *)
THEOREM KeyboardImplementsChannel == KSpec => ImplementsChannel
  <1>1. KIInv /\ [KNext]_allvars => [Channel!ChanNext]_(Channel!chan)
    BY StepRefines
  <1>2. QED
    BY <1>1, InitRefines, KInductive, PTL
       DEF ImplementsChannel, Channel!ChanSpec, KSpec

-----------------------------------------------------------------------------

(* A step of kernel_main's is a step of pit::sleep and one of the          *)
(* shutdown, of which at least one leaves its component as it was.         *)
LEMMA StepsOfBoth ==
    [KernelNext]_kernel_vars => [SleepNext]_sleep_vars /\ [PowerNext]_power_vars
<1>. SUFFICES ASSUME KernelNext \/ UNCHANGED kernel_vars
              PROVE  [SleepNext]_sleep_vars /\ [PowerNext]_power_vars
  OBVIOUS
<1>1. CASE Initialize  BY <1>1 DEF Initialize, PowerNext
<1>2. CASE CountDown  BY <1>2 DEF CountDown, SleepNext
<1>3. CASE PowerDown  BY <1>3 DEF PowerDown, PowerNext
<1>4. CASE HaltInterrupt \/ Interrupt
  BY <1>4 DEF HaltInterrupt, Interrupt, InterruptsOn, SleepNext
<1>5. CASE Platform \/ MainEnded  BY <1>5 DEF Platform, MainEnded, PowerNext
<1>6. CASE UNCHANGED kernel_vars  BY <1>6 DEF kernel_vars
<1>. QED  BY <1>1, <1>2, <1>3, <1>4, <1>5, <1>6 DEF KernelNext

(* kernel_main counts down as PitSleep says and powers off as Shutdown     *)
(* says, with interrupts in both.                                          *)
THEOREM KernelRunsBoth == KernelSpec => SleepSpec /\ PowerSpec
<1>1. KernelInit => SleepInit /\ PowerInit  BY DEF KernelInit
<1>. QED  BY <1>1, StepsOfBoth, PTL DEF KernelSpec, SleepSpec, PowerSpec

-----------------------------------------------------------------------------

(* Powering off. *)

(* ORing SLP_EN into a word gives a word that has it set. *)
LEMMA SlpEnFits ==
    ASSUME NEW v \in Nat, v <= WordMax
    PROVE  with_slp_en(v) \in SlpEn .. WordMax
<1>. USE ShutdownAssumption DEF ShutdownAssumption
<1>. DEFINE q == v \div SlpEn
            r == v % SlpEn
            W == WordMax + 1
            S == 2 * SlpEn
<1>1. /\ q \in Nat /\ r \in Nat /\ r < SlpEn /\ v = SlpEn * q + r
      /\ S \in Nat /\ S > 0 /\ W \in Nat
  OBVIOUS
<1>. HIDE DEF r
<1>2. CASE q % 2 = 1
  <2>1. q >= 1  BY <1>1, <1>2
  <2>2. SlpEn * q >= SlpEn  BY <1>1, <2>1
  <2>3. v >= SlpEn  BY <1>1, <2>2
  <2>. QED  BY <1>2, <2>3 DEF with_slp_en
<1>3. CASE q % 2 # 1
  <2>1. PICK t \in Nat : q = 2 * t
    <3>1. q = 2 * (q \div 2) + (q % 2) /\ q \div 2 \in Nat /\ q % 2 \in 0 .. 1  BY <1>1
    <3>. QED  BY <1>3, <3>1
  <2>2. PICK m \in Nat : W = S * m
    <3>1. W = S * (W \div S) + (W % S) /\ W \div S \in Nat /\ W % S = 0  BY <1>1
    <3>. QED  BY <3>1
  <2>. HIDE DEF q
  <2>3. v = S * t + r  BY <1>1, <2>1
  <2>4. t + 1 <= m
    <3>1. SUFFICES ASSUME m <= t PROVE FALSE  OBVIOUS
    <3>2. S * m <= S * t  BY <1>1, <3>1
    <3>. QED  BY <1>1, <2>2, <2>3, <3>2
  <2>5. S * (t + 1) <= S * m /\ S * (t + 1) = S * t + S  BY <1>1, <2>4
  <2>6. v + SlpEn <= WordMax  BY <1>1, <2>2, <2>3, <2>5
  <2>. QED  BY <1>3, <2>6 DEF with_slp_en, q
<1>. QED  BY <1>2, <1>3

-----------------------------------------------------------------------------

Prepared == [event : {"_PTS"}, answer : {"ran", "missing"}]

Refused == [event : {"_PTS"}, answer : {"inner_missing", "failed"}]

Writes == [event : {"write"}, port : 0 .. WordMax, value : SlpEn .. WordMax]

Wakes == [event : {"_WAK"}]

(* What the platform may get to see. *)
Events == Prepared \cup Refused \cup Writes \cup Wakes

Stages ==
    {"boot", "running", "before", "sleep", "pm1a", "pm1b", "slept",
     "recover", "off", "returned", "panic"}

(* The lock is free whenever a step returns its error; only the recovery   *)
(* runs _WAK; from a _PTS that was accepted on, it stays the first; and    *)
(* after it comes one write for each value of the package that was used.   *)
SInv ==
    /\ aml \in {"none", "some"} /\ fadt \in {"none", "some"}
    /\ acpi_lock \in {"free", "held"} /\ error \in {"yes", "no"}
    /\ s5 \in Packages /\ stage \in Stages
    /\ trace \in Seq(Events)
    /\ stage = "boot" => aml = "none"
    /\ stage \in {"boot", "running", "before"} => trace = <<>>
    /\ stage \in {"pm1a", "pm1b", "slept"} => aml = "some"
    /\ (stage \in {"sleep", "pm1a", "pm1b", "slept"} /\ aml = "some") =>
            trace # <<>> /\ trace[1] \in Prepared
    /\ \A k \in 1 .. Len(trace) : trace[k] \in Writes => trace[1] \in Prepared
    /\ stage = "recover" => acpi_lock = "free"
    /\ error = "yes" => stage \in {"recover", "panic", "off"}
    /\ stage # "panic" => \A k \in 1 .. Len(trace) : trace[k] \notin Wakes
    /\ (stage \in {"sleep", "pm1a"} /\ aml = "some") => Len(trace) = 1
    /\ stage = "pm1b" => Len(trace) = 2 /\ 1 \in DOMAIN s5
    /\ (stage = "panic" /\ aml = "some") =>
            \/ error = "no" /\ PackageTooShort
            \/ /\ trace # <<>> /\ trace[Len(trace)] \in Wakes
               /\ \A k \in 1 .. Len(trace) : trace[k] \in Wakes => k = Len(trace)

(* The kinds of events are told apart by their names. *)
LEMMA EventKinds ==
    ASSUME NEW e \in Events
    PROVE  /\ e.event = "write" <=> e \in Writes
           /\ e.event = "_WAK" <=> e \in Wakes
           /\ e \in Prepared => e \notin Writes /\ e \notin Wakes
           /\ e \in Refused => e \notin Writes /\ e \notin Wakes
           /\ e \in Writes => e \notin Wakes
<1>1. \A x \in Prepared \cup Refused : x.event = "_PTS"  BY DEF Prepared, Refused
<1>2. \A x \in Writes : x.event = "write"  BY DEF Writes
<1>3. \A x \in Wakes : x.event = "_WAK"  BY DEF Wakes
<1>4. "_PTS" # "write" /\ "_PTS" # "_WAK" /\ "write" # "_WAK"  OBVIOUS
<1>. QED  BY <1>1, <1>2, <1>3, <1>4 DEF Events

(* What appending an event does to the trace. *)
LEMMA AppendFacts ==
    ASSUME NEW S, NEW s \in Seq(S), NEW e \in S
    PROVE  /\ Append(s, e) \in Seq(S) /\ Append(s, e) # <<>>
           /\ Len(s) \in Nat /\ Len(Append(s, e)) = Len(s) + 1
           /\ Append(s, e)[Len(s) + 1] = e
           /\ \A k \in 1 .. Len(s) : Append(s, e)[k] = s[k]
           /\ s # <<>> => Append(s, e)[1] = s[1]
           /\ s = <<>> => Append(s, e)[1] = e
OBVIOUS

(* Nothing has been seen yet at the start. *)
LEMMA InitSInv ==
    ASSUME PowerInit
    PROVE  SInv
<1>1. <<>> \in Packages
  <2>1. <<>> \in [1 .. 0 -> Values \cup {NotInteger}]  OBVIOUS
  <2>. QED  BY <2>1 DEF Packages
<1>2. trace \in Seq(Events) /\ trace = <<>> /\ Len(trace) = 0  BY DEF PowerInit
<1>. QED  BY <1>1, <1>2 DEF PowerInit, SInv, Stages

(* An error return leads to the recovery, whatever happened before. *)
LEMMA FailsKeeps ==
    ASSUME SInv, stage \in {"sleep", "pm1a", "pm1b"}, Fails,
           UNCHANGED <<aml, fadt, trace>>, s5' = s5
    PROVE  SInv'
BY DEF SInv, Fails, Stages

(* _PTS and its answers. *)
LEMMA BeforeKeeps ==
    ASSUME SInv, BeforeAcpiShutdown
    PROVE  SInv'
<1>1. CASE aml = "none"  BY <1>1 DEF SInv, BeforeAcpiShutdown, Stages
<1>2. CASE aml = "some"
  <2>1. PICK answer \in {"ran", "missing", "inner_missing", "failed"} :
          /\ trace' = Append(trace, [event |-> "_PTS", answer |-> answer])
          /\ IF pts_fails(answer) THEN Fails
             ELSE stage' = "sleep" /\ UNCHANGED <<acpi_lock, error>>
    BY <1>2 DEF BeforeAcpiShutdown
  <2>. DEFINE e == [event |-> "_PTS", answer |-> answer]
  <2>2. e \in Events /\ (pts_fails(answer) \/ e \in Prepared) /\ e \in Prepared \cup Refused
    BY DEF Events, Prepared, Refused, pts_fails
  <2>3. trace = <<>> /\ trace \in Seq(Events) /\ stage = "before"
    BY DEF SInv, BeforeAcpiShutdown
  <2>4. e \notin Writes /\ e \notin Wakes  BY <2>2, EventKinds
  <2>. HIDE DEF e
  <2>5. trace' \in Seq(Events) /\ Len(trace') = 1 /\ trace'[1] = e /\ trace' # <<>>
    BY <2>1, <2>2, <2>3, AppendFacts DEF e
  <2>6. aml' = aml /\ fadt' = fadt /\ s5' = s5  BY DEF BeforeAcpiShutdown
  <2>7. CASE pts_fails(answer)
    BY <1>2, <2>1, <2>4, <2>5, <2>6, <2>7 DEF SInv, Fails, Stages
  <2>8. CASE ~pts_fails(answer)
    BY <1>2, <2>1, <2>2, <2>3, <2>4, <2>5, <2>6, <2>8 DEF SInv, Stages
  <2>. QED  BY <2>7, <2>8
<1>. QED  BY <1>1, <1>2 DEF SInv

(* A write to a sleep register. *)
LEMMA WriteKeeps ==
    ASSUME SInv, NEW n \in DOMAIN s5, NEW block \in Blocks,
           CanSleep(s5[n], block), WriteSleep(s5[n], block),
           \/ n = 1 /\ stage = "pm1a" /\ stage' = "pm1b" /\ acpi_lock' = acpi_lock
           \/ n = 2 /\ stage = "pm1b" /\ stage' = "slept" /\ acpi_lock' = "free",
           UNCHANGED <<aml, fadt, s5, error>>
    PROVE  SInv'
<1>. DEFINE e == [event |-> "write", port |-> block.address, value |-> with_slp_en(s5[n])]
<1>1. s5[n] \in Nat /\ s5[n] <= WordMax
  <2>1. s5[n] \in Values \cup {NotInteger}  BY DEF SInv, Packages
  <2>. QED  BY Zenon, <2>1, ShutdownAssumption DEF ShutdownAssumption, CanSleep, is_word
<1>2. block.address \in 0 .. WordMax
  <2>1. block.address \in Addresses  BY DEF Blocks
  <2>2. block.address \in Nat  BY Zenon, <2>1, ShutdownAssumption DEF ShutdownAssumption
  <2>3. block.address <= WordMax  BY DEF CanSleep
  <2>. QED  BY <2>2, <2>3
<1>3. e \in Writes  BY <1>1, <1>2, SlpEnFits DEF Writes
<1>4. trace' = Append(trace, e)  BY DEF WriteSleep
<1>. HIDE DEF e
<1>5. e \in Events /\ e \notin Wakes  BY <1>3, EventKinds DEF Events
<1>6. trace \in Seq(Events) /\ trace # <<>> /\ trace[1] \in Prepared /\ aml = "some"
  BY DEF SInv
<1>7. /\ trace' \in Seq(Events) /\ trace' # <<>> /\ trace'[1] = trace[1]
      /\ Len(trace) \in Nat /\ Len(trace') = Len(trace) + 1
      /\ trace'[Len(trace) + 1] = e
      /\ \A k \in 1 .. Len(trace) : trace'[k] = trace[k]
  BY <1>4, <1>5, <1>6, AppendFacts
<1>8. \A k \in 1 .. Len(trace') : trace'[k] \notin Wakes
  <2>1. \A k \in 1 .. Len(trace) : trace[k] \notin Wakes  BY DEF SInv
  <2>. QED  BY <1>5, <1>7, <2>1
<1>9. error = "no"  BY DEF SInv
<1>. QED  BY <1>6, <1>7, <1>8, <1>9 DEF SInv, Stages

(* perform_acpi_sleep for PM1a and for PM1b. *)
LEMMA SleepKeeps ==
    ASSUME SInv, NEW n \in {1, 2}, NEW then,
           \/ n = 1 /\ stage = "pm1a" /\ then = "pm1b"
           \/ n = 2 /\ stage = "pm1b" /\ then = "slept",
           PerformAcpiSleep(n, then), UNCHANGED <<aml, fadt, s5>>
    PROVE  SInv'
<1>1. ASSUME NEW block \in Blocks, n \in DOMAIN s5, CanSleep(s5[n], block),
             WriteSleep(s5[n], block), stage' = then,
             acpi_lock' = IF then = "slept" THEN "free" ELSE acpi_lock, UNCHANGED error
      PROVE  SInv'
  BY <1>1, WriteKeeps
<1>2. ASSUME Fails, UNCHANGED trace PROVE SInv'  BY <1>2, FailsKeeps
<1>3. ASSUME n \notin DOMAIN s5, stage' = "panic", UNCHANGED <<trace, acpi_lock, error>>
      PROVE  SInv'
  <2>1. PICK len \in 0 .. 2 : s5 \in [1 .. len -> Values \cup {NotInteger}]
    BY DEF SInv, Packages
  <2>2. DOMAIN s5 = 1 .. len /\ Len(s5) = len  BY <2>1
  <2>. DEFINE written == Len(trace)
  <2>3. /\ (stage \in {"sleep", "pm1a"} /\ aml = "some") => written = 1
        /\ stage = "pm1b" => written = 2 /\ 1 \in DOMAIN s5
        /\ stage \in {"pm1a", "pm1b", "slept"} => aml = "some"
    BY Zenon DEF SInv
  <2>. HIDE DEF written
  <2>4. written = n /\ (n = 2 => 1 \in DOMAIN s5)  BY <2>3
  <2>5. written = len + 1  BY <1>3, <2>2, <2>4
  <2>6. PackageTooShort  BY Zenon, <2>2, <2>5 DEF PackageTooShort, written
  <2>7. error = "no"  BY DEF SInv
  <2>. QED  BY <1>3, <2>6, <2>7 DEF SInv, Stages, PackageTooShort
<1>. QED  BY <1>1, <1>2, <1>3 DEF PerformAcpiSleep

(* recover_acpi_shutdown finds the lock free. *)
LEMMA RecoverKeeps ==
    ASSUME SInv, Recover
    PROVE  SInv'
<1>1. CASE aml # "some"  BY <1>1 DEF SInv, Recover, Stages
<1>2. CASE aml = "some"
  <2>. DEFINE e == [event |-> "_WAK"]
  <2>1. trace' = Append(trace, e) /\ stage' = "panic" /\ stage = "recover"
        /\ UNCHANGED <<aml, fadt, acpi_lock, s5, error>>
    BY <1>2 DEF Recover, SInv
  <2>2. e \in Wakes  BY DEF Wakes
  <2>. HIDE DEF e
  <2>3. e \in Events /\ e \notin Writes  BY <2>2, EventKinds DEF Events
  <2>4. trace \in Seq(Events)  BY DEF SInv
  <2>5. /\ trace' \in Seq(Events) /\ trace' # <<>>
        /\ Len(trace) \in Nat /\ Len(trace') = Len(trace) + 1
        /\ trace'[Len(trace) + 1] = e
        /\ \A k \in 1 .. Len(trace) : trace'[k] = trace[k]
        /\ trace # <<>> => trace'[1] = trace[1]
    BY <2>1, <2>3, <2>4, AppendFacts
  <2>6. ASSUME NEW k \in 1 .. Len(trace'), trace'[k] \in Writes PROVE trace'[1] \in Prepared
    <3>1. k \in 1 .. Len(trace) /\ trace # <<>>  BY <2>3, <2>4, <2>5, <2>6
    <3>. QED  BY <2>5, <2>6, <3>1 DEF SInv
  <2>7. ASSUME NEW k \in 1 .. Len(trace'), trace'[k] \in Wakes PROVE k = Len(trace')
    <3>1. \A j \in 1 .. Len(trace) : trace[j] \notin Wakes  BY <2>1 DEF SInv
    <3>. QED  BY <2>5, <2>7, <3>1
  <2>. QED  BY <1>2, <2>1, <2>2, <2>5, <2>6, <2>7 DEF SInv, Stages
<1>. QED  BY <1>1, <1>2

(* Every step of the kernel and of the platform keeps the invariant. *)
LEMMA NextSInv ==
    ASSUME SInv, [PowerNext]_power_vars
    PROVE  SInv'
<1>1. CASE AcpiInit  BY <1>1 DEF AcpiInit, SInv, Stages
<1>2. CASE \E brand \in Brands : RequestShutdown(brand)
  <2>1. /\ stage = "running" /\ stage' \in {"off", "returned", "before"}
        /\ UNCHANGED <<aml, fadt, acpi_lock, s5, trace, error>>
    BY <1>2 DEF RequestShutdown
  <2>. QED  BY <2>1 DEF SInv, Stages
<1>3. CASE BeforeAcpiShutdown  BY <1>3, BeforeKeeps
<1>4. CASE Lookup
  <2>1. CASE Fails /\ s5' = s5  BY <1>4, <2>1, FailsKeeps DEF Lookup
  <2>2. CASE /\ aml = "some" /\ s5' \in Packages /\ acpi_lock' = "held"
             /\ stage' = "pm1a" /\ UNCHANGED error
    BY <1>4, <2>2 DEF Lookup, SInv, Stages
  <2>. QED  BY <1>4, <2>1, <2>2 DEF Lookup
<1>5. CASE SleepPm1a  BY <1>5, SleepKeeps DEF SleepPm1a
<1>6. CASE SleepPm1b
  <2>1. CASE Fails /\ UNCHANGED trace  BY <1>6, <2>1, FailsKeeps DEF SleepPm1b
  <2>2. CASE stage' = "slept" /\ acpi_lock' = "free" /\ UNCHANGED <<trace, error>>
    BY <1>6, <2>2 DEF SleepPm1b, SInv, Stages
  <2>3. CASE PerformAcpiSleep(2, "slept")  BY <1>6, <2>3, SleepKeeps DEF SleepPm1b
  <2>. QED  BY <1>6, <2>1, <2>2, <2>3 DEF SleepPm1b
<1>7. CASE PowerOff  BY <1>7 DEF PowerOff, SInv, Stages
<1>8. CASE StillRunning  BY <1>8 DEF StillRunning, SInv, Stages
<1>9. CASE Recover  BY <1>9, RecoverKeeps
<1>10. CASE UNCHANGED power_vars  BY <1>10 DEF power_vars, SInv, PackageTooShort
<1>. QED
  BY <1>1, <1>2, <1>3, <1>4, <1>5, <1>6, <1>7, <1>8, <1>9, <1>10
  DEF PowerNext, ShutdownStep, Ended

(* The invariant holds whatever the tables and the AML interpreter answer. *)
THEOREM ShutdownInductive == PowerSpec => []SInv
<1>1. PowerInit => SInv  BY InitSInv
<1>2. SInv /\ [PowerNext]_power_vars => SInv'  BY NextSInv
<1>. QED  BY <1>1, <1>2, PTL DEF PowerSpec

(* A shutdown that fails has run _WAK, once and last, before the kernel    *)
(* panics: recover_acpi_shutdown never finds its lock taken.  The index    *)
(* past a short \_S5_ package is the only panic without it.               *)
THEOREM FailureAlwaysRunsWake == KernelSpec => []FailureRunsWake
<1>1. SInv => FailureRunsWake
  <2>. SUFFICES ASSUME SInv, stage = "panic", aml = "some",
                       ~(error = "no" /\ PackageTooShort)
               PROVE  \E k \in DOMAIN trace :
                          /\ trace[k].event = "_WAK" /\ k = Len(trace)
                          /\ \A l \in DOMAIN trace : trace[l].event = "_WAK" => l = k
    BY DEF FailureRunsWake
  <2>1. trace \in Seq(Events)  BY DEF SInv
  <2>2. DOMAIN trace = 1 .. Len(trace) /\ \A k \in DOMAIN trace : trace[k] \in Events  BY <2>1
  <2>3. trace # <<>> /\ trace[Len(trace)] \in Wakes
        /\ \A k \in DOMAIN trace : trace[k] \in Wakes => k = Len(trace)
    BY Zenon, <2>2 DEF SInv
  <2>4. Len(trace) \in DOMAIN trace  BY <2>1, <2>3
  <2>. QED  BY <2>2, <2>3, <2>4, EventKinds
<1>. QED  BY <1>1, ShutdownInductive, KernelRunsBoth, PTL

(* No sleep control port is written unless _PTS came first and was not     *)
(* refused, and what perform_acpi_sleep writes fits the register with      *)
(* SLP_EN set, for every content of the \_S5 package.                      *)
THEOREM SleepAlwaysPrepared == KernelSpec => []SleepOnlyPrepared
<1>1. SInv => SleepOnlyPrepared
  <2>. SUFFICES ASSUME SInv PROVE SleepOnlyPrepared  OBVIOUS
  <2>1. trace \in Seq(Events)  BY DEF SInv
  <2>2. DOMAIN trace = 1 .. Len(trace) /\ \A k \in DOMAIN trace : trace[k] \in Events  BY <2>1
  <2>3. ASSUME NEW k \in DOMAIN trace, trace[k].event = "write"
        PROVE  /\ trace[k].port \in 0 .. WordMax /\ trace[k].value \in SlpEn .. WordMax
               /\ trace[1].event = "_PTS" /\ trace[1].answer \in {"ran", "missing"}
    <3>1. trace[k] \in Writes  BY <2>2, <2>3, EventKinds
    <3>2. trace[1] \in Prepared  BY Zenon, <2>2, <3>1 DEF SInv
    <3>. QED  BY <3>1, <3>2 DEF Writes, Prepared
  <2>. QED  BY <2>3 DEF SleepOnlyPrepared, PowerTypeOK, SInv, Stages
<1>. QED  BY <1>1, ShutdownInductive, KernelRunsBoth, PTL

-----------------------------------------------------------------------------

(* pit::sleep. *)

(* The most that c completed sleeps can add to the counter. *)
Slept(c) == c * MaxMs

Waiting == place \in {"test", "tested", "hlt", "halted"}

(* `end` is sleep's first reading plus its argument while it waits; outside *)
(* that loop the counter is at most the time slept plus the stray ticks.   *)
Goal ==
    /\ place = "call" => timer <= Slept(calls) + awake
    /\ place \in {"begin", "begun"} =>
           calls > 0 /\ timer <= Slept(calls - 1) + awake
    /\ Waiting =>
           calls > 0 /\ end = start + ms /\ start <= Slept(calls - 1) + awake

TInv == SleepTypeOK /\ Goal

(* One more sleep adds at most MaxMs. *)
LEMMA SleptFacts ==
    ASSUME NEW c \in Nat
    PROVE  /\ Slept(c) \in Nat
           /\ Slept(c + 1) = Slept(c) + MaxMs
           /\ c <= NumSleeps => Slept(c) <= Slept(NumSleeps)
<1>. USE PitAssumption DEF PitAssumption
<1>1. Slept(c) \in Nat  BY DEF Slept
<1>2. Slept(c + 1) = Slept(c) + MaxMs  BY DEF Slept
<1>3. ASSUME c <= NumSleeps PROVE Slept(c) <= Slept(NumSleeps)
  <2>1. (NumSleeps - c) * MaxMs >= 0  BY <1>3
  <2>2. NumSleeps * MaxMs = c * MaxMs + (NumSleeps - c) * MaxMs  BY <1>3
  <2>. QED  BY <2>1, <2>2, <1>3 DEF Slept
<1>. QED  BY <1>1, <1>2, <1>3

(* The counter's cap lies above every goal. *)
LEMMA CapIsAbove ==
    TimerMax \in Nat /\ TimerMax = Slept(NumSleeps) + AwakeTicks + 1
<1>1. NumSleeps * MaxMs \in Nat  BY PitAssumption DEF PitAssumption
<1>. QED  BY <1>1, PitAssumption DEF PitAssumption, TimerMax, Slept

(* The kernel starts with nothing slept. *)
LEMMA InitTInv ==
    ASSUME SleepInit
    PROVE  TInv
<1>. USE PitAssumption DEF PitAssumption
<1>1. Slept(0) \in Nat /\ Slept(NumSleeps) \in Nat  BY SleptFacts
<1>2. SleepTypeOK  BY <1>1, CapIsAbove DEF SleepInit, SleepTypeOK, SleepPlaces
<1>3. Goal  BY <1>1 DEF SleepInit, Goal, Waiting
<1>. QED  BY <1>2, <1>3 DEF TInv

(* Every step of sleep and of the handlers keeps the invariant. *)
LEMMA StepTInv ==
    ASSUME TInv, [SleepNext]_sleep_vars
    PROVE  TInv'
<1>. USE PitAssumption DEF TInv, PitAssumption
<1>c. /\ calls \in Nat /\ Slept(calls) \in Nat /\ Slept(NumSleeps) \in Nat
      /\ Slept(calls) <= Slept(NumSleeps)
      /\ Slept(calls + 1) = Slept(calls) + MaxMs
  BY SleptFacts DEF SleepTypeOK
<1>d. calls > 0 => /\ Slept(calls - 1) \in Nat
                   /\ Slept(calls) = Slept(calls - 1) + MaxMs
  <2>. HAVE calls > 0
  <2>1. calls - 1 \in Nat /\ (calls - 1) + 1 = calls  BY <1>c
  <2>. QED  BY <2>1, SleptFacts
<1>1. ASSUME NEW m \in 0 .. MaxMs, Sleep(m) PROVE TInv'
  <2>1. calls' - 1 = calls /\ calls' = calls + 1  BY <1>1, <1>c DEF Sleep
  <2>2. Slept(calls') = Slept(calls) + MaxMs /\ Slept(calls' - 1) = Slept(calls)
    BY <2>1, <1>c
  <2>3. SleepTypeOK'  BY <1>1, <1>c DEF Sleep, SleepTypeOK, SleepPlaces
  <2>4. Goal'  BY <1>1, <1>c, <2>1, <2>2 DEF Sleep, SleepTypeOK, Goal, Waiting
  <2>. QED  BY <2>3, <2>4
<1>2. CASE LockTimer
  BY <1>2 DEF LockTimer, SleepTypeOK, SleepPlaces, Goal, Waiting
<1>3. CASE ComputeEnd
  <2>1. calls > 0 /\ timer <= Slept(calls - 1) + awake
    BY <1>3 DEF ComputeEnd, Goal
  <2>2. timer + ms \in 0 .. TimerMax - 1
    BY <2>1, <1>c, <1>d, CapIsAbove DEF SleepTypeOK
  <2>3. SleepTypeOK'  BY <1>3, <2>2 DEF ComputeEnd, SleepTypeOK, SleepPlaces
  <2>4. Goal'  BY <1>3, <2>1 DEF ComputeEnd, Goal, Waiting
  <2>. QED  BY <2>3, <2>4
<1>4. CASE Test
  <2>1. SleepTypeOK'  BY <1>4 DEF Test, SleepTypeOK, SleepPlaces
  <2>2. Goal'
    BY <1>4, <1>c, <1>d DEF Test, SleepTypeOK, Goal, Waiting
  <2>. QED  BY <2>1, <2>2
<1>5. CASE Hlt
  BY <1>5 DEF Hlt, SleepTypeOK, SleepPlaces, Goal, Waiting
<1>6. CASE HaltTick
  <2>1. SleepTypeOK'
    BY <1>6, CapIsAbove DEF HaltTick, HandlerBody, Incremented, SleepTypeOK,
                            SleepPlaces
  <2>2. Goal'
    BY <1>6 DEF HaltTick, HandlerBody, Goal, Waiting
  <2>. QED  BY <2>1, <2>2
<1>7. CASE AwakeTick
  <2>1. SleepTypeOK'
    BY <1>7, CapIsAbove DEF AwakeTick, HandlerBody, Incremented, SleepTypeOK,
                            SleepPlaces
  <2>2. timer' <= timer + 1 /\ awake' = awake + 1 /\ place' = place
    BY <1>7, CapIsAbove DEF AwakeTick, HandlerBody, Incremented, SleepTypeOK
  <2>3. UNCHANGED <<calls, start, end, ms>>  BY <1>7 DEF AwakeTick
  <2>4. Goal'
    BY <2>1, <2>2, <2>3, <1>c, <1>d, CapIsAbove DEF SleepTypeOK, Goal, Waiting
  <2>. QED  BY <2>1, <2>4
<1>8. CASE Spin \/ Finished \/ UNCHANGED sleep_vars
  BY <1>8 DEF Spin, Finished, sleep_vars, SleepTypeOK, Goal, Waiting
<1>9. CASE OtherWake
  BY <1>9 DEF OtherWake, SleepTypeOK, SleepPlaces, Goal, Waiting
<1>. QED
  BY <1>1, <1>2, <1>3, <1>4, <1>5, <1>6, <1>7, <1>8, <1>9 DEF SleepNext, MainStep

(* The invariant holds in every state. *)
THEOREM SleepInductive == SleepSpec => []TInv
<1>1. SleepInit => TInv  BY InitTInv
<1>2. TInv /\ [SleepNext]_sleep_vars => TInv'  BY StepTInv
<1>. QED  BY <1>1, <1>2, PTL DEF SleepSpec

(* Type correctness, in which `end` stays below the counter's cap: stopping *)
(* the count there hides nothing from sleep's comparison.                  *)
THEOREM SleepTypeCorrect == KernelSpec => []SleepTypeOK
BY SleepInductive, KernelRunsBoth, PTL DEF TInv

(* For every duration, every number of sleeps and every stray interrupt:   *)
(* when sleep returns, the counter is exactly ms past its first reading.   *)
THEOREM SleepNeverReturnsEarlyOrLate == KernelSpec => SleepIsExact
<1>1. TInv /\ [SleepNext]_sleep_vars
          => [(place = "tested" /\ place' = "call") => timer = start + ms]_sleep_vars
  <2>. SUFFICES ASSUME TInv, SleepNext, place = "tested", place' = "call"
                PROVE  timer = start + ms
    OBVIOUS
  <2>1. Test
    BY DEF SleepNext, MainStep, Sleep, LockTimer, ComputeEnd, Hlt,
           HaltTick, AwakeTick, HandlerBody, Spin, OtherWake, Finished, sleep_vars
  <2>2. end = timer  BY <2>1 DEF Test
  <2>. QED  BY <2>2 DEF TInv, Goal, Waiting
<1>. QED  BY <1>1, SleepInductive, KernelRunsBoth, PTL DEF SleepSpec, SleepIsExact
=============================================================================
