------------------------------ MODULE Keyboard ------------------------------
(***************************************************************************)
(* The keyboard path: keyboard_interrupt_handler and add_scancode push     *)
(* into SCANCODE_QUEUE and wake; the task print_keypresses, the only one   *)
(* kernel_main spawns, reads the queue through ScancodeStream::poll_next.  *)
(* The executor's steps are those of module Executor; the slot `armed` is  *)
(* the static AtomicWaker WAKER.  Scancodes are numbered by key press.     *)
(***************************************************************************)
EXTENDS Executor

CONSTANTS
    ScancodeCapacity,    \* ArrayQueue::new(100) in ScancodeStream::new
    MaxPresses           \* bound on the key presses of a behaviour

ASSUME KeyboardAssumption ==
    /\ ScancodeCapacity \in Nat /\ ScancodeCapacity > 0
    /\ MaxPresses \in Nat
    /\ NumTasks = 1

VARIABLES
    pressed,             \* keyboard interrupts so far
    scancodes,           \* contents of SCANCODE_QUEUE
    hand,                \* the scancode poll_next returned, not yet handled
    handled,             \* scancodes print_keypresses has handled
    kpc                  \* where print_keypresses is suspended or running

kvars == <<pressed, scancodes, hand, handled, kpc>>

allvars == <<vars, kvars>>

PrintKeypresses == 0     \* the task's id: the first one drawn

Steps == {"start", "fast", "register", "second", "take", "handle"}

KInit ==
    /\ Init
    /\ pressed = 0
    /\ scancodes = <<>>
    /\ hand = <<>>
    /\ handled = <<>>
    /\ kpc = "start"

-----------------------------------------------------------------------------
(* The executor outside a poll: nothing of the keyboard changes. *)
ExecutorStep == (RunLoop \/ OtherInterrupt \/ HltLoop) /\ UNCHANGED kvars

(* kernel_main spawns print_keypresses and then calls run. *)
KernelMain == (Spawn \/ (next_id = NumTasks /\ Run)) /\ UNCHANGED kvars

Polling == InPoll /\ cur = PrintKeypresses

(* SCANCODE_QUEUE has been initialised: ScancodeStream::new has run. *)
initialized == kpc # "start"

(* ScancodeStream::new, on the first poll. *)
StreamNew ==
    /\ Polling /\ kpc = "start"
    /\ kpc' = "fast"
    /\ UNCHANGED <<vars, pressed, scancodes, hand, handled>>

(* poll_next's fast path. *)
FastPop ==
    /\ Polling /\ kpc = "fast"
    /\ \/ /\ scancodes # <<>>
          /\ hand' = <<Head(scancodes)>>
          /\ scancodes' = Tail(scancodes)
          /\ kpc' = "handle"
       \/ /\ scancodes = <<>>
          /\ kpc' = "register"
          /\ UNCHANGED <<scancodes, hand>>
    /\ UNCHANGED <<vars, pressed, handled>>

(* WAKER.register.  A wake that arrives while AtomicWaker is registering is *)
(* performed at its end, so a handler comes before or after this step.     *)
RegisterWaker ==
    /\ Polling /\ kpc = "register"
    /\ Register
    /\ kpc' = "second"
    /\ UNCHANGED <<pressed, scancodes, hand, handled>>

(* The second pop: a scancode may have come before the waker was in place. *)
SecondPopSome ==
    /\ Polling /\ kpc = "second"
    /\ scancodes # <<>>
    /\ hand' = <<Head(scancodes)>>
    /\ scancodes' = Tail(scancodes)
    /\ kpc' = "take"
    /\ UNCHANGED <<vars, pressed, handled>>

(* Mutant: Pending right after registering, without a second pop. *)
SecondPopOmitted ==
    /\ Polling /\ kpc = "second"
    /\ PollPending
    /\ kpc' = "fast"
    /\ UNCHANGED <<pressed, scancodes, hand, handled>>

SecondPopNone ==
    /\ Polling /\ kpc = "second"
    /\ scancodes = <<>>
    /\ PollPending
    /\ kpc' = "fast"
    /\ UNCHANGED <<pressed, scancodes, hand, handled>>

(* WAKER.take() *)
TakeWaker ==
    /\ Polling /\ kpc = "take"
    /\ Withdraw
    /\ kpc' = "handle"
    /\ UNCHANGED <<pressed, scancodes, hand, handled>>

(* The body of print_keypresses' loop; the next call of next() follows in  *)
(* the same poll.                                                          *)
HandleScancode ==
    /\ Polling /\ kpc = "handle"
    /\ handled' = handled \o hand
    /\ hand' = <<>>
    /\ kpc' = "fast"
    /\ UNCHANGED <<vars, pressed, scancodes>>

-----------------------------------------------------------------------------

(* Mutant: the push is not followed by a wake. *)
WakeForgotten == WakesNobody

(* WAKER.wake(): takes and wakes the waker, if one is registered. *)
WakeIfArmed ==
    \/ Wake(PrintKeypresses)
    \/ PrintKeypresses \notin armed /\ WakesNobody

(* Mutant: the queue takes one scancode too many. *)
add_scancode_off_by_one ==
    \/ /\ initialized /\ Len(scancodes) <= ScancodeCapacity
       /\ scancodes' = Append(scancodes, pressed')
       /\ WakeIfArmed
    \/ /\ ~initialized \/ Len(scancodes) > ScancodeCapacity
       /\ WakesNobody
       /\ UNCHANGED scancodes

(* Mutant: force_push, which makes room by discarding the oldest. *)
add_scancode_overwriting ==
    \/ /\ initialized
       /\ scancodes' = IF Len(scancodes) < ScancodeCapacity
                       THEN Append(scancodes, pressed')
                       ELSE Append(Tail(scancodes), pressed')
       /\ WakeIfArmed
    \/ ~initialized /\ WakesNobody /\ UNCHANGED scancodes

(* add_scancode: the scancode is pushed, then WAKER woken; an              *)
(* uninitialised or a full queue drops it with a warning.                  *)
add_scancode ==
    \/ /\ initialized /\ Len(scancodes) < ScancodeCapacity
       /\ scancodes' = Append(scancodes, pressed')
       /\ WakeIfArmed
    \/ /\ ~initialized \/ Len(scancodes) >= ScancodeCapacity
       /\ WakesNobody
       /\ UNCHANGED scancodes

(* keyboard_interrupt_handler: reads the key from the controller. *)
KeyboardInterrupt ==
    /\ HandlerMayRun
    /\ pressed < MaxPresses
    /\ pressed' = pressed + 1
    /\ add_scancode
    /\ UNCHANGED <<hand, handled, kpc>>

-----------------------------------------------------------------------------

PollStep ==
    \/ StreamNew \/ FastPop \/ RegisterWaker \/ SecondPopSome
    \/ SecondPopNone \/ TakeWaker \/ HandleScancode

KNext == KernelMain \/ ExecutorStep \/ PollStep \/ KeyboardInterrupt

KSpec == KInit /\ [][KNext]_allvars

(* The CPU executes the main thread: the run loop and the poll. *)
KFairSpec ==
    /\ KSpec
    /\ WF_allvars(KernelMain)
    /\ WF_allvars(RunLoop /\ UNCHANGED kvars)
    /\ WF_allvars(PollStep)

-----------------------------------------------------------------------------

(* The state is well typed: SCANCODE_QUEUE stays within its capacity and   *)
(* poll_next has at most one scancode in hand.                             *)
KTypeOK ==
    /\ TypeOK
    /\ pressed \in 0 .. MaxPresses
    /\ scancodes \in Seq(1 .. MaxPresses)
    /\ Len(scancodes) <= ScancodeCapacity
    /\ hand \in Seq(1 .. MaxPresses)
    /\ Len(hand) <= 1
    /\ handled \in Seq(1 .. MaxPresses)
    /\ kpc \in Steps

(* No lost keyboard wake-up: whenever print_keypresses is not being polled *)
(* and a scancode waits in SCANCODE_QUEUE, the task is queued.  This is    *)
(* what poll_next's second pop, after WAKER.register, is for.              *)
NoLostWakeup ==
    (scancodes # <<>> /\ cur # PrintKeypresses /\ pc # "panic")
        => InQueue(PrintKeypresses, task_queue)

(* add_scancode "must not block or allocate": the waker the handler takes  *)
(* and drops is never the last reference to its Arc<TaskWaker>, which the  *)
(* executor's cache keeps, so the handler never enters the allocator.      *)
WakeNeverFrees == armed \subseteq waker_cache

(* The keyboard path implements the channel. *)
Channel == INSTANCE ScancodeChannel WITH
    Capacity <- ScancodeCapacity,
    open <- initialized,
    pending <- hand \o scancodes,
    delivered <- handled,
    down <- pc = "panic"

(* Key presses are accepted, dropped and delivered as the channel allows:  *)
(* in order, none twice, none lost after the queue took it.                *)
ImplementsChannel == Channel!ChanSpec

(* Every scancode the queue took is handled, unless the kernel panics.     *)
DeliversAll == Channel!ChanDelivery

(* `expect("task_queue full")`: the wake of a keyboard interrupt finds     *)
(* room in the task queue.                                                 *)
NoTaskQueueOverflow == pc # "panic"
=============================================================================
