------------------------------ MODULE Executor ------------------------------
(***************************************************************************)
(* The cooperative executor of kernel/src/task/executor.rs, on the one CPU *)
(* the kernel runs on.                                                     *)
(*                                                                         *)
(* The main thread executes Executor::run.  Interrupt handlers run only    *)
(* while the interrupt flag is set and, entered through interrupt gates,   *)
(* run to completion with the flag clear, so a handler is one step taken   *)
(* between two steps of the main thread.  A step of the main thread is one *)
(* access to what it shares with the handlers: the task queue, a waker     *)
(* slot, or the interrupt flag.                                            *)
(*                                                                         *)
(* A future is known here by its contract only.  During a poll it may leave *)
(* its waker in a slot that an interrupt handler takes it from (Register), *)
(* and take it back (Withdraw); it answers Pending only while it counts on *)
(* the waker it left.                                                      *)
(***************************************************************************)
EXTENDS Naturals, Sequences

CONSTANTS
    NumTasks,        \* number of tasks handed to spawn (bound on NEXT_ID)
    QueueCapacity    \* ArrayQueue::new(100)

ASSUME ExecutorAssumption ==
    /\ NumTasks \in Nat /\ NumTasks > 0
    /\ QueueCapacity \in Nat /\ QueueCapacity > 0

VARIABLES
    next_id,         \* TaskId::new's NEXT_ID
    tasks,           \* ids with an entry in Executor::tasks
    task_queue,      \* ids waiting to be polled
    waker_cache,     \* ids with an entry in Executor::waker_cache
    armed,           \* ids whose waker sits in a slot a handler can take
    cur,             \* id of the task being polled, or NoTask
    interrupts,      \* the CPU's interrupt flag: "on" or "off"
    pc               \* where the main thread is; "poll" and "registered" are
                     \* inside a poll, "registered" while the future counts
                     \* on the waker it left

vars == <<next_id, tasks, task_queue, waker_cache, armed, cur,
          interrupts, pc>>

TaskIds == 0 .. (NumTasks - 1)

NoTask == NumTasks

Places == {"spawn", "run", "poll", "registered", "idle", "check", "hlt",
           "halted", "panic"}

(* t is an element of the sequence q. *)
InQueue(t, q) == \E i \in 1 .. Len(q) : q[i] = t

InPoll == pc \in {"poll", "registered"}

(* Mutant: the queue takes one id too many. *)
QueueFullOffByOne == Len(task_queue) > QueueCapacity

QueueFull == Len(task_queue) >= QueueCapacity

-----------------------------------------------------------------------------

Init ==
    /\ next_id = 0
    /\ tasks = {}
    /\ task_queue = <<>>
    /\ waker_cache = {}
    /\ armed = {}
    /\ cur = NoTask
    /\ interrupts = "on"
    /\ pc = "spawn"

(* Task::new draws a fresh id; spawn inserts the task and then queues it.  *)
(* A full queue panics after the insertion.                                *)
Spawn ==
    /\ pc = "spawn"
    /\ next_id < NumTasks
    /\ next_id' = next_id + 1
    /\ tasks' = tasks \cup {next_id}
    /\ \/ /\ ~QueueFull
          /\ task_queue' = Append(task_queue, next_id)
          /\ pc' = pc
       \/ /\ QueueFull
          /\ pc' = "panic"
          /\ UNCHANGED task_queue
    /\ UNCHANGED <<waker_cache, armed, cur, interrupts>>

(* The caller stops spawning and enters run, which never returns. *)
Run ==
    /\ pc = "spawn"
    /\ pc' = "run"
    /\ UNCHANGED <<next_id, tasks, task_queue, waker_cache, armed, cur,
                   interrupts>>

(* Mutant: the popped id is polled without looking it up in `tasks`. *)
PopTaskUnchecked ==
    /\ pc = "run"
    /\ task_queue # <<>>
    /\ task_queue' = Tail(task_queue)
    /\ cur' = Head(task_queue)
    /\ waker_cache' = waker_cache \cup {Head(task_queue)}
    /\ pc' = "poll"
    /\ UNCHANGED <<next_id, tasks, armed, interrupts>>

(* Mutant: the queue is a stack. *)
PopTaskLifo ==
    LET last == task_queue[Len(task_queue)] IN
        /\ pc = "run"
        /\ task_queue # <<>>
        /\ last \in tasks
        /\ task_queue' = SubSeq(task_queue, 1, Len(task_queue) - 1)
        /\ cur' = last
        /\ waker_cache' = waker_cache \cup {last}
        /\ pc' = "poll"
        /\ UNCHANGED <<next_id, tasks, armed, interrupts>>

(* Mutant: every poll makes a waker of its own and caches none. *)
PopTaskUncached ==
    /\ pc = "run"
    /\ task_queue # <<>>
    /\ Head(task_queue) \in tasks
    /\ task_queue' = Tail(task_queue)
    /\ cur' = Head(task_queue)
    /\ pc' = "poll"
    /\ UNCHANGED <<next_id, tasks, waker_cache, armed, interrupts>>

(* run_ready_tasks pops an id; the waker is taken from the cache or made. *)
PopTask ==
    /\ pc = "run"
    /\ task_queue # <<>>
    /\ Head(task_queue) \in tasks
    /\ task_queue' = Tail(task_queue)
    /\ cur' = Head(task_queue)
    /\ waker_cache' = waker_cache \cup {Head(task_queue)}
    /\ pc' = "poll"
    /\ UNCHANGED <<next_id, tasks, armed, interrupts>>

(* "task no longer exists": a wake that outlived its task is skipped. *)
PopStale ==
    /\ pc = "run"
    /\ task_queue # <<>>
    /\ Head(task_queue) \notin tasks
    /\ task_queue' = Tail(task_queue)
    /\ UNCHANGED <<next_id, tasks, waker_cache, armed, cur,
                   interrupts, pc>>

PopEmpty ==
    /\ pc = "run"
    /\ task_queue = <<>>
    /\ pc' = "idle"
    /\ UNCHANGED <<next_id, tasks, task_queue, waker_cache, armed, cur,
                   interrupts>>

-----------------------------------------------------------------------------
(* The future being polled.                                                *)

Register ==
    /\ InPoll
    /\ armed' = armed \cup {cur}
    /\ pc' = "registered"
    /\ UNCHANGED <<next_id, tasks, task_queue, waker_cache, cur, interrupts>>

Withdraw ==
    /\ pc = "registered"
    /\ armed' = armed \ {cur}
    /\ pc' = "poll"
    /\ UNCHANGED <<next_id, tasks, task_queue, waker_cache, cur, interrupts>>

(* Poll::Ready: the task and its cached waker go, a waker left in a slot   *)
(* stays there.                                                            *)
PollReady ==
    /\ InPoll
    /\ tasks' = tasks \ {cur}
    /\ waker_cache' = waker_cache \ {cur}
    /\ cur' = NoTask
    /\ pc' = "run"
    /\ UNCHANGED <<next_id, task_queue, armed, interrupts>>

PollPending ==
    /\ pc = "registered"
    /\ cur' = NoTask
    /\ pc' = "run"
    /\ UNCHANGED <<next_id, tasks, task_queue, waker_cache, armed, interrupts>>

-----------------------------------------------------------------------------
(* sleep_if_idle: interrupts::disable(), then is_empty(), then either      *)
(* enable_and_hlt(), which no interrupt can split, or interrupts::enable(). *)

(* Mutant: the queue is tested with interrupts enabled. *)
SleepDisableForgotten ==
    /\ pc = "idle"
    /\ pc' = "check"
    /\ UNCHANGED <<next_id, tasks, task_queue, waker_cache, armed, cur,
                   interrupts>>

SleepDisable ==
    /\ pc = "idle"
    /\ interrupts' = "off"
    /\ pc' = "check"
    /\ UNCHANGED <<next_id, tasks, task_queue, waker_cache, armed, cur>>

SleepCheck ==
    /\ pc = "check"
    /\ \/ /\ task_queue = <<>>
          /\ pc' = "hlt"
          /\ UNCHANGED interrupts
       \/ /\ task_queue # <<>>
          /\ pc' = "run"
          /\ interrupts' = "on"
    /\ UNCHANGED <<next_id, tasks, task_queue, waker_cache, armed, cur>>

EnableAndHlt ==
    /\ pc = "hlt"
    /\ interrupts' = "on"
    /\ pc' = "halted"
    /\ UNCHANGED <<next_id, tasks, task_queue, waker_cache, armed, cur>>

-----------------------------------------------------------------------------
(* Interrupt handlers.                                                     *)

(* Returning from any handler ends a hlt: the main thread goes round its   *)
(* loop.                                                                   *)
Resumed == IF pc = "halted" THEN "run" ELSE pc

HandlerMayRun == interrupts = "on" /\ pc # "panic"

(* Mutant: a wake that finds the queue full is dropped. *)
WakeDroppedWhenFull(t) ==
    /\ HandlerMayRun
    /\ t \in armed
    /\ armed' = armed \ {t}
    /\ task_queue' = IF QueueFull THEN task_queue ELSE Append(task_queue, t)
    /\ pc' = Resumed
    /\ UNCHANGED <<next_id, tasks, waker_cache, cur, interrupts>>

(* A handler takes t's waker from its slot and calls wake, which pushes t. *)
(* `expect("task_queue full")` panics inside the handler.                  *)
Wake(t) ==
    /\ HandlerMayRun
    /\ t \in armed
    /\ armed' = armed \ {t}
    /\ \/ /\ ~QueueFull
          /\ task_queue' = Append(task_queue, t)
          /\ pc' = Resumed
          /\ UNCHANGED interrupts
       \/ /\ QueueFull
          /\ pc' = "panic"
          /\ interrupts' = "off"
          /\ UNCHANGED task_queue
    /\ UNCHANGED <<next_id, tasks, waker_cache, cur>>

(* A handler that wakes no task only ends a hlt. *)
WakesNobody ==
    /\ pc' = Resumed
    /\ UNCHANGED <<next_id, tasks, task_queue, waker_cache, armed, cur,
                   interrupts>>

OtherInterrupt == HandlerMayRun /\ pc = "halted" /\ WakesNobody

(* The panic handler ends in hlt_loop. *)
HltLoop ==
    /\ pc = "panic"
    /\ UNCHANGED vars

-----------------------------------------------------------------------------

RunLoop ==
    \/ PopTask \/ PopStale \/ PopEmpty
    \/ SleepDisable \/ SleepCheck \/ EnableAndHlt

PollReturns == PollReady \/ PollPending

Next ==
    \/ Spawn \/ Run \/ RunLoop
    \/ Register \/ Withdraw \/ PollReturns
    \/ \E t \in TaskIds : Wake(t)
    \/ OtherInterrupt
    \/ HltLoop

Spec == Init /\ [][Next]_vars

(* The CPU keeps executing the main thread, and every poll returns. *)
FairSpec ==
    /\ Spec
    /\ WF_vars(Run)
    /\ WF_vars(RunLoop)
    /\ WF_vars(PollReturns)

-----------------------------------------------------------------------------

(* The state is well typed: ids are ones that TaskId::new draws, and       *)
(* task_queue, an ArrayQueue, stays within its capacity.                   *)
TypeOK ==
    /\ next_id \in 0 .. NumTasks
    /\ tasks \subseteq TaskIds
    /\ task_queue \in Seq(TaskIds)
    /\ Len(task_queue) <= QueueCapacity
    /\ waker_cache \subseteq TaskIds
    /\ armed \subseteq TaskIds
    /\ cur \in TaskIds \cup {NoTask}
    /\ interrupts \in {"on", "off"}
    /\ pc \in Places

(* The CPU never sleeps on work: when sleep_if_idle has halted it, or is   *)
(* about to, no task is queued, although a handler may push one at any     *)
(* moment the interrupt flag is set.                                       *)
NoSleepWithWork == pc \in {"hlt", "halted"} => task_queue = <<>>

(* No wake-up is lost: in every interleaving of polls and handlers, a task *)
(* that has not finished is queued, or being polled, or its waker is still *)
(* where a handler will find it (unless the kernel panicked).              *)
NoOrphanTask ==
    pc # "panic" =>
        \A t \in tasks : InQueue(t, task_queue) \/ cur = t \/ t \in armed

(* run_ready_tasks polls only tasks that have not finished, and with a     *)
(* cached waker, although wakes of finished tasks stay in the queue.       *)
PolledTaskIsLive == InPoll => cur \in tasks \cap waker_cache

(* A queued wake is served: the task is polled, unless it has finished or  *)
(* the kernel panicked.  run's loop and the FIFO queue starve no one.      *)
WokenTaskIsPolled ==
    \A t \in TaskIds :
        (t \in tasks /\ InQueue(t, task_queue))
            ~> (cur = t \/ t \notin tasks \/ pc = "panic")
=============================================================================
