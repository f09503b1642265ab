---------------------------- MODULE OutputLocks -----------------------------
(***************************************************************************)
(* Who may print when: the locks of the serial port (SERIAL1) and of the   *)
(* text writer (WRITER), the main thread that prints under them,           *)
(* interrupt and exception handlers, and the panic handler.                *)
(*                                                                         *)
(* There is one CPU.  What runs is a stack of frames: main below, and on   *)
(* it the handlers that interrupted one another.  A frame has the          *)
(* operations it still has to do; only the top one runs.  Maskable         *)
(* interrupts come when the interrupt flag is on, exceptions (the          *)
(* non-maskable interrupt among them) at any time.                         *)
(***************************************************************************)
EXTENDS Naturals, Sequences

CONSTANT MaxEvents      \* bound on interrupts, exceptions and panics together

ASSUME EventsAssumption == MaxEvents \in Nat

VARIABLES
    stack,          \* the frames, the running one last
    iflag,          \* the CPU's interrupt flag, "on" or "off"
    serial_lock,    \* SERIAL1's lock, "free" or "locked"
    writer_lock,    \* WRITER's lock
    said,           \* "yes" once a panic's message is on the serial port
    events          \* interrupts, exceptions and panics so far

vars == <<stack, iflag, serial_lock, writer_lock, said, events>>

(* A frame: whose it is, what main called last, what it has to do, the     *)
(* flag to go back to, the flag without_interrupts saved, whether it is    *)
(* inside the writer, and whether it panicked.                             *)
Frame(who, ops) ==
    [who |-> who, call |-> "none", todo |-> ops, entry |-> iflag, saved |-> "off",
     inside |-> "no", panicked |-> "no"]

Init ==
    /\ iflag = "on"
    /\ stack = <<[Frame("main", <<>>) EXCEPT !.entry = "on"]>>
    /\ serial_lock = "free" /\ writer_lock = "free"
    /\ said = "no"
    /\ events = 0

-----------------------------------------------------------------------------

(* Mutant: the serial lock is waited for. *)
serial_waits == <<"cli", "lock_serial", "write_serial", "unlock_serial", "popf">>

(* serial::_print *)
serial_print ==
    <<"cli", "force_serial", "lock_serial", "write_serial", "unlock_serial", "popf">>

(* Mutant: interrupts stay on while the writer is used. *)
vga_interruptible == <<"lock_writer", "write_writer", "unlock_writer">>

(* vga_text_buffer::_print *)
vga_print == <<"cli", "lock_writer", "write_writer", "unlock_writer", "popf">>

(* Logger::log *)
log(level) == serial_print \o (IF level = "Trace" THEN <<>> ELSE vga_print)

(* Console::backspace: the lock, but not without_interrupts. *)
backspace == <<"lock_writer", "write_writer", "unlock_writer">>

(* Mutant: the writer's lock is left as it is. *)
begin_without_unlock == <<"own_port">>

(* interrupt_begin *)
interrupt_begin == <<"own_port", "force_writer">>

panic == log("Error") \o <<"hlt_loop">>

(* What the main thread calls.  (print! alone does less than info!.) *)
MainCalls == [trace |-> log("Trace"), info |-> log("Info"), backspace |-> backspace]

(* keyboard_interrupt_handler, when the scancode is queued (and the wake   *)
(* may panic) and when it is not.                                          *)
KeyboardHandler == {interrupt_begin \o <<"wake">>, interrupt_begin \o log("Warn")}

(* The spurious handlers, which trace.  The I/O APIC's traces more than    *)
(* once, as the same print again.                                          *)
SpuriousHandler == {log("Trace")}

Handlers == KeyboardHandler \cup SpuriousHandler

(* Page fault; general protection fault halts likewise. *)
HaltingException == interrupt_begin \o <<"own_port", "hlt_loop">>

(* Double fault; machine check panics likewise. *)
PanickingException == interrupt_begin \o <<"panic">>

(* All the others print on a port of their own and return. *)
ReturningException == interrupt_begin \o <<"own_port">>

Exceptions == {ReturningException, HaltingException, PanickingException}

-----------------------------------------------------------------------------

Top == stack[Len(stack)]

At(op) == Top.todo # <<>> /\ Head(Top.todo) = op

WithTop(f) == [stack EXCEPT ![Len(stack)] = f]

Advanced == [Top EXCEPT !.todo = Tail(@)]

(* without_interrupts: remember the flag, clear it; set it if it was set. *)
Cli ==
    /\ At("cli")
    /\ stack' = WithTop([Advanced EXCEPT !.saved = iflag])
    /\ iflag' = "off"
    /\ UNCHANGED <<serial_lock, writer_lock, said, events>>

(* Mutant: interrupts are enabled, whatever they were. *)
enabled(saved) == "on"

restored(saved) == saved

Popf ==
    /\ At("popf")
    /\ stack' = WithTop(Advanced)
    /\ iflag' = restored(Top.saved)
    /\ UNCHANGED <<serial_lock, writer_lock, said, events>>

ForceUnlock ==
    /\ \/ At("force_serial") /\ serial_lock' = "free" /\ UNCHANGED writer_lock
       \/ At("force_writer") /\ writer_lock' = "free" /\ UNCHANGED serial_lock
    /\ stack' = WithTop(Advanced)
    /\ UNCHANGED <<iflag, said, events>>

LockSerial ==
    /\ At("lock_serial") /\ serial_lock = "free"
    /\ serial_lock' = "locked"
    /\ stack' = WithTop(Advanced)
    /\ UNCHANGED <<iflag, writer_lock, said, events>>

LockWriter ==
    /\ At("lock_writer") /\ writer_lock = "free"
    /\ writer_lock' = "locked"
    /\ stack' = WithTop([Advanced EXCEPT !.inside = "yes"])
    /\ UNCHANGED <<iflag, serial_lock, said, events>>

WriteSerial ==
    /\ At("write_serial")
    /\ said' = IF Top.panicked = "yes" THEN "yes" ELSE said
    /\ stack' = WithTop(Advanced)
    /\ UNCHANGED <<iflag, serial_lock, writer_lock, events>>

(* A print on the screen, print_in_interrupt's own port, a wake. *)
Quiet ==
    /\ At("write_writer") \/ At("own_port") \/ At("wake")
    /\ stack' = WithTop(Advanced)
    /\ UNCHANGED <<iflag, serial_lock, writer_lock, said, events>>

(* The guard is dropped, force-unlocked meanwhile or not. *)
Unlock ==
    /\ \/ /\ At("unlock_serial") /\ serial_lock' = "free" /\ UNCHANGED writer_lock
          /\ stack' = WithTop(Advanced)
       \/ /\ At("unlock_writer") /\ writer_lock' = "free" /\ UNCHANGED serial_lock
          /\ stack' = WithTop([Advanced EXCEPT !.inside = "no"])
    /\ UNCHANGED <<iflag, said, events>>

(* A panic: the frame goes on as the panic handler, its guards not         *)
(* dropped (panic = "abort").                                              *)
BecomePanic ==
    /\ stack' = WithTop([Top EXCEPT !.todo = panic, !.inside = "no", !.panicked = "yes"])
    /\ UNCHANGED <<iflag, serial_lock, writer_lock, said>>

PanicMacro == At("panic") /\ BecomePanic /\ UNCHANGED events

(* The code can panic while it formats or draws, in a wake (task_queue     *)
(* full), and in main between prints.                                      *)
MayPanic ==
    /\ \/ At("write_serial") \/ At("write_writer") \/ At("wake")
       \/ Top.who = "main" /\ Top.todo = <<>>
    /\ events < MaxEvents
    /\ events' = events + 1
    /\ BecomePanic

Call ==
    /\ Top.who = "main" /\ Top.todo = <<>>
    /\ \E c \in DOMAIN MainCalls :
           stack' = WithTop([Top EXCEPT !.todo = MainCalls[c], !.call = c])
    /\ UNCHANGED <<iflag, serial_lock, writer_lock, said, events>>

Interrupt ==
    /\ iflag = "on" /\ events < MaxEvents
    /\ events' = events + 1
    /\ \E ops \in Handlers : stack' = Append(stack, Frame("handler", ops))
    /\ iflag' = "off"
    /\ UNCHANGED <<serial_lock, writer_lock, said>>

Exception ==
    /\ events < MaxEvents
    /\ events' = events + 1
    /\ \E ops \in Exceptions : stack' = Append(stack, Frame("exception", ops))
    /\ iflag' = "off"
    /\ UNCHANGED <<serial_lock, writer_lock, said>>

Return ==
    /\ Len(stack) > 1 /\ Top.todo = <<>>
    /\ stack' = SubSeq(stack, 1, Len(stack) - 1)
    /\ iflag' = Top.entry
    /\ UNCHANGED <<serial_lock, writer_lock, said, events>>

(* spin::Mutex::lock on a lock that is taken. *)
Blocked ==
    \/ At("lock_serial") /\ serial_lock = "locked"
    \/ At("lock_writer") /\ writer_lock = "locked"

Spin == Blocked /\ UNCHANGED vars

HltLoop == At("hlt_loop") /\ UNCHANGED vars

Step ==
    \/ Cli \/ Popf \/ ForceUnlock \/ LockSerial \/ LockWriter
    \/ WriteSerial \/ Quiet \/ Unlock \/ Call \/ Return
    \/ PanicMacro

Next == Step \/ MayPanic \/ Interrupt \/ Exception \/ Spin \/ HltLoop

(* The CPU goes on executing. *)
Spec == Init /\ [][Next]_vars /\ WF_vars(Step)

-----------------------------------------------------------------------------

Ops ==
    {"cli", "popf", "force_serial", "lock_serial", "write_serial", "unlock_serial",
     "lock_writer", "write_writer", "unlock_writer", "own_port", "force_writer",
     "wake", "panic", "hlt_loop"}

OnOff == {"on", "off"}

(* Handlers run with interrupts off, whatever they print. *)
TypeOK ==
    /\ stack # <<>> /\ stack[1].who = "main"
    /\ \A k \in DOMAIN stack :
        /\ stack[k].todo \in Seq(Ops)
        /\ stack[k].entry \in OnOff /\ stack[k].saved \in OnOff
        /\ stack[k].inside \in {"yes", "no"}
        /\ stack[k].panicked \in {"yes", "no"}
    /\ iflag \in OnOff /\ (Len(stack) > 1 => iflag = "off")
    /\ serial_lock \in {"free", "locked"} /\ writer_lock \in {"free", "locked"}
    /\ said \in {"yes", "no"}
    /\ events \in 0 .. MaxEvents

(* No print of the main thread or of a handler waits for a lock for ever,  *)
(* whatever it interrupts ("Must not block" of add_scancode): what may     *)
(* wait is a panic's message, raised inside the writer or in a handler     *)
(* that did not take the writer's lock away.                               *)
OnlyPanicsSpin == Blocked => Top.panicked = "yes"

(* WRITER's force_unlock lets a handler into a writer in use only while    *)
(* the main thread is in Console::backspace: every other print is out of   *)
(* reach of handlers.  (A panic never returns to what it interrupts.)      *)
WritersApart ==
    \A a, b \in DOMAIN stack :
        (/\ a < b /\ stack[a].inside = "yes" /\ stack[b].inside = "yes"
         /\ stack[b].panicked = "no")
            => stack[a].call = "backspace"

(* A panic is always reported on the serial port, wherever it was raised   *)
(* and whoever held the port, unless an exception halts the CPU first.     *)
PanicReachesSerial ==
    (\E k \in DOMAIN stack : stack[k].panicked = "yes")
        ~> (said = "yes" \/ (Top.who = "exception" /\ At("hlt_loop")))
=============================================================================
