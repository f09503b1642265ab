---------------------------- MODULE OutputProofs ----------------------------
(***************************************************************************)
(* Proofs about who may print when, for any number of interrupts,          *)
(* exceptions and panics on top of one another.                            *)
(*                                                                         *)
(* What a frame has to do is a chain: each operation is followed by one    *)
(* that may follow it, so its first operation tells where in a print the   *)
(* frame is.  The invariant says that the main thread inside               *)
(* without_interrupts can be reached by exceptions only, that a lock is    *)
(* held by a frame inside it or left behind by a panic, and that what      *)
(* panicked never goes away.                                               *)
(***************************************************************************)
EXTENDS OutputLocks, SequenceTheorems, TLAPS

YesNo == {"yes", "no"}

Frames ==
    [who : {"main", "handler", "exception"},
     call : {"none", "trace", "info", "backspace"},
     todo : Seq(Ops), entry : OnOff, saved : OnOff, inside : YesNo, panicked : YesNo]

(* The main thread in Console::backspace, the print that leaves interrupts on. *)
Backspacing(f) == f.who = "main" /\ f.call = "backspace" /\ f.panicked = "no"

(* What may come after an operation, and what may come last. *)
Following ==
    [cli |-> {"force_serial", "lock_writer"},
     force_serial |-> {"lock_serial"},
     lock_serial |-> {"write_serial"},
     write_serial |-> {"unlock_serial"},
     unlock_serial |-> {"popf"},
     lock_writer |-> {"write_writer"},
     write_writer |-> {"unlock_writer"},
     unlock_writer |-> {"popf"},
     popf |-> {"cli", "hlt_loop"},
     own_port |-> {"force_writer", "hlt_loop"},
     force_writer |-> {"wake", "cli", "own_port", "panic"},
     wake |-> {}, panic |-> {}, hlt_loop |-> {}]

Final == {"popf", "own_port", "wake", "panic", "hlt_loop"}

WriterOps == {"lock_writer", "write_writer", "unlock_writer"}

Chain(s, last) ==
    \A i \in 1 .. Len(s) :
        IF i = Len(s) THEN s[i] \in last ELSE s[i + 1] \in Following[s[i]]

Has(s, op) == \E i \in 1 .. Len(s) : s[i] = op

Only(s, ops) == \A i \in 1 .. Len(s) : s[i] \in ops

(* The writer's lock is taken away at the start, or not at all. *)
ForcesFirst(s) ==
    \A i \in 1 .. Len(s) : s[i] = "force_writer" => i = 1 \/ (i = 2 /\ s[1] = "own_port")

(* Where a frame is. *)
Next1(f, op) == f.todo # <<>> /\ f.todo[1] = op

Masked(f) ==
    /\ f.todo # <<>>
    /\ \/ f.todo[1] \in {"force_serial", "lock_serial", "write_serial", "unlock_serial", "popf"}
       \/ f.todo[1] \in WriterOps /\ ~Backspacing(f)

FrameOK(f) ==
    /\ Backspacing(f) => Only(f.todo, WriterOps) /\ Chain(f.todo, {"unlock_writer"})
    /\ ~Backspacing(f) => Chain(f.todo, Final)
    /\ f.inside = "yes" => f.todo # <<>> /\ f.todo[1] \in {"write_writer", "unlock_writer"}
    /\ f.panicked = "yes" => Has(f.todo, "hlt_loop")
    /\ (f.who = "exception" /\ f.panicked = "no") =>
           Only(f.todo, {"own_port", "force_writer", "hlt_loop", "panic"})
    /\ (f.who = "handler" /\ f.panicked = "no") => ForcesFirst(f.todo)

(* A handler runs on top of main only; the flag it goes back to is on. *)
Placed(f, k) ==
    /\ f.who = "main" <=> k = 1
    /\ f.who = "handler" => k = 2 /\ f.entry = "on"
    /\ k >= 2 => f.saved = "off"
    /\ k >= 3 => f.entry = "off"

Shape ==
    /\ stack \in Seq(Frames) /\ Len(stack) >= 1
    /\ \A k \in 1 .. Len(stack) : FrameOK(stack[k]) /\ Placed(stack[k], k)

Flags ==
    /\ iflag \in OnOff
    /\ Len(stack) > 1 => iflag = "off"
    /\ Masked(stack[1]) => IF Len(stack) = 1 THEN iflag = "off" ELSE stack[2].entry = "off"

PanicAbove(k) == \E j \in 1 .. Len(stack) : j > k /\ stack[j].panicked = "yes"

SerialReady ==
    /\ serial_lock \in {"free", "locked"}
    /\ \A k \in 1 .. Len(stack) :
           Next1(stack[k], "lock_serial") => serial_lock = "free" \/ PanicAbove(k)

WriterOwned ==
    /\ writer_lock \in {"free", "locked"}
    /\ writer_lock = "locked" =>
           \E k \in 1 .. Len(stack) : stack[k].inside = "yes" \/ stack[k].panicked = "yes"

(* Once a handler has taken the writer's lock away it finds it free. *)
WriterReady ==
    \A k \in 1 .. Len(stack) :
        (/\ stack[k].who = "handler" /\ stack[k].panicked = "no"
         /\ Has(stack[k].todo, "lock_writer") /\ ~Has(stack[k].todo, "force_writer"))
            => writer_lock = "free" \/ stack[k].inside = "yes" \/ PanicAbove(k)

OInv ==
    /\ Shape /\ Flags /\ SerialReady /\ WriterOwned /\ WriterReady
    /\ said \in YesNo /\ events \in 0 .. MaxEvents

-----------------------------------------------------------------------------

(* Chains and their parts. *)

(* What is left of a chain after its first operation. *)
LEMMA TailOfChain ==
    ASSUME NEW s \in Seq(Ops), s # <<>>
    PROVE  /\ Head(s) = s[1] /\ s[1] \in Ops
           /\ Tail(s) \in Seq(Ops)
           /\ \A last : Chain(s, last) =>
                  /\ Chain(Tail(s), last)
                  /\ Tail(s) = <<>> => s[1] \in last
                  /\ Tail(s) # <<>> => Tail(s)[1] \in Following[s[1]]
           /\ \A op : Has(Tail(s), op) => Has(s, op)
           /\ \A op : Has(s, op) /\ s[1] # op => Has(Tail(s), op)
           /\ \A ops : Only(s, ops) => Only(Tail(s), ops)
           /\ ForcesFirst(s) => ForcesFirst(Tail(s))
<1>. DEFINE t == Tail(s)
<1>1. /\ t \in Seq(Ops) /\ Len(s) \in Nat /\ Len(s) >= 1 /\ Len(t) = Len(s) - 1
      /\ \A i \in 1 .. Len(t) : t[i] = s[i + 1]
      /\ Head(s) = s[1] /\ s[1] \in Ops
      /\ (t = <<>> <=> Len(s) = 1)
  <2>1. Len(s) \in Nat /\ Len(s) # 0 /\ Head(s) = s[1]  OBVIOUS
  <2>2. s[1] \in Ops  BY <2>1
  <2>3. t \in Seq(Ops) /\ Len(t) = Len(s) - 1  BY <2>1
  <2>4. \A i \in 1 .. Len(t) : t[i] = s[i + 1]  BY <2>1, <2>3
  <2>5. t = <<>> <=> Len(t) = 0  BY Zenon, <2>3, EmptySeq
  <2>. QED  BY <2>1, <2>2, <2>3, <2>4, <2>5
<1>. HIDE DEF t
<1>2. ASSUME NEW last, Chain(s, last)
      PROVE  /\ Chain(t, last)
             /\ t = <<>> => s[1] \in last
             /\ t # <<>> => t[1] \in Following[s[1]]
  <2>1. ASSUME NEW i \in 1 .. Len(t)
        PROVE  IF i = Len(t) THEN t[i] \in last ELSE t[i + 1] \in Following[t[i]]
    <3>1. i + 1 \in 1 .. Len(s) /\ (i + 1 = Len(s) <=> i = Len(t)) /\ t[i] = s[i + 1]
      BY <1>1
    <3>2. i # Len(t) => i + 1 \in 1 .. Len(t) /\ t[i + 1] = s[(i + 1) + 1]
      BY <1>1
    <3>. QED  BY <3>1, <3>2, <1>2 DEF Chain
  <2>2. Chain(t, last)  BY <2>1 DEF Chain
  <2>3. 1 \in 1 .. Len(s)  BY <1>1
  <2>4. IF 1 = Len(s) THEN s[1] \in last ELSE s[1 + 1] \in Following[s[1]]
    BY Zenon, <2>3, <1>2 DEF Chain
  <2>5. t # <<>> => 1 \in 1 .. Len(t) /\ t[1] = s[1 + 1] /\ Len(s) # 1  BY <1>1
  <2>. QED  BY <1>1, <2>2, <2>4, <2>5
<1>3. ASSUME NEW op, Has(t, op) PROVE Has(s, op)
  <2>1. PICK i \in 1 .. Len(t) : t[i] = op  BY <1>3 DEF Has
  <2>2. i + 1 \in 1 .. Len(s) /\ s[i + 1] = op  BY <1>1, <2>1
  <2>. QED  BY <2>2 DEF Has
<1>4. ASSUME NEW op, Has(s, op), s[1] # op PROVE Has(t, op)
  <2>1. PICK i \in 1 .. Len(s) : s[i] = op  BY <1>4 DEF Has
  <2>2. i # 1  BY <1>4, <2>1
  <2>3. i - 1 \in 1 .. Len(t) /\ (i - 1) + 1 = i  BY <1>1, <2>2
  <2>4. t[i - 1] = op  BY <1>1, <2>1, <2>3
  <2>. QED  BY <2>3, <2>4 DEF Has
<1>5. ASSUME NEW ops, Only(s, ops) PROVE Only(t, ops)
  <2>1. ASSUME NEW i \in 1 .. Len(t) PROVE t[i] \in ops
    <3>1. i + 1 \in 1 .. Len(s) /\ t[i] = s[i + 1]  BY <1>1
    <3>. QED  BY <3>1, <1>5 DEF Only
  <2>. QED  BY <2>1 DEF Only
<1>6. ASSUME ForcesFirst(s) PROVE ForcesFirst(t)
  <2>1. ASSUME NEW i \in 1 .. Len(t), t[i] = "force_writer" PROVE i = 1
    <3>1. i + 1 \in 1 .. Len(s) /\ s[i + 1] = "force_writer" /\ i + 1 # 1  BY <1>1, <2>1
    <3>2. i + 1 = 2  BY <3>1, <1>6 DEF ForcesFirst
    <3>. QED  BY <3>2
  <2>. QED  BY <2>1 DEF ForcesFirst
<1>. QED  BY <1>1, <1>2, <1>3, <1>4, <1>5, <1>6 DEF t

(* A program that is a chain from `first` to `final`. *)
Program(s, first, final) ==
    /\ s \in Seq(Ops) /\ Len(s) >= 1
    /\ Chain(s, {final})
    /\ s[1] = first

(* Programs one after the other. *)
LEMMA Sequel ==
    ASSUME NEW s, NEW t, NEW a, NEW b, NEW c, NEW d,
           Program(s, a, b), Program(t, c, d), c \in Following[b]
    PROVE  /\ Program(s \o t, a, d)
           /\ \A op : Has(s \o t, op) <=> Has(s, op) \/ Has(t, op)
<1>. DEFINE u == s \o t
            n == Len(s)
            m == Len(t)
<1>1. /\ s \in Seq(Ops) /\ t \in Seq(Ops) /\ n \in Nat /\ m \in Nat /\ n >= 1 /\ m >= 1
      /\ s[1] = a /\ t[1] = c /\ Chain(s, {b}) /\ Chain(t, {d})
  BY DEF Program
<1>2. /\ u \in Seq(Ops) /\ Len(u) = n + m
      /\ \A i \in 1 .. n : u[i] = s[i]
      /\ \A i \in 1 .. m : u[n + i] = t[i]
  BY <1>1
<1>. HIDE DEF u, n, m
<1>3. ASSUME NEW i \in 1 .. Len(u)
      PROVE  IF i = Len(u) THEN u[i] \in {d} ELSE u[i + 1] \in Following[u[i]]
  <2>1. CASE i < n
    <3>1. i \in 1 .. n /\ i + 1 \in 1 .. n /\ i # n /\ i # Len(u)  BY <1>1, <1>2, <2>1
    <3>2. s[i + 1] \in Following[s[i]]  BY <3>1, <1>1 DEF Chain, n
    <3>. QED  BY <3>1, <3>2, <1>2
  <2>2. CASE i = n
    <3>1. i \in 1 .. n /\ 1 \in 1 .. m /\ i # Len(u)  BY <1>1, <1>2, <2>2
    <3>2. s[i] = b  BY <3>1, <2>2, <1>1 DEF Chain, n
    <3>3. u[i] = b /\ u[i + 1] = c  BY <3>1, <3>2, <1>1, <1>2, <2>2
    <3>. QED  BY <3>1, <3>3
  <2>3. CASE i > n
    <3>. DEFINE j == i - n
    <3>1. /\ j \in 1 .. m /\ i = n + j /\ (i = Len(u) <=> j = m)
          /\ j # m => j + 1 \in 1 .. m /\ i + 1 = n + (j + 1)
      <4>1. i \in Nat /\ i <= n + m /\ n \in Nat /\ m \in Nat  BY <1>1, <1>2
      <4>. QED  BY <1>2, <2>3, <4>1
    <3>. HIDE DEF j
    <3>2. u[i] = t[j] /\ (j # m => u[i + 1] = t[j + 1])  BY <3>1, <1>2
    <3>3. IF j = m THEN t[j] \in {d} ELSE t[j + 1] \in Following[t[j]]
      BY <3>1, <1>1 DEF Chain, m
    <3>. QED  BY <3>1, <3>2, <3>3
  <2>. QED  BY <1>1, <1>2, <2>1, <2>2, <2>3
<1>4. Chain(u, {d})  BY <1>3 DEF Chain
<1>5. u[1] = a /\ Len(u) >= 1
  <2>1. 1 \in 1 .. n  BY <1>1
  <2>. QED  BY <1>1, <1>2, <2>1
<1>6. ASSUME NEW op, Has(u, op) PROVE Has(s, op) \/ Has(t, op)
  <2>1. PICK i \in 1 .. Len(u) : u[i] = op  BY <1>6 DEF Has
  <2>2. CASE i <= n
    <3>1. i \in 1 .. n  BY <1>1, <2>2
    <3>. QED  BY <1>2, <2>1, <3>1 DEF Has, n
  <2>3. CASE i > n
    <3>1. i - n \in 1 .. m /\ n + (i - n) = i  BY <1>1, <1>2, <2>3
    <3>2. t[i - n] = op  BY <1>2, <2>1, <3>1
    <3>. QED  BY <3>1, <3>2 DEF Has, m
  <2>. QED  BY <1>1, <2>2, <2>3
<1>7. ASSUME NEW op, Has(s, op) \/ Has(t, op) PROVE Has(u, op)
  <2>1. CASE Has(s, op)
    <3>1. PICK i \in 1 .. n : s[i] = op  BY <2>1 DEF Has, n
    <3>2. i \in 1 .. Len(u)  BY <1>1, <1>2
    <3>. QED  BY <3>1, <3>2, <1>2 DEF Has
  <2>2. CASE Has(t, op)
    <3>1. PICK i \in 1 .. m : t[i] = op  BY <2>2 DEF Has, m
    <3>2. n + i \in 1 .. Len(u)  BY <1>1, <1>2
    <3>. QED  BY <3>1, <3>2, <1>2 DEF Has
  <2>. QED  BY <1>7, <2>1, <2>2
<1>. QED  BY <1>2, <1>4, <1>5, <1>6, <1>7 DEF Program, u

(* The final operation may be one of several. *)
LEMMA ProgramIsChain ==
    ASSUME NEW s, NEW a, NEW b, Program(s, a, b), NEW last, b \in last
    PROVE  s \in Seq(Ops) /\ s # <<>> /\ s[1] = a /\ Chain(s, last)
<1>1. s \in Seq(Ops) /\ Len(s) >= 1 /\ s[1] = a  BY DEF Program
<1>2. s # <<>>  BY <1>1
<1>3. Chain(s, last)  BY DEF Program, Chain
<1>. QED  BY <1>1, <1>2, <1>3

(* The pieces that calls, handlers and panics are made of. *)
LEMMA Pieces ==
    /\ Program(serial_print, "cli", "popf")
    /\ Program(vga_print, "cli", "popf")
    /\ Program(backspace, "lock_writer", "unlock_writer") /\ Only(backspace, WriterOps)
    /\ Program(interrupt_begin, "own_port", "force_writer")
    /\ \A op \in {"hlt_loop", "wake", "panic", "own_port"} : Program(<<op>>, op, op)
    /\ ~Has(serial_print, "lock_writer")
    /\ ~Has(serial_print, "force_writer") /\ ~Has(vga_print, "force_writer")
    /\ Has(interrupt_begin, "force_writer")
<1>1. /\ Program(serial_print, "cli", "popf")
      /\ ~Has(serial_print, "lock_writer") /\ ~Has(serial_print, "force_writer")
  <2>1. serial_print \in Seq(Ops) /\ Len(serial_print) = 6 /\ serial_print[1] = "cli"
    BY DEF serial_print, Ops
  <2>2. ASSUME NEW i \in 1 .. 6
        PROVE  /\ serial_print[i] \notin {"lock_writer", "force_writer"}
               /\ IF i = 6 THEN serial_print[i] \in {"popf"}
                           ELSE serial_print[i + 1] \in Following[serial_print[i]]
    <3>1. i = 1 \/ i = 2 \/ i = 3 \/ i = 4 \/ i = 5 \/ i = 6  OBVIOUS
    <3>. QED  BY <3>1 DEF serial_print, Following
  <2>. QED  BY <2>1, <2>2 DEF Program, Chain, Has
<1>2. Program(vga_print, "cli", "popf") /\ ~Has(vga_print, "force_writer")
  <2>1. vga_print \in Seq(Ops) /\ Len(vga_print) = 5 /\ vga_print[1] = "cli"
    BY DEF vga_print, Ops
  <2>2. ASSUME NEW i \in 1 .. 5
        PROVE  /\ vga_print[i] # "force_writer"
               /\ IF i = 5 THEN vga_print[i] \in {"popf"}
                           ELSE vga_print[i + 1] \in Following[vga_print[i]]
    <3>1. i = 1 \/ i = 2 \/ i = 3 \/ i = 4 \/ i = 5  OBVIOUS
    <3>. QED  BY <3>1 DEF vga_print, Following
  <2>. QED  BY <2>1, <2>2 DEF Program, Chain, Has
<1>3. Program(backspace, "lock_writer", "unlock_writer") /\ Only(backspace, WriterOps)
  <2>1. backspace \in Seq(Ops) /\ Len(backspace) = 3 /\ backspace[1] = "lock_writer"
    BY DEF backspace, Ops
  <2>2. ASSUME NEW i \in 1 .. 3
        PROVE  /\ backspace[i] \in WriterOps
               /\ IF i = 3 THEN backspace[i] \in {"unlock_writer"}
                           ELSE backspace[i + 1] \in Following[backspace[i]]
    <3>1. i = 1 \/ i = 2 \/ i = 3  OBVIOUS
    <3>. QED  BY <3>1 DEF backspace, Following, WriterOps
  <2>. QED  BY <2>1, <2>2 DEF Program, Chain, Only
<1>4. Program(interrupt_begin, "own_port", "force_writer") /\ Has(interrupt_begin, "force_writer")
  <2>1. /\ interrupt_begin \in Seq(Ops) /\ Len(interrupt_begin) = 2
        /\ interrupt_begin[1] = "own_port" /\ interrupt_begin[2] = "force_writer"
    BY DEF interrupt_begin, Ops
  <2>2. ASSUME NEW i \in 1 .. 2
        PROVE  IF i = 2 THEN interrupt_begin[i] \in {"force_writer"}
                        ELSE interrupt_begin[i + 1] \in Following[interrupt_begin[i]]
    <3>1. i = 1 \/ i = 2  OBVIOUS
    <3>. QED  BY <2>1, <3>1 DEF Following
  <2>3. 2 \in 1 .. Len(interrupt_begin)  BY <2>1
  <2>. QED  BY <2>1, <2>2, <2>3 DEF Program, Chain, Has
<1>5. ASSUME NEW op \in {"hlt_loop", "wake", "panic", "own_port"} PROVE Program(<<op>>, op, op)
  <2>1. <<op>> \in Seq(Ops) /\ Len(<<op>>) = 1 /\ <<op>>[1] = op  BY DEF Ops
  <2>. QED  BY <2>1 DEF Program, Chain
<1>. QED  BY <1>1, <1>2, <1>3, <1>4, <1>5

(* A log is one print, or two. *)
LEMMA Logs ==
    /\ log("Trace") = serial_print
    /\ \A level \in {"Info", "Warn", "Error"} : log(level) = serial_print \o vga_print
    /\ \A level \in {"Trace", "Info", "Warn", "Error"} :
           Program(log(level), "cli", "popf") /\ ~Has(log(level), "force_writer")
<1>1. serial_print \in Seq(Ops)  BY Pieces DEF Program
<1>2. log("Trace") = serial_print  BY <1>1 DEF log
<1>3. \A level \in {"Info", "Warn", "Error"} : log(level) = serial_print \o vga_print
  BY DEF log
<1>4. /\ Program(serial_print \o vga_print, "cli", "popf")
      /\ ~Has(serial_print \o vga_print, "force_writer")
  <2>1. "cli" \in Following["popf"]  BY DEF Following
  <2>2. Program(serial_print, "cli", "popf") /\ Program(vga_print, "cli", "popf")  BY Pieces
  <2>3. /\ Program(serial_print \o vga_print, "cli", "popf")
        /\ \A op : Has(serial_print \o vga_print, op) <=>
                     Has(serial_print, op) \/ Has(vga_print, op)
    BY <2>1, <2>2, Sequel
  <2>. QED  BY <2>3, Pieces
<1>. QED  BY Zenon, <1>2, <1>3, <1>4, Pieces

(* The panic handler ends in hlt_loop. *)
LEMMA PanicProgram ==
    Program(panic, "cli", "hlt_loop") /\ Has(panic, "hlt_loop")
<1>1. "hlt_loop" \in Following["popf"]  BY DEF Following
<1>2. Program(<<"hlt_loop">>, "hlt_loop", "hlt_loop")  BY Pieces
<1>3. Program(log("Error"), "cli", "popf")  BY Logs
<1>4. Has(<<"hlt_loop">>, "hlt_loop")
  <2>1. 1 \in 1 .. Len(<<"hlt_loop">>) /\ <<"hlt_loop">>[1] = "hlt_loop"  OBVIOUS
  <2>. QED  BY <2>1 DEF Has
<1>. QED  BY Zenon, <1>1, <1>2, <1>3, <1>4, Sequel DEF panic

(* What interrupt_begin comes before takes no lock away. *)
LEMMA BeginForcesFirst ==
    ASSUME NEW t \in Seq(Ops), ~Has(t, "force_writer")
    PROVE  ForcesFirst(interrupt_begin \o t)
<1>. DEFINE u == interrupt_begin \o t
<1>1. /\ interrupt_begin \in Seq(Ops) /\ Len(interrupt_begin) = 2
      /\ interrupt_begin[1] = "own_port" /\ Len(t) \in Nat
  BY DEF interrupt_begin, Ops
<1>2. /\ Len(u) = 2 + Len(t) /\ u[1] = "own_port"
      /\ \A i \in 1 .. Len(t) : u[2 + i] = t[i]
  <2>1. /\ Len(u) = Len(interrupt_begin) + Len(t)
        /\ \A i \in 1 .. Len(interrupt_begin) + Len(t) :
               u[i] = IF i <= Len(interrupt_begin) THEN interrupt_begin[i]
                      ELSE t[i - Len(interrupt_begin)]
    BY Zenon, <1>1, ConcatProperties
  <2>2. 1 \in 1 .. 2 + Len(t) /\ 1 <= 2  BY <1>1
  <2>3. ASSUME NEW i \in 1 .. Len(t) PROVE u[2 + i] = t[i]
    <3>1. 2 + i \in 1 .. 2 + Len(t) /\ ~(2 + i <= 2) /\ (2 + i) - 2 = i  BY <1>1
    <3>. QED  BY <1>1, <2>1, <3>1
  <2>. QED  BY <1>1, <2>1, <2>2, <2>3
<1>. HIDE DEF u
<1>3. ASSUME NEW i \in 1 .. Len(u), u[i] = "force_writer", i > 2 PROVE FALSE
  <2>1. i - 2 \in 1 .. Len(t) /\ 2 + (i - 2) = i  BY <1>1, <1>2, <1>3
  <2>2. t[i - 2] = "force_writer"  BY <1>2, <1>3, <2>1
  <2>. QED  BY <2>1, <2>2 DEF Has
<1>4. \A i \in 1 .. Len(u) : i > 2 \/ i = 1 \/ i = 2  BY <1>1, <1>2
<1>. QED  BY <1>2, <1>3, <1>4 DEF ForcesFirst, u

(* Handlers that print on the screen take the writer's lock away first. *)
LEMMA HandlerPrograms ==
    ASSUME NEW ops \in Handlers
    PROVE  /\ ops \in Seq(Ops) /\ Chain(ops, Final)
           /\ Has(ops, "lock_writer") => Has(ops, "force_writer")
           /\ ForcesFirst(ops)
           /\ ops # <<>> /\ ops[1] \in {"own_port", "cli"}
<1>1. CASE ops = interrupt_begin \o <<"wake">>
  <2>1. "wake" \in Following["force_writer"] /\ "wake" \in Final  BY DEF Following, Final
  <2>2. Program(<<"wake">>, "wake", "wake")  BY Pieces
  <2>3. Program(ops, "own_port", "wake") /\ Has(ops, "force_writer")
    BY Zenon, <1>1, <2>1, <2>2, Pieces, Sequel
  <2>4. <<"wake">> \in Seq(Ops) /\ ~Has(<<"wake">>, "force_writer")  BY DEF Ops, Has
  <2>5. ForcesFirst(ops)  BY Zenon, <1>1, <2>4, BeginForcesFirst
  <2>. QED  BY <2>1, <2>3, <2>5, ProgramIsChain
<1>2. CASE ops = interrupt_begin \o log("Warn")
  <2>1. "cli" \in Following["force_writer"] /\ "popf" \in Final  BY DEF Following, Final
  <2>2. Program(log("Warn"), "cli", "popf") /\ ~Has(log("Warn"), "force_writer")  BY Logs
  <2>3. Program(ops, "own_port", "popf") /\ Has(ops, "force_writer")
    BY Zenon, <1>2, <2>1, <2>2, Pieces, Sequel
  <2>4. ForcesFirst(ops)  BY <1>2, <2>2, BeginForcesFirst DEF Program
  <2>. QED  BY <2>1, <2>3, <2>4, ProgramIsChain
<1>3. CASE ops = log("Trace")
  <2>1. "popf" \in Final  BY DEF Final
  <2>2. /\ Program(ops, "cli", "popf")
        /\ ~Has(ops, "lock_writer") /\ ~Has(ops, "force_writer")
    BY <1>3, Logs, Pieces
  <2>3. ForcesFirst(ops)  BY <2>2 DEF ForcesFirst, Has
  <2>. QED  BY <2>1, <2>2, <2>3, ProgramIsChain
<1>. QED  BY <1>1, <1>2, <1>3 DEF Handlers, KeyboardHandler, SpuriousHandler

(* Exceptions take no lock unless they panic. *)
LEMMA ExceptionPrograms ==
    ASSUME NEW ops \in Exceptions
    PROVE  /\ ops \in Seq(Ops) /\ Chain(ops, Final) /\ ops # <<>> /\ ops[1] = "own_port"
           /\ Only(ops, {"own_port", "force_writer", "hlt_loop", "panic"})
<1>. DEFINE quiet == {"own_port", "force_writer", "hlt_loop", "panic"}
<1>1. \A op : Has(interrupt_begin, op) => op \in quiet
  <2>1. ASSUME NEW i \in 1 .. 2 PROVE interrupt_begin[i] \in quiet
    <3>1. i = 1 \/ i = 2  OBVIOUS
    <3>. QED  BY <3>1 DEF interrupt_begin
  <2>2. Len(interrupt_begin) = 2  BY DEF interrupt_begin
  <2>. QED  BY <2>1, <2>2 DEF Has
<1>2. ASSUME NEW rest, NEW a \in Following["force_writer"], NEW b \in Final,
             Program(rest, a, b), \A op : Has(rest, op) => op \in quiet,
             ops = interrupt_begin \o rest
      PROVE  /\ ops \in Seq(Ops) /\ Chain(ops, Final) /\ ops # <<>> /\ ops[1] = "own_port"
             /\ Only(ops, quiet)
  <2>1. Program(ops, "own_port", b)
        /\ \A op : Has(ops, op) <=> Has(interrupt_begin, op) \/ Has(rest, op)
    BY Zenon, <1>2, Pieces, Sequel
  <2>2. \A op : Has(ops, op) => op \in quiet  BY <1>1, <1>2, <2>1
  <2>3. Only(ops, quiet)  BY <2>2 DEF Only, Has
  <2>. QED  BY <2>1, <2>3, ProgramIsChain
<1>. HIDE DEF quiet
<1>3. "own_port" \in Following["force_writer"] /\ "panic" \in Following["force_writer"]
      /\ "own_port" \in Final /\ "panic" \in Final /\ "hlt_loop" \in Final
  BY DEF Following, Final
<1>4. ASSUME NEW op \in quiet, NEW o, Has(<<op>>, o) PROVE o \in quiet
  BY <1>4 DEF Has
<1>5. CASE ops = ReturningException
  <2>1. Program(<<"own_port">>, "own_port", "own_port")  BY Pieces
  <2>2. \A o : Has(<<"own_port">>, o) => o \in quiet  BY <1>4 DEF quiet
  <2>. QED  BY Zenon, <1>2, <1>3, <1>5, <2>1, <2>2 DEF ReturningException, quiet
<1>6. CASE ops = PanickingException
  <2>1. Program(<<"panic">>, "panic", "panic")  BY Pieces
  <2>2. \A o : Has(<<"panic">>, o) => o \in quiet  BY <1>4 DEF quiet
  <2>. QED  BY Zenon, <1>2, <1>3, <1>6, <2>1, <2>2 DEF PanickingException, quiet
<1>7. CASE ops = HaltingException
  <2>. DEFINE rest == <<"own_port", "hlt_loop">>
  <2>1. rest \in Seq(Ops) /\ Len(rest) = 2 /\ rest[1] = "own_port" /\ rest[2] = "hlt_loop"
    BY DEF Ops
  <2>. HIDE DEF rest
  <2>2. ASSUME NEW i \in 1 .. 2
        PROVE  /\ rest[i] \in quiet
               /\ IF i = 2 THEN rest[i] \in {"hlt_loop"} ELSE rest[i + 1] \in Following[rest[i]]
    <3>1. i = 1 \/ i = 2  OBVIOUS
    <3>. QED  BY <2>1, <3>1 DEF Following, quiet
  <2>3. Program(rest, "own_port", "hlt_loop")  BY <2>1, <2>2 DEF Program, Chain
  <2>4. \A o : Has(rest, o) => o \in quiet  BY <2>1, <2>2 DEF Has
  <2>. QED  BY Zenon, <1>2, <1>3, <1>7, <2>3, <2>4 DEF HaltingException, quiet, rest
<1>. QED  BY <1>5, <1>6, <1>7 DEF Exceptions

-----------------------------------------------------------------------------

(* The stack. *)

(* There is one frame, or there are more. *)
LEMMA OneOrMore == \A n \in Nat : n >= 1 => n = 1 \/ n > 1
OBVIOUS

(* Replacing the running frame leaves the others. *)
LEMMA TopReplaced ==
    ASSUME Shape, NEW f \in Frames, stack' = WithTop(f)
    PROVE  /\ stack' \in Seq(Frames) /\ Len(stack') = Len(stack)
           /\ \A k \in 1 .. Len(stack) : stack'[k] = IF k = Len(stack) THEN f ELSE stack[k]
           /\ stack'[Len(stack)] = f
           /\ Len(stack) \in Nat /\ Len(stack) >= 1 /\ Len(stack) \in 1 .. Len(stack)
<1>1. stack \in Seq(Frames) /\ Len(stack) \in Nat /\ Len(stack) >= 1  BY DEF Shape
<1>2. Len(stack) \in 1 .. Len(stack)  BY <1>1
<1>. QED  BY <1>1, <1>2, ExceptSeq DEF WithTop

(* The running frame, and where it may be. *)
LEMMA TopFacts ==
    ASSUME Shape
    PROVE  /\ Top \in Frames /\ FrameOK(Top) /\ Placed(Top, Len(stack))
           /\ Len(stack) \in Nat /\ Len(stack) >= 1 /\ Len(stack) \in 1 .. Len(stack)
           /\ Top = stack[Len(stack)]
           /\ Top.todo \in Seq(Ops)
<1>1. stack \in Seq(Frames) /\ Len(stack) \in Nat /\ Len(stack) >= 1  BY DEF Shape
<1>2. Len(stack) \in 1 .. Len(stack)  BY <1>1
<1>3. Top \in Frames  BY <1>1, <1>2 DEF Top
<1>4. Top.todo \in Seq(Ops)  BY <1>3 DEF Frames
<1>. QED  BY <1>1, <1>2, <1>3, <1>4 DEF Shape, Top

(* A frame that panicked is still there when another one is replaced by    *)
(* its successor.                                                          *)
LEMMA PanicStays ==
    ASSUME Shape, NEW f \in Frames, stack' = WithTop(f),
           Top.panicked = "yes" => f.panicked = "yes"
    PROVE  \A k \in 1 .. Len(stack) : PanicAbove(k) => PanicAbove(k)'
<1>1. SUFFICES ASSUME NEW k \in 1 .. Len(stack), PanicAbove(k) PROVE PanicAbove(k)'
  OBVIOUS
<1>2. PICK j \in 1 .. Len(stack) : j > k /\ stack[j].panicked = "yes"
  BY <1>1 DEF PanicAbove
<1>3. stack'[j].panicked = "yes" /\ j \in 1 .. Len(stack')
  BY <1>2, TopReplaced DEF Top
<1>. QED  BY <1>2, <1>3 DEF PanicAbove

(* Only main and the handler on top of it take locks without a panic. *)
LEMMA WhoTakesLocks ==
    ASSUME Shape, Flags, Top.panicked = "no", Top.todo # <<>>,
           Top.todo[1] \notin {"own_port", "force_writer", "hlt_loop", "panic"}
    PROVE  \/ Len(stack) = 1
           \/ Len(stack) = 2 /\ Top.who = "handler" /\ ~Masked(stack[1])
<1>1. /\ Top \in Frames /\ FrameOK(Top) /\ Placed(Top, Len(stack)) /\ Top = stack[Len(stack)]
      /\ Len(stack) \in Nat /\ Len(stack) >= 1 /\ Top.todo \in Seq(Ops)
  BY TopFacts
<1>2. Top.who # "exception"
  <2>1. 1 \in 1 .. Len(Top.todo)  BY <1>1
  <2>. QED  BY <1>1, <2>1 DEF FrameOK, Only
<1>3. Top.who = "main" => Len(stack) = 1  BY <1>1 DEF Placed
<1>4. Top.who = "handler" => Len(stack) = 2 /\ ~Masked(stack[1])
  BY Zenon, <1>1 DEF Placed, Flags
<1>5. Top.who \in {"main", "handler", "exception"}  BY <1>1 DEF Frames
<1>. QED  BY <1>2, <1>3, <1>4, <1>5

(* What one operation of the running frame does to the flag and the locks. *)
Effect(op, f) ==
    /\ op \in Ops \ {"hlt_loop", "panic"}
    /\ At(op)
    /\ stack' = WithTop(f)
    /\ f = [Top EXCEPT !.todo = Tail(Top.todo),
                       !.saved = IF op = "cli" THEN iflag ELSE @,
                       !.inside = IF op = "lock_writer" THEN "yes"
                                  ELSE IF op = "unlock_writer" THEN "no" ELSE @]
    /\ iflag' = IF op = "cli" THEN "off" ELSE IF op = "popf" THEN Top.saved ELSE iflag
    /\ serial_lock' = IF op \in {"force_serial", "unlock_serial"} THEN "free"
                 ELSE IF op = "lock_serial" THEN "locked" ELSE serial_lock
    /\ writer_lock' = IF op \in {"force_writer", "unlock_writer"} THEN "free"
                 ELSE IF op = "lock_writer" THEN "locked" ELSE writer_lock

(* What the running frame is after it. *)
LEMMA EffectOnTop ==
    ASSUME Shape, Flags, NEW op, NEW f, Effect(op, f)
    PROVE  /\ f \in Frames /\ f.who = Top.who /\ f.call = Top.call /\ f.entry = Top.entry
           /\ f.panicked = Top.panicked /\ f.todo = Tail(Top.todo)
           /\ f.saved = IF op = "cli" THEN iflag ELSE Top.saved
           /\ f.inside = IF op = "lock_writer" THEN "yes"
                         ELSE IF op = "unlock_writer" THEN "no" ELSE Top.inside
           /\ Top.todo # <<>> /\ Top.todo[1] = op
           /\ f.todo # <<>> => f.todo[1] \in Following[op]
           /\ f.todo = <<>> => op \in Final \cup {"unlock_writer"}
           /\ Backspacing(Top) => op \in WriterOps
           /\ (Backspacing(f) <=> Backspacing(Top))
<1>1. /\ Top \in Frames /\ FrameOK(Top) /\ Top.todo \in Seq(Ops)
  BY TopFacts
<1>2. Top.todo # <<>> /\ Head(Top.todo) = op  BY DEF Effect, At
<1>3. Top.todo[1] = op /\ Tail(Top.todo) \in Seq(Ops)  BY <1>1, <1>2, TailOfChain
<1>4. f \in Frames  BY Zenon, <1>1, <1>3 DEF Effect, Frames, Flags, OnOff, YesNo
<1>5. /\ f.who = Top.who /\ f.call = Top.call /\ f.entry = Top.entry
      /\ f.panicked = Top.panicked /\ f.todo = Tail(Top.todo)
      /\ f.saved = IF op = "cli" THEN iflag ELSE Top.saved
      /\ f.inside = IF op = "lock_writer" THEN "yes"
                    ELSE IF op = "unlock_writer" THEN "no" ELSE Top.inside
  BY <1>1 DEF Effect, Frames
<1>6. Chain(Top.todo, Final) \/ Chain(Top.todo, {"unlock_writer"})  BY <1>1 DEF FrameOK
<1>7. /\ f.todo # <<>> => f.todo[1] \in Following[op]
      /\ f.todo = <<>> => op \in Final \cup {"unlock_writer"}
  BY <1>1, <1>2, <1>3, <1>5, <1>6, TailOfChain
<1>8. Backspacing(Top) => op \in WriterOps
  <2>1. 1 \in 1 .. Len(Top.todo)  BY <1>1, <1>2
  <2>. QED  BY <1>1, <1>3, <2>1 DEF FrameOK, Only
<1>9. Backspacing(f) <=> Backspacing(Top)  BY <1>5 DEF Backspacing
<1>. QED  BY <1>2, <1>3, <1>4, <1>5, <1>7, <1>8, <1>9

(* An operation keeps the frames in shape. *)
LEMMA EffectKeepsShape ==
    ASSUME Shape, Flags, NEW op, NEW f, Effect(op, f)
    PROVE  Shape'
<1>1. /\ f \in Frames /\ f.who = Top.who /\ f.call = Top.call /\ f.entry = Top.entry
      /\ f.panicked = Top.panicked /\ f.todo = Tail(Top.todo)
      /\ f.saved = IF op = "cli" THEN iflag ELSE Top.saved
      /\ f.inside = IF op = "lock_writer" THEN "yes"
                    ELSE IF op = "unlock_writer" THEN "no" ELSE Top.inside
      /\ Top.todo # <<>> /\ Top.todo[1] = op
      /\ f.todo # <<>> => f.todo[1] \in Following[op]
      /\ f.todo = <<>> => op \in Final \cup {"unlock_writer"}
      /\ (Backspacing(f) <=> Backspacing(Top))
  BY EffectOnTop
<1>2. /\ Top \in Frames /\ FrameOK(Top) /\ Placed(Top, Len(stack))
      /\ Top.todo \in Seq(Ops) /\ Len(stack) \in Nat
  BY TopFacts
<1>3. stack' = WithTop(f) /\ op \in Ops \ {"hlt_loop", "panic"}  BY DEF Effect
<1>4. Backspacing(f) => Only(f.todo, WriterOps) /\ Chain(f.todo, {"unlock_writer"})
  BY <1>1, <1>2, TailOfChain DEF FrameOK
<1>5. ~Backspacing(f) => Chain(f.todo, Final)  BY <1>1, <1>2, TailOfChain DEF FrameOK
<1>6. f.inside = "yes" => f.todo # <<>> /\ f.todo[1] \in {"write_writer", "unlock_writer"}
  <2>. SUFFICES ASSUME f.inside = "yes"
                PROVE  f.todo # <<>> /\ f.todo[1] \in {"write_writer", "unlock_writer"}
    OBVIOUS
  <2>1. op = "lock_writer" \/ op = "write_writer"  BY <1>1, <1>2 DEF FrameOK
  <2>. QED  BY <1>1, <2>1 DEF Following, Final
<1>7. f.panicked = "yes" => Has(f.todo, "hlt_loop")
  BY <1>1, <1>2, <1>3, TailOfChain DEF FrameOK
<1>8. (f.who = "exception" /\ f.panicked = "no") =>
           Only(f.todo, {"own_port", "force_writer", "hlt_loop", "panic"})
  BY <1>1, <1>2, TailOfChain DEF FrameOK
<1>9. (f.who = "handler" /\ f.panicked = "no") => ForcesFirst(f.todo)
  BY <1>1, <1>2, TailOfChain DEF FrameOK
<1>10. FrameOK(f)  BY <1>4, <1>5, <1>6, <1>7, <1>8, <1>9 DEF FrameOK
<1>11. Placed(f, Len(stack))
  <2>1. Len(stack) >= 2 => iflag = "off"  BY <1>2 DEF Flags
  <2>2. f.who = Top.who /\ f.entry = Top.entry /\ (f.saved = iflag \/ f.saved = Top.saved)
    BY <1>1
  <2>3. Placed(Top, Len(stack))  BY <1>2
  <2>. QED  BY <2>1, <2>2, <2>3 DEF Placed
<1>12. /\ stack' \in Seq(Frames) /\ Len(stack') = Len(stack) /\ Len(stack) >= 1
       /\ \A k \in 1 .. Len(stack) : stack'[k] = IF k = Len(stack) THEN f ELSE stack[k]
  BY <1>1, <1>3, TopReplaced
<1>13. \A k \in 1 .. Len(stack) : FrameOK(stack[k]) /\ Placed(stack[k], k)  BY DEF Shape
<1>14. \A k \in 1 .. Len(stack) : FrameOK(stack'[k]) /\ Placed(stack'[k], k)
  BY Zenon, <1>10, <1>11, <1>12, <1>13
<1>. QED  BY <1>12, <1>14 DEF Shape

(* An operation of main leaves interrupts off until popf. *)
LEMMA EffectKeepsFlags ==
    ASSUME Shape, Flags, NEW op, NEW f, Effect(op, f)
    PROVE  Flags'
<1>1. /\ f \in Frames /\ f.panicked = Top.panicked /\ f.todo = Tail(Top.todo)
      /\ Top.todo # <<>> /\ Top.todo[1] = op
      /\ f.todo # <<>> => f.todo[1] \in Following[op]
      /\ Backspacing(Top) => op \in WriterOps
      /\ (Backspacing(f) <=> Backspacing(Top))
      /\ f.entry = Top.entry
  BY EffectOnTop
<1>2. /\ Top \in Frames /\ FrameOK(Top) /\ Placed(Top, Len(stack)) /\ Top = stack[Len(stack)]
      /\ Len(stack) \in Nat /\ Len(stack) >= 1 /\ Top.todo \in Seq(Ops)
  BY TopFacts
<1>3. /\ stack' = WithTop(f) /\ op \in Ops \ {"hlt_loop", "panic"}
      /\ iflag' = IF op = "cli" THEN "off" ELSE IF op = "popf" THEN Top.saved ELSE iflag
  BY DEF Effect
<1>4. Len(stack') = Len(stack)
      /\ \A k \in 1 .. Len(stack) : stack'[k] = IF k = Len(stack) THEN f ELSE stack[k]
  BY <1>1, <1>3, TopReplaced
<1>5. iflag' \in OnOff /\ (Len(stack') > 1 => iflag' = "off")
  BY <1>2, <1>3, <1>4 DEF Flags, Frames, Placed, OnOff
<1>6. CASE Len(stack) = 1
  <2>1. stack'[1] = f /\ stack[1] = Top  BY <1>2, <1>4, <1>6
  <2>2. Masked(f) /\ op # "cli" => Masked(Top) /\ op # "popf"
    <3>. SUFFICES ASSUME f.todo # <<>>, Masked(f), op # "cli"
                  PROVE  Masked(Top) /\ op # "popf"
      BY DEF Masked
    <3>1. CASE f.todo[1] \in {"force_serial", "lock_serial", "write_serial", "unlock_serial"}
      <4>1. op \in {"force_serial", "lock_serial", "write_serial"}
        BY <1>1, <1>3, <3>1 DEF Following, Ops
      <4>. QED  BY <1>1, <4>1 DEF Masked
    <3>2. CASE f.todo[1] = "popf"
      <4>1. op \in {"unlock_serial", "unlock_writer"}  BY <1>1, <1>3, <3>2 DEF Following, Ops
      <4>2. ~Backspacing(Top)
        <5>1. f.todo[1] \in WriterOps \/ ~Backspacing(f)
          <6>1. Backspacing(f) => Only(f.todo, WriterOps)
            BY <1>1, <1>2, TailOfChain DEF FrameOK
          <6>2. 1 \in 1 .. Len(f.todo)  BY <1>1 DEF Frames
          <6>. QED  BY <6>1, <6>2 DEF Only
        <5>. QED  BY <1>1, <3>2, <5>1 DEF WriterOps
      <4>. QED  BY <1>1, <4>1, <4>2 DEF Masked, WriterOps
    <3>3. CASE f.todo[1] \in WriterOps /\ ~Backspacing(f)
      <4>1. op \in WriterOps  BY <1>1, <1>3, <3>3 DEF Following, Ops, WriterOps
      <4>. QED  BY <1>1, <3>3, <4>1 DEF Masked, WriterOps
    <3>. QED  BY <3>1, <3>2, <3>3 DEF Masked
  <2>3. Masked(f) => iflag' = "off"  BY <1>3, <1>6, <2>1, <2>2 DEF Flags
  <2>. QED  BY <1>4, <1>5, <1>6, <2>1, <2>3 DEF Flags
<1>7. CASE Len(stack) > 1
  <2>1. stack'[1] = stack[1] /\ stack'[2].entry = stack[2].entry  BY <1>1, <1>2, <1>4, <1>7
  <2>. QED  BY <1>2, <1>4, <1>5, <1>7, <2>1 DEF Flags, Masked, Backspacing
<1>8. Len(stack) = 1 \/ Len(stack) > 1  BY <1>2, OneOrMore, Zenon
<1>. QED  BY <1>6, <1>7, <1>8

(* The serial lock is free for whoever is about to take it. *)
LEMMA EffectKeepsSerial ==
    ASSUME Shape, Flags, SerialReady, NEW op, NEW f, Effect(op, f)
    PROVE  SerialReady'
<1>1. /\ f \in Frames /\ f.panicked = Top.panicked
      /\ Top.todo # <<>> /\ Top.todo[1] = op
      /\ f.todo # <<>> => f.todo[1] \in Following[op]
  BY EffectOnTop
<1>2. /\ Top \in Frames /\ Top = stack[Len(stack)]
      /\ Len(stack) \in Nat /\ Len(stack) >= 1
  BY TopFacts
<1>3. /\ stack' = WithTop(f) /\ op \in Ops \ {"hlt_loop", "panic"}
      /\ serial_lock' = IF op \in {"force_serial", "unlock_serial"} THEN "free"
                   ELSE IF op = "lock_serial" THEN "locked" ELSE serial_lock
  BY DEF Effect
<1>4. Len(stack') = Len(stack)
      /\ \A k \in 1 .. Len(stack) : stack'[k] = IF k = Len(stack) THEN f ELSE stack[k]
  BY <1>1, <1>3, TopReplaced
<1>5. \A k \in 1 .. Len(stack) : PanicAbove(k) => PanicAbove(k)'
  BY <1>1, <1>3, PanicStays
<1>6. ASSUME NEW k \in 1 .. Len(stack), Next1(stack'[k], "lock_serial")
      PROVE  serial_lock' = "free" \/ PanicAbove(k)'
  <2>1. CASE k = Len(stack)
    <3>1. f.todo # <<>> /\ f.todo[1] = "lock_serial"  BY <1>4, <1>6, <2>1 DEF Next1
    <3>2. op = "force_serial"  BY <1>1, <1>3, <3>1 DEF Following, Ops
    <3>. QED  BY <1>3, <3>2
  <2>2. CASE k # Len(stack)
    <3>1. Next1(stack[k], "lock_serial")  BY <1>4, <1>6, <2>2
    <3>2. CASE op # "lock_serial"
      BY <1>3, <1>5, <3>1, <3>2 DEF SerialReady
    <3>3. CASE op = "lock_serial" /\ Top.panicked = "yes"
      <4>1. Len(stack) > k /\ Len(stack) \in 1 .. Len(stack') /\ stack'[Len(stack)].panicked = "yes"
        BY <1>1, <1>2, <1>4, <2>2, <3>3
      <4>. QED  BY <4>1 DEF PanicAbove
    <3>4. CASE op = "lock_serial" /\ Top.panicked # "yes"
      <4>1. Top.panicked = "no"  BY <1>2, <3>4 DEF Frames, YesNo
      <4>2. Len(stack) = 2 /\ ~Masked(stack[1])
        BY <1>1, <1>2, <2>2, <3>4, <4>1, WhoTakesLocks
      <4>3. k = 1  BY <2>2, <4>2
      <4>. QED  BY <3>1, <4>2, <4>3 DEF Next1, Masked
    <3>. QED  BY <3>2, <3>3, <3>4
  <2>. QED  BY <2>1, <2>2
<1>. QED  BY <1>3, <1>4, <1>6 DEF SerialReady

(* A locked writer has a frame inside, or a panic left it locked; and a    *)
(* handler that took its lock away finds it free.                          *)
LEMMA EffectKeepsWriter ==
    ASSUME Shape, Flags, WriterOwned, WriterReady, NEW op, NEW f, Effect(op, f)
    PROVE  WriterOwned' /\ WriterReady'
<1>1. /\ f \in Frames /\ f.who = Top.who /\ f.panicked = Top.panicked
      /\ f.todo = Tail(Top.todo)
      /\ f.inside = IF op = "lock_writer" THEN "yes"
                    ELSE IF op = "unlock_writer" THEN "no" ELSE Top.inside
      /\ Top.todo # <<>> /\ Top.todo[1] = op
  BY EffectOnTop
<1>2. /\ Top \in Frames /\ Top = stack[Len(stack)] /\ Top.todo \in Seq(Ops)
      /\ Len(stack) \in Nat /\ Len(stack) >= 1 /\ Len(stack) \in 1 .. Len(stack)
      /\ Placed(Top, Len(stack))
  BY TopFacts
<1>3. /\ stack' = WithTop(f) /\ op \in Ops \ {"hlt_loop", "panic"}
      /\ writer_lock' = IF op \in {"force_writer", "unlock_writer"} THEN "free"
                   ELSE IF op = "lock_writer" THEN "locked" ELSE writer_lock
  BY DEF Effect
<1>4. Len(stack') = Len(stack)
      /\ \A k \in 1 .. Len(stack) : stack'[k] = IF k = Len(stack) THEN f ELSE stack[k]
  BY <1>1, <1>3, TopReplaced
<1>5. \A k \in 1 .. Len(stack) : PanicAbove(k) => PanicAbove(k)'
  BY <1>1, <1>3, PanicStays
<1>6. WriterOwned'
  <2>1. writer_lock' \in {"free", "locked"}  BY <1>3 DEF WriterOwned
  <2>2. ASSUME writer_lock' = "locked"
        PROVE  \E k \in 1 .. Len(stack') : stack'[k].inside = "yes" \/ stack'[k].panicked = "yes"
    <3>1. CASE op = "lock_writer"  BY <1>1, <1>2, <1>4, <3>1
    <3>2. CASE op # "lock_writer"
      <4>1. writer_lock = "locked" /\ op # "unlock_writer"  BY <1>3, <2>2, <3>2
      <4>2. PICK k \in 1 .. Len(stack) : stack[k].inside = "yes" \/ stack[k].panicked = "yes"
        BY <4>1 DEF WriterOwned
      <4>3. stack'[k].inside = stack[k].inside /\ stack'[k].panicked = stack[k].panicked
        BY <1>1, <1>2, <1>4, <3>2, <4>1
      <4>. QED  BY <1>4, <4>2, <4>3
    <3>. QED  BY <3>1, <3>2
  <2>. QED  BY <2>1, <2>2 DEF WriterOwned
<1>7. WriterReady'
  <2>1. ASSUME NEW k \in 1 .. Len(stack),
               stack'[k].who = "handler", stack'[k].panicked = "no",
               Has(stack'[k].todo, "lock_writer"), ~Has(stack'[k].todo, "force_writer")
        PROVE  writer_lock' = "free" \/ stack'[k].inside = "yes" \/ PanicAbove(k)'
    <3>1. CASE k = Len(stack)
      <4>1. stack'[k] = f /\ stack[k] = Top  BY <1>2, <1>4, <3>1
      <4>2. Has(Top.todo, "lock_writer")  BY <1>1, <1>2, <2>1, <4>1, TailOfChain
      <4>3. CASE op = "force_writer" \/ op = "unlock_writer"  BY <1>3, <4>3
      <4>4. CASE op = "lock_writer"  BY <1>1, <4>1, <4>4
      <4>5. CASE op \notin {"force_writer", "unlock_writer", "lock_writer"}
        <5>1. ~Has(Top.todo, "force_writer")
          BY <1>1, <1>2, <2>1, <4>1, <4>5, TailOfChain
        <5>2. writer_lock = "free" \/ Top.inside = "yes" \/ PanicAbove(k)
          BY <1>1, <2>1, <4>1, <4>2, <5>1 DEF WriterReady
        <5>. QED  BY <1>1, <1>3, <1>5, <4>1, <4>5, <5>2
      <4>. QED  BY <4>3, <4>4, <4>5
    <3>2. CASE k # Len(stack)
      <4>1. stack'[k] = stack[k]  BY <1>4, <3>2
      <4>2. writer_lock = "free" \/ stack[k].inside = "yes" \/ PanicAbove(k)
        BY <2>1, <4>1 DEF WriterReady
      <4>3. CASE op # "lock_writer"  BY <1>3, <1>5, <4>1, <4>2, <4>3
      <4>4. CASE op = "lock_writer"
        <5>1. k = 2 /\ Len(stack) > 2
          BY <1>2, <2>1, <3>2, <4>1 DEF Shape, Placed
        <5>2. Top.panicked = "yes"
          <6>1. Top.panicked \in YesNo  BY <1>2 DEF Frames
          <6>. QED  BY <1>1, <1>2, <4>4, <5>1, <6>1, WhoTakesLocks DEF YesNo
        <5>3. stack'[Len(stack)].panicked = "yes" /\ Len(stack) \in 1 .. Len(stack')
          BY <1>1, <1>2, <1>4, <5>2
        <5>. QED  BY <5>1, <5>3 DEF PanicAbove
      <4>. QED  BY <4>3, <4>4
    <3>. QED  BY <3>1, <3>2
  <2>. QED  BY <1>4, <2>1 DEF WriterReady
<1>. QED  BY <1>6, <1>7

(* The actions that do one operation. *)
Operation ==
    Cli \/ Popf \/ ForceUnlock \/ LockSerial \/ LockWriter \/ WriteSerial \/ Quiet \/ Unlock

(* Each is an operation with its effect. *)
LEMMA OperationHasEffect ==
    ASSUME Shape, Operation
    PROVE  \E op, f : Effect(op, f)
<1>1. Top \in Frames /\ Top.todo \in Seq(Ops)  BY TopFacts
<1>. DEFINE F(op) == [Top EXCEPT !.todo = Tail(Top.todo),
                       !.saved = IF op = "cli" THEN iflag ELSE @,
                       !.inside = IF op = "lock_writer" THEN "yes"
                                  ELSE IF op = "unlock_writer" THEN "no" ELSE @]
<1>4. CASE Cli
  <2>1. stack' = WithTop(F("cli"))  BY Zenon, <1>1, <1>4 DEF Cli, Advanced, Frames
  <2>2. Effect("cli", F("cli"))  BY <1>4, <2>1 DEF Cli, Effect, Ops
  <2>. QED  BY <2>2
<1>5. CASE Popf
  <2>1. stack' = WithTop(F("popf"))  BY Zenon, <1>1, <1>5 DEF Popf, Advanced, Frames
  <2>2. Effect("popf", F("popf"))  BY <1>5, <2>1 DEF Popf, Effect, Ops, restored
  <2>. QED  BY <2>2
<1>6. ASSUME NEW op \in {"force_serial", "force_writer", "write_serial", "lock_serial",
                         "write_writer", "own_port", "wake", "unlock_serial"}
      PROVE  Advanced = F(op)
  BY Zenon, <1>1 DEF Advanced, Frames
<1>7. CASE ForceUnlock
  <2>1. CASE At("force_serial") /\ serial_lock' = "free" /\ UNCHANGED writer_lock
    <3>1. Effect("force_serial", F("force_serial"))
      BY <1>6, <1>7, <2>1 DEF ForceUnlock, Effect, Ops
    <3>. QED  BY <3>1
  <2>2. CASE At("force_writer") /\ writer_lock' = "free" /\ UNCHANGED serial_lock
    <3>1. Effect("force_writer", F("force_writer"))
      BY <1>6, <1>7, <2>2 DEF ForceUnlock, Effect, Ops
    <3>. QED  BY <3>1
  <2>. QED  BY <1>7, <2>1, <2>2 DEF ForceUnlock
<1>8. CASE LockSerial
  <2>1. Effect("lock_serial", F("lock_serial"))  BY <1>6, <1>8 DEF LockSerial, Effect, Ops
  <2>. QED  BY <2>1
<1>9. CASE LockWriter
  <2>1. stack' = WithTop(F("lock_writer"))  BY Zenon, <1>1, <1>9 DEF LockWriter, Advanced, Frames
  <2>2. Effect("lock_writer", F("lock_writer"))  BY <1>9, <2>1 DEF LockWriter, Effect, Ops
  <2>. QED  BY <2>2
<1>10. CASE WriteSerial
  <2>1. Effect("write_serial", F("write_serial"))  BY <1>6, <1>10 DEF WriteSerial, Effect, Ops
  <2>. QED  BY <2>1
<1>11. CASE Quiet
  <2>1. PICK op \in {"write_writer", "own_port", "wake"} : At(op)  BY <1>11 DEF Quiet
  <2>2. Effect(op, F(op))  BY Zenon, <1>6, <1>11, <2>1 DEF Quiet, Effect, Ops
  <2>. QED  BY <2>2
<1>12. CASE Unlock
  <2>1. CASE At("unlock_serial") /\ serial_lock' = "free" /\ UNCHANGED writer_lock
               /\ stack' = WithTop(Advanced)
    <3>1. Effect("unlock_serial", F("unlock_serial"))
      BY <1>6, <1>12, <2>1 DEF Unlock, Effect, Ops
    <3>. QED  BY <3>1
  <2>2. CASE At("unlock_writer") /\ writer_lock' = "free" /\ UNCHANGED serial_lock
               /\ stack' = WithTop([Advanced EXCEPT !.inside = "no"])
    <3>1. stack' = WithTop(F("unlock_writer"))  BY Zenon, <1>1, <2>2 DEF Advanced, Frames
    <3>2. Effect("unlock_writer", F("unlock_writer"))
      BY <1>12, <2>2, <3>1 DEF Unlock, Effect, Ops
    <3>. QED  BY <3>2
  <2>. QED  BY <1>12, <2>1, <2>2 DEF Unlock
<1>. QED  BY <1>4, <1>5, <1>7, <1>8, <1>9, <1>10, <1>11, <1>12 DEF Operation

Core == Shape /\ Flags /\ SerialReady /\ WriterOwned /\ WriterReady

(* An operation keeps the invariant. *)
LEMMA OperationKeeps ==
    ASSUME Core, Operation
    PROVE  Core'
<1>1. PICK op, f : Effect(op, f)  BY OperationHasEffect DEF Core
<1>2. Shape'  BY <1>1, EffectKeepsShape DEF Core
<1>3. Flags'  BY <1>1, EffectKeepsFlags DEF Core
<1>4. SerialReady'  BY <1>1, EffectKeepsSerial DEF Core
<1>5. WriterOwned' /\ WriterReady'  BY <1>1, EffectKeepsWriter DEF Core
<1>. QED  BY <1>2, <1>3, <1>4, <1>5 DEF Core

(* A new program for the running frame, which is about to start a print,   *)
(* leaves the flag and the locks to those who have them.                   *)
LEMMA NewProgramKeeps ==
    ASSUME Core, NEW f \in Frames, stack' = WithTop(f),
           FrameOK(f), Placed(f, Len(stack)),
           ~Masked(f), ~Next1(f, "lock_serial"),
           f.entry = Top.entry,
           Top.panicked = "yes" => f.panicked = "yes",
           Top.inside = "yes" => f.inside = "yes" \/ f.panicked = "yes",
           f.who = "handler" => f.panicked = "yes",
           UNCHANGED <<iflag, serial_lock, writer_lock>>
    PROVE  Core'
<1>1. /\ Top = stack[Len(stack)] /\ Len(stack) \in Nat /\ Len(stack) >= 1
      /\ Len(stack) \in 1 .. Len(stack)
  BY TopFacts DEF Core
<1>2. /\ stack' \in Seq(Frames) /\ Len(stack') = Len(stack)
      /\ \A k \in 1 .. Len(stack) : stack'[k] = IF k = Len(stack) THEN f ELSE stack[k]
  BY TopReplaced DEF Core
<1>3. \A k \in 1 .. Len(stack) : PanicAbove(k) => PanicAbove(k)'  BY PanicStays DEF Core
<1>4. Shape'  BY <1>1, <1>2 DEF Core, Shape
<1>5. Flags'
  <2>1. CASE Len(stack) = 1
    <3>1. stack'[1] = f  BY <1>2, <2>1
    <3>. QED  BY <1>2, <2>1, <3>1 DEF Core, Flags
  <2>2. CASE Len(stack) > 1
    <3>1. stack'[1] = stack[1] /\ stack'[2].entry = stack[2].entry  BY <1>1, <1>2, <2>2
    <3>. QED  BY <1>1, <1>2, <2>2, <3>1 DEF Core, Flags, Masked, Backspacing
  <2>3. Len(stack) = 1 \/ Len(stack) > 1  BY <1>1, OneOrMore, Zenon
  <2>. QED  BY <2>1, <2>2, <2>3
<1>6. SerialReady'
  <2>1. ASSUME NEW k \in 1 .. Len(stack), Next1(stack'[k], "lock_serial")
        PROVE  serial_lock' = "free" \/ PanicAbove(k)'
    <3>1. k # Len(stack) /\ stack'[k] = stack[k]  BY <1>2, <2>1
    <3>. QED  BY <1>3, <2>1, <3>1 DEF Core, SerialReady
  <2>. QED  BY <1>2, <2>1 DEF Core, SerialReady
<1>7. WriterOwned'
  <2>1. ASSUME NEW k \in 1 .. Len(stack), stack[k].inside = "yes" \/ stack[k].panicked = "yes"
        PROVE  stack'[k].inside = "yes" \/ stack'[k].panicked = "yes"
    BY <1>1, <1>2, <2>1
  <2>. QED  BY <1>2, <2>1 DEF Core, WriterOwned
<1>8. WriterReady'
  <2>1. ASSUME NEW k \in 1 .. Len(stack),
               stack'[k].who = "handler", stack'[k].panicked = "no",
               Has(stack'[k].todo, "lock_writer"), ~Has(stack'[k].todo, "force_writer")
        PROVE  writer_lock' = "free" \/ stack'[k].inside = "yes" \/ PanicAbove(k)'
    <3>1. k # Len(stack) /\ stack'[k] = stack[k]  BY <1>2, <2>1
    <3>. QED  BY <1>3, <2>1, <3>1 DEF Core, WriterReady
  <2>. QED  BY <1>2, <2>1 DEF WriterReady
<1>. QED  BY <1>4, <1>5, <1>6, <1>7, <1>8 DEF Core

(* A panic, wherever it is raised. *)
LEMMA PanicKeeps ==
    ASSUME Core, BecomePanic
    PROVE  Core'
<1>. DEFINE f == [Top EXCEPT !.todo = panic, !.inside = "no", !.panicked = "yes"]
<1>1. Top \in Frames /\ Placed(Top, Len(stack))  BY TopFacts DEF Core
<1>2. panic \in Seq(Ops) /\ panic # <<>> /\ panic[1] = "cli" /\ Chain(panic, Final)
      /\ Has(panic, "hlt_loop")
  <2>1. "hlt_loop" \in Final  BY DEF Final
  <2>. QED  BY <2>1, PanicProgram, ProgramIsChain
<1>3. /\ f \in Frames /\ f.who = Top.who /\ f.todo = panic /\ f.inside = "no"
      /\ f.panicked = "yes" /\ f.entry = Top.entry /\ f.saved = Top.saved
  BY Zenon, <1>1, <1>2 DEF Frames, YesNo
<1>4. stack' = WithTop(f) /\ UNCHANGED <<iflag, serial_lock, writer_lock>>  BY DEF BecomePanic
<1>. HIDE DEF f
<1>5. FrameOK(f)  BY <1>2, <1>3 DEF FrameOK, Backspacing
<1>6. Placed(f, Len(stack))  BY <1>1, <1>3 DEF Placed
<1>7. ~Masked(f) /\ ~Next1(f, "lock_serial")  BY <1>2, <1>3 DEF Masked, Next1, WriterOps
<1>. QED  BY <1>1, <1>3, <1>4, <1>5, <1>6, <1>7, NewProgramKeeps

(* A call of the main thread. *)
LEMMA CallKeeps ==
    ASSUME Core, Call
    PROVE  Core'
<1>1. PICK c \in DOMAIN MainCalls : stack' = WithTop([Top EXCEPT !.todo = MainCalls[c], !.call = c])
  BY Zenon DEF Call
<1>. DEFINE f == [Top EXCEPT !.todo = MainCalls[c], !.call = c]
<1>2. Top \in Frames /\ Placed(Top, Len(stack)) /\ FrameOK(Top)  BY TopFacts DEF Core
<1>3. Top.who = "main" /\ Top.todo = <<>> /\ UNCHANGED <<iflag, serial_lock, writer_lock>>  BY DEF Call
<1>4. Top.inside # "yes" /\ Top.panicked # "yes"
  <2>1. Len(Top.todo) = 0  BY <1>3
  <2>2. ~Has(Top.todo, "hlt_loop")  BY <2>1 DEF Has
  <2>. QED  BY <1>2, <1>3, <2>2 DEF FrameOK
<1>5. c \in {"trace", "info", "backspace"}  BY DEF MainCalls
<1>6. /\ c # "backspace" => Program(MainCalls[c], "cli", "popf")
      /\ c = "backspace" => MainCalls[c] = backspace
  <2>1. MainCalls["trace"] = log("Trace") /\ MainCalls["info"] = log("Info")
        /\ MainCalls["backspace"] = backspace
    BY DEF MainCalls
  <2>. QED  BY <1>5, <2>1, Logs
<1>7. /\ MainCalls[c] \in Seq(Ops) /\ MainCalls[c] # <<>>
      /\ c # "backspace" => MainCalls[c][1] = "cli" /\ Chain(MainCalls[c], Final)
      /\ c = "backspace" => /\ MainCalls[c][1] = "lock_writer"
                            /\ Chain(MainCalls[c], {"unlock_writer"})
                            /\ Only(MainCalls[c], WriterOps)
  <2>1. "popf" \in Final /\ "unlock_writer" \in {"unlock_writer"}  BY DEF Final
  <2>2. ASSUME c # "backspace"
        PROVE  /\ MainCalls[c] \in Seq(Ops) /\ MainCalls[c] # <<>>
               /\ MainCalls[c][1] = "cli" /\ Chain(MainCalls[c], Final)
    BY <1>6, <2>1, <2>2, ProgramIsChain
  <2>3. ASSUME c = "backspace"
        PROVE  /\ MainCalls[c] \in Seq(Ops) /\ MainCalls[c] # <<>>
               /\ MainCalls[c][1] = "lock_writer" /\ Chain(MainCalls[c], {"unlock_writer"})
               /\ Only(MainCalls[c], WriterOps)
    BY <1>6, <2>1, <2>3, Pieces, ProgramIsChain
  <2>. QED  BY <2>2, <2>3
<1>8. /\ f \in Frames /\ f.who = "main" /\ f.call = c /\ f.todo = MainCalls[c]
      /\ f.inside = Top.inside /\ f.panicked = Top.panicked
      /\ f.entry = Top.entry /\ f.saved = Top.saved
  BY Zenon, <1>2, <1>3, <1>5, <1>7 DEF Frames
<1>9. f.panicked = "no" /\ f.inside = "no"  BY Zenon, <1>4, <1>8 DEF Frames, YesNo
<1>10. stack' = WithTop(f)  BY <1>1
<1>. HIDE DEF f
<1>11. FrameOK(f)  BY <1>7, <1>8, <1>9 DEF FrameOK, Backspacing
<1>12. Placed(f, Len(stack))  BY <1>2, <1>3, <1>8 DEF Placed
<1>13. ~Masked(f) /\ ~Next1(f, "lock_serial")
  BY <1>5, <1>7, <1>8, <1>9 DEF Masked, Next1, WriterOps, Backspacing
<1>. QED  BY <1>3, <1>4, <1>8, <1>9, <1>10, <1>11, <1>12, <1>13, NewProgramKeeps

(* A frame on top of the others. *)
LEMMA PushKeeps ==
    ASSUME Core, NEW f \in Frames, stack' = Append(stack, f),
           FrameOK(f), f.who # "main", f.who = "handler" => Len(stack) = 1 /\ f.entry = "on",
           f.saved = "off", f.entry = iflag, iflag' = "off",
           f.todo # <<>>, f.todo[1] # "lock_serial",
           Has(f.todo, "lock_writer") => Has(f.todo, "force_writer"),
           UNCHANGED <<serial_lock, writer_lock>>
    PROVE  Core'
<1>. DEFINE n == Len(stack)
<1>1. stack \in Seq(Frames) /\ n \in Nat /\ n >= 1  BY DEF Core, Shape
<1>2. /\ stack' \in Seq(Frames) /\ Len(stack') = n + 1
      /\ \A k \in 1 .. n : stack'[k] = stack[k]
      /\ stack'[n + 1] = f
  BY <1>1, AppendProperties
<1>3. \A k \in 1 .. n : PanicAbove(k) => PanicAbove(k)'
  <2>1. SUFFICES ASSUME NEW k \in 1 .. n, PanicAbove(k) PROVE PanicAbove(k)'  OBVIOUS
  <2>2. PICK j \in 1 .. n : j > k /\ stack[j].panicked = "yes"  BY <2>1 DEF PanicAbove
  <2>3. j \in 1 .. Len(stack') /\ stack'[j] = stack[j]  BY <1>1, <1>2
  <2>. QED  BY <2>2, <2>3 DEF PanicAbove
<1>. HIDE DEF n
<1>4. \A k \in 1 .. Len(stack') : k \in 1 .. n \/ k = n + 1  BY <1>1, <1>2
<1>5. Placed(f, n + 1)
  <2>1. n > 1 => iflag = "off"  BY DEF Core, Flags, n
  <2>. QED  BY <1>1, <2>1 DEF Placed, n
<1>6. Shape'
  <2>1. Len(stack') >= 1  BY <1>1, <1>2
  <2>2. \A k \in 1 .. n : FrameOK(stack[k]) /\ Placed(stack[k], k)  BY DEF Core, Shape, n
  <2>. QED  BY <1>2, <1>4, <1>5, <2>1, <2>2 DEF Shape
<1>7. Flags'
  <2>1. 1 \in 1 .. n /\ Len(stack') > 1 /\ Len(stack') # 1  BY <1>1, <1>2
  <2>2. stack'[1] = stack[1]  BY <1>2, <2>1
  <2>3. Masked(stack[1]) => stack'[2].entry = "off"
    <3>1. CASE n = 1  BY <1>2, <3>1 DEF Core, Flags, n
    <3>2. CASE n > 1
      <4>1. 2 \in 1 .. n  BY <1>1, <3>2
      <4>. QED  BY <1>2, <3>2, <4>1 DEF Core, Flags, n
    <3>3. n = 1 \/ n > 1  BY <1>1, OneOrMore, Zenon
    <3>. QED  BY Zenon, <3>1, <3>2, <3>3
  <2>4. iflag' \in OnOff  BY DEF OnOff
  <2>. QED  BY <2>1, <2>2, <2>3, <2>4 DEF Flags
<1>8. SerialReady'
  <2>1. ASSUME NEW k \in 1 .. Len(stack'), Next1(stack'[k], "lock_serial")
        PROVE  serial_lock' = "free" \/ PanicAbove(k)'
    <3>1. k \in 1 .. n  BY <1>2, <1>4, <2>1 DEF Next1
    <3>. QED  BY <1>2, <1>3, <2>1, <3>1 DEF Core, SerialReady, n
  <2>. QED  BY <2>1 DEF Core, SerialReady
<1>9. WriterOwned'
  <2>1. ASSUME NEW k \in 1 .. n PROVE k \in 1 .. Len(stack') /\ stack'[k] = stack[k]
    BY <1>1, <1>2
  <2>. QED  BY <2>1 DEF Core, WriterOwned, n
<1>10. WriterReady'
  <2>1. ASSUME NEW k \in 1 .. Len(stack'),
               stack'[k].who = "handler", stack'[k].panicked = "no",
               Has(stack'[k].todo, "lock_writer"), ~Has(stack'[k].todo, "force_writer")
        PROVE  writer_lock' = "free" \/ stack'[k].inside = "yes" \/ PanicAbove(k)'
    <3>1. k \in 1 .. n  BY <1>2, <1>4, <2>1
    <3>. QED  BY <1>2, <1>3, <2>1, <3>1 DEF Core, WriterReady, n
  <2>. QED  BY <2>1 DEF WriterReady
<1>. QED  BY <1>6, <1>7, <1>8, <1>9, <1>10 DEF Core

(* Interrupts and exceptions. *)
LEMMA InterruptKeeps ==
    ASSUME Core, Interrupt \/ Exception
    PROVE  Core'
<1>1. iflag \in OnOff /\ Len(stack) \in Nat /\ Len(stack) >= 1
      /\ (Len(stack) > 1 => iflag = "off")
  BY DEF Core, Flags, Shape
<1>2. ASSUME NEW who \in {"handler", "exception"}, NEW ops \in Seq(Ops)
      PROVE  LET f == Frame(who, ops) IN
             /\ f \in Frames /\ f.who = who /\ f.todo = ops /\ f.entry = iflag
             /\ f.saved = "off" /\ f.inside = "no" /\ f.panicked = "no"
  BY <1>1 DEF Frame, Frames, YesNo, OnOff
<1>3. CASE Interrupt
  <2>1. PICK ops \in Handlers : stack' = Append(stack, Frame("handler", ops))
    BY <1>3 DEF Interrupt
  <2>2. iflag = "on" /\ iflag' = "off" /\ UNCHANGED <<serial_lock, writer_lock>>  BY <1>3 DEF Interrupt
  <2>3. /\ ops \in Seq(Ops) /\ Chain(ops, Final)
        /\ Has(ops, "lock_writer") => Has(ops, "force_writer")
        /\ ForcesFirst(ops)
        /\ ops # <<>> /\ ops[1] \in {"own_port", "cli"}
    BY HandlerPrograms
  <2>. DEFINE f == Frame("handler", ops)
  <2>4. /\ f \in Frames /\ f.who = "handler" /\ f.todo = ops /\ f.entry = iflag
        /\ f.saved = "off" /\ f.inside = "no" /\ f.panicked = "no"
    BY <1>2, <2>3
  <2>5. stack' = Append(stack, f)  BY <2>1
  <2>. HIDE DEF f
  <2>6. FrameOK(f)  BY <2>3, <2>4 DEF FrameOK, Backspacing
  <2>7. Len(stack) = 1
    <3>1. Len(stack) = 1 \/ Len(stack) > 1  BY <1>1, OneOrMore, Zenon
    <3>. QED  BY <1>1, <2>2, <3>1
  <2>. QED  BY <2>2, <2>3, <2>4, <2>5, <2>6, <2>7, PushKeeps
<1>4. CASE Exception
  <2>1. PICK ops \in Exceptions : stack' = Append(stack, Frame("exception", ops))
    BY <1>4 DEF Exception
  <2>2. iflag' = "off" /\ UNCHANGED <<serial_lock, writer_lock>>  BY <1>4 DEF Exception
  <2>3. /\ ops \in Seq(Ops) /\ Chain(ops, Final) /\ ops # <<>> /\ ops[1] = "own_port"
        /\ Only(ops, {"own_port", "force_writer", "hlt_loop", "panic"})
    BY ExceptionPrograms
  <2>. DEFINE f == Frame("exception", ops)
  <2>4. /\ f \in Frames /\ f.who = "exception" /\ f.todo = ops /\ f.entry = iflag
        /\ f.saved = "off" /\ f.inside = "no" /\ f.panicked = "no"
    BY <1>2, <2>3
  <2>5. stack' = Append(stack, f)  BY <2>1
  <2>. HIDE DEF f
  <2>6. FrameOK(f)  BY <2>3, <2>4 DEF FrameOK, Backspacing
  <2>7. ~Has(f.todo, "lock_writer")  BY <2>3, <2>4 DEF Has, Only
  <2>. QED  BY <2>2, <2>3, <2>4, <2>5, <2>6, <2>7, PushKeeps
<1>. QED  BY <1>3, <1>4

(* A handler returns to what it interrupted. *)
LEMMA ReturnKeeps ==
    ASSUME Core, Return
    PROVE  Core'
<1>. DEFINE n == Len(stack)
            m == n - 1
<1>1. stack \in Seq(Frames) /\ n \in Nat /\ n > 1 /\ m \in Nat /\ m >= 1 /\ n = m + 1
      /\ n \in 1 .. n /\ m \in Int
  BY DEF Core, Shape, Return
<1>2. /\ stack' \in Seq(Frames) /\ Len(stack') = m
      /\ \A k \in 1 .. m : stack'[k] = stack[k]
  <2>1. stack' = SubSeq(stack, 1, m)  BY DEF Return
  <2>2. \A k \in 1 .. m : stack[k] \in Frames  BY <1>1
  <2>3. /\ SubSeq(stack, 1, m) \in Seq(Frames)
        /\ Len(SubSeq(stack, 1, m)) = IF 1 <= m THEN m - 1 + 1 ELSE 0
        /\ \A k \in 1 .. (m - 1 + 1) : SubSeq(stack, 1, m)[k] = stack[1 + k - 1]
    BY <1>1, <2>2, SubSeqProperties
  <2>. QED  BY <1>1, <2>1, <2>3
<1>3. Top = stack[n] /\ Top.todo = <<>> /\ iflag' = Top.entry /\ UNCHANGED <<serial_lock, writer_lock>>
  BY DEF Return, Top
<1>. HIDE DEF m, n
<1>4. Top.inside # "yes" /\ Top.panicked # "yes" /\ Placed(Top, n) /\ Top \in Frames
  <2>1. FrameOK(Top) /\ Placed(Top, n) /\ Top \in Frames  BY <1>1, <1>3 DEF Core, Shape, n
  <2>2. Len(Top.todo) = 0  BY <1>3
  <2>3. ~Has(Top.todo, "hlt_loop")  BY <2>2 DEF Has
  <2>. QED  BY <1>3, <2>1, <2>3 DEF FrameOK
<1>5. \A k \in 1 .. m : PanicAbove(k) => PanicAbove(k)'
  <2>1. SUFFICES ASSUME NEW k \in 1 .. m, PanicAbove(k) PROVE PanicAbove(k)'  OBVIOUS
  <2>2. PICK j \in 1 .. n : j > k /\ stack[j].panicked = "yes"  BY <2>1 DEF PanicAbove, n
  <2>3. j # n  BY <1>3, <1>4, <2>2
  <2>4. j \in 1 .. m  BY <1>1, <2>3
  <2>. QED  BY <1>2, <2>2, <2>4 DEF PanicAbove
<1>6. \A k \in 1 .. m : k \in 1 .. n  BY <1>1
<1>7. Shape'
  <2>1. \A k \in 1 .. m : FrameOK(stack[k]) /\ Placed(stack[k], k)  BY <1>6 DEF Core, Shape, n
  <2>. QED  BY <1>1, <1>2, <2>1 DEF Shape
<1>8. Flags'
  <2>1. iflag' \in OnOff  BY <1>3, <1>4 DEF Frames
  <2>2. 1 \in 1 .. m /\ stack'[1] = stack[1]  BY <1>1, <1>2
  <2>3. CASE m = 1
    <3>1. n = 2 /\ Top = stack[2]  BY <1>1, <1>3, <2>3
    <3>2. Masked(stack[1]) => stack[2].entry = "off"  BY <3>1 DEF Core, Flags, n
    <3>. QED  BY <1>2, <1>3, <2>1, <2>2, <2>3, <3>1, <3>2 DEF Flags
  <2>4. CASE m > 1
    <3>1. n >= 3 /\ n # 1  BY <1>1, <2>4
    <3>2. iflag' = "off"  BY <1>3, <1>4, <3>1 DEF Placed
    <3>3. 2 \in 1 .. m /\ m # 1  BY <1>1, <2>4
    <3>4. stack'[2] = stack[2]  BY <1>2, <3>3
    <3>5. Masked(stack[1]) => stack[2].entry = "off"  BY <3>1 DEF Core, Flags, n
    <3>. QED  BY <1>2, <2>1, <2>2, <3>2, <3>3, <3>4, <3>5 DEF Flags
  <2>5. m = 1 \/ m > 1  BY <1>1, OneOrMore, Zenon
  <2>. QED  BY <2>3, <2>4, <2>5
<1>9. SerialReady'  BY <1>2, <1>3, <1>5, <1>6 DEF Core, SerialReady, n
<1>10. WriterOwned'
  <2>1. ASSUME NEW k \in 1 .. n, stack[k].inside = "yes" \/ stack[k].panicked = "yes"
        PROVE  k \in 1 .. m /\ stack'[k] = stack[k]
    <3>1. k # n  BY <1>3, <1>4, <2>1
    <3>2. k \in 1 .. m  BY <1>1, <3>1
    <3>. QED  BY <1>2, <3>2
  <2>. QED  BY <1>2, <1>3, <2>1 DEF Core, WriterOwned, n
<1>11. WriterReady'  BY <1>2, <1>3, <1>5, <1>6 DEF Core, WriterReady, n
<1>. QED  BY <1>7, <1>8, <1>9, <1>10, <1>11 DEF Core

-----------------------------------------------------------------------------

(* The kernel starts with the main thread, and nothing to do. *)
LEMMA InitOInv == Init => OInv
<1>. SUFFICES ASSUME Init PROVE OInv  OBVIOUS
<1>. DEFINE f == [Frame("main", <<>>) EXCEPT !.entry = "on"]
<1>1. /\ f \in Frames /\ f.who = "main" /\ f.call = "none" /\ f.todo = <<>>
      /\ f.inside = "no" /\ f.panicked = "no"
  <2>1. <<>> \in Seq(Ops) /\ iflag = "on"  BY DEF Init
  <2>2. Frame("main", <<>>) \in Frames  BY <2>1 DEF Frame, Frames, YesNo, OnOff
  <2>. QED  BY Zenon, <2>1, <2>2 DEF Frame, Frames, YesNo, OnOff
<1>2. stack = <<f>> /\ iflag = "on" /\ serial_lock = "free" /\ writer_lock = "free" /\ said = "no"
      /\ events = 0
  BY DEF Init
<1>. HIDE DEF f
<1>3. stack \in Seq(Frames) /\ Len(stack) = 1 /\ stack[1] = f  BY <1>1, <1>2
<1>4. FrameOK(f)
  <2>1. Len(f.todo) = 0  BY <1>1
  <2>. QED  BY <1>1, <2>1 DEF FrameOK, Chain, Backspacing
<1>5. Placed(f, 1)  BY <1>1 DEF Placed
<1>6. Shape  BY <1>3, <1>4, <1>5 DEF Shape
<1>7. Flags  BY <1>1, <1>2, <1>3 DEF Flags, Masked, OnOff
<1>8. SerialReady /\ WriterOwned /\ WriterReady  BY <1>2 DEF SerialReady, WriterOwned, WriterReady
<1>. QED  BY <1>2, <1>6, <1>7, <1>8, EventsAssumption DEF OInv, YesNo, EventsAssumption

(* Every step keeps the invariant. *)
LEMMA StepOInv == OInv /\ [Next]_vars => OInv'
<1>. SUFFICES ASSUME OInv, [Next]_vars PROVE OInv'  OBVIOUS
<1>1. Core  BY DEF OInv, Core
<1>2. Core'
  <2>1. CASE Operation  BY <1>1, <2>1, OperationKeeps
  <2>2. CASE Call  BY <1>1, <2>2, CallKeeps
  <2>3. CASE Return  BY <1>1, <2>3, ReturnKeeps
  <2>4. CASE PanicMacro \/ MayPanic  BY <1>1, <2>4, PanicKeeps DEF PanicMacro, MayPanic
  <2>5. CASE Interrupt \/ Exception  BY <1>1, <2>5, InterruptKeeps
  <2>6. CASE UNCHANGED vars
    BY <1>1, <2>6
    DEF vars, Core, Shape, Flags, SerialReady, WriterOwned, WriterReady, PanicAbove
  <2>. QED  BY <2>1, <2>2, <2>3, <2>4, <2>5, <2>6
            DEF Next, Step, Operation, Spin, HltLoop
<1>3. said' \in YesNo
  BY Zenon DEF OInv, YesNo, Next, Step, Cli, Popf, ForceUnlock, LockSerial, LockWriter,
         WriteSerial, Quiet, Unlock, Call, Return, PanicMacro, MayPanic, BecomePanic,
         Interrupt, Exception, Spin, HltLoop, vars
<1>4. events' \in 0 .. MaxEvents
  <2>1. events' = events \/ (events < MaxEvents /\ events' = events + 1)
    BY Zenon DEF Next, Step, Cli, Popf, ForceUnlock, LockSerial, LockWriter, WriteSerial, Quiet,
           Unlock, Call, Return, PanicMacro, MayPanic, Interrupt, Exception, Spin, HltLoop, vars
  <2>2. events \in 0 .. MaxEvents /\ MaxEvents \in Nat
    BY EventsAssumption DEF EventsAssumption, OInv
  <2>. QED  BY <2>1, <2>2
<1>. QED  BY <1>2, <1>3, <1>4 DEF OInv, Core

(* The invariant holds in every state. *)
THEOREM OutputInductive == Spec => []OInv
BY InitOInv, StepOInv, PTL DEF Spec

(* What the invariant says in the terms of the checked properties. *)
LEMMA OInvFacts == OInv => TypeOK /\ OnlyPanicsSpin /\ WritersApart
<1>. SUFFICES ASSUME OInv PROVE TypeOK /\ OnlyPanicsSpin /\ WritersApart  OBVIOUS
<1>1. Shape /\ Flags /\ SerialReady /\ WriterOwned /\ WriterReady  BY DEF OInv
<1>2. /\ stack \in Seq(Frames) /\ Len(stack) \in Nat /\ Len(stack) >= 1
      /\ DOMAIN stack = 1 .. Len(stack) /\ 1 \in 1 .. Len(stack)
  BY <1>1 DEF Shape
<1>3. \A k \in 1 .. Len(stack) :
          stack[k] \in Frames /\ FrameOK(stack[k]) /\ Placed(stack[k], k)
  BY <1>1, <1>2 DEF Shape
<1>4. TypeOK
  <2>1. stack # <<>> /\ stack[1].who = "main"  BY <1>2, <1>3 DEF Placed
  <2>2. \A k \in DOMAIN stack :
          /\ stack[k].todo \in Seq(Ops)
          /\ stack[k].entry \in OnOff /\ stack[k].saved \in OnOff
          /\ stack[k].inside \in {"yes", "no"}
          /\ stack[k].panicked \in {"yes", "no"}
    BY <1>2, <1>3 DEF Frames, YesNo
  <2>. QED  BY <2>1, <2>2, <1>1
            DEF TypeOK, OInv, Flags, SerialReady, WriterOwned, YesNo
<1>5. OnlyPanicsSpin
  <2>. SUFFICES ASSUME Blocked, Top.panicked # "yes" PROVE FALSE  BY DEF OnlyPanicsSpin
  <2>1. /\ Top \in Frames /\ FrameOK(Top) /\ Top = stack[Len(stack)] /\ Top.todo \in Seq(Ops)
        /\ Len(stack) \in 1 .. Len(stack)
    BY <1>1, TopFacts
  <2>2. Top.panicked = "no"  BY <2>1 DEF Frames, YesNo
  <2>3. Top.todo # <<>> /\ Head(Top.todo) = Top.todo[1]
    BY <2>1, TailOfChain DEF Blocked, At
  <2>4. ~PanicAbove(Len(stack))  BY <1>2 DEF PanicAbove
  <2>5. CASE At("lock_serial") /\ serial_lock = "locked"
    BY <1>1, <2>1, <2>3, <2>4, <2>5 DEF At, SerialReady, Next1
  <2>6. CASE At("lock_writer") /\ writer_lock = "locked"
    <3>1. Top.todo[1] = "lock_writer"  BY <2>3, <2>6 DEF At
    <3>2. Top.inside # "yes"  BY <2>1, <3>1 DEF FrameOK
    <3>3. CASE Len(stack) = 1
      <4>1. PICK k \in 1 .. Len(stack) : stack[k].inside = "yes" \/ stack[k].panicked = "yes"
        BY <1>1, <2>6 DEF WriterOwned
      <4>2. k = 1  BY <3>3
      <4>. QED  BY <2>1, <2>2, <3>2, <3>3, <4>1, <4>2
    <3>4. CASE Top.who = "handler"
      <4>1. 1 \in 1 .. Len(Top.todo)  BY <2>1, <2>3
      <4>2. Has(Top.todo, "lock_writer")  BY <3>1, <4>1 DEF Has
      <4>3. ~Has(Top.todo, "force_writer")
        <5>1. ForcesFirst(Top.todo)  BY <2>1, <2>2, <3>4 DEF FrameOK
        <5>. QED  BY <3>1, <5>1 DEF ForcesFirst, Has
      <4>. QED  BY <1>1, <2>1, <2>2, <2>4, <2>6, <3>2, <3>4, <4>2, <4>3 DEF WriterReady
    <3>. QED  BY <1>1, <2>2, <2>3, <3>1, <3>3, <3>4, WhoTakesLocks
  <2>. QED  BY <2>5, <2>6 DEF Blocked
<1>6. WritersApart
  <2>. SUFFICES ASSUME NEW a \in 1 .. Len(stack), NEW b \in 1 .. Len(stack), a < b,
                       stack[a].inside = "yes", stack[b].inside = "yes",
                       stack[b].panicked = "no"
                PROVE  stack[a].call = "backspace"
    BY <1>2 DEF WritersApart
  <2>1. stack[b].who = "handler"
    <3>1. stack[b].todo # <<>> /\ stack[b].todo[1] \in {"write_writer", "unlock_writer"}
          /\ stack[b].todo \in Seq(Ops) /\ b # 1
      BY <1>3 DEF FrameOK, Frames
    <3>2. 1 \in 1 .. Len(stack[b].todo)  BY <3>1
    <3>3. stack[b].who # "exception"  BY <1>3, <3>1, <3>2 DEF FrameOK, Only
    <3>. QED  BY <1>3, <3>1, <3>3 DEF Placed, Frames
  <2>2. b = 2 /\ stack[b].entry = "on"  BY <1>3, <2>1 DEF Placed
  <2>3. a = 1 /\ Len(stack) > 1 /\ Len(stack) # 1  BY <1>2, <2>2
  <2>4. ~Masked(stack[1])  BY <1>1, <2>2, <2>3 DEF Flags
  <2>5. stack[1].todo # <<>> /\ stack[1].todo[1] \in WriterOps
    BY <1>3, <2>3 DEF FrameOK, WriterOps
  <2>. QED  BY <2>3, <2>4, <2>5 DEF Masked, Backspacing
<1>. QED  BY <1>4, <1>5, <1>6

(* Handlers run with interrupts off, whatever they print and whatever      *)
(* interrupts them.                                                        *)
THEOREM OutputTypeCorrect == Spec => []TypeOK
BY OutputInductive, OInvFacts, PTL

(* No print of the main thread or of a handler ever waits for a lock; only *)
(* a panic's message may.                                                  *)
THEOREM OnlyPanicsWait == Spec => []OnlyPanicsSpin
BY OutputInductive, OInvFacts, PTL

(* The writer is entered while another frame is inside only on top of      *)
(* Console::backspace, or by a panic.                                      *)
THEOREM PrintsStayApart == Spec => []WritersApart
BY OutputInductive, OInvFacts, PTL
=============================================================================
