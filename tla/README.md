# nocciolo: a TLA+ verification of the kernel

nocciolo is a small x86-64 kernel in Rust (`src/kernel`). It runs on one CPU and
has one thread of control besides the interrupt handlers. This directory holds
TLA+ models of its parts, the TLC runs that check them on small instances, and
TLAPS proofs of the central properties for every instance.

## 1. The system

### How the parts interact

`kernel_main` (main.rs) runs `init`, sleeps ten times one second with
`pit::sleep`, asks for a shutdown, and then runs the executor with one task,
`print_keypresses`. Everything else is interrupt handlers. They are entered
through interrupt gates, so a handler runs to completion with interrupts
disabled; the main thread makes no step meanwhile. Hence two rules:

- a device's handler is one atomic step, taken between two steps of the main
  thread, and only while the interrupt flag is set;
- a handler that waits for a lock the main thread holds waits for ever.

Exceptions, among them the non-maskable interrupt, do not ask for the flag and
may interrupt a handler. They touch the output locks only. `OutputLocks`
therefore does without the first rule: there, handlers are frames on a stack,
each advancing an operation at a time.

`init` itself is sequential: it programs the PIT, maps the heap, lets the ACPI
code map what it reads, sets up the APICs, silences the PIC, turns interrupts on
and enumerates the PCI bus. Every one of these parts can panic, and each leaves
state the next one reads: that sequence is `Boot`.

`KernelMain` is what follows: the countdown of sleeps and the shutdown, with the
timer interrupting both.

`Keyboard` and `PitSleep` start where the interrupt descriptor table sends the
keyboard and timer vectors. What can raise a vector is in `Boot`, and the two
have to be read together: as `init` leaves the machine, no timer vector is raised
at all (run `boot_timer`). `PitSleep` and `Keyboard` show what the waiting code
does once the vectors come.

### Inventory

| part | state | operations | what is hard about it |
|---|---|---|---|
| executor (task/executor.rs, task/mod.rs) | tasks, task_queue, waker_cache | spawn, run_ready_tasks, sleep_if_idle, wake | wake between test and `hlt`; stale ids; full queue |
| keyboard (task/keyboard.rs) | SCANCODE_QUEUE, WAKER | ScancodeStream::new, poll_next, add_scancode, print_keypresses | push between pop and register; drops; order |
| timer (device/pit.rs, interrupts.rs) | TIMER | sleep, timer_interrupt_handler | lock shared with a handler; a skipped goal |
| allocators (allocator/*.rs) | free lists, bump pointer | alloc, dealloc | overlap, alignment, splitting, leaks |
| memory (memory.rs, allocator.rs, allocator/page.rs) | frame cursor, page cursor, page table | allocate_frame, allocate_n, init_heap, map and unmap | a frame handed out twice; a failure half way |
| text output (vga_text_buffer.rs, meta/console.rs, serial.rs, logging.rs) | WRITER, its cursor and escape state | write_char, backspace, log, force_unlock | a handler that breaks the lock; a panic holding it |
| interrupt control (interrupts.rs, interrupts/apic/*) | PIC, I/O APIC entries, local APIC registers | init, redirect, end of interrupt | an interrupt routed to a handler that does not serve it; an entry written in halves; registers a page away |
| PCI (device/pci/*) | address port, enumeration cursor | read, write, enumerate | two-step port protocol shared with the AML; cursor at its limits |
| start-up (main.rs `init`) | its place, the interrupt flag | init | order of enabling; a part that fails half way |
| ACPI and shutdown (device/acpi/*, meta/system.rs) | tables, mappings, PM1 registers | map_physical_region, request_shutdown | one step of several failing |
| symbols (meta/symbols.rs) | the kernel's ELF symbol table | resolve | linear search; symbols at boundaries |
| simple executor (task/simple_executor.rs) | task queue | spawn, run | polls without wake-ups; not used by `kernel_main` |
| launcher (os/, build.rs) | none | builds the image, starts QEMU | host-side I/O |

## 2. Modules

| module | models | state and actions |
|---|---|---|
| `Executor` | task/executor.rs, task/mod.rs | Variables are the executor's fields, the slots wakers sit in (`armed`), the interrupt flag and the main thread's place. Each access to shared state is an action: the pops, the two halves of `sleep_if_idle`, `EnableAndHlt`. A future is any code that registers, withdraws, and answers Pending only while registered. |
| `Keyboard` | task/keyboard.rs, keyboard_interrupt_handler | Extends `Executor` with the one task's real future: both pops, `WAKER.register`, `WAKER.take`, and `add_scancode` in the handler. |
| `ScancodeChannel` | (abstract) | A bounded first-in first-out channel: what `Keyboard` implements. |
| `PitSleep` | pit::sleep, timer_interrupt_handler | Lock, read, unlock and halt of `sleep` as steps of their own; ticks that end a halt and ticks that hit the CPU awake. |
| `Regions` | allocator::align_up | Ranges of addresses. |
| `GlobalAlloc` | (abstract) | The contract of `core::alloc::GlobalAlloc`: what every allocator implements. |
| `Heap` | the range and layouts of a heap | The constants all allocators share, and their assumption. |
| `BumpAllocator`, `LinkedList`, `FixedSizeBlock` | allocator/bump.rs, linked_list.rs, fixed_size_block.rs | Each allocator's own fields, and a ghost set `live` of blocks in use. An operation runs under the allocator's lock and is one action. A null answer changes nothing and is a stuttering step. |
| `Heaps` | allocator.rs, the choice of an allocator | Either of the two allocators the kernel can be built with instead of the global one, over the same heap. |
| `Memory` | memory.rs, allocator.rs `init_heap`, allocator/page.rs, device/acpi/handler.rs | Frame cursor, page cursor, page table and its own frames. `init_heap`, `map_physical_region` and `unmap_physical_region` advance a page per step, so that running out of frames half way is a state of the model. Its operations are actions of `Boot`. |
| `Apic` | interrupts/apic/mod.rs, local.rs, io.rs | Local and I/O APIC as registers behind mappings that `Memory` makes: every access goes through the virtual address the code computes, so that it can miss. A redirection entry is read and written half by half. |
| `Pci` | device/pci/mod.rs, config.rs, types.rs | Address port, the machine's configuration spaces, the enumerator's bus and device, and what it reported. |
| `Symbols` | meta/symbols.rs `resolve` | A pure operator over a symbol table, and the reference, the symbol whose extent contains an address. |
| `Boot` | main.rs `init`, device/pit.rs `init`, page_fault_handler | Composes `Memory`, `Apic`, `Pci` and `Symbols` in the order of `init`, up to `kernel_main`'s first sleep, with the PIC, the PIT's output and the interrupt flag. |
| `TextWriter` | vga_text_buffer.rs, the escape codes of logging.rs | The `Writer`'s cursor and escape-code state; a print is written a character per step. Of the framebuffer, what the last call drew. |
| `OutputLocks` | serial.rs, vga_text_buffer.rs `_print`, meta/console.rs, interrupts.rs, the panic handler | The locks of SERIAL1 and WRITER, the interrupt flag, and a stack of frames (main thread, handlers, exceptions), each with the operations left to do. |
| `Shutdown` | device/acpi `init`, meta/system.rs | What ACPI init left, the shutdown's place, ACPI_DATA's lock and `trace`, what the platform got to see. Tables and AML answers are chosen where the code asks for them. |
| `KernelMain` | main.rs `kernel_main` up to the executor | Composes `PitSleep` and `Shutdown`: `acpi::init`, the loop over `pit::sleep`, then `request_shutdown`, with interrupts from the end of `init` on. |

The modules named `MC...` give values to constants that a cfg cannot write; the
modules named `...Proofs` hold the theorems. An operator whose comment begins
with "Mutant" is not part of a model: it is a plausible mistake in the
definition after it, which the properties are known to notice.

`Boot` composes the parts that interact during start-up: `Memory` gives `Apic`
its mappings, the AML's PCI accesses of the ACPI phase leave the address port to
`Pci`. `Memory` and the allocators meet in `init_heap`: the range it maps is the
`HeapStart`, `HeapSize` of the allocators. `TextWriter` and `OutputLocks` share
the `Writer`: one models a call under the lock, the other who holds the lock.
`Keyboard` extends `Executor`.

`FixedSizeBlock` uses the crate `linked_list_allocator`, which is not part of
the repository; it appears by its contract, as the set of addresses it owns.

## 3. Runs

`tlc -workers 2 -config X.cfg M`, with the module and cfg PROJECT.json names.

| run | shows |
|---|---|
| `executor` | Four tasks, a queue of three, so that both `spawn` and a wake can meet a full queue. The CPU never sleeps on work; an unfinished task is queued, polled or armed; only unfinished tasks are polled; a queued wake is served. |
| `keyboard` | A scancode queue of two, a task queue of three, six presses: both queues can fill and drain and fill again. No wake-up is lost, the handler never frees a waker, and the path implements `ScancodeChannel` with delivery of all it accepted. |
| `keyboard_overflow` | A violation: see Findings. |
| `kernel_main` | Two sleeps of up to three ticks, two stray ticks, then a shutdown over registers of four bits, with sleep types and addresses within them and beyond. `sleep` returns after exactly the ticks asked for, and it always returns on a CPU that is halted whenever the timer fires. A shutdown that fails runs `_WAK` once and last, but for the panic on a short `\_S5_` package; no sleep register is written unless `_PTS` came first and did not fail. |
| `pit_sleep_returns` | A violation: see Findings. |
| `fixed_size_block` | A heap of 7 units with classes chosen by size and by alignment, and exhaustion. The global allocator implements `GlobalAlloc`, shares and loses no address and never changes a block's size. |
| `heaps` | A heap of 24 units for the linked list, with layouts that need padding, leave a rest too small for a node, or are aligned beyond a node; for the bump allocator its part from the odd address 17. Both implement `GlobalAlloc`; the list's assertions hold, it shares nothing and loses memory to alignment only; the bump allocator's counter is the number of blocks in use. |
| `boot` | Memory maps of one, two and six frames, the last with a hole; a heap of two pages; regions within a page, across pages and over three pages, two of them in a behaviour; local APIC bases from the MSR and from a MADT override; no I/O APIC, one at a page's start, one elsewhere; redirection tables of two to five and of ten entries; two buses of three slots. No frame is handed out twice, mappings are exact and undone exactly, APIC accesses reach their registers, redirection entries keep what `init` does not set, interrupts come on last, bus 0 is reported completely, panics have a cause in the machine, and `init` ends. |
| `boot_timer` | A violation: see Findings. |
| `boot_fault` | A violation: see Findings. |
| `text_writer` | A frame of four columns and two lines, so that lines wrap and the screen clears within one log line, and characters that start, continue, finish and break off escape codes. Glyphs stay in the frame and on the grid; a log line shows its text in the right colours and nothing of its codes; a line that meets the writer inside a code, or in a colour, is garbled in its target at most; a backspace covers the glyph before it. |
| `output_locks` | Up to three interrupts, exceptions and panics in a behaviour, nested in any order: enough for a handler in a print, an exception in the handler and a panic in that. Only a panic's message can wait for a lock for ever; a handler meets a writer in use in `Console::backspace` only; a panic always reaches the serial port unless an exception halts the CPU first. |

The bounds are of two kinds. Capacities and sizes are the smallest at which full,
empty and one more are different cases. Numbers of events (`MaxPresses`,
`AwakeTicks`, `MaxEvents`, `MaxMaps`) keep the state space finite; they were
chosen so that every action fires, queues fill and frames run out. In `boot`, a
page has 256 units, as many as the low part of the MSR needs for its flag bits,
and register numbers have room for four redirection entries (`RedirBase` 2,
`RegMax` 9) where the code has room for 120 (0x10 and 255); tables on both sides
of that limit are among the inputs. What is proved (section 4) holds
for all their values; what is only model-checked is shown up to them.

Fairness. The CPU executes the main thread (weak fairness of its steps), and a
poll returns. `OutputLocks` assumes the same of the running frame, whichever it
is; its bound on events means that exceptions do not come for ever. `Boot`
assumes that `init` runs on (weak fairness of `Step`: it waits for nothing) and
that the PIT's output oscillates (weak fairness of `PitEdge`); whether an edge
becomes an interrupt is computed from the state. No interrupt is assumed to come,
with one exception: `PitSleep`, and `KernelMain` with it, assume that the PIT, in
square-wave mode, keeps interrupting a CPU that keeps halting (strong fairness of
`HaltTick`). As `boot_timer` shows, this is not what `init` leaves behind today:
`SleepReturnsUndisturbed` says what `sleep` does once the timer's vector comes.

Some properties name a case they leave out, and the code does meet it.
`LossOnlyByAlignment` allows the alignment gap below a block, which `alloc` drops;
`RegistersReached` is about bases from the MSR; `EntriesKept` allows the loss of
APIC ids beyond four bits; `ReportsBus0` is about bus 0; `BackspaceErases` is
about a backspace behind a glyph; `WritersApart` allows a handler inside
`Console::backspace`; `FailureRunsWake` allows the short package. Each says that
nothing else goes wrong; what does in the case itself is in the models, and in
the remarks below where a reader may not expect it.

### Findings

- `keyboard_overflow`: a task is queued once per wake. Within one poll, each
  round of register, key press and second pop queues the task once more; when
  the task queue is full the handler's `expect("task_queue full")` panics.
- `pit_sleep_returns`: `get_pit_uptime` holds TIMER's spin lock with interrupts
  enabled. A timer interrupt at that moment spins on the lock and `sleep` never
  returns; this is the counterexample TLC prints. There is a second way:
  `while end != get_pit_uptime()` misses `end` when the counter moves by two
  between readings. Both need an interrupt on a CPU that is awake;
  `SleepReturnsUndisturbed` shows that without one every sleep returns.
- `boot_timer`: device/pit.rs:71 says "Halting waits for the timer interrupt",
  but after `init` none comes. The PIC is disabled, every I/O APIC entry has the
  spurious vector, and the local APIC's spurious vector register is written
  without its enable bit (interrupts/apic/local.rs:119). The counterexample is an
  `init` that succeeds and a PIT that oscillates for ever.
- `boot_fault`: the page fault handler prints "Function: {:?}" (interrupts.rs:130),
  but the name is not that of the function that faulted. It resolves the stack
  pointer instead of the instruction pointer, and `resolve` has both of its
  comparisons the wrong way round (meta/symbols.rs:93 and 97): it finds a symbol
  only if it is of size 0 and at the very address.

Remarks, where the code does something a reader may not expect and nothing in
the repository says otherwise:

- 0x900 is subtracted from each local APIC register's address, which undoes the
  MSR's flag bits (interrupts/apic/local.rs:179). A base from a MADT override has
  none of them: accesses land in the page below, and the MSR is written back
  without its enable bit. `RegistersReached` is about bases from the MSR.
- The enumerator does not start again at device 0 on the next bus
  (device/pci/config.rs:132): `ReportsBus0` is what it promises.
- `Console::backspace` holds WRITER with interrupts on, and a handler's
  `force_unlock` lets it print in the middle of one (meta/console.rs:10).
- A backspace at the start of a line subtracts a glyph's width from the border:
  the subtraction overflows and the kernel panics (vga_text_buffer.rs:279).
- Without a framebuffer the `Writer` keeps an empty buffer, and the first print
  would index it. `WriterAssumption` asks for a frame with room for a glyph, so
  `TextWriter` is about kernels that have one.

One disagreement is part of a property and has no run of its own. A `\_S5_`
package that is too short makes the index in `do_shutdown_using_acpi` panic
(meta/system.rs:152 and 155) after `_PTS`, and at line 155 after a write, without
`_WAK`; the comment at meta/system.rs:118 says that "OSPM should run the _WAK
method" when it aborts the transition. `FailureRunsWake` names this panic as the
only one that goes without.

## 4. Proofs

`tlapm M.tla`. The theorems hold for all values of the constants that satisfy
the named assumptions beside their declarations. Those say what the code's types
say (capacities and sizes are positive, addresses are natural numbers, a symbol
has a value, a size and a name) and, in a few places, a fact about the machine,
which is named below where it is used. Every invariant and every action property
of every passing run is a theorem, and so are the refinements; liveness is not.

### `MainProofs`: after init

- The executor. The inductive invariant `IInv` is the properties together with
  three facts: interrupts are off from the check of the queue to the halt, no
  task is current outside a poll, and a future that has registered finds its
  waker armed or its task queued. Without the first, `NoSleepWithWork` is not
  inductive: a handler could run between the test and the halt. Without the
  third, `NoOrphanTask` is not: a poll could end Pending with its waker gone.
- The keyboard. Every keyboard step is an executor step, so the executor's
  theorems carry over; on top, `KIInv` ties the future's position in `poll_next`
  to the executor's place. From it follow `NoLostWakeup`, `WakeNeverFrees` and
  the refinement of `ScancodeChannel`.
- `pit::sleep`. While `sleep` waits, `end` is its first reading plus its
  argument, which gives `SleepIsExact`. A bound on the counter by the time slept
  so far shows that the model's cap on the counter lies above every `end`.
- `kernel_main`. Every step of `KernelMain` is a step or a stutter of `PitSleep`
  and of `Shutdown` (`KernelRunsBoth`), so that the invariants of the two carry
  over to their composition, whatever the interleaving of timer and shutdown.
- The shutdown. The invariant follows ACPI_DATA's lock and the trace: an error
  return leaves the lock free, only the recovery appends `_WAK`, a `_PTS`
  that was accepted stays first, and while no step has failed the trace is the
  `_PTS` and one write per value of the package used, which identifies the panic
  on a short one. ORing SLP_EN into a word gives a word with the
  bit set because SLP_EN is a power of two within the word's width; that is all
  `ShutdownAssumption` says of them.

`Keyboard` and `KernelMain`, and with it `PitSleep` and `Shutdown`, are extended
together, so their names differ: the specifications of the last three are
`KernelSpec`, `SleepSpec` and `PowerSpec`.

### `RegionProofs`, `HeapsProofs`, `BlockProofs`: the allocators

- `align_up` answers the least aligned address not below its argument.
- The bump allocator. Blocks end at or before `next`, and the counter is the
  number of blocks, so a reset happens only on an empty heap.
- The linked list. `LInv` says that free regions and blocks in use are pairwise
  disjoint parts of the heap, each able to hold a node at its start.
  Disjointness alone is not inductive: a block comes back at the size
  `size_align` gives its layout, so that size has to be tied to the block. There
  is a lemma for each move: off the list, the split, into use, onto the list.
  `ListAssumption` asks that of a layout's alignment and a node's, one divides
  the other, as powers of two do: without it a split-off rest need not be
  aligned for a node.
- A kernel built with either (`Heaps`, what the run `heaps` checks): `HInv` is
  the invariant of the allocator chosen, and the properties of the run follow
  from those of the two.
- The fixed-size blocks. `FInv` says that lists, fallback heap and blocks in use
  partition the heap, and that each block is of the class its layout belongs to.
  The four moves (list to use, use to list, fallback to use, use to fallback) are
  lemmas. `list_index` takes the first class that fits; that there is a first one
  is `LeastElement`, from well-founded induction over the naturals.

### `OutputProofs`: who prints when

`OInv` holds for any number of interrupts, exceptions and panics on top of one
another. What a frame has left to do is a chain, in which each operation may
follow the one before it; so its first operation tells where in a print the
frame is, and no induction over the sequence is needed. On top of that: the main
thread inside `without_interrupts` can be reached by exceptions only, a held
lock has an owner inside it or a panic that left it behind, a frame about to take
SERIAL1 finds it free unless something panicked above it, and a handler that has
forced WRITER open finds it free. `OnlyPanicsSpin` needs the last two, and they
need the chains: an exception between `force_unlock` and `lock` prints only
through a port of its own, so it cannot take the lock in between.

### `TextProofs`: what a print shows

For every frame that has room for a glyph (`WriterAssumption`), every font and
every set of characters:

- `GlyphsInFrame`, from `TInv`: the cursor and the glyphs are on the grid, where
  a place is a whole number of steps from the border, and a glyph is drawn only
  after the wrap and the clearing have made room. A backspace stays on the grid
  because `last_width` is 0 or a glyph's width. `TInv` is kept by each operation
  on a display (`carriage_return`, `newline`, `clear`,
  `write_rendered_char`, the cursor's step back), hence by `write_char`, hence by
  every call.
- `BackspaceErases`, from `TInv`: once something is drawn, `last_width` is a
  glyph's width (the last conjunct of `Sound`), so behind a glyph that fits,
  stepping back by it leads to a place where the blank fits too, and nothing
  wraps.
- `LogShowsText`, from `LogInv`. The modelled line has a target, a level and a
  message of one character each, 37 characters with its escape codes, and is
  read by position: `LogLine` shows which character of the 37 is where, `LineStep` how the writer's parser takes
  each of them (a part of a code, the end of one, a glyph of the text, the end of
  the line), and `LogInv` says that after n characters the parser's state, the
  colour and the number of glyphs drawn are those of position n, wherever the
  line wrapped or the screen was cleared in between. It is about lines that
  begin outside an escape code: a print that stops within a code leaves the
  writer in it, and the next line's first characters then belong to that code.
- `LogRecovers`, from `RecoverInv`, is about those lines. `CatchingUp` lists where
  the parser can be in the first six characters, whatever state it began in
  (`CatchStep`): the old code swallows or breaks off the code of the target, and
  the sixth character always ends outside a code. The reset behind the target,
  which ends at the eleventh, is then read as written, and from it on the line is
  where `LineStep` has it. The glyphs drawn before are the `skipped` ones.

`LogShowsText` says where each glyph stands by counting the glyphs up to it. A
filter on what was drawn (`SelectSeq`) would say the same, but what it answers
for every sequence takes induction over data, which the prover does not have.

### `MachineProofs`, `BootProofs`: start-up

`BootInv` is a conjunction of invariants that lean on each other, one per part.
`MachineProofs` has the lemmas about memory, the APICs, PCI and symbols:

- frames (`FrameInv`): what is in use as a heap page or as a page table was
  handed out by `allocate_frame` at a cursor below `next`. That `FramesPrivate`
  follows needs that `nth(n)` and `nth(m)` are different frames for n # m: the
  item of `usable_frames` with n items before it is only one, as the order of
  items is strict and the regions do not overlap (`MemoryAssumption`: the
  bootloader's regions are sorted, disjoint and made of whole pages);
- pages (`PageInv`): the mapped pages are the heap's, those of the mappings in
  use, and the part that the current loop has mapped or not yet unmapped; all of
  them are apart, and below the page allocator's cursor. Hence `map_to` never
  meets a mapped page and unmapping never a missing one, and `MappingsExact`;
- room (`Room`): the cursor of the page allocator is bounded by the calls made.
  It is needed because nothing in the code keeps that cursor out of the heap's
  range: `BootAssumption` says that the requests do not add up to the distance
  between the two (0x1_000_000_000 and 0x4444_4444_0000, 75 TB);
- order (`Stage`): where `init`, `apic::init` in it and the memory operation in
  that can be together, what is masked and enabled by then, and the reason of a
  panic;
- the local APIC (`LocalInv`): its mapping stays in use while it is accessed,
  and the accesses made so far have reached their registers. The mapping starts
  at the MSR's value with the flag bits in it, so the address of an access lies
  in the first or the second page of the mapping, with 0x900 subtracted
  (`AccessReaches`);
- the I/O APIC (`IoInv`): each half of an entry is the firmware's or the new
  one, and the entries below the loop's index have been rewritten;
- PCI (`Reported`): what has been reported are the devices below the cursor, in
  order; the address port needs no invariant, since every read writes it first;
- symbols: `resolve` answers a name or none, for every table (`ResolveFacts`),
  which types the fault printed.

From `BootInv` follow the eight safety properties of the run `boot`, for every
memory map, heap, set of requests, redirection table, machine and symbol table.
A page has 256 units of 16 bytes, the code's 4096 bytes, since the local APIC's
offsets and flag bits are constants of the same unit.

Only model-checked: liveness (`WokenTaskIsPolled`, `DeliversAll`,
`SleepReturnsUndisturbed`, `PanicReachesSerial`, `BootEnds`). Each rests on
fairness, and with it on when an action is enabled: out of the prover's reach.

## 5. Not modelled, and why

- Code nothing calls: `SimpleExecutor`; `write_word`, `enable_bus_mastering` and
  `base_address` of PCI devices, which serve a network driver that nothing
  constructs; the local APIC's `stop_timer` and `set_timer_divide`;
  `allocate_frame_from_physical`; `pit::read_count`.
- `gdt::init` and the IDT's entries: straight-line set-up without later change.
- `Backtrace`: it walks saved frame pointers in raw memory and has no state.
- The AML interpreter (crate `aml`), `x86_64`'s page tables, `spin`,
  `crossbeam_queue`, `pc_keyboard`, `linked_list_allocator`: not in the
  repository; they appear by what the kernel relies on. Of the AML's accesses,
  memory and PCI are in `Boot`; port reads and writes are pure I/O.
- Data without control: the PCI class and vendor names, glyph bitmaps, pixel
  formats, the wording of messages.
- UART registers and the PIT's mode command: port I/O without state in the
  kernel.
- Pages the bootloader mapped, and the TLB. `Memory` starts from an empty page
  table; every mapping the code makes is in a range of its own, and is flushed.
- The launcher and the build scripts, which run on the host.

## 6. Plan

The network driver and `SimpleExecutor`, once something uses them.
