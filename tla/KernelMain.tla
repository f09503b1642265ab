----------------------------- MODULE KernelMain -----------------------------
(***************************************************************************)
(* kernel_main of main.rs up to the executor: init, of which acpi::init    *)
(* matters here, then the countdown of sleeps, then request_shutdown.  The *)
(* composition of PitSleep and Shutdown.  Interrupts come from the end of  *)
(* init until the machine is off: the shutdown is interrupted by the timer *)
(* too, and so is the loop of hlt that a panic ends in.                    *)
(***************************************************************************)
EXTENDS PitSleep, Shutdown

kernel_vars == <<sleep_vars, power_vars>>

KernelInit == SleepInit /\ PowerInit

Initialize == AcpiInit /\ UNCHANGED sleep_vars

(* The loop over pit::sleep. *)
CountDown == stage = "running" /\ MainStep /\ UNCHANGED power_vars

(* System::request_shutdown, once the last sleep has returned. *)
PowerDown ==
    /\ MainRuns /\ place = "call" /\ calls = NumSleeps
    /\ ShutdownStep
    /\ UNCHANGED sleep_vars

(* A panic of acpi::init comes before they are enabled. *)
InterruptsOn ==
    /\ stage \notin {"boot", "off"} /\ (stage = "panic" => calls = NumSleeps)
    /\ UNCHANGED power_vars

HaltInterrupt == HaltTick /\ InterruptsOn

Interrupt == (AwakeTick \/ Spin \/ OtherWake) /\ InterruptsOn

Platform == PowerOff /\ UNCHANGED sleep_vars

(* Off, halted by the panic handler, or gone on to the executor. *)
MainEnded == Ended /\ UNCHANGED sleep_vars

KernelNext ==
    Initialize \/ CountDown \/ PowerDown \/ HaltInterrupt \/ Interrupt \/ Platform \/ MainEnded

(* PitSleep's fairness: the CPU runs the main thread unless a handler      *)
(* runs, and the PIT keeps interrupting a CPU that keeps halting.          *)
KernelSpec ==
    /\ KernelInit /\ [][KernelNext]_kernel_vars
    /\ WF_kernel_vars(CountDown) /\ SF_kernel_vars(HaltInterrupt)
=============================================================================
