------------------------------ MODULE Shutdown ------------------------------
(***************************************************************************)
(* Powering the machine off: device::acpi::init, which finds the tables,   *)
(* and meta/system.rs, which asks the platform to sleep and, when that     *)
(* fails, tells it so.                                                     *)
(*                                                                         *)
(* The ACPI tables and the AML interpreter are external: what they hold or *)
(* answer is chosen where the code asks.  `trace` is what the platform got *)
(* to see: _PTS and _WAK calls and writes to sleep control ports.          *)
(***************************************************************************)
EXTENDS Integers, Sequences

CONSTANTS
    WordMax,        \* u16::MAX
    SlpEn,          \* ACPI_SLP_EN, a power of two within a word
    Values,         \* integers a \_S5 package may hold
    Addresses       \* addresses of PM1 control blocks

ASSUME ShutdownAssumption ==
    /\ WordMax \in Nat /\ SlpEn \in Nat /\ SlpEn > 0 /\ (WordMax + 1) % (2 * SlpEn) = 0
    /\ Values \subseteq Nat /\ Addresses \subseteq Nat

VARIABLES
    aml, fadt,      \* ACPI_DATA's fields, "some" or "none"
    acpi_lock,      \* ACPI_DATA's lock, "free" or "held"
    s5,             \* the package under \_S5_ once it is found
    trace,          \* what the platform saw
    stage,          \* where the boot processor is
    error           \* "yes" once a step of the shutdown has returned Err

power_vars == <<aml, fadt, acpi_lock, s5, trace, stage, error>>

PowerInit ==
    /\ aml = "none" /\ fadt = "none"
    /\ acpi_lock = "free"
    /\ s5 = <<>>
    /\ trace = <<>>
    /\ stage = "boot"
    /\ error = "no"

-----------------------------------------------------------------------------

(* acpi::init: no usable RSDP or tables; tables whose AML cannot be        *)
(* loaded, which panics with the lock held; or tables and AML.             *)
AcpiInit ==
    /\ stage = "boot"
    /\ \/ /\ stage' = "running"
          /\ UNCHANGED <<aml, fadt, acpi_lock>>
       \/ /\ fadt' \in {"none", "some"}
          /\ stage' = "panic"
          /\ acpi_lock' = "held"
          /\ UNCHANGED aml
       \/ /\ fadt' \in {"none", "some"}
          /\ aml' = "some"
          /\ stage' = "running"
          /\ UNCHANGED acpi_lock
    /\ UNCHANGED <<s5, trace, error>>

Brands == {"TCG", "QEMU", "VMware", "VBox", "other"}

detect_hypervisor(brand) ==
    CASE brand = "TCG" -> "QemuOld"
      [] brand = "QEMU" -> "QemuNew"
      [] brand \in {"VMware", "VBox"} -> "VMWare"
      [] OTHER -> "None"

(* System::request_shutdown.  Of the hypervisors with a port of their own, *)
(* detect_hypervisor names only QemuOld; whether it powers off is its      *)
(* affair, and kernel_main goes on if not.                                 *)
RequestShutdown(brand) ==
    /\ stage = "running"
    /\ IF detect_hypervisor(brand) \in {"Bochs", "QemuOld", "VirtualBox"}
       THEN stage' \in {"off", "returned"}
       ELSE stage' = "before"
    /\ UNCHANGED <<aml, fadt, acpi_lock, s5, trace, error>>

(* Mutant: the guard outlives the function. *)
FailsLocked ==
    /\ error' = "yes"
    /\ stage' = "recover"
    /\ acpi_lock' = "held"

(* A step returns Err: its guard is dropped and the caller recovers. *)
Fails ==
    /\ error' = "yes"
    /\ stage' = "recover"
    /\ acpi_lock' = "free"

(* Mutant: any answer of _PTS will do. *)
never_fails(answer) == FALSE

(* _PTS's answers: it ran; it does not exist; something it names does not  *)
(* exist; it failed.  Only the first two let the shutdown go on.           *)
pts_fails(answer) == answer \in {"inner_missing", "failed"}

(* before_acpi_shutdown *)
BeforeAcpiShutdown ==
    /\ stage = "before"
    /\ \/ /\ aml = "none"
          /\ stage' = "sleep"
          /\ UNCHANGED <<trace, acpi_lock, error>>
       \/ /\ aml = "some"
          /\ \E answer \in {"ran", "missing", "inner_missing", "failed"} :
                /\ trace' = Append(trace, [event |-> "_PTS", answer |-> answer])
                /\ IF pts_fails(answer) THEN Fails
                   ELSE stage' = "sleep" /\ UNCHANGED <<acpi_lock, error>>
    /\ UNCHANGED <<aml, fadt, s5>>

NotInteger == -1

(* Packages that \_S5_ may hold: integers, and values that are not. *)
Packages == UNION {[1 .. n -> Values \cup {NotInteger}] : n \in 0 .. 2}

Blocks == [space : {"SystemIo", "SystemMemory"}, address : Addresses]

is_word(value) == value # NotInteger /\ value <= WordMax

CanSleep(value, block) ==
    /\ is_word(value)
    /\ block.space = "SystemIo"
    /\ block.address <= WordMax

(* ACPI_SLP_EN | v *)
with_slp_en(v) == IF (v \div SlpEn) % 2 = 1 THEN v ELSE v + SlpEn

(* perform_acpi_sleep's write. *)
WriteSleep(value, block) ==
    trace' = Append(trace, [event |-> "write", port |-> block.address,
                            value |-> with_slp_en(value)])

(* do_shutdown_using_acpi up to the sleep of PM1a: it fails without AML or *)
(* FADT, and may fail to find \_S5_, a package in it, or PM1a's block.     *)
Lookup ==
    /\ stage = "sleep"
    /\ \/ Fails /\ UNCHANGED s5
       \/ /\ aml = "some" /\ fadt = "some"
          /\ s5' \in Packages
          /\ acpi_lock' = "held"
          /\ stage' = "pm1a"
          /\ UNCHANGED error
    /\ UNCHANGED <<aml, fadt, trace>>

(* perform_acpi_sleep(&s5_pkg[n - 1], block): indexing past the package    *)
(* panics, with the lock held.                                             *)
PerformAcpiSleep(n, then) ==
    \/ /\ n \in DOMAIN s5
       /\ \E block \in Blocks :
            \/ /\ CanSleep(s5[n], block)
               /\ WriteSleep(s5[n], block)
               /\ stage' = then
               /\ acpi_lock' = IF then = "slept" THEN "free" ELSE acpi_lock
               /\ UNCHANGED error
            \/ ~CanSleep(s5[n], block) /\ Fails /\ UNCHANGED trace
    \/ /\ n \notin DOMAIN s5
       /\ stage' = "panic"
       /\ UNCHANGED <<trace, acpi_lock, error>>

SleepPm1a ==
    /\ stage = "pm1a"
    /\ PerformAcpiSleep(1, "pm1b")
    /\ UNCHANGED <<aml, fadt, s5>>

(* PM1b's block may be invalid, absent or there. *)
SleepPm1b ==
    /\ stage = "pm1b"
    /\ \/ Fails /\ UNCHANGED trace
       \/ stage' = "slept" /\ acpi_lock' = "free" /\ UNCHANGED <<trace, error>>
       \/ PerformAcpiSleep(2, "slept")
    /\ UNCHANGED <<aml, fadt, s5>>

(* The platform acts on the writes it got. *)
PowerOff ==
    /\ \E k \in DOMAIN trace : trace[k].event = "write"
    /\ stage \in {"pm1b", "slept", "recover"}
    /\ stage' = "off"
    /\ UNCHANGED <<aml, fadt, acpi_lock, s5, trace, error>>

(* "We failed to sleep since you can see this": shutdown_using_acpi        *)
(* answers Ok and kernel_main goes on.                                     *)
StillRunning ==
    /\ stage = "slept"
    /\ stage' = "returned"
    /\ UNCHANGED <<aml, fadt, acpi_lock, s5, trace, error>>

(* recover_acpi_shutdown, and the panic of request_shutdown's expect. *)
Recover ==
    /\ stage = "recover"
    /\ trace' = IF acpi_lock = "free" /\ aml = "some"
                THEN Append(trace, [event |-> "_WAK"]) ELSE trace
    /\ stage' = "panic"
    /\ UNCHANGED <<aml, fadt, acpi_lock, s5, error>>

Ended == stage \in {"off", "returned", "panic"} /\ UNCHANGED power_vars

(* request_shutdown and what it calls, on the main thread. *)
ShutdownStep ==
    \/ \E brand \in Brands : RequestShutdown(brand)
    \/ BeforeAcpiShutdown
    \/ Lookup
    \/ SleepPm1a
    \/ SleepPm1b
    \/ StillRunning
    \/ Recover

PowerNext == AcpiInit \/ ShutdownStep \/ PowerOff \/ Ended

PowerSpec == PowerInit /\ [][PowerNext]_power_vars

-----------------------------------------------------------------------------

(* Every value written fits the 16-bit register and has SLP_EN set. *)
PowerTypeOK ==
    /\ aml \in {"none", "some"} /\ fadt \in {"none", "some"}
    /\ acpi_lock \in {"free", "held"} /\ error \in {"yes", "no"}
    /\ s5 \in Packages
    /\ \A k \in DOMAIN trace : trace[k].event = "write" =>
        /\ trace[k].port \in 0 .. WordMax
        /\ trace[k].value \in SlpEn .. WordMax
    /\ stage \in {"boot", "running", "before", "sleep", "pm1a", "pm1b", "slept",
               "recover", "off", "returned", "panic"}

(* All values of the \_S5_ package were written and one more was needed. *)
PackageTooShort == Len(trace) = Len(s5) + 1

(* A shutdown that fails, even after PM1a was written, has told the        *)
(* platform by _WAK before the kernel panics, once, and nothing came after *)
(* it: recover_acpi_shutdown finds the lock free every time.  The one      *)
(* panic without _WAK is that of the index past a short \_S5_ package.     *)
FailureRunsWake ==
    (stage = "panic" /\ aml = "some") =>
        \/ error = "no" /\ PackageTooShort
        \/ \E k \in DOMAIN trace :
               /\ trace[k].event = "_WAK"
               /\ k = Len(trace)
               /\ \A l \in DOMAIN trace : trace[l].event = "_WAK" => l = k

(* No sleep control port is written unless _PTS came first and did not     *)
(* fail, and what is written fits the 16-bit register with SLP_EN set      *)
(* (TypeOK), whatever bytes the _S5 package holds.                         *)
SleepOnlyPrepared ==
    /\ PowerTypeOK
    /\ \A k \in DOMAIN trace : trace[k].event = "write" =>
           /\ trace[1].event = "_PTS"
           /\ trace[1].answer \in {"ran", "missing"}
=============================================================================
