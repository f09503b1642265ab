-------------------------------- MODULE Pci ---------------------------------
(***************************************************************************)
(* kernel/src/device/pci: configuration space read through the address and *)
(* the data port, and the enumeration of devices in pci::init; and the AML *)
(* handler's own way to that space in device/acpi/mod.rs.                  *)
(*                                                                         *)
(* The ports and the devices are external.  A device's configuration space *)
(* is a function from the registers, multiples of four, to pairs of words  *)
(* <<low, high>>.                                                          *)
(***************************************************************************)
EXTENDS Naturals, Sequences

CONSTANTS
    ConfigSpaces,       \* the machine is one of these functions from present
                        \* [bus, device] to configuration spaces
    Buses, Slots        \* 256 buses of 32 devices

(* A device that is present has an identity and a class. *)
ASSUME PciAssumption ==
    /\ Buses \in Nat /\ Buses > 0 /\ Slots \in Nat
    /\ \A m \in ConfigSpaces : \A a \in DOMAIN m :
        /\ {0, 8} \subseteq DOMAIN m[a]
        /\ \A reg \in {0, 8} : m[a][reg] \in Nat \X Nat
        /\ m[a][0][1] # 65535

VARIABLES
    machine,            \* the devices that are present
    config_address,     \* the address port, <<>> before the first write
    bus, device,        \* DeviceEnumerator
    found               \* what pci::init reports

pci_vars == <<machine, config_address, bus, device, found>>

INVALID == 65535        \* PciVendorId::INVALID: nobody answers, all ones

PciInit ==
    /\ machine = <<>>
    /\ config_address = <<>>
    /\ bus = 0 /\ device = 0
    /\ found = <<>>

(* PciAddress::create_local_bus_address, for function 0. *)
create_local_bus_address(addr, offset, enabled) ==
    [addr |-> addr, register |-> offset - (offset % 4), enabled |-> enabled]

(* The data port, when the address port holds address. *)
ConfigData(address) ==
    IF address.enabled /\ address.addr \in DOMAIN machine
    THEN machine[address.addr][address.register]
    ELSE <<INVALID, INVALID>>

(* Mutant: the data port is read at the address left by another access. *)
read_stale(addr, offset) ==
    ConfigData(IF config_address = <<>>
               THEN create_local_bus_address(addr, offset, TRUE) ELSE config_address[1])

(* The address is written and the data read under the lock of the ports. *)
read_dword(addr, offset) == ConfigData(create_local_bus_address(addr, offset, TRUE))

(* read_dword's high half when bit 1 of the offset is set. *)
read_word(addr, offset) == read_dword(addr, offset)[IF offset % 4 < 2 THEN 1 ELSE 2]

vendor_id(addr) == read_word(addr, 0)

device_id(addr) == read_word(addr, 2)

subclass(addr) == read_word(addr, 10) % 256

class_code(addr) == read_word(addr, 10) \div 256

(* The loop's body in pci::init for one device. *)
Report(addr) ==
    [addr |-> addr, vendor |-> vendor_id(addr), device |-> device_id(addr),
     class |-> class_code(addr), subclass |-> subclass(addr)]

(* Mutant: a device that answers is asked again. *)
EnumerateAgain ==
    LET at == [bus |-> bus, device |-> device] IN
        /\ bus < Buses /\ device < Slots
        /\ device' = IF vendor_id(at) = INVALID THEN device + 1 ELSE device
        /\ config_address' = <<create_local_bus_address(at, 0, TRUE)>>
        /\ UNCHANGED <<machine, bus, found>>

(* DeviceEnumerator::next, a round of its inner loop.  The address port is *)
(* left at the last register read.                                         *)
Enumerate ==
    LET at == [bus |-> bus, device |-> device]
        present == vendor_id(at) # INVALID
    IN  /\ bus < Buses /\ device < Slots
        /\ device' = device + 1
        /\ found' = IF present THEN Append(found, Report(at)) ELSE found
        /\ config_address' =
               <<create_local_bus_address(at, IF present THEN 10 ELSE 0, TRUE)>>
        /\ UNCHANGED <<machine, bus>>

(* A round of its outer loop, which does not set device back. *)
NextBus ==
    /\ bus < Buses /\ device >= Slots
    /\ bus' = bus + 1
    /\ UNCHANGED <<machine, config_address, device, found>>

(* aml_read_pci: it writes the address port, not taking the ports' lock,   *)
(* and reads that same port back.  aml_write_pci does nothing.             *)
AmlReadPci(addr, offset) ==
    /\ config_address' = <<create_local_bus_address(addr, offset, TRUE)>>
    /\ UNCHANGED <<machine, bus, device, found>>

-----------------------------------------------------------------------------

(* The devices of bus 0 that are present. *)
OnBus0 == {a \in [bus : {0}, device : 0 .. (Slots - 1)] : a \in DOMAIN machine}

(* What a device says of itself. *)
Identity(a) ==
    LET space == machine[a] IN
    [addr |-> a, vendor |-> space[0][1], device |-> space[0][2],
     class |-> space[8][2] \div 256, subclass |-> space[8][2] % 256]

(* pci::init reports the devices of bus 0, each once, in order, with its   *)
(* own identity and class: whatever earlier accesses, AML's among them,    *)
(* left in the address port; none is passed over while it runs, and all of *)
(* them are reported when the enumeration is over.                         *)
ReportsBus0 ==
    /\ \A k \in DOMAIN found :
        /\ found[k].addr \in OnBus0 /\ found[k] = Identity(found[k].addr)
        /\ \A l \in DOMAIN found : k < l => found[k].addr.device < found[l].addr.device
        /\ \A a \in OnBus0 : a.device < found[k].addr.device =>
            \E l \in DOMAIN found : found[l].addr = a
    /\ bus = Buses => \A a \in OnBus0 : \E k \in DOMAIN found : found[k].addr = a
=============================================================================
