------------------------------- MODULE PciBus -------------------------------
(***************************************************************************)
(* PCI configuration space and its two readers: the accesses of            *)
(* src/kernel/scsi.c and src/kernel/hwinfo.c, and scan_pci_bus of hwinfo.c,*)
(* which lists what is on the first buses.  The devices are external.      *)
(* A dword is a tuple of four bytes, low byte first.                       *)
(***************************************************************************)
EXTENDS Integers, Sequences, FiniteSets

CONSTANTS Configurations,     \* what may be plugged in: functions from <<bus, slot>>
          Buses, SlotsPerBus, FunctionsPerSlot,   \* 256, 32, 8
          ListedBuses         \* 8: scan_pci_bus stops there

\* What a function tells of itself.
PciByte == 0 .. 255
PciFunction == [vendor : PciByte \X PciByte, device : PciByte \X PciByte,
                class : PciByte, subclass : PciByte,
                bar0 : PciByte \X PciByte \X PciByte \X PciByte, irq : PciByte]

\* What is read where no function answers, and the vendors the kernel takes for that.
NoFunction == [vendor |-> <<255, 255>>, device |-> <<255, 255>>, class |-> 255,
               subclass |-> 255, bar0 |-> <<255, 255, 255, 255>>, irq |-> 255]
Nobody(vendor_id) == vendor_id \in {<<255, 255>>, <<0, 0>>}

ASSUME PciAssumption ==
    /\ Buses \in 1 .. 256 /\ SlotsPerBus \in 1 .. 32 /\ FunctionsPerSlot \in 1 .. 8
    /\ ListedBuses \in 1 .. Buses
    /\ \A config \in Configurations : \A p \in DOMAIN config :
         /\ config[p].functions \in Seq(PciFunction) /\ config[p].alias \in BOOLEAN
         /\ \A n \in DOMAIN config[p].functions :
              config[p].functions[n] = NoFunction \/ ~Nobody(config[p].functions[n].vendor)

VARIABLES pci,        \* occupied slot -> [functions, alias]; a function or NoFunction
          place,      \* the function scan_pci_bus looks at, counted from 0
          listing     \* the lines it printed

(***************************************************************************)
(* Devices.  A device with alias set does not look at the function number  *)
(* and answers for each as for its only one.                               *)
(***************************************************************************)
FunctionAt(bus, slot, func) ==
    IF <<bus, slot>> \notin DOMAIN pci THEN NoFunction
    ELSE LET d == pci[<<bus, slot>>]
             n == IF d.alias THEN 1 ELSE func + 1
         IN  IF n \in DOMAIN d.functions THEN d.functions[n] ELSE NoFunction

\* What the data port shows for an address put into the address port.
Config(address) ==
    LET f == FunctionAt(address \div 65536, (address \div 2048) % 32, (address \div 256) % 8)
        register == address % 256
    IN  CASE register = 0  -> f.vendor \o f.device
          [] register = 8  -> <<0, 0, f.subclass, f.class>>
          [] register = 16 -> f.bar0
          [] register = 60 -> <<f.irq, 0, 0, 0>>

(***************************************************************************)
(* The accesses.  Bit 31 of the address is always set and left out.        *)
(***************************************************************************)
Address(bus, slot, func, offset) ==
    bus * 65536 + slot * 2048 + func * 256 + (offset - (offset % 4))

pci_read_config_dword(bus, slot, func, offset) == Config(Address(bus, slot, func, offset))

pci_read_config_word(bus, slot, func, offset) ==
    LET first == 1 + (offset % 4) - (offset % 2) IN
    SubSeq(pci_read_config_dword(bus, slot, func, offset), first, first + 1)

pci_read_config_byte(bus, slot, func, offset) ==
    pci_read_config_dword(bus, slot, func, offset)[1 + (offset % 4)]

\* hwinfo.c has its own.
pci_read_config(bus, slot, func, offset) == Config(Address(bus, slot, func, offset))

(***************************************************************************)
(* scan_pci_bus                                                            *)
(***************************************************************************)
Places == ListedBuses * SlotsPerBus * FunctionsPerSlot
BusOf(n) == n \div (SlotsPerBus * FunctionsPerSlot)
SlotOf(n) == (n \div FunctionsPerSlot) % SlotsPerBus
FunctionOf(n) == n % FunctionsPerSlot

\* The line for the function at n, or none: class and subclass decide its wording.
LineFor(n) ==
    LET Read(offset) == pci_read_config(BusOf(n), SlotOf(n), FunctionOf(n), offset) IN
    IF Nobody(SubSeq(Read(0), 1, 2)) THEN <<>>
    ELSE <<[bus |-> BusOf(n), slot |-> SlotOf(n), func |-> FunctionOf(n),
            class |-> Read(8)[4], subclass |-> Read(8)[3]]>>

\* Mutant of ListFunction: a function that is missing ends its slot.
ListFunctionToHole ==
    /\ place < Places
    /\ listing' = listing \o LineFor(place)
    /\ place' = IF LineFor(place) = <<>>
                THEN (place \div FunctionsPerSlot + 1) * FunctionsPerSlot ELSE place + 1

ListFunction ==
    /\ place < Places
    /\ listing' = listing \o LineFor(place)
    /\ place' = place + 1

PciInit ==
    /\ pci \in Configurations
    /\ place = 0 /\ listing = <<>>
=============================================================================
